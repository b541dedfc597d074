---------------------------- MODULE MCAmpResLock ----------------------------
(* Instances of AmpResLock for TLC: two tasks on each CPU. *)
EXTENDS AmpResLock

MCTask == {"a1", "a2", "c1", "c2"}
MCCpuOf == [t \in MCTask |-> IF t \in {"a1", "a2"} THEN "AP" ELSE "CP"]
=============================================================================
