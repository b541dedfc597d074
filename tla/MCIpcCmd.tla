------------------------------ MODULE MCIpcCmd ------------------------------
(* Instances of IpcCmd for TLC: two tasks, two commands. *)
EXTENDS IpcCmd

MCTask == {"t1", "t2"}
MCCmd == {"c1", "c2"}
=============================================================================
