---------------------------- MODULE MCFlashClient ----------------------------
(* Instances of FlashClient for TLC. *)
EXTENDS FlashClient

MCClient == {16, 17}
MCOp == {"READ", "ERASE"}
MCUserCmd == {"READ", "ERASE", "READ_DONE"}
\* one caller on one core with a timeout and a close; one caller on two cores; two callers
\* on one core
MCBound ==
    {[smp |-> FALSE, callers |-> {16}, cmds |-> MCOp, ops |-> 2, timeouts |-> 1, closes |-> 1],
     [smp |-> TRUE, callers |-> {16}, cmds |-> MCOp, ops |-> 2, timeouts |-> 0, closes |-> 0],
     [smp |-> FALSE, callers |-> {16, 17}, cmds |-> {"ERASE"}, ops |-> 2, timeouts |-> 0,
      closes |-> 0]}
=============================================================================
