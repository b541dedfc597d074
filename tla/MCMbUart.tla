------------------------------ MODULE MCMbUart ------------------------------
(* Instances of MbUart for TLC. *)
EXTENDS MbUart

MCOneWay(ap, cp) ==
    [smp |-> FALSE, shared |-> FALSE, log |-> FALSE, open |-> TRUE, races |-> 1,
     bytes |-> [n \in Node |-> IF n = "AP" THEN ap ELSE cp], write |-> {2, 3}, read |-> {6}]
MCBothWays == [MCOneWay(3, 3) EXCEPT !.write = {3}]
MCLog(bytes, write) ==
    [MCOneWay(bytes, 0) EXCEPT !.log = TRUE, !.write = write]

\* A stream that fills both rings and wraps around them; the first packets, while the peer
\* has not opened its end; streams in both directions, beside other channels; the same
\* with the AP's tasks on another core than its interrupt handler; and the log output.
MCBound ==
    {[MCOneWay(8, 0) EXCEPT !.read = {1}],
     [MCOneWay(3, 0) EXCEPT !.open = FALSE, !.write = {3}],
     [MCBothWays EXCEPT !.shared = TRUE],
     [MCBothWays EXCEPT !.smp = TRUE],
     [MCOneWay(0, 5) EXCEPT !.smp = TRUE],
     MCLog(3, {1})}

\* easy_log on the AP, which writes more than its ring holds
MCLogBound == {MCLog(4, {1, 2})}
=============================================================================
