---------------------------- MODULE MCWifiDriver ----------------------------
(* Instances of WifiDriver for TLC. *)
EXTENDS WifiDriver

CONSTANTS t1, t2

MCBase ==
    [smp |-> TRUE, queue |-> 4, bufs |-> 2, num |-> 256, wait |-> {TRUE},
     calls |-> [t \in Task |-> 0],
     id |-> [t \in Task |-> IF t = t1 THEN "scan" ELSE "connect"],
     timeouts |-> 0, refused |-> 0, packets |-> 0, frames |-> 0]
MCBoth == [t \in Task |-> 1]

\* One task with commands it waits for or not, beside events; two tasks on two cores; two
\* tasks with the same command on one core; a timeout; packets beside a refused write; a
\* list that is longer than its count says; packets and frames in a short queue; and a
\* command and a packet in the shortest one.
MCBound ==
    {[MCBase EXCEPT !.calls[t1] = 2, !.wait = BOOLEAN, !.frames = 1],
     [MCBase EXCEPT !.calls = MCBoth],
     [MCBase EXCEPT !.calls = MCBoth, !.smp = FALSE, !.id[t2] = "scan"],
     [MCBase EXCEPT !.calls[t1] = 2, !.timeouts = 1],
     [MCBase EXCEPT !.packets = 3, !.refused = 1],
     [MCBase EXCEPT !.packets = 3, !.refused = 1, !.num = 2],
     [MCBase EXCEPT !.packets = 2, !.frames = 1, !.queue = 2],
     [MCBase EXCEPT !.packets = 1, !.frames = 1, !.queue = 1],
     [MCBase EXCEPT !.calls[t1] = 1, !.packets = 1, !.queue = 1, !.bufs = 1]}
=============================================================================
