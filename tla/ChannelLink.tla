---------------------------- MODULE ChannelLink ----------------------------
(***************************************************************************)
(* What the mailbox channels promise the drivers that use them, without    *)
(* boxes, FIFOs, sequence numbers and interrupt handlers: every direction  *)
(* is a wire that carries one command at a time.  A written command waits  *)
(* in its channel until the wire is free, the most urgent channel goes     *)
(* first, the peer handles the command once or turns it down, and only     *)
(* then is its completion reported.                                        *)
(***************************************************************************)
EXTENDS Integers

CONSTANTS Node, Chan

VARIABLES
    pend,    \* command waiting in a channel, 0 when there is none
    wire,    \* command under way
    count,   \* commands written
    rcvd,    \* last command handled, per receiving node and channel
    done     \* last command reported as completed

linkVars == <<pend, wire, count, rcvd, done>>

Free == [st |-> "free", chan |-> 0, id |-> 0]
Carries(c, i) == [st |-> "sent", chan |-> c, id |-> i]
Other(n) == CHOOSE m \in Node : m /= n

LinkInit ==
    /\ pend = [n \in Node |-> [c \in Chan |-> 0]]
    /\ wire = [n \in Node |-> Free]
    /\ count = [n \in Node |-> 0]
    /\ rcvd = [n \in Node |-> [c \in Chan |-> 0]]
    /\ done = [n \in Node |-> [c \in Chan |-> 0]]

\* an application writes; on an idle link the command leaves at once
Write(n, c) ==
    /\ pend[n][c] = 0
    /\ count' = [count EXCEPT ![n] = @ + 1]
    /\ \/ /\ pend' = [pend EXCEPT ![n][c] = count'[n]]
          /\ UNCHANGED wire
       \/ /\ wire[n] = Free
          /\ \A d \in Chan : pend[n][d] = 0
          /\ wire' = [wire EXCEPT ![n] = Carries(c, count'[n])]
          /\ UNCHANGED pend
    /\ UNCHANGED <<rcvd, done>>

Send(n, c) ==
    /\ pend[n][c] /= 0
    /\ wire[n] = Free
    /\ \A d \in Chan : pend[n][d] /= 0 => c <= d
    /\ wire' = [wire EXCEPT ![n] = Carries(c, pend[n][c])]
    /\ pend' = [pend EXCEPT ![n][c] = 0]
    /\ UNCHANGED <<count, rcvd, done>>

Handle(n) ==
    /\ wire[n].st = "sent"
    /\ \/ /\ wire' = [wire EXCEPT ![n].st = "handled"]
          /\ rcvd' = [rcvd EXCEPT ![Other(n)][wire[n].chan] = wire[n].id]
       \/ /\ wire' = [wire EXCEPT ![n].st = "turned_down"]
          /\ UNCHANGED rcvd
    /\ UNCHANGED <<pend, count, done>>

\* the driver is told, unless it has given up its callback
Complete(n) ==
    /\ wire[n].st \in {"handled", "turned_down"}
    /\ wire' = [wire EXCEPT ![n] = Free]
    /\ \/ wire[n].st = "handled" /\ done' = [done EXCEPT ![n][wire[n].chan] = wire[n].id]
       \/ UNCHANGED done
    /\ UNCHANGED <<pend, count, rcvd>>

\* closing a channel forgets the command that waits in it
Discard(n, c) ==
    /\ pend[n][c] /= 0
    /\ pend' = [pend EXCEPT ![n][c] = 0]
    /\ UNCHANGED <<wire, count, rcvd, done>>

LinkNext ==
    \E n \in Node :
        \/ Handle(n)
        \/ Complete(n)
        \/ \E c \in Chan : Write(n, c) \/ Send(n, c) \/ Discard(n, c)

LinkSafety == LinkInit /\ [][LinkNext]_linkVars

\* the link itself never stops, whatever the drivers do
LinkFairness ==
    \A n \in Node :
        /\ WF_linkVars(\E c \in Chan : Send(n, c))
        /\ WF_linkVars(Handle(n))
        /\ WF_linkVars(Complete(n))

LinkSpec == LinkSafety /\ LinkFairness
=============================================================================
