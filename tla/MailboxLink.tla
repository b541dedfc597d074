---------------------------- MODULE MailboxLink ----------------------------
(***************************************************************************)
(* The refinement mapping from MailboxChannel to ChannelLink.              *)
(***************************************************************************)
EXTENDS MailboxInv

\* the command under way, with its acknowledgement (one of them: OneToken)
UnderWay(n) ==
    IF Travelling(n) = {}
    THEN [st |-> "free", chan |-> 0, id |-> 0]
    ELSE LET m == CHOOSE m \in Travelling(n) : TRUE
         IN  [st |-> IF m.kind = "cmd" THEN "sent"
                     ELSE IF m.fail THEN "turned_down" ELSE "handled",
              chan |-> m.chan, id |-> m.id]

pendBar == [n \in Node |-> [c \in Chan |->
               IF c \in tx_busy[n] THEN tx_buff[n][c] ELSE 0]]
wireBar == [n \in Node |-> UnderWay(n)]

Link == INSTANCE ChannelLink WITH pend <- pendBar, wire <- wireBar, count <- written

\* The drivers, their callbacks and the FIFOs together behave as two stop-and-wait
\* wires: no command is lost, repeated, reordered within its channel or completed
\* before the peer has dealt with it.
RefinesLink == Link!LinkSafety

\* Moreover the wires never stop while the mailbox interrupts are served.
RefinesFairLink == Link!LinkSpec
=============================================================================
