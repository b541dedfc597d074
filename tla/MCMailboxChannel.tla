------------------------- MODULE MCMailboxChannel -------------------------
(* Instances of MailboxChannel and MailboxLink for TLC. *)
EXTENDS MailboxLink

\* FIFO depths of the SMP build: mbox0_drv.c, lines 10-12
MCFifoLen == [n \in Node |-> IF n = "AP" THEN 3 ELSE 2]
\* interrupts of the other core that fit beside a command and an acknowledgement
MCMaxIpi == [n \in Node |-> IF n = "AP" THEN 1 ELSE 0]
MCManyIpi == [n \in Node |-> IF n = "AP" THEN 3 ELSE 0]
MCNoIpi == [n \in Node |-> 0]
MCTwoEach == [n \in Node |-> 2]
MCTwoOne == [n \in Node |-> IF n = "AP" THEN 2 ELSE 1]
MCThreeOne == [n \in Node |-> IF n = "AP" THEN 3 ELSE 1]
MCThreeTwo == [n \in Node |-> IF n = "AP" THEN 3 ELSE 2]
MCAllOpen == [n \in Node |-> Chan]
=============================================================================
