--------------------------- MODULE MailboxChannel ---------------------------
(***************************************************************************)
(* The mailbox channel layer between the application cores (AP, logical    *)
(* CPU1) and the communication core (CP, CPU0):                            *)
(*   chips/drivers/mailbox/mailbox_channel.c   logical and physical chnls  *)
(*   chips/drivers/mailbox/mbox0_adapter.c     boxes in shared memory      *)
(*   chips/drivers/mailbox/mbox0_drv.c         hardware FIFO and its ISR   *)
(* Both ends run the same driver.  The image of CP is a binary outside the *)
(* repository; its end is the code of the AP end with the roles swapped.   *)
(*                                                                         *)
(* A message is a header and an identity.  The identity stands for the     *)
(* three parameter words; it is history and no guard reads it.  The        *)
(* synchronous write of the trap handlers, after which a core stops, is    *)
(* left out.                                                               *)
(***************************************************************************)
EXTENDS Integers, Sequences

CONSTANTS
    NChan,      \* logical channels of the physical channel, 0 = highest priority
    SeqMod,     \* tx_seq is counted modulo SeqMod (256, a u8)
    FifoLen,    \* [Node -> Nat]: depth of the receive FIFO (AP 3, CP 2)
    MaxIpi,     \* [Node -> Nat]: inter-processor interrupts unread at a time
    MaxMsg,     \* [Node -> Nat]: commands written by a node
    Opened,     \* [Node -> SUBSET Chan]: channels that the drivers opened at start
    MaxCalls    \* calls of mb_chnl_open, mb_chnl_close and mb_chnl_ctrl

Node == {"AP", "CP"}
Peer(n) == IF n = "AP" THEN "CP" ELSE "AP"
Chan == 0..NChan-1
NoChan == -1            \* phy_chnl_x_cb is zeroed: no valid channel number
Box == 0..1             \* TX_BOX_NUM = 2
IPI == -1               \* a FIFO entry with data[1] = 0
IDLE == 0
BUSY == 1

ASSUME ConstantsOK ==
    /\ NChan \in Nat \ {0}
    /\ SeqMod \in Nat \ {0}
    /\ FifoLen \in [Node -> Nat]
    /\ MaxIpi \in [Node -> Nat]
    /\ MaxMsg \in [Node -> Nat]
    /\ Opened \in [Node -> SUBSET Chan]
    /\ MaxCalls \in Nat

VARIABLES
    phy,         \* phy_chnl_x_cb[peer]: tx_state, tx_seq, tx_log_chnl
    tx_busy,     \* log_chnl_cbX[]: the channels whose tx_state is BUSY,
    tx_buff,     \* chnnl_tx_buff of every channel,
    in_used,     \* the channels in use,
    rx_isr,      \* the channels with an rx_isr and
    tx_cmpl_isr, \* those with a tx_cmpl_isr callback
    late,        \* channels with a writer past the in_used test when closed
    closing,     \* channels between the first and the last store of a close
    tx_box,      \* mailbox_tx_box[dst]
    mbuff,       \* mailbox_buff[dst][box], in memory shared by the cores
    fifo,        \* receive FIFO of the node: boxes of the peer, or IPI
    ipis,        \* inter-processor interrupts in the FIFO
    isr,         \* mbox0_drv_isr_handler and what it calls, per node
    written,     \* history: commands accepted from the node's applications
    rcvd,        \* history: last command given to rx_isr, per channel
    done,        \* history: last command completed without COM_FAIL
    calls        \* calls counted against MaxCalls

users == <<in_used, rx_isr, tx_cmpl_isr, late, closing, calls>>
history == <<written, rcvd, done>>
mbox == <<tx_box, mbuff, fifo, ipis>>
vars == <<phy, tx_busy, tx_buff, users, mbox, isr, history>>

Phy == [tx_state : {IDLE, BUSY}, tx_seq : 0..SeqMod-1, tx_log_chnl : Chan \cup {NoChan}]
Kind == {"cmd", "ack", "reset"}
Msg == [kind : Kind, chan : Chan, seq : 0..SeqMod-1, fail : BOOLEAN, id : Nat]
Handler == [pc : {"idle", "popped", "copied", "tx_ack", "scan"}, box : Box, msg : Msg]

\* mb_phy_chnl_reset: an acknowledgement for channel 0 with tx_seq 0
Reset == [kind |-> "reset", chan |-> 0, seq |-> 0, fail |-> FALSE, id |-> 0]
\* the command buffer is used again for its acknowledgement
Ack(m, f) == [kind |-> "ack", chan |-> m.chan, seq |-> m.seq, fail |-> f, id |-> m.id]

TxType ==
    /\ phy \in [Node -> Phy]
    /\ tx_busy \in [Node -> SUBSET Chan]
    /\ tx_buff \in [Node -> [Chan -> Nat]]
UsersType ==
    /\ in_used \in [Node -> SUBSET Chan]
    /\ rx_isr \in [Node -> SUBSET Chan]
    /\ tx_cmpl_isr \in [Node -> SUBSET Chan]
    /\ late \in [Node -> SUBSET Chan]
    /\ closing \in [Node -> SUBSET Chan]
    /\ calls \in Nat
MboxType ==
    /\ tx_box \in [Node -> Box]
    /\ mbuff \in [Node -> [Box -> Msg]]
    /\ fifo \in [Node -> Seq(Box \cup {IPI})]
    /\ ipis \in [Node -> Int]
HistoryType ==
    /\ written \in [Node -> Nat]
    /\ rcvd \in [Node -> [Chan -> Nat]]
    /\ done \in [Node -> [Chan -> Nat]]
TypeOK == TxType /\ UsersType /\ MboxType /\ isr \in [Node -> Handler] /\ HistoryType

(***************************************************************************)
(* Initial states.  mb_chnl_init has cleared both control blocks, and the  *)
(* drivers in Opened have opened their channels and set the callbacks.     *)
(* The peer has consumed the reset notification in Init; in BootInit it is *)
(* unread in box 1 of the AP.                                              *)
(***************************************************************************)
Idle == [pc |-> "idle", box |-> 0, msg |-> Reset]

InitWith(rx) ==
    /\ phy = [n \in Node |-> [tx_state |-> IDLE, tx_seq |-> 0, tx_log_chnl |-> NoChan]]
    /\ tx_busy = [n \in Node |-> {}]
    /\ tx_buff = [n \in Node |-> [c \in Chan |-> 0]]
    /\ in_used = Opened /\ rx_isr = Opened /\ tx_cmpl_isr = Opened
    /\ late = [n \in Node |-> {}]
    /\ closing = [n \in Node |-> {}]
    /\ tx_box = [n \in Node |-> IF n = "AP" THEN 1 ELSE 0]
    /\ mbuff = [n \in Node |-> [b \in Box |-> Reset]]
    /\ fifo = rx
    /\ ipis = [n \in Node |-> 0]
    /\ isr = [n \in Node |-> Idle]
    /\ written = [n \in Node |-> 0]
    /\ rcvd = [n \in Node |-> [c \in Chan |-> 0]]
    /\ done = [n \in Node |-> [c \in Chan |-> 0]]
    /\ calls = 0

Init == InitWith([n \in Node |-> <<>>])
BootInit == InitWith([n \in Node |-> IF n = "CP" THEN <<1>> ELSE <<>>])

(***************************************************************************)
(* mbox0: bk_mailbox_send refuses when the FIFO of the destination is      *)
(* full, otherwise takes the next box, fills it and pushes its address.    *)
(* The senders of a node exclude each other, but the other core of the AP  *)
(* pushes to the FIFO of the AP without asking: when it takes the last     *)
(* entry after the test, the hardware drops the address.                   *)
(***************************************************************************)
Full(n) == Len(fifo[n]) >= FifoLen[n]

\* mutant: the box is not rotated
bk_mailbox_send_onebox(n, m) ==
    /\ ~Full(Peer(n))
    /\ mbuff' = [mbuff EXCEPT ![n][tx_box[n]] = m]
    /\ fifo' = [fifo EXCEPT ![Peer(n)] = Append(@, tx_box[n])]
    /\ UNCHANGED <<tx_box, ipis>>

bk_mailbox_send(n, m) ==
    LET box == (tx_box[n] + 1) % 2
        p == Peer(n)
    IN /\ ~Full(p)
       /\ tx_box' = [tx_box EXCEPT ![n] = box]
       /\ mbuff' = [mbuff EXCEPT ![n][box] = m]
       /\ \/ /\ fifo' = [fifo EXCEPT ![p] = Append(@, box)]
             /\ UNCHANGED ipis
          \/ /\ Len(fifo[p]) = FifoLen[p] - 1
             /\ ipis[p] < MaxIpi[p]
             /\ fifo' = [fifo EXCEPT ![p] = Append(@, IPI)]
             /\ ipis' = [ipis EXCEPT ![p] = @ + 1]

bk_mailbox_refuse(n) == Full(Peer(n)) /\ UNCHANGED mbox

(***************************************************************************)
(* mb_phy_chnl_tx_cmd for channel c, whose buffer holds id; busy is the    *)
(* set of BUSY channels of n as the caller left it.  tx_seq and            *)
(* tx_log_chnl change before the send, so also when it is refused; then    *)
(* both callers set the physical channel IDLE and the logical channel      *)
(* stays BUSY.  The registered tx_isr callbacks are empty functions.       *)
(***************************************************************************)
\* mutant: a counter wider than the header field
mb_phy_chnl_tx_cmd_wide(n, c, id, busy) ==
    LET seq == phy[n].tx_seq + 1
        m == [kind |-> "cmd", chan |-> c, seq |-> seq, fail |-> FALSE, id |-> id]
    IN /\ bk_mailbox_send(n, m)
       /\ phy' = [phy EXCEPT ![n] = [tx_state |-> BUSY, tx_seq |-> seq, tx_log_chnl |-> c]]
       /\ tx_busy' = [tx_busy EXCEPT ![n] = busy \ {c}]

mb_phy_chnl_tx_cmd(n, c, id, busy) ==
    LET seq == (phy[n].tx_seq + 1) % SeqMod
        m == [kind |-> "cmd", chan |-> c, seq |-> seq, fail |-> FALSE, id |-> id]
    IN \/ /\ bk_mailbox_send(n, m)
          /\ phy' = [phy EXCEPT ![n] = [tx_state |-> BUSY, tx_seq |-> seq, tx_log_chnl |-> c]]
          /\ tx_busy' = [tx_busy EXCEPT ![n] = busy \ {c}]
       \/ /\ bk_mailbox_refuse(n)
          /\ phy' = [phy EXCEPT ![n] = [tx_state |-> IDLE, tx_seq |-> seq, tx_log_chnl |-> c]]
          /\ tx_busy' = [tx_busy EXCEPT ![n] = busy]

\* mutant: the state of the physical channel is not tested
mb_phy_chnl_start_tx_always(n, c, id, busy) == mb_phy_chnl_tx_cmd(n, c, id, busy)

mb_phy_chnl_start_tx(n, c, id, busy) ==
    \/ /\ phy[n].tx_state = IDLE
       /\ mb_phy_chnl_tx_cmd(n, c, id, busy)
    \/ /\ phy[n].tx_state = BUSY
       /\ tx_busy' = [tx_busy EXCEPT ![n] = busy]
       /\ UNCHANGED <<phy, mbox>>

-----------------------------------------------------------------------------
(***************************************************************************)
(* The application interface.  in_used is tested before the critical       *)
(* section; `late' lets a writer that passed the test finish after a close.*)
(* A write to a BUSY channel returns BK_ERR_BUSY and changes nothing.      *)
(***************************************************************************)
Call == calls < MaxCalls /\ calls' = calls + 1

mb_chnl_open(n, c) ==
    /\ c \notin in_used[n]
    /\ Call
    /\ in_used' = [in_used EXCEPT ![n] = @ \cup {c}]
    /\ UNCHANGED <<phy, tx_busy, tx_buff, rx_isr, tx_cmpl_isr, late, closing, mbox, isr, history>>

\* the stores of mb_chnl_close are outside any critical section
mb_chnl_close(n, c) ==
    /\ c \in in_used[n] \ closing[n]
    /\ Call
    /\ in_used' = [in_used EXCEPT ![n] = @ \ {c}]
    /\ closing' = [closing EXCEPT ![n] = @ \cup {c}]
    /\ late' \in {late, [late EXCEPT ![n] = @ \cup {c}]}
    /\ UNCHANGED <<phy, tx_busy, tx_buff, rx_isr, tx_cmpl_isr, mbox, isr, history>>

mb_chnl_close_end(n, c) ==
    /\ c \in closing[n]
    /\ closing' = [closing EXCEPT ![n] = @ \ {c}]
    /\ tx_busy' = [tx_busy EXCEPT ![n] = @ \ {c}]
    /\ rx_isr' = [rx_isr EXCEPT ![n] = @ \ {c}]
    /\ tx_cmpl_isr' = [tx_cmpl_isr EXCEPT ![n] = @ \ {c}]
    /\ UNCHANGED <<phy, tx_buff, in_used, late, calls, mbox, isr, history>>

mb_chnl_write(n, c) ==
    /\ c \in in_used[n] \cup late[n]
    /\ c \notin tx_busy[n]
    /\ written[n] < MaxMsg[n]
    /\ written' = [written EXCEPT ![n] = @ + 1]
    /\ late' = [late EXCEPT ![n] = @ \ {c}]
    /\ tx_buff' = [tx_buff EXCEPT ![n][c] = written[n] + 1]
    /\ mb_phy_chnl_start_tx(n, c, written[n] + 1, tx_busy[n] \cup {c})
    /\ UNCHANGED <<in_used, rx_isr, tx_cmpl_isr, closing, calls, isr, rcvd, done>>

mb_chnl_ctrl_set(n, c) ==
    /\ c \in in_used[n]
    /\ Call
    /\ \/ rx_isr' = [rx_isr EXCEPT ![n] = @ \cup {c}] /\ UNCHANGED tx_cmpl_isr
       \/ tx_cmpl_isr' = [tx_cmpl_isr EXCEPT ![n] = @ \cup {c}] /\ UNCHANGED rx_isr
    /\ UNCHANGED <<phy, tx_busy, tx_buff, in_used, late, closing, mbox, isr, history>>

mb_chnl_ctrl_clear(n, c) ==
    /\ c \in in_used[n]
    /\ Call
    /\ \/ rx_isr' = [rx_isr EXCEPT ![n] = @ \ {c}] /\ UNCHANGED tx_cmpl_isr
       \/ tx_cmpl_isr' = [tx_cmpl_isr EXCEPT ![n] = @ \ {c}] /\ UNCHANGED rx_isr
    /\ UNCHANGED <<phy, tx_busy, tx_buff, in_used, late, closing, mbox, isr, history>>

-----------------------------------------------------------------------------
(***************************************************************************)
(* The mailbox interrupt of a node, from the FIFO to the end of the        *)
(* handler.  Writers on the other core run between any two of its steps.   *)
(***************************************************************************)
\* The other core of the AP raises an interrupt through the same FIFO, without
\* asking whether it is full; the hardware drops what does not fit.
bk_mailbox_master_send(n) ==
    /\ ipis[n] < MaxIpi[n]
    /\ ~Full(n)
    /\ fifo' = [fifo EXCEPT ![n] = Append(@, IPI)]
    /\ ipis' = [ipis EXCEPT ![n] = @ + 1]
    /\ UNCHANGED <<phy, tx_busy, tx_buff, users, tx_box, mbuff, isr, history>>

mbox0_drv_isr_handler(n) ==
    /\ isr[n].pc = "idle"
    /\ fifo[n] /= <<>>
    /\ fifo' = [fifo EXCEPT ![n] = Tail(@)]
    /\ \/ /\ Head(fifo[n]) = IPI
          /\ ipis' = [ipis EXCEPT ![n] = @ - 1]
          /\ UNCHANGED isr
       \/ /\ Head(fifo[n]) /= IPI
          /\ isr' = [isr EXCEPT ![n] = [pc |-> "popped", box |-> Head(fifo[n]), msg |-> Reset]]
          /\ UNCHANGED ipis
    /\ UNCHANGED <<phy, tx_busy, tx_buff, users, tx_box, mbuff, history>>

\* the message is copied through the address only after the entry left the FIFO
mbox0_rx_isr(n) ==
    /\ isr[n].pc = "popped"
    /\ isr' = [isr EXCEPT ![n] = [pc |-> "copied", box |-> 0, msg |-> mbuff[Peer(n)][isr[n].box]]]
    /\ UNCHANGED <<phy, tx_busy, tx_buff, users, mbox, history>>

AckMatches(n, m) == m.chan = phy[n].tx_log_chnl /\ m.seq = phy[n].tx_seq

\* the reset notification carries CHNL_CTRL_ACK_BOX and takes this path too
mb_phy_chnl_rx_ack_isr(n) ==
    LET m == isr[n].msg IN
    /\ isr[n].pc = "copied"
    /\ m.kind \in {"ack", "reset"}
    /\ \/ /\ ~AckMatches(n, m)
          /\ isr' = [isr EXCEPT ![n] = Idle]
          /\ UNCHANGED done
       \/ /\ AckMatches(n, m)
          /\ isr' = [isr EXCEPT ![n] = [pc |-> "scan", box |-> 0, msg |-> Reset]]
          /\ done' = IF m.chan \in tx_cmpl_isr[n] /\ ~m.fail
                     THEN [done EXCEPT ![n][m.chan] = m.id] ELSE done
    /\ UNCHANGED <<phy, tx_busy, tx_buff, users, mbox, written, rcvd>>

\* mutant: the search ends one channel early
mb_phy_chnl_scan_short(n) ==
    LET waiting == {c \in tx_busy[n] : c < NChan - 1} IN
    /\ isr[n].pc = "scan"
    /\ isr' = [isr EXCEPT ![n] = Idle]
    /\ \/ /\ waiting = {}
          /\ phy' = [phy EXCEPT ![n] = [@ EXCEPT !.tx_state = IDLE]]
          /\ UNCHANGED <<tx_busy, mbox>>
       \/ \E c \in waiting :
             /\ \A d \in waiting : c <= d
             /\ mb_phy_chnl_tx_cmd(n, c, tx_buff[n][c], tx_busy[n])
    /\ UNCHANGED <<tx_buff, users, history>>

\* mutant: any channel with data, not the first one
mb_phy_chnl_scan_any(n) ==
    /\ isr[n].pc = "scan"
    /\ isr' = [isr EXCEPT ![n] = Idle]
    /\ \/ /\ tx_busy[n] = {}
          /\ phy' = [phy EXCEPT ![n] = [@ EXCEPT !.tx_state = IDLE]]
          /\ UNCHANGED <<tx_busy, mbox>>
       \/ \E c \in tx_busy[n] : mb_phy_chnl_tx_cmd(n, c, tx_buff[n][c], tx_busy[n])
    /\ UNCHANGED <<tx_buff, users, history>>

\* after the tx_cmpl_isr callback: the first channel with data in its buffer
mb_phy_chnl_scan(n) ==
    /\ isr[n].pc = "scan"
    /\ isr' = [isr EXCEPT ![n] = Idle]
    /\ \/ /\ tx_busy[n] = {}
          /\ phy' = [phy EXCEPT ![n] = [tx_state |-> IDLE, tx_seq |-> phy[n].tx_seq,
                                        tx_log_chnl |-> phy[n].tx_log_chnl]]
          /\ UNCHANGED <<tx_busy, mbox>>
       \/ \E c \in tx_busy[n] :
             /\ \A d \in tx_busy[n] : c <= d
             /\ mb_phy_chnl_tx_cmd(n, c, tx_buff[n][c], tx_busy[n])
    /\ UNCHANGED <<tx_buff, users, history>>

\* mutant: CHNL_STATE_COM_FAIL is forgotten
mb_phy_chnl_rx_cmd_isr_nofail(n) ==
    LET m == isr[n].msg IN
    /\ isr[n].pc = "copied"
    /\ m.kind = "cmd"
    /\ rcvd' = IF m.chan \in rx_isr[n] THEN [rcvd EXCEPT ![n][m.chan] = m.id] ELSE rcvd
    /\ isr' = [isr EXCEPT ![n] = [pc |-> "tx_ack", box |-> 0, msg |-> Ack(m, FALSE)]]
    /\ UNCHANGED <<phy, tx_busy, tx_buff, users, mbox, written, done>>

\* A command without rx_isr is acknowledged with CHNL_STATE_COM_FAIL.
mb_phy_chnl_rx_cmd_isr(n) ==
    LET m == isr[n].msg
        rx == m.chan \in rx_isr[n]
    IN /\ isr[n].pc = "copied"
       /\ m.kind = "cmd"
       /\ rcvd' = IF rx THEN [rcvd EXCEPT ![n][m.chan] = m.id] ELSE rcvd
       /\ isr' = [isr EXCEPT ![n] = [pc |-> "tx_ack", box |-> 0, msg |-> Ack(m, ~rx)]]
       /\ UNCHANGED <<phy, tx_busy, tx_buff, users, mbox, written, done>>

\* a refused acknowledgement is only counted in tx_fault_cnt
mb_phy_chnl_tx_ack(n) ==
    /\ isr[n].pc = "tx_ack"
    /\ bk_mailbox_send(n, isr[n].msg) \/ bk_mailbox_refuse(n)
    /\ isr' = [isr EXCEPT ![n] = Idle]
    /\ UNCHANGED <<phy, tx_busy, tx_buff, users, history>>

-----------------------------------------------------------------------------
Isr(n) ==
    \/ mbox0_drv_isr_handler(n)
    \/ mbox0_rx_isr(n)
    \/ mb_phy_chnl_rx_ack_isr(n)
    \/ mb_phy_chnl_scan(n)
    \/ mb_phy_chnl_rx_cmd_isr(n)
    \/ mb_phy_chnl_tx_ack(n)

App(n, c) ==
    \/ mb_chnl_open(n, c)
    \/ mb_chnl_close(n, c)
    \/ mb_chnl_close_end(n, c)
    \/ mb_chnl_write(n, c)
    \/ mb_chnl_ctrl_set(n, c)
    \/ mb_chnl_ctrl_clear(n, c)

Next == \E n \in Node : Isr(n) \/ bk_mailbox_master_send(n) \/ \E c \in Chan : App(n, c)

Spec == Init /\ [][Next]_vars

\* An interrupt that is pending is served, and its handler runs to the end.
Fairness == \A n \in Node : WF_vars(Isr(n))

FairSpec == Spec /\ Fairness

\* The AP has just initialised the channels; the notification is unread.
BootSpec == BootInit /\ [][Next]_vars /\ Fairness

-----------------------------------------------------------------------------
(***************************************************************************)
(* Properties.  A message of node n is unread in box b from the moment its *)
(* address is pushed until mbox0_rx_isr of the peer has copied the box.    *)
(***************************************************************************)
Has(q, b) == \E i \in DOMAIN q : q[i] = b
Queued(n, b) == Has(fifo[Peer(n)], b)
Popped(n, b) == isr[Peer(n)].pc = "popped" /\ isr[Peer(n)].box = b
Unread(n, b) == Queued(n, b) \/ Popped(n, b)

\* The two boxes of bk_mailbox_send are enough: whatever the order of commands,
\* acknowledgements and interrupts, a send never overwrites a box whose address the
\* peer has yet to read or is about to copy in mbox0_rx_isr.
UnreadIntact == [][\A n \in Node, b \in Box : Unread(n, b) => mbuff'[n][b] = mbuff[n][b]]_vars

\* where the command of the physical channel of n is
CmdUnread(n) == \E b \in Box : Unread(n, b) /\ mbuff[n][b].kind = "cmd"
CmdHeld(n) == \/ isr[Peer(n)].pc = "copied" /\ isr[Peer(n)].msg.kind = "cmd"
              \/ isr[Peer(n)].pc = "tx_ack"
AckUnread(n) == \E b \in Box : Unread(Peer(n), b) /\ mbuff[Peer(n)][b].kind = "ack"
AckHeld(n) == isr[n].pc = "copied" /\ isr[n].msg.kind = "ack"
Scanning(n) == isr[n].pc = "scan"

\* Every acknowledgement that reaches mb_phy_chnl_rx_ack_isr is the one the physical
\* channel waits for: the fault branch of the handler is never taken, although
\* tx_seq wraps around and refused sends advance it.
AcksMatch ==
    \A n \in Node : AckHeld(n) =>
        /\ phy[n].tx_state = BUSY
        /\ AckMatches(n, isr[n].msg)

\* mb_phy_chnl_rx_cmd_isr never gives rx_isr the same command twice, nor a command of a
\* channel after a later one of that channel, and mb_phy_chnl_rx_ack_isr completes a
\* command at most once: also when acknowledgements are refused or lost in a full FIFO.
AtMostOnce ==
    \A n \in Node :
        /\ isr[n].pc = "copied" /\ isr[n].msg.kind = "cmd" =>
              isr[n].msg.id > rcvd[n][isr[n].msg.chan]
        /\ AckHeld(n) => isr[n].msg.id > done[n][isr[n].msg.chan]

\* tx_cmpl_isr is told of a success only after rx_isr of the peer has handled the
\* very command, also when channels are closed, reopened or left without callback
\* while the command is under way.
CompletedAfterHandled ==
    \A n \in Node, c \in Chan : done[n][c] <= rcvd[Peer(n)][c]

\* "Set to BUSY means there is data in tx-buff": the channels with data always have
\* an acknowledgement on its way that makes mb_phy_chnl_rx_ack_isr look for them.
NoStranded ==
    \A n \in Node :
        /\ phy[n].tx_state = IDLE => tx_busy[n] = {}
        /\ phy[n].tx_state = BUSY => \/ CmdUnread(n) \/ CmdHeld(n)
                                     \/ AckUnread(n) \/ AckHeld(n) \/ Scanning(n)

\* A command that goes to the wire, from mb_chnl_write or from the search in
\* mb_phy_chnl_rx_ack_isr, is that of the highest-priority channel with data.
PriorityOrder ==
    [][\A n \in Node : phy'[n].tx_seq /= phy[n].tx_seq =>
          \A c \in tx_busy[n] : phy'[n].tx_log_chnl <= c]_vars

\* "mb_phy_chnl_rx_ack_isr will get it to send": a command accepted by mb_chnl_write
\* leaves its buffer, once the writers of more urgent channels pause.
WriteSent ==
    \A n \in Node : \A c \in Chan :
        (c \in tx_busy[n]) ~> (c \notin tx_busy[n])
=============================================================================
