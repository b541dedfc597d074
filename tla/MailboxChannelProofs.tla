----------------------- MODULE MailboxChannelProofs -----------------------
(***************************************************************************)
(* Proofs about MailboxChannel for any number of channels, any sequence    *)
(* number width, any FIFO depths and any number of interrupts.             *)
(***************************************************************************)
EXTENDS MailboxInv, TLAPS

LEMMA PeerFacts == \A n \in Node : Peer(n) \in Node /\ Peer(n) /= n /\ Peer(Peer(n)) = n
BY DEF Node, Peer

\* with two boxes, the rotation of bk_mailbox_send takes the other one
LEMMA OtherBox == \A b \in Box : (b + 1) % 2 = 1 - b /\ 1 - b \in Box /\ 1 - b /= b
<1> SUFFICES ASSUME NEW b \in Box PROVE (b + 1) % 2 = 1 - b /\ 1 - b \in Box /\ 1 - b /= b
  OBVIOUS
<1>1. CASE b = 0 BY <1>1 DEF Box
<1>2. CASE b = 1 BY <1>2 DEF Box
<1> QED BY <1>1, <1>2 DEF Box

LEMMA SendType ==
    ASSUME MboxType, NEW n \in Node, NEW m \in Msg, bk_mailbox_send(n, m) \/ bk_mailbox_refuse(n)
    PROVE  MboxType'
<1>1. CASE bk_mailbox_refuse(n)
  BY <1>1 DEF bk_mailbox_refuse, mbox, MboxType
<1>2. CASE bk_mailbox_send(n, m)
  <2> DEFINE box == (tx_box[n] + 1) % 2
  <2>1. box \in Box
    BY OtherBox DEF MboxType
  <2>2. tx_box' \in [Node -> Box]
    BY <1>2, <2>1 DEF bk_mailbox_send, MboxType
  <2>3. mbuff' \in [Node -> [Box -> Msg]]
    BY <1>2, <2>1 DEF bk_mailbox_send, MboxType
  <2>4. fifo' \in [Node -> Seq(Box \cup {IPI})]
    <3>1. PICK x \in Box \cup {IPI} : fifo' = [fifo EXCEPT ![Peer(n)] = Append(@, x)]
      BY <1>2, <2>1 DEF bk_mailbox_send
    <3>2. fifo[Peer(n)] \in Seq(Box \cup {IPI})
      BY PeerFacts DEF MboxType
    <3>3. Append(fifo[Peer(n)], x) \in Seq(Box \cup {IPI})
      BY <3>2
    <3> QED BY <3>1, <3>3 DEF MboxType
  <2>5. ipis' \in [Node -> Int]
    BY <1>2, PeerFacts DEF bk_mailbox_send, MboxType
  <2> QED BY <2>2, <2>3, <2>4, <2>5 DEF MboxType
<1> QED BY <1>1, <1>2

LEMMA TxCmdType ==
    ASSUME TxType, MboxType, NEW n \in Node, NEW c \in Chan, NEW id \in Nat,
           NEW busy \in SUBSET Chan, mb_phy_chnl_tx_cmd(n, c, id, busy)
    PROVE  MboxType' /\ phy' \in [Node -> Phy] /\ tx_busy' \in [Node -> SUBSET Chan]
<1> DEFINE seq == (phy[n].tx_seq + 1) % SeqMod
           m == [kind |-> "cmd", chan |-> c, seq |-> seq, fail |-> FALSE, id |-> id]
<1>1. seq \in 0..SeqMod-1
  <2>1. phy[n].tx_seq \in Int /\ SeqMod \in Nat \ {0}
    BY ConstantsOK DEF TxType, Phy
  <2> QED BY <2>1
<1>2. m \in Msg
  <2> HIDE DEF seq
  <2> QED BY <1>1 DEF Msg, Kind
<1>3. bk_mailbox_send(n, m) \/ bk_mailbox_refuse(n)
  BY DEF mb_phy_chnl_tx_cmd
<1>4. MboxType'
  <2> HIDE DEF m
  <2> QED BY <1>2, <1>3, SendType
<1>5. phy' \in [Node -> Phy]
  <2>1. PICK s \in {IDLE, BUSY} :
           phy' = [phy EXCEPT ![n] = [tx_state |-> s, tx_seq |-> seq, tx_log_chnl |-> c]]
    BY DEF mb_phy_chnl_tx_cmd
  <2>2. [tx_state |-> s, tx_seq |-> seq, tx_log_chnl |-> c] \in Phy
    BY <1>1 DEF Phy
  <2> HIDE DEF seq
  <2> QED BY <2>1, <2>2 DEF TxType
<1>6. tx_busy' \in [Node -> SUBSET Chan]
  BY DEF mb_phy_chnl_tx_cmd, TxType
<1> QED BY <1>4, <1>5, <1>6

LEMMA TypeStep == TypeOK /\ [Next]_vars => TypeOK'
<1> SUFFICES TypeOK => ([Next]_vars => TypeOK')
  OBVIOUS
<1> HAVE TypeOK
<1>0. Reset \in Msg /\ Idle \in Handler
  BY ConstantsOK DEF Reset, Msg, Kind, Chan, Idle, Handler, Box
<1>a. UNCHANGED users => UsersType'
  BY DEF users, UsersType, TypeOK
<1>b. UNCHANGED mbox => MboxType'
  BY DEF mbox, MboxType, TypeOK
<1>c. UNCHANGED history => HistoryType'
  BY DEF history, HistoryType, TypeOK
<1>d. UNCHANGED <<phy, tx_busy, tx_buff>> => TxType'
  BY DEF TxType, TypeOK
<1>e. ASSUME NEW n \in Node, NEW h \in Handler, isr' = [isr EXCEPT ![n] = h]
      PROVE isr' \in [Node -> Handler]
  BY <1>e DEF TypeOK
<1>1. CASE UNCHANGED vars
  BY <1>1, <1>a, <1>b, <1>c, <1>d DEF vars, TypeOK
<1>2. ASSUME NEW n \in Node, bk_mailbox_master_send(n) PROVE TypeOK'
  <2>1. MboxType'
    BY <1>2 DEF bk_mailbox_master_send, TypeOK, MboxType
  <2> QED BY <1>2, <2>1, <1>a, <1>c, <1>d DEF bk_mailbox_master_send, TypeOK
<1>3. ASSUME NEW n \in Node, mbox0_drv_isr_handler(n) PROVE TypeOK'
  <2>1. Head(fifo[n]) \in Box \cup {IPI} /\ Tail(fifo[n]) \in Seq(Box \cup {IPI})
    BY <1>3 DEF mbox0_drv_isr_handler, TypeOK, MboxType
  <2>2. MboxType'
    BY <1>3, <2>1 DEF mbox0_drv_isr_handler, TypeOK, MboxType
  <2>3. isr' \in [Node -> Handler]
    <3>1. CASE Head(fifo[n]) = IPI
      BY <1>3, <3>1 DEF mbox0_drv_isr_handler, TypeOK
    <3>2. CASE Head(fifo[n]) /= IPI
      <4>1. [pc |-> "popped", box |-> Head(fifo[n]), msg |-> Reset] \in Handler
        BY <3>2, <2>1, <1>0 DEF Handler
      <4> QED BY <1>3, <3>2, <4>1 DEF mbox0_drv_isr_handler, TypeOK
    <3> QED BY <3>1, <3>2
  <2> QED BY <1>3, <2>2, <2>3, <1>a, <1>c, <1>d DEF mbox0_drv_isr_handler, TypeOK
<1>4. ASSUME NEW n \in Node, mbox0_rx_isr(n) PROVE TypeOK'
  <2>1. mbuff[Peer(n)][isr[n].box] \in Msg
    BY PeerFacts DEF TypeOK, MboxType, Handler
  <2>2. [pc |-> "copied", box |-> 0, msg |-> mbuff[Peer(n)][isr[n].box]] \in Handler
    BY <2>1 DEF Handler, Box
  <2>3. isr' \in [Node -> Handler]
    BY <1>4, <2>2 DEF mbox0_rx_isr, TypeOK
  <2> QED BY <1>4, <2>3, <1>a, <1>b, <1>c, <1>d DEF mbox0_rx_isr, TypeOK
<1>5. ASSUME NEW n \in Node, mb_phy_chnl_rx_ack_isr(n) PROVE TypeOK'
  <2>1. [pc |-> "scan", box |-> 0, msg |-> Reset] \in Handler
    BY <1>0 DEF Handler, Box
  <2>2. isr' \in [Node -> Handler]
    BY <1>0, <1>5, <2>1 DEF mb_phy_chnl_rx_ack_isr, TypeOK
  <2>3. done' \in [Node -> [Chan -> Nat]]
    <3>1. isr[n].msg.chan \in Chan /\ isr[n].msg.id \in Nat
      BY DEF TypeOK, Handler, Msg
    <3>2. done \in [Node -> [Chan -> Nat]]
      BY DEF TypeOK, HistoryType
    <3> QED BY <1>5, <3>1, <3>2 DEF mb_phy_chnl_rx_ack_isr
  <2>4. HistoryType'
    BY <1>5, <2>3 DEF mb_phy_chnl_rx_ack_isr, TypeOK, HistoryType
  <2> QED BY <1>5, <2>2, <2>4, <1>a, <1>b, <1>d DEF mb_phy_chnl_rx_ack_isr, TypeOK
<1>6. ASSUME NEW n \in Node, mb_phy_chnl_scan(n) PROVE TypeOK'
  <2>1. isr' \in [Node -> Handler]
    BY <1>0, <1>6 DEF mb_phy_chnl_scan, TypeOK
  <2>2. CASE tx_busy[n] = {} /\ UNCHANGED <<tx_busy, mbox>>
             /\ phy' = [phy EXCEPT ![n] = [tx_state |-> IDLE, tx_seq |-> phy[n].tx_seq,
                                           tx_log_chnl |-> phy[n].tx_log_chnl]]
    <3>1. phy' \in [Node -> Phy]
      BY <2>2 DEF TypeOK, TxType, Phy
    <3>2. TxType'
      BY <1>6, <2>2, <3>1 DEF mb_phy_chnl_scan, TypeOK, TxType
    <3> QED BY <1>6, <2>1, <2>2, <3>2, <1>a, <1>b, <1>c DEF mb_phy_chnl_scan, TypeOK
  <2>3. ASSUME NEW c \in tx_busy[n], mb_phy_chnl_tx_cmd(n, c, tx_buff[n][c], tx_busy[n])
        PROVE TypeOK'
    <3>1. c \in Chan /\ tx_buff[n][c] \in Nat /\ tx_busy[n] \in SUBSET Chan
      BY DEF TypeOK, TxType
    <3>2. MboxType' /\ phy' \in [Node -> Phy] /\ tx_busy' \in [Node -> SUBSET Chan]
      BY <2>3, <3>1, TxCmdType DEF TypeOK
    <3>3. TxType'
      BY <1>6, <3>2 DEF mb_phy_chnl_scan, TypeOK, TxType
    <3> QED BY <1>6, <2>1, <3>2, <3>3, <1>a, <1>c DEF mb_phy_chnl_scan, TypeOK
  <2> QED BY <1>6, <2>2, <2>3 DEF mb_phy_chnl_scan
<1>7. ASSUME NEW n \in Node, mb_phy_chnl_rx_cmd_isr(n) PROVE TypeOK'
  <2> DEFINE m == isr[n].msg
  <2>1. m \in Msg
    BY DEF TypeOK, Handler
  <2>2. \A f \in BOOLEAN : [pc |-> "tx_ack", box |-> 0, msg |-> Ack(m, f)] \in Handler
    BY <2>1 DEF Handler, Box, Ack, Msg, Kind
  <2>3. isr' \in [Node -> Handler]
    <3>1. PICK h \in Handler : isr' = [isr EXCEPT ![n] = h]
      BY <1>0, <1>7, <2>2 DEF mb_phy_chnl_rx_cmd_isr
    <3> QED BY <3>1, <1>e
  <2>4. rcvd' \in [Node -> [Chan -> Nat]]
    <3>1. rcvd \in [Node -> [Chan -> Nat]] /\ m.chan \in Chan /\ m.id \in Nat
      BY <2>1 DEF TypeOK, HistoryType, Msg
    <3> QED BY <1>7, <3>1 DEF mb_phy_chnl_rx_cmd_isr
  <2>5. HistoryType'
    BY <1>7, <2>4 DEF mb_phy_chnl_rx_cmd_isr, TypeOK, HistoryType
  <2> QED BY <1>7, <2>3, <2>5, <1>a, <1>b, <1>d DEF mb_phy_chnl_rx_cmd_isr, TypeOK
<1>8. ASSUME NEW n \in Node, mb_phy_chnl_tx_ack(n) PROVE TypeOK'
  <2>1. isr[n].msg \in Msg
    BY DEF TypeOK, Handler
  <2>2. MboxType'
    BY <1>8, <2>1, SendType DEF mb_phy_chnl_tx_ack, TypeOK
  <2>3. isr' \in [Node -> Handler]
    BY <1>0, <1>8 DEF mb_phy_chnl_tx_ack, TypeOK
  <2> QED BY <1>8, <2>2, <2>3, <1>a, <1>c, <1>d DEF mb_phy_chnl_tx_ack, TypeOK
<1>9. ASSUME NEW n \in Node, NEW c \in Chan, App(n, c) PROVE TypeOK'
  <2>0. /\ in_used \in [Node -> SUBSET Chan] /\ rx_isr \in [Node -> SUBSET Chan]
        /\ tx_cmpl_isr \in [Node -> SUBSET Chan] /\ late \in [Node -> SUBSET Chan]
        /\ closing \in [Node -> SUBSET Chan] /\ calls \in Nat
    BY DEF TypeOK, UsersType
  <2>1. CASE mb_chnl_write(n, c)
    <3>1. written[n] + 1 \in Nat /\ tx_busy[n] \cup {c} \in SUBSET Chan
      BY DEF TypeOK, HistoryType, TxType
    <3>2. MboxType' /\ phy' \in [Node -> Phy] /\ tx_busy' \in [Node -> SUBSET Chan]
      <4>1. CASE mb_phy_chnl_tx_cmd(n, c, written[n] + 1, tx_busy[n] \cup {c})
        BY <4>1, <3>1, TxCmdType DEF TypeOK
      <4>2. CASE UNCHANGED <<phy, mbox>> /\ tx_busy' = [tx_busy EXCEPT ![n] = tx_busy[n] \cup {c}]
        BY <4>2, <3>1, <1>b DEF TypeOK, TxType
      <4> QED BY <2>1, <4>1, <4>2 DEF mb_chnl_write, mb_phy_chnl_start_tx
    <3>3. tx_buff' \in [Node -> [Chan -> Nat]]
      BY <2>1, <3>1 DEF mb_chnl_write, TypeOK, TxType
    <3>4. HistoryType'
      BY <2>1, <3>1 DEF mb_chnl_write, TypeOK, HistoryType
    <3>5. late' \in [Node -> SUBSET Chan]
      BY <2>1, <2>0 DEF mb_chnl_write
    <3> QED BY <2>1, <2>0, <3>2, <3>3, <3>4, <3>5 DEF mb_chnl_write, TypeOK, TxType, UsersType
  <2>2. CASE mb_chnl_open(n, c)
    <3>1. UsersType'
      BY <2>2, <2>0 DEF mb_chnl_open, Call, UsersType
    <3> QED BY <2>2, <3>1, <1>b, <1>c, <1>d DEF mb_chnl_open, TypeOK
  <2>3. CASE mb_chnl_close(n, c)
    <3>1. late[n] \cup {c} \in SUBSET Chan /\ closing[n] \cup {c} \in SUBSET Chan
      BY <2>0
    <3>2. late' \in [Node -> SUBSET Chan]
      BY <2>3, <2>0, <3>1 DEF mb_chnl_close
    <3>3. UsersType'
      BY <2>3, <2>0, <3>2 DEF mb_chnl_close, Call, UsersType
    <3> QED BY <2>3, <3>3, <1>b, <1>c, <1>d DEF mb_chnl_close, TypeOK
  <2>4. CASE mb_chnl_close_end(n, c)
    <3>1. UsersType'
      BY <2>4, <2>0 DEF mb_chnl_close_end, UsersType
    <3>2. TxType'
      BY <2>4 DEF mb_chnl_close_end, TypeOK, TxType
    <3> QED BY <2>4, <3>1, <3>2, <1>b, <1>c DEF mb_chnl_close_end, TypeOK
  <2>5. CASE mb_chnl_ctrl_set(n, c)
    <3>1. rx_isr' \in [Node -> SUBSET Chan]
      BY <2>5, <2>0 DEF mb_chnl_ctrl_set
    <3>2. tx_cmpl_isr' \in [Node -> SUBSET Chan]
      BY <2>5, <2>0 DEF mb_chnl_ctrl_set
    <3>3. UsersType'
      BY <2>5, <2>0, <3>1, <3>2 DEF mb_chnl_ctrl_set, Call, UsersType
    <3> QED BY <2>5, <3>3, <1>b, <1>c, <1>d DEF mb_chnl_ctrl_set, TypeOK
  <2>6. CASE mb_chnl_ctrl_clear(n, c)
    <3>1. rx_isr' \in [Node -> SUBSET Chan]
      BY <2>6, <2>0 DEF mb_chnl_ctrl_clear
    <3>2. tx_cmpl_isr' \in [Node -> SUBSET Chan]
      BY <2>6, <2>0 DEF mb_chnl_ctrl_clear
    <3>3. UsersType'
      BY <2>6, <2>0, <3>1, <3>2 DEF mb_chnl_ctrl_clear, Call, UsersType
    <3> QED BY <2>6, <3>3, <1>b, <1>c, <1>d DEF mb_chnl_ctrl_clear, TypeOK
  <2> QED BY <1>9, <2>1, <2>2, <2>3, <2>4, <2>5, <2>6 DEF App
<1> QED BY <1>1, <1>2, <1>3, <1>4, <1>5, <1>6, <1>7, <1>8, <1>9 DEF Next, Isr

LEMMA TypeInit == Init => TypeOK
<1> SUFFICES ASSUME Init PROVE TypeOK
  OBVIOUS
<1> USE DEF Init, InitWith
<1>0. Reset \in Msg /\ Idle \in Handler /\ 0 \in 0..SeqMod-1
  BY ConstantsOK DEF Reset, Msg, Kind, Chan, Idle, Handler, Box
<1>1. TxType
  BY <1>0 DEF TxType, Phy
<1>2. UsersType
  BY ConstantsOK DEF UsersType
<1>3. MboxType
  BY <1>0 DEF MboxType, Box
<1>4. HistoryType
  BY DEF HistoryType
<1>5. isr \in [Node -> Handler]
  BY <1>0
<1> QED BY <1>1, <1>2, <1>3, <1>4, <1>5 DEF TypeOK

\* Every variable keeps its type: in particular tx_seq stays within the width of the
\* header field and only channel numbers that exist are written to tx_log_chnl.
THEOREM TypeCorrect == Spec => []TypeOK
BY TypeInit, TypeStep, PTL DEF Spec
=============================================================================
