------------------------ MODULE MailboxMatchProofs ------------------------
(***************************************************************************)
(* Proof that every acknowledgement matches the command that the physical  *)
(* channel waits for, whatever the modulus of tx_seq.                      *)
(***************************************************************************)
EXTENDS MailboxTokenProofs

\* the direction to which a message of node n, or held by node n, belongs
Sender(n, m) == IF m.kind = "cmd" THEN n ELSE Peer(n)
Holder(n, m) == IF m.kind = "cmd" THEN Peer(n) ELSE n

MatchBoxes(n) == \A b \in Box : Unread(n, b) => AckMatches(Sender(n, mbuff[n][b]), mbuff[n][b])
MatchIsr(n) ==
    /\ isr[n].pc = "copied" => AckMatches(Holder(n, isr[n].msg), isr[n].msg)
    /\ isr[n].pc = "tx_ack" => AckMatches(Peer(n), isr[n].msg)

LEMMA MatchParts == MatchInv <=> \A n \in Node : MatchBoxes(n) /\ MatchIsr(n)
BY DEF MatchInv, MatchBoxes, MatchIsr, Sender, Holder

LEMMA MatchPartsNext == MatchInv' <=> \A n \in Node : MatchBoxes(n)' /\ MatchIsr(n)'
BY DEF MatchInv, MatchBoxes, MatchIsr, Sender, Holder

\* phy changes for no direction that has a message
LEMMA MatchFrame ==
    ASSUME MatchInv, phy' = phy, mbuff' = mbuff,
           \A n \in Node, b \in Box : Unread(n, b)' => Unread(n, b),
           \A n \in Node : isr'[n] = isr[n] \/ MatchIsr(n)'
    PROVE  MatchInv'
<1>1. \A n \in Node : MatchBoxes(n)'
  BY MatchParts DEF MatchBoxes, AckMatches, Sender
<1>2. \A n \in Node : MatchIsr(n)'
  BY MatchParts DEF MatchIsr, AckMatches, Holder
<1> QED BY <1>1, <1>2, MatchPartsNext, Zenon

LEMMA MatchSend ==
    ASSUME MboxType, StructInv, MatchInv, NEW n \in Node, NEW m \in Msg, bk_mailbox_send(n, m),
           ~Unread(n, 1 - tx_box[n]), isr'[Peer(n)] = isr[Peer(n)],
           \A b \in Box : Popped(Peer(n), b)' => Popped(Peer(n), b),
           \A d \in Node : phy'[d] = phy[d] \/ (d = n /\ ~CmdUnread(n) /\ ~AckUnread(n)),
           m.chan = phy'[Sender(n, m)].tx_log_chnl, m.seq = phy'[Sender(n, m)].tx_seq
    PROVE  \A d \in Node : MatchBoxes(d)'
<1> DEFINE p == Peer(n)
           x == 1 - tx_box[n]
<1>0. /\ p \in Node /\ p /= n /\ Peer(p) = n
      /\ x \in Box /\ tx_box[n] \in Box /\ x /= tx_box[n]
      /\ \A b \in Box : b = x \/ b = tx_box[n]
  BY PeerFacts, OtherBox DEF MboxType, Box
<1>1. /\ mbuff'[n][x] = m /\ mbuff'[n][tx_box[n]] = mbuff[n][tx_box[n]]
      /\ mbuff'[p] = mbuff[p] /\ fifo'[n] = fifo[n]
      /\ Pushed(n) \/ Dropped(n)
  <2>1. OneReference(n)
    BY DEF StructInv
  <2> QED BY <2>1, SendEffect
<1>2. \A b \in Box : b /= x /\ Unread(n, b)' => Unread(n, b)
  BY <1>0, <1>1, Zenon DEF Pushed, Dropped
<1>3. \A b \in Box : Unread(p, b)' => Unread(p, b)
  BY <1>0, <1>1, Zenon DEF Unread, Queued
<1>4. \A b \in Box : Unread(n, b) =>
        /\ mbuff[n][b].kind \in {"cmd", "ack"}
        /\ phy'[Sender(n, mbuff[n][b])] = phy[Sender(n, mbuff[n][b])]
  BY <1>0, Zenon DEF StructInv, KindsOK, Sender, CmdUnread
<1>5. \A b \in Box : Unread(p, b) =>
        /\ mbuff[p][b].kind \in {"cmd", "ack"}
        /\ phy'[Sender(p, mbuff[p][b])] = phy[Sender(p, mbuff[p][b])]
  BY <1>0, Zenon DEF StructInv, KindsOK, Sender, AckUnread
<1>6. MatchBoxes(n) /\ MatchBoxes(p)
  BY <1>0, MatchParts
<1>7. MatchBoxes(n)'
  <2> SUFFICES ASSUME NEW b \in Box, Unread(n, b)'
               PROVE AckMatches(Sender(n, mbuff[n][b]), mbuff[n][b])'
    BY DEF MatchBoxes
  <2>1. CASE b = x
    BY <1>1, <2>1, Zenon DEF AckMatches, Sender
  <2>2. CASE b = tx_box[n]
    BY <1>0, <1>1, <1>2, <1>4, <1>6, <2>2 DEF MatchBoxes, AckMatches, Sender
  <2> QED BY <1>0, <2>1, <2>2, Zenon
<1>8. MatchBoxes(p)'
  BY <1>1, <1>3, <1>5, <1>6 DEF MatchBoxes, AckMatches, Sender
<1> QED BY <1>0, <1>7, <1>8, Zenon DEF Node

LEMMA MatchTxCmd ==
    ASSUME TypeOK, StructInv, MatchInv, NEW n \in Node, NEW c \in Chan, NEW id \in Nat,
           NEW busy \in SUBSET Chan, mb_phy_chnl_tx_cmd(n, c, id, busy),
           \/ phy[n].tx_state = IDLE /\ isr'[n] = isr[n]
           \/ Scanning(n) /\ isr'[n].pc = "idle",
           isr'[Peer(n)] = isr[Peer(n)]
    PROVE  MatchInv'
<1> DEFINE p == Peer(n)
           seq == (phy[n].tx_seq + 1) % SeqMod
           m == [kind |-> "cmd", chan |-> c, seq |-> seq, fail |-> FALSE, id |-> id]
<1>0. /\ p \in Node /\ p /= n /\ Peer(p) = n /\ MboxType /\ phy \in [Node -> Phy]
      /\ IDLE /= BUSY
  BY PeerFacts DEF TypeOK, TxType, IDLE, BUSY
<1>1. ~CmdUnread(n) /\ ~CmdHeld(n) /\ ~AckUnread(n) /\ ~AckHeld(n) /\ ~Lost(n)
  <2>1. OneToken(n)
    BY DEF StructInv
  <2>2. CASE phy[n].tx_state = IDLE
    BY <1>0, <2>1, <2>2, Zenon DEF OneToken, Token, Lost
  <2>3. CASE Scanning(n)
    BY <2>1, <2>3, Zenon DEF OneToken, Token, Lost, AckHeld, Scanning
  <2> QED BY <2>2, <2>3, Zenon
<1>2. ~Unread(n, 1 - tx_box[n])
  BY <1>0, <1>1, CmdBoxFree
<1>3. phy'[p] = phy[p] /\ phy'[n].tx_seq = seq /\ phy'[n].tx_log_chnl = c
  BY <1>0 DEF mb_phy_chnl_tx_cmd
<1>4. \A d \in Node : d = n \/ d = p
  BY <1>0, Zenon DEF Node
<1>5. /\ isr'[n] = isr[n] \/ (isr[n].pc = "scan" /\ isr'[n].pc = "idle")
      /\ \A b \in Box : Popped(p, b)' => Popped(p, b)
  BY <1>0, Zenon DEF Scanning, Popped
<1>6. m \in Msg
  <2>1. seq \in 0..SeqMod-1
    BY <1>0, ConstantsOK DEF Phy
  <2> QED BY <2>1, Zenon DEF Msg, Kind
<1>7. \A d \in Node : MatchBoxes(d)'
  <2>1. CASE bk_mailbox_send(n, m)
    <3>1. m.chan = phy'[Sender(n, m)].tx_log_chnl /\ m.seq = phy'[Sender(n, m)].tx_seq
      BY <1>3, Zenon DEF Sender
    <3> HIDE DEF m
    <3> QED BY <1>0, <1>1, <1>2, <1>3, <1>4, <1>5, <1>6, <2>1, <3>1, MatchSend, Zenon
  <2>2. CASE UNCHANGED mbox
    <3>1. \A d \in Node, b \in Box : /\ Unread(d, b)' => Unread(d, b)
                                     /\ mbuff'[d][b] = mbuff[d][b]
      BY <1>0, <1>4, <1>5, <2>2, Zenon DEF Unread, Queued, Popped, mbox
    <3>2. \A d \in Node, b \in Box : Unread(d, b) => phy'[Sender(d, mbuff[d][b])] = phy[Sender(d, mbuff[d][b])]
      BY <1>0, <1>1, <1>3, <1>4, Zenon DEF StructInv, KindsOK, Sender, CmdUnread, AckUnread
    <3> QED BY <3>1, <3>2, MatchParts DEF MatchBoxes, AckMatches, Sender
  <2> QED BY <2>1, <2>2, Zenon DEF mb_phy_chnl_tx_cmd, bk_mailbox_refuse
<1>8. MatchIsr(n)' /\ MatchIsr(p)'
  <2>1. MatchIsr(n) /\ MatchIsr(p) /\ KindsOK(n) /\ KindsOK(p)
    BY <1>0, MatchParts, Zenon DEF StructInv
  <2>2. MatchIsr(n)'
    BY <1>0, <1>1, <1>3, <1>5, <2>1 DEF MatchIsr, KindsOK, AckMatches, Holder, AckHeld
  <2>3. MatchIsr(p)'
    BY <1>0, <1>1, <1>3, <2>1, Zenon DEF MatchIsr, KindsOK, AckMatches, Holder, CmdHeld
  <2> QED BY <2>2, <2>3, Zenon
<1> QED BY <1>4, <1>7, <1>8, MatchPartsNext, Zenon

LEMMA MatchTxAck ==
    ASSUME TypeOK, StructInv, MatchInv, NEW n \in Node, mb_phy_chnl_tx_ack(n)
    PROVE  MatchInv'
<1> DEFINE p == Peer(n)
           m == isr[n].msg
<1>0. /\ p \in Node /\ p /= n /\ Peer(p) = n /\ MboxType /\ isr \in [Node -> Handler]
  BY PeerFacts DEF TypeOK
<1>1. /\ isr[n].pc = "tx_ack" /\ isr'[n].pc = "idle" /\ isr'[p] = isr[p] /\ phy' = phy
  BY <1>0, Zenon DEF mb_phy_chnl_tx_ack, Idle
<1>2. m \in Msg /\ m.kind = "ack" /\ AckMatches(p, m)
  BY <1>0, <1>1, MatchParts, Zenon DEF StructInv, KindsOK, MatchIsr, Handler
<1>3. \A b \in Box : Popped(p, b)' => Popped(p, b)
  BY <1>0, <1>1, Zenon DEF Popped
<1>4. MatchIsr(n)' /\ isr'[p] = isr[p]
  BY <1>1, Zenon DEF MatchIsr
<1>5. CASE bk_mailbox_send(n, m)
  <2>1. OneToken(p) /\ CmdHeld(p)
    BY <1>0, <1>1, Zenon DEF StructInv, CmdHeld
  <2>2. ~AckUnread(p) /\ ~Lost(p)
    BY <2>1, Zenon DEF OneToken, Token, Lost
  <2>3. ~Unread(n, 1 - tx_box[n])
    BY <1>0, <2>2, AckBoxFree
  <2>4. m.chan = phy'[Sender(n, m)].tx_log_chnl /\ m.seq = phy'[Sender(n, m)].tx_seq
    BY <1>1, <1>2, Zenon DEF AckMatches, Sender
  <2>5. \A d \in Node : MatchBoxes(d)'
    <3> HIDE DEF m
    <3> QED BY <1>0, <1>1, <1>2, <1>3, <1>5, <2>3, <2>4, MatchSend, Zenon
  <2>6. MatchIsr(p)'
    BY <1>0, <1>1, MatchParts DEF MatchIsr, AckMatches, Holder
  <2> QED BY <1>0, <1>4, <2>5, <2>6, MatchPartsNext, Zenon DEF Node
<1>6. CASE UNCHANGED mbox
  <2>1. \A d \in Node : d = n \/ d = p
    BY <1>0, Zenon DEF Node
  <2>2. mbuff' = mbuff /\ \A d \in Node, b \in Box : Unread(d, b)' => Unread(d, b)
    BY <1>0, <1>1, <1>3, <1>6, <2>1, Zenon DEF Unread, Queued, Popped, mbox
  <2> QED BY <1>1, <1>4, <2>1, <2>2, MatchFrame, Zenon
<1> QED BY <1>5, <1>6, Zenon DEF mb_phy_chnl_tx_ack, bk_mailbox_refuse

\* the other steps of the handler move a message, or turn it into its acknowledgement
LEMMA MatchIsrStep ==
    ASSUME TypeOK, StructInv, MatchInv, NEW n \in Node,
           \/ mbox0_drv_isr_handler(n)
           \/ mbox0_rx_isr(n)
           \/ mb_phy_chnl_rx_ack_isr(n)
           \/ mb_phy_chnl_rx_cmd_isr(n)
    PROVE  MatchInv'
<1> DEFINE p == Peer(n)
<1>0. /\ p \in Node /\ p /= n /\ Peer(p) = n /\ isr \in [Node -> Handler]
      /\ \A d \in Node : d = n \/ d = p
      /\ fifo \in [Node -> Seq(Box \cup {IPI})]
  BY PeerFacts DEF TypeOK, MboxType, Node
<1>1. CASE mbox0_drv_isr_handler(n)
  <2>1. /\ phy' = phy /\ mbuff' = mbuff /\ isr'[p] = isr[p] /\ fifo'[p] = fifo[p]
        /\ fifo[n] /= <<>> /\ fifo'[n] = Tail(fifo[n])
        /\ isr'[n] = isr[n] \/ (isr'[n].pc = "popped" /\ isr'[n].box = Head(fifo[n]))
    BY <1>0, <1>1 DEF mbox0_drv_isr_handler
  <2>2. \A b \in Box : Queued(p, b) <=> Head(fifo[n]) = b \/ Queued(p, b)'
    BY <1>0, <2>1, PopHas DEF Queued
  <2>3. \A d \in Node, b \in Box : Unread(d, b)' => Unread(d, b)
    BY <1>0, <2>1, <2>2, Zenon DEF Unread, Popped, Queued
  <2>4. \A d \in Node : isr'[d] = isr[d] \/ MatchIsr(d)'
    BY <1>0, <2>1, Zenon DEF MatchIsr
  <2> QED BY <2>1, <2>3, <2>4, MatchFrame, Zenon
<1>2. CASE mbox0_rx_isr(n)
  <2>1. /\ phy' = phy /\ UNCHANGED mbox /\ isr'[p] = isr[p] /\ isr[n].box \in Box
        /\ isr[n].pc = "popped" /\ isr'[n].pc = "copied" /\ isr'[n].msg = mbuff[p][isr[n].box]
    BY <1>0, <1>2, Zenon DEF mbox0_rx_isr, Handler
  <2>2. \A d \in Node, b \in Box : Unread(d, b)' => Unread(d, b)
    BY <1>0, <2>1, Zenon DEF Unread, Popped, Queued, mbox
  <2>3. Unread(p, isr[n].box) /\ MatchBoxes(p)
    BY <1>0, <2>1, MatchParts, Zenon DEF Unread, Popped
  <2>4. MatchIsr(n)'
    BY <1>0, <2>1, <2>3 DEF MatchBoxes, MatchIsr, AckMatches, Sender, Holder
  <2> QED BY <1>0, <2>1, <2>2, <2>4, MatchFrame, Zenon DEF mbox
<1>3. CASE mb_phy_chnl_rx_ack_isr(n) \/ mb_phy_chnl_rx_cmd_isr(n)
  <2>1. phy' = phy /\ UNCHANGED mbox /\ isr'[p] = isr[p] /\ isr[n].pc = "copied"
    BY <1>0, <1>3, Zenon DEF mb_phy_chnl_rx_ack_isr, mb_phy_chnl_rx_cmd_isr
  <2>2. \/ isr'[n].pc \in {"idle", "scan"}
        \/ /\ isr'[n].pc = "tx_ack" /\ isr[n].msg.kind = "cmd"
           /\ isr'[n].msg.chan = isr[n].msg.chan /\ isr'[n].msg.seq = isr[n].msg.seq
    <3>1. CASE mb_phy_chnl_rx_ack_isr(n)
      BY <1>0, <3>1 DEF mb_phy_chnl_rx_ack_isr, Idle
    <3>2. CASE mb_phy_chnl_rx_cmd_isr(n)
      BY <1>0, <3>2, Zenon DEF mb_phy_chnl_rx_cmd_isr, Idle, Ack
    <3> QED BY <1>3, <3>1, <3>2, Zenon
  <2>3. \A d \in Node, b \in Box : Unread(d, b)' => Unread(d, b)
    BY <1>0, <2>1, <2>2, Zenon DEF Unread, Popped, Queued, mbox
  <2>4. MatchIsr(n)'
    BY <1>0, <2>1, <2>2, MatchParts, Zenon DEF MatchIsr, AckMatches, Holder
  <2> QED BY <1>0, <2>1, <2>3, <2>4, MatchFrame, Zenon DEF mbox
<1> QED BY <1>1, <1>2, <1>3, Zenon

LEMMA MatchAlone ==
    ASSUME MatchInv, UNCHANGED <<phy, mbox, isr>>
    PROVE  MatchInv'
<1>1. \A d \in Node, b \in Box : Unread(d, b)' => Unread(d, b)
  BY DEF Unread, Popped, Queued, mbox
<1> QED BY <1>1, MatchFrame, Zenon DEF mbox

LEMMA MatchStep == TypeOK /\ StructInv /\ MatchInv /\ [Next]_vars => MatchInv'
<1> SUFFICES ASSUME TypeOK, StructInv, MatchInv, [Next]_vars PROVE MatchInv'
  OBVIOUS
<1>1. CASE UNCHANGED vars
  BY <1>1, MatchAlone, Zenon DEF vars
<1>2. ASSUME NEW n \in Node, mb_phy_chnl_scan(n) PROVE MatchInv'
  <2>1. /\ Peer(n) \in Node /\ Peer(n) /= n /\ isr \in [Node -> Handler]
        /\ tx_busy \in [Node -> SUBSET Chan] /\ tx_buff \in [Node -> [Chan -> Nat]]
        /\ phy \in [Node -> Phy]
    BY PeerFacts DEF TypeOK, TxType
  <2>2. Scanning(n) /\ isr'[n].pc = "idle" /\ isr'[Peer(n)] = isr[Peer(n)]
    BY <1>2, <2>1, Zenon DEF mb_phy_chnl_scan, Scanning, Idle
  <2>3. CASE UNCHANGED mbox /\ phy' = [phy EXCEPT ![n] = [tx_state |-> IDLE,
                 tx_seq |-> phy[n].tx_seq, tx_log_chnl |-> phy[n].tx_log_chnl]]
    <3>1. \A d \in Node : phy'[d].tx_seq = phy[d].tx_seq /\ phy'[d].tx_log_chnl = phy[d].tx_log_chnl
      BY <2>1, <2>3
    <3>2. \A d \in Node : Peer(d) \in Node /\ (d = n \/ d = Peer(n))
      BY PeerFacts DEF Node
    <3>3. \A d \in Node, b \in Box : Unread(d, b)' => Unread(d, b)
      BY <2>1, <2>2, <2>3, <3>2, Zenon DEF Unread, Popped, Queued, mbox
    <3>4. \A d \in Node : MatchBoxes(d)'
      BY <2>3, <3>1, <3>2, <3>3, MatchParts, Zenon DEF MatchBoxes, AckMatches, Sender, mbox
    <3>5. \A d \in Node : MatchIsr(d)'
      BY <2>2, <3>1, <3>2, MatchParts DEF MatchIsr, AckMatches, Holder
    <3> QED BY <3>4, <3>5, MatchPartsNext, Zenon
  <2>4. ASSUME NEW c \in tx_busy[n], mb_phy_chnl_tx_cmd(n, c, tx_buff[n][c], tx_busy[n])
        PROVE MatchInv'
    <3>1. c \in Chan /\ tx_buff[n][c] \in Nat /\ tx_busy[n] \in SUBSET Chan
      BY <2>1
    <3> QED BY <2>2, <2>4, <3>1, MatchTxCmd, Zenon
  <2> QED BY <1>2, <2>3, <2>4, Zenon DEF mb_phy_chnl_scan
<1>3. ASSUME NEW n \in Node, Isr(n) PROVE MatchInv'
  BY <1>2, <1>3, MatchTxAck, MatchIsrStep, Zenon DEF Isr
<1>4. ASSUME NEW n \in Node, bk_mailbox_master_send(n) PROVE MatchInv'
  <2>1. /\ fifo \in [Node -> Seq(Box \cup {IPI})] /\ IPI \in Box \cup {IPI}
        /\ \A b \in Box : IPI /= b
    BY DEF TypeOK, MboxType, IPI, Box
  <2>2. /\ phy' = phy /\ mbuff' = mbuff /\ isr' = isr
        /\ \A d \in Node : fifo'[d] = fifo[d] \/ fifo'[d] = Append(fifo[d], IPI)
    BY <1>4, <2>1, Zenon DEF bk_mailbox_master_send
  <2>3. \A d \in Node, b \in Box : Queued(d, b)' => Queued(d, b)
    <3> SUFFICES ASSUME NEW d \in Node, NEW b \in Box, Queued(d, b)' PROVE Queued(d, b)
      OBVIOUS
    <3>1. fifo[Peer(d)] \in Seq(Box \cup {IPI}) /\ Peer(d) \in Node
      BY <2>1, PeerFacts
    <3>2. Has(Append(fifo[Peer(d)], IPI), b) => Has(fifo[Peer(d)], b)
      BY <2>1, <3>1, PushHas
    <3> QED BY <2>2, <3>1, <3>2, Zenon DEF Queued
  <2>4. \A d \in Node, b \in Box : Unread(d, b)' => Unread(d, b)
    BY <2>2, <2>3, Zenon DEF Unread, Popped
  <2> QED BY <2>2, <2>4, MatchFrame, Zenon
<1>5. ASSUME NEW n \in Node, NEW c \in Chan, App(n, c) PROVE MatchInv'
  <2>1. CASE mb_chnl_write(n, c)
    <3>1. written[n] + 1 \in Nat /\ tx_busy[n] \cup {c} \in SUBSET Chan
      BY DEF TypeOK, HistoryType, TxType
    <3>2. CASE phy[n].tx_state = IDLE
               /\ mb_phy_chnl_tx_cmd(n, c, written[n] + 1, tx_busy[n] \cup {c})
      BY <2>1, <3>1, <3>2, MatchTxCmd, Zenon DEF mb_chnl_write
    <3>3. CASE UNCHANGED <<phy, mbox>>
      BY <2>1, <3>3, MatchAlone, Zenon DEF mb_chnl_write
    <3> QED BY <2>1, <3>2, <3>3, Zenon DEF mb_chnl_write, mb_phy_chnl_start_tx
  <2>2. CASE UNCHANGED <<phy, mbox, isr>>
    BY <2>2, MatchAlone
  <2> QED BY <1>5, <2>1, <2>2, Zenon DEF App, mb_chnl_open, mb_chnl_close, mb_chnl_close_end,
                                  mb_chnl_ctrl_set, mb_chnl_ctrl_clear
<1> QED BY <1>1, <1>3, <1>4, <1>5, Zenon DEF Next

LEMMA MatchInit == Init => MatchInv
<1> SUFFICES ASSUME Init PROVE MatchInv
  OBVIOUS
<1>1. \A n \in Node : fifo[n] = <<>> /\ isr[n].pc = "idle"
  BY DEF Init, InitWith, Idle
<1>2. \A n \in Node, b \in Box : ~Unread(n, b)
  BY <1>1, PeerFacts DEF Queued, Popped, Unread, Has
<1> QED BY <1>1, <1>2, Zenon DEF MatchInv

\* The fault branch of mb_phy_chnl_rx_ack_isr is dead code between two ends that run
\* this driver: the acknowledgement carries the channel and the tx_seq of the command
\* sent last, for every modulus of tx_seq, even 1.
THEOREM AcksMatchCorrect == Spec => []AcksMatch
<1>1. Init => MatchInv
  BY MatchInit
<1>2. TypeOK /\ StructInv /\ MatchInv /\ [Next]_vars => MatchInv'
  BY MatchStep
<1>3. StructInv /\ MatchInv => AcksMatch
  BY DEF StructInv, OneToken, Token, MatchInv, AcksMatch, AckHeld
<1> QED BY <1>1, <1>2, <1>3, TypeCorrect, StructCorrect, PTL DEF Spec
=============================================================================
