------------------------ MODULE MailboxTokenProofs ------------------------
(***************************************************************************)
(* Proof that StructInv is an invariant of MailboxChannel, and of the      *)
(* safety properties that follow from it.                                  *)
(***************************************************************************)
EXTENDS MailboxChannelProofs

(***************************************************************************)
(* What pushing to and popping from a FIFO does to its entries.            *)
(***************************************************************************)
LEMMA PushHas ==
    ASSUME NEW S, NEW q \in Seq(S), NEW x \in S, NEW b
    PROVE  Has(Append(q, x), b) <=> Has(q, b) \/ x = b
<1>1. Append(q, x)[Len(q) + 1] = x /\ Len(q) + 1 \in DOMAIN Append(q, x)
  OBVIOUS
<1>2. \A i \in DOMAIN q : i \in DOMAIN Append(q, x) /\ Append(q, x)[i] = q[i]
  OBVIOUS
<1>3. \A i \in DOMAIN Append(q, x) : i \in DOMAIN q \/ i = Len(q) + 1
  OBVIOUS
<1> QED BY <1>1, <1>2, <1>3, Zenon DEF Has

LEMMA PushSingle ==
    ASSUME NEW S, NEW q \in Seq(S), NEW x \in S, NEW b, Single(q, b), x /= b \/ ~Has(q, b)
    PROVE  Single(Append(q, x), b)
<1>1. Append(q, x)[Len(q) + 1] = x
  OBVIOUS
<1>2. \A i \in DOMAIN q : Append(q, x)[i] = q[i]
  OBVIOUS
<1>3. \A i \in DOMAIN Append(q, x) : i \in DOMAIN q \/ i = Len(q) + 1
  OBVIOUS
<1> QED BY <1>1, <1>2, <1>3, Zenon DEF Has, Single

LEMMA PushAhead ==
    ASSUME NEW S, NEW q \in Seq(S), NEW x \in S, NEW a, NEW b
    PROVE  /\ Ahead(q, a, b) => Ahead(Append(q, x), a, b)
           /\ Has(q, a) => Ahead(Append(q, x), a, x)
<1>1. Append(q, x)[Len(q) + 1] = x /\ Len(q) + 1 \in DOMAIN Append(q, x)
  OBVIOUS
<1>2. \A i \in DOMAIN q : i \in DOMAIN Append(q, x) /\ Append(q, x)[i] = q[i] /\ i < Len(q) + 1
  OBVIOUS
<1> QED BY <1>1, <1>2, Zenon DEF Has, Ahead

LEMMA PopIndex ==
    ASSUME NEW S, NEW q \in Seq(S), q /= <<>>
    PROVE  /\ 1 \in DOMAIN q /\ q[1] = Head(q)
           /\ \A i \in DOMAIN Tail(q) : i + 1 \in DOMAIN q /\ Tail(q)[i] = q[i + 1]
           /\ \A i \in DOMAIN q : i /= 1 => i - 1 \in DOMAIN Tail(q) /\ Tail(q)[i - 1] = q[i]
           /\ DOMAIN q \subseteq Int /\ DOMAIN Tail(q) \subseteq Int
           /\ \A i \in DOMAIN q : i >= 1
           /\ \A i \in DOMAIN Tail(q) : i >= 1
OBVIOUS

LEMMA PopHas ==
    ASSUME NEW S, NEW q \in Seq(S), q /= <<>>, NEW b
    PROVE  /\ Has(q, b) <=> Head(q) = b \/ Has(Tail(q), b)
           /\ Single(q, b) => Single(Tail(q), b)
           /\ Single(q, b) /\ Head(q) = b => ~Has(Tail(q), b)
<1> USE PopIndex DEF Has
<1>1. ASSUME NEW i \in DOMAIN q, q[i] = b PROVE Head(q) = b \/ Has(Tail(q), b)
  <2>1. CASE i = 1 BY <1>1, <2>1, Zenon
  <2>2. CASE i /= 1 BY <1>1, <2>2, Zenon
  <2> QED BY <2>1, <2>2, Zenon
<1>2. Head(q) = b \/ Has(Tail(q), b) => Has(q, b)
  OBVIOUS
<1>3. Single(q, b) => Single(Tail(q), b)
  <2> SUFFICES ASSUME Single(q, b), NEW i \in DOMAIN Tail(q), NEW j \in DOMAIN Tail(q),
                      Tail(q)[i] = b, Tail(q)[j] = b
               PROVE i = j
    BY DEF Single
  <2>1. i + 1 \in DOMAIN q /\ j + 1 \in DOMAIN q /\ q[i + 1] = b /\ q[j + 1] = b
    OBVIOUS
  <2>2. i + 1 = j + 1
    BY <2>1, Zenon DEF Single
  <2> QED BY <2>2
<1>4. Single(q, b) /\ Head(q) = b => ~Has(Tail(q), b)
  <2> SUFFICES ASSUME Single(q, b), Head(q) = b, NEW i \in DOMAIN Tail(q), Tail(q)[i] = b
               PROVE FALSE
    OBVIOUS
  <2>1. i + 1 \in DOMAIN q /\ q[i + 1] = b /\ 1 \in DOMAIN q /\ q[1] = b /\ i \in Int /\ i >= 1
    OBVIOUS
  <2>2. i + 1 = 1
    BY <2>1, Zenon DEF Single
  <2> QED BY <2>1, <2>2
<1> QED BY <1>1, <1>2, <1>3, <1>4, Zenon

LEMMA PopAhead ==
    ASSUME NEW S, NEW q \in Seq(S), q /= <<>>, NEW a, NEW b, Ahead(q, a, b)
    PROVE  /\ Head(q) /= a => Ahead(Tail(q), a, b)
           /\ Has(Tail(q), b)
<1> USE PopIndex
<1>1. PICK i \in DOMAIN q, j \in DOMAIN q : i < j /\ q[i] = a /\ q[j] = b
  BY DEF Ahead
<1>2. j /= 1 /\ j - 1 \in DOMAIN Tail(q) /\ Tail(q)[j - 1] = b
  BY <1>1
<1>3. Has(Tail(q), b)
  BY <1>2, Zenon DEF Has
<1>4. ASSUME Head(q) /= a PROVE Ahead(Tail(q), a, b)
  <2>1. i /= 1 /\ i - 1 \in DOMAIN Tail(q) /\ Tail(q)[i - 1] = a
    BY <1>1, <1>4
  <2>2. i - 1 < j - 1
    BY <1>1
  <2> QED BY <2>1, <2>2, <1>2, Zenon DEF Ahead
<1> QED BY <1>3, <1>4, Zenon

(***************************************************************************)
(* bk_mailbox_send by node n, when the box it takes is not unread.         *)
(***************************************************************************)
Pushed(n) ==
    /\ \A b \in Box : Unread(n, b)' <=> Unread(n, b) \/ b = 1 - tx_box[n]
    /\ \A a, b \in Box : a /= b /\ b = 1 - tx_box[n] /\ Unread(n, a)' => Behind(n, a, b)'
Dropped(n) ==
    /\ \A b \in Box : Unread(n, b)' <=> Unread(n, b)
    /\ Len(fifo[Peer(n)]) = FifoLen[Peer(n)] - 1 /\ ipis[Peer(n)] < MaxIpi[Peer(n)]

LEMMA SendEffect ==
    ASSUME MboxType, NEW n \in Node, NEW m \in Msg, bk_mailbox_send(n, m),
           ~Unread(n, 1 - tx_box[n]), OneReference(n), isr'[Peer(n)] = isr[Peer(n)]
    PROVE  /\ tx_box'[n] = 1 - tx_box[n]
           /\ tx_box'[Peer(n)] = tx_box[Peer(n)]
           /\ mbuff'[n][1 - tx_box[n]] = m
           /\ mbuff'[n][tx_box[n]] = mbuff[n][tx_box[n]]
           /\ mbuff'[Peer(n)] = mbuff[Peer(n)]
           /\ fifo'[n] = fifo[n]
           /\ OneReference(n)'
           /\ Pushed(n) \/ Dropped(n)
<1> DEFINE p == Peer(n)
           x == 1 - tx_box[n]
<1>1. tx_box[n] \in Box /\ x \in Box /\ x /= tx_box[n] /\ 1 - x = tx_box[n] /\ (tx_box[n] + 1) % 2 = x
  BY OtherBox DEF MboxType, Box
<1>2. p \in Node /\ p /= n
  BY PeerFacts
<1>3. fifo[p] \in Seq(Box \cup {IPI}) /\ fifo \in [Node -> Seq(Box \cup {IPI})]
  BY <1>2, Zenon DEF MboxType
<1>4. /\ tx_box'[n] = x /\ tx_box'[p] = tx_box[p]
      /\ mbuff'[n][x] = m /\ mbuff'[n][tx_box[n]] = mbuff[n][tx_box[n]] /\ mbuff'[p] = mbuff[p]
  BY <1>1, <1>2, Zenon DEF bk_mailbox_send, MboxType
<1>5. PICK e \in {x, IPI} :
         /\ fifo' = [fifo EXCEPT ![p] = Append(@, e)]
         /\ e = x \/ (Len(fifo[p]) = FifoLen[p] - 1 /\ ipis[p] < MaxIpi[p])
  BY <1>1, Zenon DEF bk_mailbox_send
<1>6. fifo'[p] = Append(fifo[p], e) /\ fifo'[n] = fifo[n] /\ e \in Box \cup {IPI}
  BY <1>1, <1>2, <1>3, <1>5, Zenon
<1>7. \A b \in Box : IPI /= b
  BY DEF IPI, Box
<1>8. \A b \in Box : /\ Queued(n, b)' <=> Queued(n, b) \/ e = b
                     /\ Popped(n, b)' <=> Popped(n, b)
  <2>1. \A b \in Box : Has(fifo'[p], b) <=> Has(fifo[p], b) \/ e = b
    BY <1>3, <1>6, PushHas
  <2> QED BY <2>1, Zenon DEF Queued, Popped
<1>9. OneReference(n)'
  <2> SUFFICES ASSUME NEW b \in Box
               PROVE Single(fifo'[p], b) /\ (Popped(n, b)' => ~Queued(n, b)')
    BY DEF OneReference
  <2>1. Single(fifo[p], b) /\ (Popped(n, b) => ~Queued(n, b))
    BY DEF OneReference
  <2>2. e = b => ~Queued(n, b) /\ ~Popped(n, b)
    BY <1>7, Zenon DEF Unread
  <2>3. Single(fifo'[p], b)
    <3>1. fifo[p] \in Seq(Box \cup {IPI}) /\ Single(fifo[p], b) /\ (e = b => ~Has(fifo[p], b))
      BY <1>3, <2>1, <2>2, Zenon DEF Queued
    <3> QED BY <1>6, <3>1, PushSingle, Zenon
  <2> QED BY <2>1, <2>2, <2>3, <1>8, Zenon
<1>10. CASE e = x
  <2>1. \A b \in Box : Unread(n, b)' <=> Unread(n, b) \/ b = x
    BY <1>8, <1>10, Zenon DEF Unread
  <2>2. ASSUME NEW a \in Box, NEW b \in Box, a /= b, b = x, Unread(n, a)'
        PROVE Behind(n, a, b)'
    <3>1. Unread(n, a)
      BY <2>1, <2>2
    <3>2. CASE Popped(n, a)
      BY <1>8, <1>10, <2>2, <3>2, Zenon DEF Behind
    <3>3. CASE Queued(n, a)
      <4>1. Ahead(fifo'[p], a, b)
        BY <1>3, <1>6, <1>10, <2>2, <3>3, PushAhead, Zenon DEF Queued
      <4> QED BY <4>1, Zenon DEF Behind
    <3> QED BY <3>1, <3>2, <3>3, Zenon DEF Unread
  <2> QED BY <1>4, <1>6, <1>9, <2>1, <2>2, Zenon DEF Pushed
<1>11. CASE e = IPI
  <2>1. Dropped(n)
    BY <1>1, <1>5, <1>7, <1>8, <1>11, Zenon DEF Unread, Dropped
  <2> QED BY <1>4, <1>6, <1>9, <2>1, Zenon
<1> QED BY <1>5, <1>10, <1>11, Zenon

LEMMA BehindUnread ==
    \A n \in Node : \A a, b \in Box : Behind(n, a, b) => Unread(n, a) /\ Unread(n, b)
BY DEF Behind, Unread, Queued, Has, Ahead

\* the box that bk_mailbox_send takes is read when n may send a command ...
LEMMA CmdBoxFree ==
    ASSUME MboxType, StructInv, NEW n \in Node,
           ~CmdUnread(n), ~Lost(n)
    PROVE  ~Unread(n, 1 - tx_box[n])
<1> DEFINE x == 1 - tx_box[n]
           y == tx_box[n]
<1>1. x \in Box /\ y \in Box /\ x /= y
  BY OtherBox DEF MboxType
<1>2. SUFFICES ASSUME Unread(n, x) PROVE FALSE
  OBVIOUS
<1>3. mbuff[n][x].kind /= "cmd" /\ (Unread(n, y) => mbuff[n][y].kind /= "cmd")
  BY <1>1, <1>2, Zenon DEF CmdUnread
<1>4. Behind(n, x, y)
  BY <1>1, <1>2, <1>3, Zenon DEF StructInv, BoxOrder
<1>5. Unread(n, y)
  BY <1>1, <1>4, BehindUnread
<1>6. mbuff[n][x].kind = "ack" /\ mbuff[n][y].kind = "ack"
  BY <1>1, <1>2, <1>3, <1>5, Zenon DEF StructInv, KindsOK
<1>7. mbuff[n][0].kind /= mbuff[n][1].kind
  BY <1>1, <1>2, <1>5 DEF StructInv, TwoKinds, Box
<1> QED BY <1>1, <1>6, <1>7 DEF Box

\* ... and when it may send an acknowledgement
LEMMA AckBoxFree ==
    ASSUME MboxType, StructInv, NEW n \in Node,
           ~AckUnread(Peer(n)), ~Lost(Peer(n))
    PROVE  ~Unread(n, 1 - tx_box[n])
<1> DEFINE x == 1 - tx_box[n]
           y == tx_box[n]
<1>1. x \in Box /\ y \in Box /\ x /= y
  BY OtherBox DEF MboxType
<1>2. SUFFICES ASSUME Unread(n, x) PROVE FALSE
  OBVIOUS
<1>3. mbuff[n][x].kind /= "ack" /\ (Unread(n, y) => mbuff[n][y].kind /= "ack")
  BY <1>1, <1>2, PeerFacts, Zenon DEF AckUnread
<1>4. Behind(n, x, y)
  BY <1>1, <1>2, <1>3, Zenon DEF StructInv, BoxOrder
<1>5. Unread(n, y)
  BY <1>1, <1>4, BehindUnread
<1>6. mbuff[n][x].kind = "cmd" /\ mbuff[n][y].kind = "cmd"
  BY <1>1, <1>2, <1>3, <1>5, Zenon DEF StructInv, KindsOK
<1>7. mbuff[n][0].kind /= mbuff[n][1].kind
  BY <1>1, <1>2, <1>5 DEF StructInv, TwoKinds, Box
<1> QED BY <1>1, <1>6, <1>7 DEF Box

(***************************************************************************)
(* The direction of node d is left alone by a step of the other direction. *)
(***************************************************************************)
SameBoxes(d) ==
    /\ fifo'[Peer(d)] = fifo[Peer(d)]
    /\ mbuff'[d] = mbuff[d]
    /\ tx_box'[d] = tx_box[d]
    /\ \A b \in Box : Popped(d, b)' <=> Popped(d, b)

LEMMA SameBoxesFacts ==
    ASSUME NEW d \in Node, SameBoxes(d)
    PROVE  /\ \A b \in Box : Unread(d, b)' <=> Unread(d, b)
           /\ \A b \in Box : mbuff'[d][b].kind = mbuff[d][b].kind
           /\ \A a, b \in Box : Behind(d, a, b)' <=> Behind(d, a, b)
           /\ CmdUnread(d)' <=> CmdUnread(d)
           /\ AckUnread(Peer(d))' <=> AckUnread(Peer(d))
           /\ OneReference(d) => OneReference(d)'
           /\ TwoKinds(d) => TwoKinds(d)'
<1>1. \A b \in Box : /\ Queued(d, b)' <=> Queued(d, b)
                     /\ Unread(d, b)' <=> Unread(d, b)
                     /\ mbuff'[d][b].kind = mbuff[d][b].kind
  BY DEF SameBoxes, Unread, Queued
<1>2. \A a, b \in Box : Behind(d, a, b)' <=> Behind(d, a, b)
  BY <1>1, Zenon DEF SameBoxes, Behind
<1>3. CmdUnread(d)' <=> CmdUnread(d)
  BY <1>1, Zenon DEF CmdUnread
<1>4. AckUnread(Peer(d))' <=> AckUnread(Peer(d))
  BY <1>1, PeerFacts, Zenon DEF AckUnread
<1>5. OneReference(d) => OneReference(d)'
  BY <1>1, Zenon DEF SameBoxes, OneReference
<1>6. TwoKinds(d) => TwoKinds(d)'
  BY <1>1 DEF TwoKinds, Box
<1> QED BY <1>1, <1>2, <1>3, <1>4, <1>5, <1>6, Zenon

LEMMA ZeroOne == 0 \in Box /\ 1 \in Box
BY DEF Box

LEMMA StructParts ==
    ASSUME StructInv, NEW d \in Node
    PROVE  KindsOK(d) /\ TwoKinds(d) /\ OneToken(d) /\ OneReference(d) /\ BoxOrder(d)
BY Zenon DEF StructInv

(***************************************************************************)
(* What the other steps have in common: no box becomes unread and the      *)
(* order of the unread ones stays.                                         *)
(***************************************************************************)
LEMMA KindsKept ==
    ASSUME NEW d \in Node, KindsOK(d), isr'[d] = isr[d],
           \A b \in Box : Unread(d, b)' => Unread(d, b) /\ mbuff'[d][b].kind = mbuff[d][b].kind
    PROVE  KindsOK(d)'
BY Zenon DEF KindsOK

LEMMA TwoKindsKept ==
    ASSUME NEW d \in Node, TwoKinds(d),
           \A b \in Box : Unread(d, b)' => Unread(d, b) /\ mbuff'[d][b].kind = mbuff[d][b].kind
    PROVE  TwoKinds(d)'
BY ZeroOne, Zenon DEF TwoKinds

LEMMA BoxOrderKept ==
    ASSUME NEW d \in Node, BoxOrder(d), tx_box'[d] = tx_box[d],
           \A b \in Box : Unread(d, b)' => Unread(d, b) /\ mbuff'[d][b].kind = mbuff[d][b].kind,
           \A a, b \in Box : Unread(d, a)' /\ Behind(d, a, b) => Behind(d, a, b)',
           Lost(d) => Lost(d)', Lost(Peer(d)) => Lost(Peer(d))'
    PROVE  BoxOrder(d)'
BY Zenon DEF BoxOrder

LEMMA CmdSent ==
    ASSUME TypeOK, StructInv, NEW n \in Node, NEW c \in Chan, NEW id \in Nat,
           NEW busy \in SUBSET Chan, mb_phy_chnl_tx_cmd(n, c, id, busy),
           \/ phy[n].tx_state = IDLE /\ isr'[n] = isr[n]
           \/ Scanning(n) /\ isr'[n].pc = "idle",
           isr'[Peer(n)] = isr[Peer(n)]
    PROVE  StructInv'
<1> DEFINE p == Peer(n)
           x == 1 - tx_box[n]
           seq == (phy[n].tx_seq + 1) % SeqMod
           m == [kind |-> "cmd", chan |-> c, seq |-> seq, fail |-> FALSE, id |-> id]
<1>0. /\ p \in Node /\ p /= n /\ Peer(p) = n
      /\ tx_box[n] \in Box /\ x \in Box /\ x /= tx_box[n] /\ 1 - x = tx_box[n]
      /\ (tx_box[n] = 0 /\ x = 1) \/ (tx_box[n] = 1 /\ x = 0)
      /\ \A b \in Box : b = x \/ b = tx_box[n]
      /\ MboxType /\ phy \in [Node -> Phy]
      /\ IDLE /= BUSY
  BY PeerFacts, OtherBox DEF TypeOK, TxType, MboxType, IDLE, BUSY, Box
<1>9. /\ KindsOK(n) /\ KindsOK(p) /\ TwoKinds(p) /\ OneToken(n) /\ OneToken(p)
      /\ OneReference(n) /\ OneReference(p) /\ BoxOrder(p)
  BY <1>0, StructParts, Zenon
<1>1. ~CmdUnread(n) /\ ~CmdHeld(n) /\ ~AckUnread(n) /\ ~AckHeld(n) /\ ~Lost(n)
  <2>1. OneToken(n)
    BY DEF StructInv
  <2>2. CASE phy[n].tx_state = IDLE
    BY <1>0, <2>1, <2>2, Zenon DEF OneToken, Token, Lost
  <2>3. CASE Scanning(n)
    BY <2>1, <2>3, Zenon DEF OneToken, Token, Lost, AckHeld, Scanning
  <2> QED BY <2>2, <2>3, Zenon
<1>2. ~Unread(n, x)
  BY <1>0, <1>1, CmdBoxFree
<1>3. isr'[n] = isr[n] \/ (isr[n].pc = "scan" /\ isr'[n].pc = "idle")
  BY DEF Scanning
<1>4. /\ CmdHeld(n)' <=> CmdHeld(n)
      /\ CmdHeld(p)' <=> CmdHeld(p)
      /\ AckHeld(n)' <=> AckHeld(n)
      /\ AckHeld(p)' <=> AckHeld(p)
      /\ Scanning(p)' <=> Scanning(p)
      /\ ~Scanning(n)'
      /\ \A b \in Box : Popped(p, b)' <=> Popped(p, b)
  <2>1. isr[n].pc = "scan" => ~CmdHeld(p) /\ ~AckHeld(n) /\ \A b \in Box : ~Popped(p, b)
    BY <1>0, Zenon DEF CmdHeld, AckHeld, Popped
  <2>2. phy[n].tx_state = IDLE => ~Scanning(n)
    BY <1>0, Zenon DEF StructInv, OneToken, Token
  <2> QED BY <1>0, <1>3, <2>1, <2>2, Zenon DEF CmdHeld, AckHeld, Scanning, Popped
<1>5. m \in Msg
  <2>1. phy[n].tx_seq \in Int /\ SeqMod \in Nat \ {0}
    BY <1>0, ConstantsOK DEF Phy
  <2>2. seq \in 0..SeqMod-1
    BY <2>1
  <2> HIDE DEF seq
  <2> QED BY <2>2, Zenon DEF Msg, Kind
<1> HIDE DEF m
<1>6. \A d \in Node : d = n \/ d = p
  BY <1>0, Zenon DEF Node
<1>7. CASE /\ bk_mailbox_send(n, m)
           /\ phy' = [phy EXCEPT ![n] = [tx_state |-> BUSY, tx_seq |-> seq, tx_log_chnl |-> c]]
  <2>1. /\ tx_box'[n] = x
        /\ tx_box'[p] = tx_box[p]
        /\ mbuff'[n][x] = m
        /\ mbuff'[n][tx_box[n]] = mbuff[n][tx_box[n]]
        /\ mbuff'[p] = mbuff[p]
        /\ fifo'[n] = fifo[n]
        /\ OneReference(n)'
        /\ Pushed(n) \/ Dropped(n)
    BY <1>0, <1>2, <1>5, <1>7, SendEffect, Zenon DEF StructInv
  <2>2. phy'[n].tx_state = BUSY /\ phy'[p] = phy[p] /\ m.kind = "cmd"
    BY <1>0, <1>7, Zenon DEF m
  <2>3. SameBoxes(p)
    BY <1>0, <1>4, <2>1, Zenon DEF SameBoxes
  <2>4. \A b \in Box : Unread(n, b)' => b = x \/ (b = tx_box[n] /\ Unread(n, b))
    BY <1>0, <2>1, Zenon DEF Pushed, Dropped
  <2>5. \A b \in Box : Unread(n, b) => Unread(n, b)' /\ b = tx_box[n] /\ mbuff[n][b].kind = "ack"
    <3>1. \A b \in Box : Unread(n, b) => Unread(n, b)' /\ b = tx_box[n]
      BY <1>0, <1>2, <2>1, Zenon DEF Pushed, Dropped
    <3>2. \A b \in Box : Unread(n, b) => mbuff[n][b].kind = "ack"
      BY <1>1, <1>9, Zenon DEF KindsOK, CmdUnread
    <3> QED BY <3>1, <3>2, Zenon
  <2>6. AckUnread(p)' <=> AckUnread(p)
    <3>1. \A b \in Box : Unread(n, b)' /\ mbuff'[n][b].kind = "ack" <=> Unread(n, b) /\ mbuff[n][b].kind = "ack"
      BY <2>1, <2>2, <2>4, <2>5, Zenon
    <3> QED BY <1>0, <3>1, Zenon DEF AckUnread
  <2>7. /\ \A b \in Box : Unread(p, b)' <=> Unread(p, b)
        /\ \A b \in Box : mbuff'[p][b].kind = mbuff[p][b].kind
        /\ \A a, b \in Box : Behind(p, a, b)' <=> Behind(p, a, b)
        /\ CmdUnread(p)' <=> CmdUnread(p)
        /\ AckUnread(n)' <=> AckUnread(n)
        /\ OneReference(p)' /\ TwoKinds(p)'
    BY <1>0, <1>9, <2>3, SameBoxesFacts, Zenon
  <2>8. KindsOK(n)' /\ KindsOK(p)'
    <3>1. \A b \in Box : Unread(n, b)' => mbuff'[n][b].kind \in {"cmd", "ack"}
      BY <2>1, <2>2, <2>4, <2>5, Zenon
    <3>2. KindsOK(n)'
      BY <1>3, <1>9, <3>1, Zenon DEF KindsOK
    <3>3. KindsOK(p)'
      BY <1>0, <1>9, <2>7, KindsKept, Zenon
    <3> QED BY <3>2, <3>3, Zenon
  <2>9. TwoKinds(n)'
    <3>1. \A b \in Box : Unread(n, b)' /\ b /= x => mbuff'[n][b].kind = "ack"
      BY <2>1, <2>4, <2>5, Zenon
    <3>2. mbuff'[n][x].kind = "cmd"
      BY <2>1, <2>2, Zenon
    <3>3. CASE tx_box[n] = 0 /\ x = 1
      BY <1>0, <3>1, <3>2, <3>3, ZeroOne, Zenon DEF TwoKinds
    <3>4. CASE tx_box[n] = 1 /\ x = 0
      BY <1>0, <3>1, <3>2, <3>4, ZeroOne, Zenon DEF TwoKinds
    <3> QED BY <1>0, <3>3, <3>4, Zenon
  <2>10. OneToken(n)'
    BY <1>1, <1>4, <2>2, <2>7, Zenon DEF OneToken, Token
  <2>11. OneToken(p)' /\ (Lost(p) => Lost(p)')
    BY <1>0, <1>4, <2>2, <2>6, <2>7, Zenon DEF StructInv, OneToken, Token, Lost
  <2>12. BoxOrder(n)'
    <3> SUFFICES ASSUME NEW old \in Box, NEW new \in Box, new = tx_box'[n], old /= new,
                        Unread(n, old)'
                 PROVE \/ Behind(n, old, new)'
                       \/ mbuff'[n][old].kind = "ack" /\ Lost(n)'
      BY DEF BoxOrder
    <3>1. new = x /\ old = tx_box[n]
      BY <1>0, <2>1, Zenon DEF Box
    <3>2. CASE Pushed(n)
      BY <3>1, <3>2, Zenon DEF Pushed
    <3>3. CASE Dropped(n)
      <4>1. Unread(n, old) /\ mbuff'[n][old].kind = "ack"
        BY <2>1, <2>5, <3>1, <3>3, Zenon DEF Dropped
      <4>2. ~CmdUnread(n)'
        BY <1>0, <1>2, <2>1, <2>5, <3>3, Zenon DEF Dropped, CmdUnread
      <4>3. Lost(n)'
        BY <1>1, <1>4, <2>2, <2>7, <4>2, Zenon DEF Lost, Token
      <4> QED BY <4>1, <4>3, Zenon
    <3> QED BY <2>1, <3>2, <3>3, Zenon
  <2>13. BoxOrder(p)'
    BY <1>0, <1>1, <1>9, <2>1, <2>7, <2>11, BoxOrderKept, Zenon
  <2> QED BY <1>6, <2>1, <2>7, <2>8, <2>9, <2>10, <2>11, <2>12, <2>13, Zenon DEF StructInv
<1>8. CASE /\ bk_mailbox_refuse(n)
           /\ phy' = [phy EXCEPT ![n] = [tx_state |-> IDLE, tx_seq |-> seq, tx_log_chnl |-> c]]
  <2>1. SameBoxes(n) /\ SameBoxes(p)
    BY <1>0, <1>4, <1>8, Zenon DEF SameBoxes, bk_mailbox_refuse, mbox, Popped
  <2>2. phy'[n].tx_state = IDLE /\ phy'[p] = phy[p]
    BY <1>0, <1>8, Zenon
  <2>3. \A d \in Node : /\ \A b \in Box : Unread(d, b)' <=> Unread(d, b)
                        /\ \A b \in Box : mbuff'[d][b].kind = mbuff[d][b].kind
                        /\ \A a, b \in Box : Behind(d, a, b)' <=> Behind(d, a, b)
                        /\ CmdUnread(d)' <=> CmdUnread(d)
                        /\ AckUnread(d)' <=> AckUnread(d)
                        /\ OneReference(d)' /\ TwoKinds(d)'
    <3> TAKE d \in Node
    <3>1. SameBoxes(d) /\ SameBoxes(Peer(d)) /\ Peer(d) \in Node /\ Peer(Peer(d)) = d
      BY <1>0, <1>6, <2>1, Zenon
    <3>2. OneReference(d) /\ TwoKinds(d)
      BY StructParts, Zenon
    <3> QED BY <3>1, <3>2, SameBoxesFacts, Zenon
  <2>4. \A d \in Node : KindsOK(d)'
    <3>1. KindsOK(n)'
      BY <1>3, <1>9, <2>3, Zenon DEF KindsOK
    <3>2. KindsOK(p)'
      BY <1>0, <1>9, <2>3, KindsKept, Zenon
    <3> QED BY <1>6, <3>1, <3>2, Zenon
  <2>5. OneToken(n)'
    BY <1>1, <1>4, <2>3, Zenon DEF OneToken, Token
  <2>6. OneToken(p)' /\ (Lost(p) => Lost(p)')
    BY <1>0, <1>4, <2>2, <2>3, Zenon DEF StructInv, OneToken, Token, Lost
  <2>7. BoxOrder(n)'
    <3> SUFFICES ASSUME NEW old \in Box, NEW new \in Box, new = tx_box'[n], old /= new,
                        Unread(n, old)'
                 PROVE FALSE
      BY DEF BoxOrder
    <3>1. new = tx_box[n] /\ old = x
      BY <1>0, <2>1, Zenon DEF SameBoxes, Box
    <3> QED BY <1>2, <2>3, <3>1, Zenon
  <2>8. BoxOrder(p)'
    <3>1. BoxOrder(p) /\ tx_box'[p] = tx_box[p]
      BY <1>9, <2>1, Zenon DEF SameBoxes
    <3> QED BY <1>0, <1>1, <2>3, <2>6, <3>1, BoxOrderKept, Zenon
  <2> QED BY <1>6, <2>3, <2>4, <2>5, <2>6, <2>7, <2>8, Zenon DEF StructInv
<1> QED BY <1>7, <1>8, Zenon DEF mb_phy_chnl_tx_cmd, m

LEMMA AckSent ==
    ASSUME TypeOK, StructInv, NEW n \in Node, mb_phy_chnl_tx_ack(n)
    PROVE  StructInv'
<1> DEFINE p == Peer(n)
           x == 1 - tx_box[n]
           m == isr[n].msg
<1>0. /\ p \in Node /\ p /= n /\ Peer(p) = n
      /\ tx_box[n] \in Box /\ x \in Box /\ x /= tx_box[n] /\ 1 - x = tx_box[n]
      /\ (tx_box[n] = 0 /\ x = 1) \/ (tx_box[n] = 1 /\ x = 0)
      /\ \A b \in Box : b = x \/ b = tx_box[n]
      /\ MboxType /\ isr \in [Node -> Handler]
  BY PeerFacts, OtherBox DEF TypeOK, MboxType, Box
<1>9. /\ KindsOK(n) /\ KindsOK(p) /\ TwoKinds(p) /\ OneToken(n) /\ OneToken(p)
      /\ OneReference(n) /\ OneReference(p) /\ BoxOrder(p)
  BY <1>0, StructParts, Zenon
<1>1. /\ isr'[n].pc = "idle" /\ isr'[p] = isr[p] /\ isr[n].pc = "tx_ack"
      /\ phy' = phy /\ m \in Msg /\ m.kind = "ack"
  <2>1. isr'[n].pc = "idle" /\ isr'[p] = isr[p] /\ isr[n].pc = "tx_ack" /\ phy' = phy
    BY <1>0, Zenon DEF mb_phy_chnl_tx_ack, Idle
  <2>2. m \in Msg
    BY <1>0, Zenon DEF Handler
  <2>3. KindsOK(n)
    BY DEF StructInv
  <2> QED BY <2>1, <2>2, <2>3, Zenon DEF KindsOK
<1>2. CmdHeld(p) /\ ~Scanning(n) /\ ~AckHeld(n) /\ \A b \in Box : ~Popped(p, b)
  BY <1>0, <1>1, Zenon DEF CmdHeld, Scanning, AckHeld, Popped
<1>3. ~CmdUnread(p) /\ ~AckUnread(p) /\ ~AckHeld(p) /\ ~Scanning(p) /\ ~Lost(p)
      /\ phy[p].tx_state = BUSY
  <2>1. OneToken(p)
    BY <1>0, Zenon DEF StructInv
  <2> QED BY <1>2, <2>1, Zenon DEF OneToken, Token, Lost
<1>4. ~Unread(n, x)
  BY <1>0, <1>3, AckBoxFree
<1>5. /\ CmdHeld(n)' <=> CmdHeld(n)
      /\ ~CmdHeld(p)'
      /\ ~AckHeld(n)'
      /\ ~AckHeld(p)'
      /\ ~Scanning(p)'
      /\ ~Scanning(n)'
      /\ \A b \in Box : ~Popped(p, b)'
  BY <1>0, <1>1, <1>3, Zenon DEF CmdHeld, AckHeld, Scanning, Popped
<1>6. \A d \in Node : d = n \/ d = p
  BY <1>0, Zenon DEF Node
<1> HIDE DEF m
<1>7. CASE bk_mailbox_send(n, m)
  <2>1. /\ tx_box'[n] = x
        /\ tx_box'[p] = tx_box[p]
        /\ mbuff'[n][x] = m
        /\ mbuff'[n][tx_box[n]] = mbuff[n][tx_box[n]]
        /\ mbuff'[p] = mbuff[p]
        /\ fifo'[n] = fifo[n]
        /\ OneReference(n)'
        /\ Pushed(n) \/ Dropped(n)
    BY <1>0, <1>1, <1>4, <1>7, SendEffect, Zenon DEF StructInv
  <2>3. SameBoxes(p)
    BY <1>0, <1>2, <1>5, <2>1, Zenon DEF SameBoxes
  <2>4. \A b \in Box : Unread(n, b)' => b = x \/ (b = tx_box[n] /\ Unread(n, b))
    BY <1>0, <2>1, Zenon DEF Pushed, Dropped
  <2>5. \A b \in Box : Unread(n, b) => Unread(n, b)' /\ b = tx_box[n] /\ mbuff[n][b].kind = "cmd"
    <3>1. \A b \in Box : Unread(n, b) => Unread(n, b)' /\ b = tx_box[n]
      BY <1>0, <1>4, <2>1, Zenon DEF Pushed, Dropped
    <3>2. \A b \in Box : Unread(n, b) => mbuff[n][b].kind = "cmd"
      <4>1. \A b \in Box : Unread(n, b) => mbuff[n][b].kind \in {"cmd", "ack"}
        BY <1>9, Zenon DEF KindsOK
      <4>2. \A b \in Box : ~(Unread(n, b) /\ mbuff[n][b].kind = "ack")
        BY <1>0, <1>3, Zenon DEF AckUnread
      <4> QED BY <4>1, <4>2, Zenon
    <3> QED BY <3>1, <3>2, Zenon
  <2>6. CmdUnread(n)' <=> CmdUnread(n)
    BY <1>0, <1>1, <2>1, <2>4, <2>5, Zenon DEF CmdUnread
  <2>7. /\ \A b \in Box : Unread(p, b)' <=> Unread(p, b)
        /\ \A b \in Box : mbuff'[p][b].kind = mbuff[p][b].kind
        /\ \A a, b \in Box : Behind(p, a, b)' <=> Behind(p, a, b)
        /\ CmdUnread(p)' <=> CmdUnread(p)
        /\ AckUnread(n)' <=> AckUnread(n)
        /\ OneReference(p)' /\ TwoKinds(p)'
    BY <1>0, <1>9, <2>3, SameBoxesFacts, Zenon
  <2>8. KindsOK(n)' /\ KindsOK(p)'
    <3>1. KindsOK(n)'
      BY <1>0, <1>1, <2>1, <2>4, <2>5, Zenon DEF KindsOK
    <3>2. KindsOK(p)'
      BY <1>0, <1>1, <1>9, <2>7, KindsKept, Zenon
    <3> QED BY <3>1, <3>2, Zenon
  <2>9. TwoKinds(n)'
    <3>1. \A b \in Box : Unread(n, b)' /\ b /= x => mbuff'[n][b].kind = "cmd"
      BY <2>1, <2>4, <2>5, Zenon
    <3>2. mbuff'[n][x].kind = "ack"
      BY <1>1, <2>1, Zenon
    <3>3. CASE tx_box[n] = 0 /\ x = 1
      BY <1>0, <3>1, <3>2, <3>3, ZeroOne, Zenon DEF TwoKinds
    <3>4. CASE tx_box[n] = 1 /\ x = 0
      BY <1>0, <3>1, <3>2, <3>4, ZeroOne, Zenon DEF TwoKinds
    <3> QED BY <1>0, <3>3, <3>4, Zenon
  <2>10. OneToken(n)' /\ (Lost(n) => Lost(n)')
    BY <1>1, <1>2, <1>5, <2>6, <2>7, Zenon DEF StructInv, OneToken, Token, Lost
  <2>11. OneToken(p)'
    BY <1>1, <1>3, <1>5, <2>7, Zenon DEF OneToken, Token
  <2>12. BoxOrder(n)'
    <3> SUFFICES ASSUME NEW old \in Box, NEW new \in Box, new = tx_box'[n], old /= new,
                        Unread(n, old)'
                 PROVE \/ Behind(n, old, new)'
                       \/ mbuff'[n][old].kind = "cmd" /\ Lost(p)'
      BY DEF BoxOrder
    <3>1. new = x /\ old = tx_box[n]
      BY <1>0, <2>1, Zenon DEF Box
    <3>2. CASE Pushed(n)
      BY <3>1, <3>2, Zenon DEF Pushed
    <3>3. CASE Dropped(n)
      <4>1. Unread(n, old) /\ mbuff'[n][old].kind = "cmd"
        BY <2>1, <2>5, <3>1, <3>3, Zenon DEF Dropped
      <4>2. ~AckUnread(p)'
        BY <1>0, <1>4, <2>1, <2>5, <3>3, Zenon DEF Dropped, AckUnread
      <4>3. Lost(p)'
        BY <1>1, <1>3, <1>5, <2>7, <4>2, Zenon DEF Lost, Token
      <4> QED BY <4>1, <4>3, Zenon
    <3> QED BY <2>1, <3>2, <3>3, Zenon
  <2>13. BoxOrder(p)'
    BY <1>0, <1>3, <1>9, <2>1, <2>7, <2>10, BoxOrderKept, Zenon
  <2> QED BY <1>6, <2>1, <2>7, <2>8, <2>9, <2>10, <2>11, <2>12, <2>13, Zenon DEF StructInv
<1>8. CASE bk_mailbox_refuse(n)
  <2>1. SameBoxes(n) /\ SameBoxes(p)
    BY <1>0, <1>1, <1>2, <1>5, <1>8, Zenon DEF SameBoxes, bk_mailbox_refuse, mbox, Popped
  <2>3. \A d \in Node : /\ \A b \in Box : Unread(d, b)' <=> Unread(d, b)
                        /\ \A b \in Box : mbuff'[d][b].kind = mbuff[d][b].kind
                        /\ \A a, b \in Box : Behind(d, a, b)' <=> Behind(d, a, b)
                        /\ CmdUnread(d)' <=> CmdUnread(d)
                        /\ AckUnread(d)' <=> AckUnread(d)
                        /\ OneReference(d)' /\ TwoKinds(d)'
    <3> TAKE d \in Node
    <3>1. SameBoxes(d) /\ SameBoxes(Peer(d)) /\ Peer(d) \in Node /\ Peer(Peer(d)) = d
      BY <1>0, <1>6, <2>1, Zenon
    <3>2. OneReference(d) /\ TwoKinds(d)
      BY StructParts, Zenon
    <3> QED BY <3>1, <3>2, SameBoxesFacts, Zenon
  <2>4. \A d \in Node : KindsOK(d)'
    <3>1. KindsOK(n)'
      BY <1>1, <2>3, Zenon DEF StructInv, KindsOK
    <3>2. KindsOK(p)'
      BY <1>0, <1>1, <2>3, Zenon DEF StructInv, KindsOK
    <3> QED BY <1>6, <3>1, <3>2, Zenon
  <2>5. OneToken(n)' /\ (Lost(n) => Lost(n)')
    BY <1>1, <1>2, <1>5, <2>3, Zenon DEF StructInv, OneToken, Token, Lost
  <2>6. OneToken(p)'
    BY <1>0, <1>3, <1>5, <2>3, Zenon DEF OneToken, Token
  <2>7. BoxOrder(n)'
    <3> SUFFICES ASSUME NEW old \in Box, NEW new \in Box, new = tx_box'[n], old /= new,
                        Unread(n, old)'
                 PROVE FALSE
      BY DEF BoxOrder
    <3>1. new = tx_box[n] /\ old = x
      BY <1>0, <2>1, Zenon DEF SameBoxes, Box
    <3> QED BY <1>4, <2>3, <3>1, Zenon
  <2>8. BoxOrder(p)'
    <3>1. BoxOrder(p) /\ tx_box'[p] = tx_box[p]
      BY <1>0, <2>1, Zenon DEF StructInv, SameBoxes
    <3> QED BY <1>0, <1>3, <2>3, <2>5, <3>1, Zenon DEF BoxOrder
  <2> QED BY <1>6, <2>3, <2>4, <2>5, <2>6, <2>7, <2>8, Zenon DEF StructInv
<1> QED BY <1>7, <1>8, Zenon DEF mb_phy_chnl_tx_ack, m

(***************************************************************************)
(* Reading: the FIFO entry is popped, then the box is copied.              *)
(***************************************************************************)
LEMMA PopStep ==
    ASSUME TypeOK, StructInv, NEW n \in Node, mbox0_drv_isr_handler(n)
    PROVE  StructInv'
<1> DEFINE p == Peer(n)
           q == fifo[n]
<1>0. /\ p \in Node /\ p /= n /\ Peer(p) = n
      /\ q \in Seq(Box \cup {IPI}) /\ q /= <<>>
      /\ fifo'[n] = Tail(q) /\ fifo'[p] = fifo[p]
      /\ phy' = phy /\ mbuff' = mbuff /\ tx_box' = tx_box
      /\ isr \in [Node -> Handler] /\ isr[n].pc = "idle" /\ isr'[p] = isr[p]
      /\ \A b \in Box : b /= IPI
  BY PeerFacts DEF mbox0_drv_isr_handler, TypeOK, MboxType, IPI, Box
<1>1. \A d \in Node : d = n \/ d = p
  BY <1>0, Zenon DEF Node
<1>2. isr'[n].pc \in {"idle", "popped"}
  BY <1>0 DEF mbox0_drv_isr_handler
<1>3. /\ \A b \in Box : ~Popped(p, b) /\ (Popped(p, b)' <=> Head(q) = b)
      /\ \A d \in Node : /\ CmdHeld(d)' <=> CmdHeld(d)
                         /\ AckHeld(d)' <=> AckHeld(d)
                         /\ Scanning(d)' <=> Scanning(d)
  <2>1. \A b \in Box : ~Popped(p, b) /\ (Popped(p, b)' <=> Head(q) = b)
    BY <1>0 DEF mbox0_drv_isr_handler, Popped
  <2> QED BY <1>0, <1>1, <1>2, <2>1, Zenon DEF CmdHeld, AckHeld, Scanning
<1>4. SameBoxes(n)
  BY <1>0, Zenon DEF SameBoxes, Popped
<1>5. \A b \in Box : /\ Queued(p, b) <=> Head(q) = b \/ Queued(p, b)'
                     /\ Single(q, b)
                     /\ Single(fifo'[n], b)
                     /\ Head(q) = b => ~Queued(p, b)'
  <2>1. \A b \in Box : Single(q, b)
    BY <1>0, Zenon DEF StructInv, OneReference
  <2> QED BY <1>0, <2>1, PopHas DEF Queued
<1>6. \A b \in Box : Unread(p, b)' <=> Unread(p, b)
  BY <1>3, <1>5, Zenon DEF Unread
<1>7. \A a, b \in Box : Behind(p, a, b) => Behind(p, a, b)'
  <2> SUFFICES ASSUME NEW a \in Box, NEW b \in Box, Behind(p, a, b)
               PROVE Behind(p, a, b)'
    OBVIOUS
  <2>1. Ahead(q, a, b)
    BY <1>0, <1>3, Zenon DEF Behind
  <2>2. (Head(q) /= a => Ahead(Tail(q), a, b)) /\ Has(Tail(q), b)
    BY <1>0, <2>1, PopAhead
  <2> QED BY <1>0, <1>3, <2>2, Zenon DEF Behind, Queued
<1>8. \A d \in Node : /\ \A b \in Box : Unread(d, b)' <=> Unread(d, b)
                      /\ \A a, b \in Box : Behind(d, a, b) => Behind(d, a, b)'
                      /\ OneReference(d)'
  <2>1. OneReference(p)'
    BY <1>0, <1>3, <1>5, Zenon DEF OneReference
  <2> QED BY <1>0, <1>1, <1>4, <1>6, <1>7, <2>1, SameBoxesFacts, Zenon DEF StructInv
<1>9. \A d \in Node : /\ CmdUnread(d)' <=> CmdUnread(d)
                      /\ AckUnread(d)' <=> AckUnread(d)
                      /\ TwoKinds(d)'
  <2> TAKE d \in Node
  <2>1. Peer(d) \in Node /\ TwoKinds(d)
    BY PeerFacts, StructParts, Zenon
  <2>2. /\ CmdUnread(d)' <=> CmdUnread(d)
        /\ AckUnread(d)' <=> AckUnread(d)
    BY <1>0, <1>8, <2>1, Zenon DEF CmdUnread, AckUnread
  <2> QED BY <1>0, <1>8, <2>1, <2>2, TwoKindsKept, Zenon
<1>10. \A d \in Node : KindsOK(d)'
  <2>1. KindsOK(n)'
    BY <1>0, <1>2, <1>8, Zenon DEF StructInv, KindsOK
  <2>2. KindsOK(p)'
    BY <1>0, <1>8, Zenon DEF StructInv, KindsOK
  <2> QED BY <1>1, <2>1, <2>2, Zenon
<1>11. \A d \in Node : OneToken(d)' /\ (Lost(d) => Lost(d)')
  BY <1>0, <1>3, <1>9, Zenon DEF StructInv, OneToken, Token, Lost
<1>12. \A d \in Node : BoxOrder(d)'
  <2> TAKE d \in Node
  <2>1. Peer(d) \in Node /\ BoxOrder(d)
    BY PeerFacts, StructParts, Zenon
  <2> QED BY <1>0, <1>8, <1>11, <2>1, BoxOrderKept, Zenon
<1> QED BY <1>8, <1>9, <1>10, <1>11, <1>12, Zenon DEF StructInv

LEMMA CopyStep ==
    ASSUME TypeOK, StructInv, NEW n \in Node, mbox0_rx_isr(n)
    PROVE  StructInv'
<1> DEFINE p == Peer(n)
           h == isr[n].box
           k == mbuff[p][h].kind
<1>0. /\ p \in Node /\ p /= n /\ Peer(p) = n /\ h \in Box
      /\ isr[n].pc = "popped" /\ isr'[p] = isr[p] /\ isr'[n].pc = "copied"
      /\ isr'[n].msg = mbuff[p][h]
      /\ phy' = phy /\ mbuff' = mbuff /\ tx_box' = tx_box /\ fifo' = fifo
  BY PeerFacts DEF mbox0_rx_isr, TypeOK, Handler, mbox
<1>1. \A d \in Node : d = n \/ d = p
  BY <1>0, Zenon DEF Node
<1>2. \A b \in Box : /\ Popped(p, b) <=> b = h
                     /\ ~Popped(p, b)'
                     /\ Queued(p, b)' <=> Queued(p, b)
  BY <1>0, Zenon DEF Popped, Queued
<1>3. ~Queued(p, h)
  BY <1>0, <1>2, Zenon DEF StructInv, OneReference
<1>4. /\ Unread(p, h)
      /\ \A b \in Box : Unread(p, b)' <=> Unread(p, b) /\ b /= h
  BY <1>0, <1>2, <1>3, Zenon DEF Unread
<1>5. SameBoxes(n)
  BY <1>0, Zenon DEF SameBoxes, Popped
<1>6. k \in {"cmd", "ack"} /\ \A b \in Box : Unread(p, b)' => mbuff[p][b].kind /= k
  <2>1. k \in {"cmd", "ack"}
    BY <1>0, <1>4, Zenon DEF StructInv, KindsOK
  <2>2. TwoKinds(p)
    BY <1>0, Zenon DEF StructInv
  <2> QED BY <1>0, <1>4, <2>1, <2>2 DEF TwoKinds, Box
<1>7. /\ CmdUnread(p) <=> CmdUnread(p)' \/ k = "cmd"
      /\ k = "cmd" => ~CmdUnread(p)'
      /\ AckUnread(n) <=> AckUnread(n)' \/ k = "ack"
      /\ k = "ack" => ~AckUnread(n)'
  BY <1>0, <1>4, <1>6, Zenon DEF CmdUnread, AckUnread
<1>8. /\ CmdUnread(n)' <=> CmdUnread(n)
      /\ AckUnread(p)' <=> AckUnread(p)
  BY <1>0, <1>5, SameBoxesFacts, Zenon
<1>9. /\ CmdHeld(n)' <=> CmdHeld(n)
      /\ ~CmdHeld(p)
      /\ CmdHeld(p)' <=> k = "cmd"
      /\ ~AckHeld(n)
      /\ AckHeld(n)' <=> k = "ack"
      /\ AckHeld(p)' <=> AckHeld(p)
      /\ Scanning(p)' <=> Scanning(p)
      /\ ~Scanning(n) /\ ~Scanning(n)'
  BY <1>0, <1>6, Zenon DEF CmdHeld, AckHeld, Scanning
<1>10. OneToken(n) /\ OneToken(p)
  BY <1>0, Zenon DEF StructInv
<1>11. OneToken(n)' /\ (Lost(n) => Lost(n)')
  BY <1>0, <1>6, <1>7, <1>8, <1>9, <1>10, Zenon DEF OneToken, Token, Lost
<1>12. OneToken(p)' /\ (Lost(p) => Lost(p)')
  BY <1>0, <1>6, <1>7, <1>8, <1>9, <1>10, Zenon DEF OneToken, Token, Lost
<1>13. KindsOK(n)' /\ KindsOK(p)'
  <2>1. KindsOK(n) /\ KindsOK(p)
    BY <1>0, Zenon DEF StructInv
  <2>2. \A b \in Box : Unread(n, b)' <=> Unread(n, b)
    BY <1>5, SameBoxesFacts
  <2> QED BY <1>0, <1>4, <1>6, <2>1, <2>2, Zenon DEF KindsOK
<1>14. TwoKinds(n)' /\ TwoKinds(p)'
  <2>1. TwoKinds(n) /\ TwoKinds(p)
    BY <1>0, Zenon DEF StructInv
  <2>2. TwoKinds(n)'
    BY <1>5, <2>1, SameBoxesFacts, Zenon
  <2> QED BY <1>0, <1>4, <2>1, <2>2, TwoKindsKept, Zenon
<1>15. OneReference(n)' /\ OneReference(p)'
  <2>1. OneReference(n) /\ OneReference(p)
    BY <1>0, Zenon DEF StructInv
  <2>2. OneReference(n)'
    BY <1>5, <2>1, SameBoxesFacts
  <2> QED BY <1>0, <1>2, <2>1, <2>2, Zenon DEF OneReference
<1>16. BoxOrder(n)' /\ BoxOrder(p)'
  <2>1. BoxOrder(n) /\ BoxOrder(p)
    BY <1>0, Zenon DEF StructInv
  <2>2. BoxOrder(n)'
    BY <1>0, <1>5, <1>11, <1>12, <2>1, SameBoxesFacts, Zenon DEF BoxOrder
  <2>3. \A a, b \in Box : a /= h /\ Behind(p, a, b) => Behind(p, a, b)'
    BY <1>0, <1>2, Zenon DEF Behind
  <2>4. BoxOrder(p)'
    BY <1>0, <1>4, <1>11, <1>12, <2>1, <2>3, Zenon DEF BoxOrder
  <2> QED BY <2>2, <2>4, Zenon
<1> QED BY <1>1, <1>11, <1>12, <1>13, <1>14, <1>15, <1>16, Zenon DEF StructInv

(***************************************************************************)
(* Steps that leave the boxes alone: it is enough to look at the handlers. *)
(***************************************************************************)
LEMMA BoxesAlone ==
    ASSUME StructInv, NEW n \in Node, UNCHANGED mbox,
           isr'[Peer(n)] = isr[Peer(n)],
           \A b \in Box : Popped(Peer(n), b)' <=> Popped(Peer(n), b),
           \A d \in Node : OneToken(d)' /\ (Lost(d) => Lost(d)'),
           isr'[n].pc = "copied" => isr'[n].msg.kind \in {"cmd", "ack"},
           isr'[n].pc = "tx_ack" => isr'[n].msg.kind = "ack"
    PROVE  StructInv'
<1>1. \A d \in Node : d = n \/ d = Peer(n)
  BY PeerFacts DEF Node
<1>2. \A d \in Node : SameBoxes(d)
  BY <1>1, PeerFacts, Zenon DEF SameBoxes, Popped, mbox
<1>3. \A d \in Node : /\ \A b \in Box : Unread(d, b)' <=> Unread(d, b)
                      /\ \A b \in Box : mbuff'[d][b].kind = mbuff[d][b].kind
                      /\ \A a, b \in Box : Behind(d, a, b)' <=> Behind(d, a, b)
                      /\ OneReference(d)' /\ TwoKinds(d)'
  BY <1>2, SameBoxesFacts, Zenon DEF StructInv
<1>4. \A d \in Node : KindsOK(d)'
  <2> TAKE d \in Node
  <2>1. KindsOK(d)
    BY StructParts, Zenon
  <2>2. CASE d = n
    BY <1>3, <2>1, <2>2, Zenon DEF KindsOK
  <2>3. CASE d = Peer(n)
    BY <1>3, <2>1, <2>3, KindsKept, Zenon
  <2> QED BY <1>1, <2>2, <2>3, Zenon
<1>5. \A d \in Node : BoxOrder(d)'
  <2> TAKE d \in Node
  <2>1. Peer(d) \in Node /\ BoxOrder(d) /\ tx_box'[d] = tx_box[d]
    BY <1>2, PeerFacts, StructParts, Zenon DEF SameBoxes
  <2> QED BY <1>3, <2>1, BoxOrderKept, Zenon
<1> QED BY <1>3, <1>4, <1>5, Zenon DEF StructInv

LEMMA Untouched ==
    ASSUME StructInv, UNCHANGED <<phy, mbox, isr>>
    PROVE  StructInv'
<1>1. \A d \in Node : SameBoxes(d)
  BY DEF SameBoxes, Popped, mbox
<1>2. \A d \in Node : /\ CmdUnread(d)' <=> CmdUnread(d)
                      /\ AckUnread(d)' <=> AckUnread(d)
  BY <1>1, SameBoxesFacts, PeerFacts, Zenon
<1>3. \A d \in Node : OneToken(d)' /\ (Lost(d) => Lost(d)')
  <2> TAKE d \in Node
  <2>1. OneToken(d)
    BY StructParts, Zenon
  <2>2. (CmdHeld(d)' <=> CmdHeld(d)) /\ (AckHeld(d)' <=> AckHeld(d)) /\ (Scanning(d)' <=> Scanning(d))
    BY Zenon DEF CmdHeld, AckHeld, Scanning
  <2> QED BY <1>2, <2>1, <2>2, Zenon DEF OneToken, Token, Lost
<1>4. "AP" \in Node /\ Peer("AP") \in Node
  BY PeerFacts DEF Node
<1>5. KindsOK("AP")
  BY <1>4, Zenon DEF StructInv
<1>6. /\ isr'["AP"].pc = "copied" => isr'["AP"].msg.kind \in {"cmd", "ack"}
      /\ isr'["AP"].pc = "tx_ack" => isr'["AP"].msg.kind = "ack"
  BY <1>5, Zenon DEF KindsOK
<1> QED BY <1>1, <1>3, <1>4, <1>6, BoxesAlone, Zenon DEF SameBoxes

LEMMA AckIsrStep ==
    ASSUME TypeOK, StructInv, NEW n \in Node, mb_phy_chnl_rx_ack_isr(n)
    PROVE  StructInv'
<1> DEFINE p == Peer(n)
<1>0. /\ p \in Node /\ p /= n /\ Peer(p) = n /\ isr \in [Node -> Handler]
  BY PeerFacts DEF TypeOK
<1>1. /\ isr[n].pc = "copied" /\ isr[n].msg.kind \in {"ack", "reset"}
      /\ isr'[p] = isr[p] /\ isr'[n].pc \in {"idle", "scan"}
      /\ phy' = phy /\ UNCHANGED mbox
  BY <1>0 DEF mb_phy_chnl_rx_ack_isr, Idle
<1>2. AckHeld(n) /\ OneToken(n) /\ OneToken(p)
  BY <1>0, <1>1, Zenon DEF StructInv, KindsOK, AckHeld
<1>3. \A b \in Box : ~Popped(p, b) /\ ~Popped(p, b)'
  BY <1>0, <1>1, Zenon DEF Popped
<1>4. SameBoxes(n) /\ SameBoxes(p)
  BY <1>0, <1>1, <1>3, Zenon DEF SameBoxes, Popped, mbox
<1>5. \A d \in {n, p} : /\ CmdUnread(d)' <=> CmdUnread(d)
                        /\ AckUnread(d)' <=> AckUnread(d)
  BY <1>0, <1>4, SameBoxesFacts, Zenon
<1>6. /\ CmdHeld(n)' <=> CmdHeld(n)
      /\ ~CmdHeld(p) /\ ~CmdHeld(p)'
      /\ ~AckHeld(n)'
      /\ AckHeld(p)' <=> AckHeld(p)
      /\ Scanning(p)' <=> Scanning(p)
  BY <1>0, <1>1, Zenon DEF CmdHeld, AckHeld, Scanning
<1>7. OneToken(n)' /\ (Lost(n) => Lost(n)')
  BY <1>1, <1>2, <1>5, <1>6, Zenon DEF OneToken, Token, Lost
<1>8. OneToken(p)' /\ (Lost(p) => Lost(p)')
  BY <1>1, <1>2, <1>5, <1>6, Zenon DEF OneToken, Token, Lost
<1>9. \A d \in Node : OneToken(d)' /\ (Lost(d) => Lost(d)')
  BY <1>0, <1>7, <1>8, Zenon DEF Node
<1> QED BY <1>0, <1>1, <1>3, <1>9, BoxesAlone, Zenon

LEMMA CmdIsrStep ==
    ASSUME TypeOK, StructInv, NEW n \in Node, mb_phy_chnl_rx_cmd_isr(n)
    PROVE  StructInv'
<1> DEFINE p == Peer(n)
<1>0. /\ p \in Node /\ p /= n /\ Peer(p) = n /\ isr \in [Node -> Handler]
  BY PeerFacts DEF TypeOK
<1>1. isr[n].pc = "copied" /\ isr[n].msg.kind = "cmd"
  BY <1>0, Zenon DEF mb_phy_chnl_rx_cmd_isr, StructInv, KindsOK
<1>2. /\ isr'[p] = isr[p] /\ isr'[n].pc = "tx_ack" /\ isr'[n].msg.kind = "ack"
      /\ phy' = phy /\ UNCHANGED mbox
  BY <1>0, <1>1, Zenon DEF mb_phy_chnl_rx_cmd_isr, Ack
<1>3. \A b \in Box : ~Popped(p, b) /\ ~Popped(p, b)'
  BY <1>0, <1>1, <1>2, Zenon DEF Popped
<1>4. SameBoxes(n) /\ SameBoxes(p)
  BY <1>0, <1>2, <1>3, Zenon DEF SameBoxes, Popped, mbox
<1>5. \A d \in {n, p} : /\ CmdUnread(d)' <=> CmdUnread(d)
                        /\ AckUnread(d)' <=> AckUnread(d)
  BY <1>0, <1>4, SameBoxesFacts, Zenon
<1>6. \A d \in {n, p} : /\ CmdHeld(d)' <=> CmdHeld(d)
                        /\ AckHeld(d)' <=> AckHeld(d)
                        /\ Scanning(d)' <=> Scanning(d)
  BY <1>0, <1>1, <1>2, Zenon DEF CmdHeld, AckHeld, Scanning
<1>7. \A d \in {n, p} : OneToken(d)' /\ (Lost(d) => Lost(d)')
  BY <1>0, <1>2, <1>5, <1>6, Zenon DEF StructInv, OneToken, Token, Lost
<1>8. \A d \in Node : OneToken(d)' /\ (Lost(d) => Lost(d)')
  BY <1>0, <1>7, Zenon DEF Node
<1> QED BY <1>0, <1>2, <1>3, <1>8, BoxesAlone, Zenon

LEMMA ScanStep ==
    ASSUME TypeOK, StructInv, NEW n \in Node, mb_phy_chnl_scan(n)
    PROVE  StructInv'
<1> DEFINE p == Peer(n)
<1>0. /\ p \in Node /\ p /= n /\ Peer(p) = n /\ isr \in [Node -> Handler]
      /\ phy \in [Node -> Phy] /\ IDLE /= BUSY
  BY PeerFacts DEF TypeOK, TxType, IDLE, BUSY
<1>1. isr[n].pc = "scan" /\ isr'[n].pc = "idle" /\ isr'[p] = isr[p] /\ Scanning(n)
  BY <1>0, Zenon DEF mb_phy_chnl_scan, Idle, Scanning
<1>2. CASE UNCHANGED mbox /\ phy' = [phy EXCEPT ![n] = [tx_state |-> IDLE,
               tx_seq |-> phy[n].tx_seq, tx_log_chnl |-> phy[n].tx_log_chnl]]
  <2>1. phy'[n].tx_state = IDLE /\ phy'[p] = phy[p]
    BY <1>0, <1>2
  <2>2. \A b \in Box : ~Popped(p, b) /\ ~Popped(p, b)'
    BY <1>0, <1>1, Zenon DEF Popped
  <2>3. SameBoxes(n) /\ SameBoxes(p)
    BY <1>0, <1>1, <1>2, <2>2, Zenon DEF SameBoxes, Popped, mbox
  <2>4. \A d \in {n, p} : /\ CmdUnread(d)' <=> CmdUnread(d)
                          /\ AckUnread(d)' <=> AckUnread(d)
    BY <1>0, <2>3, SameBoxesFacts, Zenon
  <2>5. /\ CmdHeld(n)' <=> CmdHeld(n)
        /\ ~CmdHeld(p) /\ ~CmdHeld(p)'
        /\ ~AckHeld(n) /\ ~AckHeld(n)' /\ ~Scanning(n)'
        /\ AckHeld(p)' <=> AckHeld(p)
        /\ Scanning(p)' <=> Scanning(p)
    BY <1>0, <1>1, Zenon DEF CmdHeld, AckHeld, Scanning
  <2>6. OneToken(n) /\ OneToken(p)
    BY <1>0, Zenon DEF StructInv
  <2>7. OneToken(n)' /\ (Lost(n) => Lost(n)')
    BY <1>1, <2>4, <2>5, <2>6, Zenon DEF OneToken, Token, Lost
  <2>8. OneToken(p)' /\ (Lost(p) => Lost(p)')
    BY <2>1, <2>4, <2>5, <2>6, Zenon DEF OneToken, Token, Lost
  <2>9. \A d \in Node : OneToken(d)' /\ (Lost(d) => Lost(d)')
    BY <1>0, <2>7, <2>8, Zenon DEF Node
  <2> QED BY <1>0, <1>1, <1>2, <2>2, <2>9, BoxesAlone, Zenon
<1>3. ASSUME NEW c \in tx_busy[n], mb_phy_chnl_tx_cmd(n, c, tx_buff[n][c], tx_busy[n])
      PROVE StructInv'
  <2>1. c \in Chan /\ tx_buff[n][c] \in Nat /\ tx_busy[n] \in SUBSET Chan
    BY DEF TypeOK, TxType
  <2> QED BY <1>1, <1>3, <2>1, CmdSent, Zenon
<1> QED BY <1>2, <1>3, Zenon DEF mb_phy_chnl_scan

LEMMA AppStep ==
    ASSUME TypeOK, StructInv, NEW n \in Node, NEW c \in Chan, App(n, c)
    PROVE  StructInv'
<1>1. CASE mb_chnl_write(n, c)
  <2>1. written[n] + 1 \in Nat /\ tx_busy[n] \cup {c} \in SUBSET Chan
    BY DEF TypeOK, HistoryType, TxType
  <2>2. CASE phy[n].tx_state = IDLE
             /\ mb_phy_chnl_tx_cmd(n, c, written[n] + 1, tx_busy[n] \cup {c})
    BY <1>1, <2>1, <2>2, CmdSent, Zenon DEF mb_chnl_write
  <2>3. CASE UNCHANGED <<phy, mbox>>
    BY <1>1, <2>3, Untouched, Zenon DEF mb_chnl_write
  <2> QED BY <1>1, <2>2, <2>3, Zenon DEF mb_chnl_write, mb_phy_chnl_start_tx
<1>2. CASE UNCHANGED <<phy, mbox, isr>>
  BY <1>2, Untouched
<1> QED BY <1>1, <1>2, Zenon DEF App, mb_chnl_open, mb_chnl_close, mb_chnl_close_end,
                          mb_chnl_ctrl_set, mb_chnl_ctrl_clear

LEMMA IpiStep ==
    ASSUME TypeOK, StructInv, NEW n \in Node, bk_mailbox_master_send(n)
    PROVE  StructInv'
<1> DEFINE p == Peer(n)
           q == fifo[n]
<1>0. /\ p \in Node /\ p /= n /\ Peer(p) = n
      /\ q \in Seq(Box \cup {IPI}) /\ IPI \in Box \cup {IPI}
      /\ fifo'[n] = Append(q, IPI) /\ fifo'[p] = fifo[p]
      /\ phy' = phy /\ mbuff' = mbuff /\ tx_box' = tx_box /\ isr' = isr
      /\ \A b \in Box : b /= IPI
  BY PeerFacts DEF bk_mailbox_master_send, TypeOK, MboxType, IPI, Box
<1>1. \A d \in Node : d = n \/ d = p
  BY <1>0, Zenon DEF Node
<1>2. SameBoxes(n)
  BY <1>0, Zenon DEF SameBoxes, Popped
<1>3. \A b \in Box : /\ Popped(p, b)' <=> Popped(p, b)
                     /\ Queued(p, b)' <=> Queued(p, b)
                     /\ Single(q, b) => Single(fifo'[n], b)
  BY <1>0, PushHas, PushSingle DEF Popped, Queued
<1>4. \A b \in Box : Unread(p, b)' <=> Unread(p, b)
  BY <1>3, Zenon DEF Unread
<1>5. \A a, b \in Box : Behind(p, a, b) => Behind(p, a, b)'
  <2> TAKE a, b \in Box
  <2>1. Ahead(q, a, b) => Ahead(fifo'[n], a, b)
    BY <1>0, PushAhead
  <2> QED BY <1>0, <1>3, <2>1, Zenon DEF Behind
<1>6. OneReference(p)'
  BY <1>0, <1>3, Zenon DEF StructInv, OneReference
<1>7. \A d \in Node : /\ \A b \in Box : Unread(d, b)' <=> Unread(d, b)
                      /\ \A a, b \in Box : Behind(d, a, b) => Behind(d, a, b)'
                      /\ OneReference(d)'
  BY <1>0, <1>1, <1>2, <1>4, <1>5, <1>6, SameBoxesFacts, Zenon DEF StructInv
<1>8. \A d \in Node : /\ CmdUnread(d)' <=> CmdUnread(d)
                      /\ AckUnread(d)' <=> AckUnread(d)
                      /\ TwoKinds(d)' /\ KindsOK(d)'
  <2> TAKE d \in Node
  <2>1. Peer(d) \in Node /\ TwoKinds(d) /\ KindsOK(d)
    BY PeerFacts, StructParts, Zenon
  <2>2. /\ CmdUnread(d)' <=> CmdUnread(d)
        /\ AckUnread(d)' <=> AckUnread(d)
    BY <1>0, <1>7, <2>1, Zenon DEF CmdUnread, AckUnread
  <2>3. TwoKinds(d)'
    BY <1>0, <1>7, <2>1, TwoKindsKept, Zenon
  <2>4. KindsOK(d)'
    BY <1>0, <1>7, <2>1, KindsKept, Zenon
  <2> QED BY <2>2, <2>3, <2>4, Zenon
<1>9. \A d \in Node : OneToken(d)' /\ (Lost(d) => Lost(d)')
  <2> TAKE d \in Node
  <2>1. OneToken(d)
    BY StructParts, Zenon
  <2>2. (CmdHeld(d)' <=> CmdHeld(d)) /\ (AckHeld(d)' <=> AckHeld(d)) /\ (Scanning(d)' <=> Scanning(d))
    BY <1>0, Zenon DEF CmdHeld, AckHeld, Scanning
  <2> QED BY <1>0, <1>8, <2>1, <2>2, Zenon DEF OneToken, Token, Lost
<1>10. \A d \in Node : BoxOrder(d)'
  <2> TAKE d \in Node
  <2>1. Peer(d) \in Node /\ BoxOrder(d)
    BY PeerFacts, StructParts, Zenon
  <2> QED BY <1>0, <1>7, <1>9, <2>1, BoxOrderKept, Zenon
<1> QED BY <1>7, <1>8, <1>9, <1>10, Zenon DEF StructInv

LEMMA StructStep == TypeOK /\ StructInv /\ [Next]_vars => StructInv'
<1> SUFFICES ASSUME TypeOK, StructInv, [Next]_vars PROVE StructInv'
  OBVIOUS
<1>1. CASE UNCHANGED vars
  BY <1>1, Untouched, Zenon DEF vars
<1>2. ASSUME NEW n \in Node, Isr(n) PROVE StructInv'
  BY <1>2, PopStep, CopyStep, AckIsrStep, ScanStep, CmdIsrStep, AckSent, Zenon DEF Isr
<1> QED BY <1>1, <1>2, IpiStep, AppStep, Zenon DEF Next

LEMMA StructInit == Init => StructInv
<1> SUFFICES ASSUME Init PROVE StructInv
  OBVIOUS
<1>1. \A n \in Node : fifo[n] = <<>> /\ isr[n].pc = "idle" /\ phy[n].tx_state = IDLE
  BY DEF Init, InitWith, Idle
<1>2. \A n \in Node, b \in Box : ~Queued(n, b) /\ ~Popped(n, b) /\ ~Unread(n, b)
  BY <1>1, PeerFacts DEF Queued, Popped, Unread, Has
<1>3. \A n \in Node : ~CmdUnread(n) /\ ~AckUnread(n) /\ ~CmdHeld(n) /\ ~AckHeld(n) /\ ~Scanning(n)
  BY <1>1, <1>2, PeerFacts, Zenon DEF CmdUnread, AckUnread, CmdHeld, AckHeld, Scanning
<1>4. \A n \in Node, b \in Box : Single(fifo[Peer(n)], b)
  BY <1>1, PeerFacts DEF Single
<1>5. \A n \in Node : KindsOK(n) /\ TwoKinds(n)
  BY <1>1, <1>2, ZeroOne, Zenon DEF KindsOK, TwoKinds
<1>6. \A n \in Node : OneToken(n) /\ OneReference(n) /\ BoxOrder(n)
  BY <1>2, <1>3, <1>4, Zenon DEF OneToken, Token, OneReference, BoxOrder
<1> QED BY <1>5, <1>6, Zenon DEF StructInv

\* Each direction has at most one command, in one place, and the physical channel is
\* BUSY while it travels; the box that the next send fills has been read, unless the
\* send is impossible.  This holds for any depth of the FIFOs, any number of channels
\* and of interrupts, and for any modulus of tx_seq.
THEOREM StructCorrect == Spec => []StructInv
<1>1. Init => TypeOK /\ StructInv
  BY TypeInit, StructInit
<1>2. TypeOK /\ StructInv /\ [Next]_vars => (TypeOK /\ StructInv)'
  BY TypeStep, StructStep
<1> QED BY <1>1, <1>2, PTL DEF Spec

(***************************************************************************)
(* Only sends write to a box, and they write to a free one.                *)
(***************************************************************************)
LEMMA SendIntact ==
    ASSUME MboxType, NEW n \in Node, NEW m, bk_mailbox_send(n, m), ~Unread(n, 1 - tx_box[n]),
           NEW d \in Node, NEW b \in Box, Unread(d, b)
    PROVE  mbuff'[d][b] = mbuff[d][b]
<1>1. (tx_box[n] + 1) % 2 = 1 - tx_box[n]
  BY OtherBox DEF MboxType
<1>2. d /= n \/ b /= 1 - tx_box[n]
  OBVIOUS
<1> QED BY <1>1, <1>2 DEF bk_mailbox_send, MboxType

LEMMA TxCmdIntact ==
    ASSUME TypeOK, StructInv, NEW n \in Node, NEW c, NEW id, NEW busy,
           mb_phy_chnl_tx_cmd(n, c, id, busy), phy[n].tx_state = IDLE \/ Scanning(n),
           NEW d \in Node, NEW b \in Box, Unread(d, b)
    PROVE  mbuff'[d][b] = mbuff[d][b]
<1>1. OneToken(n) /\ IDLE /= BUSY /\ MboxType
  BY DEF StructInv, IDLE, BUSY, TypeOK
<1>2. ~CmdUnread(n) /\ ~Lost(n)
  BY <1>1, Zenon DEF OneToken, Token, Lost
<1>3. ~Unread(n, 1 - tx_box[n])
  BY <1>1, <1>2, CmdBoxFree
<1>4. CASE bk_mailbox_refuse(n)
  BY <1>4, Zenon DEF bk_mailbox_refuse, mbox
<1>5. ASSUME NEW m, bk_mailbox_send(n, m) PROVE mbuff'[d][b] = mbuff[d][b]
  BY <1>1, <1>3, <1>5, SendIntact, Zenon
<1> QED BY <1>4, <1>5, Zenon DEF mb_phy_chnl_tx_cmd

LEMMA IntactStep ==
    ASSUME TypeOK, StructInv, Next, NEW d \in Node, NEW b \in Box, Unread(d, b)
    PROVE  mbuff'[d][b] = mbuff[d][b]
<1>1. ASSUME NEW n \in Node, mb_phy_chnl_tx_ack(n) PROVE mbuff'[d][b] = mbuff[d][b]
  <2>1. OneToken(Peer(n)) /\ MboxType /\ CmdHeld(Peer(n))
    BY <1>1, PeerFacts, Zenon DEF StructInv, TypeOK, mb_phy_chnl_tx_ack, CmdHeld
  <2>2. ~AckUnread(Peer(n)) /\ ~Lost(Peer(n))
    BY <2>1, Zenon DEF OneToken, Token, Lost
  <2>3. ~Unread(n, 1 - tx_box[n])
    BY <2>1, <2>2, AckBoxFree
  <2>4. CASE bk_mailbox_refuse(n)
    BY <2>4, Zenon DEF bk_mailbox_refuse, mbox
  <2>5. CASE bk_mailbox_send(n, isr[n].msg)
    BY <2>1, <2>3, <2>5, SendIntact, Zenon
  <2> QED BY <1>1, <2>4, <2>5, Zenon DEF mb_phy_chnl_tx_ack
<1>2. ASSUME NEW n \in Node, mb_phy_chnl_scan(n) PROVE mbuff'[d][b] = mbuff[d][b]
  <2>1. Scanning(n)
    BY <1>2, Zenon DEF mb_phy_chnl_scan, Scanning
  <2>2. CASE UNCHANGED mbox
    BY <2>2, Zenon DEF mbox
  <2>3. ASSUME NEW c, mb_phy_chnl_tx_cmd(n, c, tx_buff[n][c], tx_busy[n])
        PROVE mbuff'[d][b] = mbuff[d][b]
    BY <2>1, <2>3, TxCmdIntact
  <2> QED BY <1>2, <2>2, <2>3, Zenon DEF mb_phy_chnl_scan
<1>3. ASSUME NEW n \in Node, NEW c \in Chan, mb_chnl_write(n, c)
      PROVE mbuff'[d][b] = mbuff[d][b]
  <2>1. CASE UNCHANGED mbox
    BY <2>1, Zenon DEF mbox
  <2>2. CASE phy[n].tx_state = IDLE
             /\ mb_phy_chnl_tx_cmd(n, c, written[n] + 1, tx_busy[n] \cup {c})
    BY <2>2, TxCmdIntact
  <2> QED BY <1>3, <2>1, <2>2, Zenon DEF mb_chnl_write, mb_phy_chnl_start_tx
<1>4. ASSUME NEW n \in Node, Isr(n) PROVE mbuff'[d][b] = mbuff[d][b]
  <2>1. CASE mbox0_drv_isr_handler(n)
    BY <2>1, Zenon DEF mbox0_drv_isr_handler
  <2>2. CASE mbox0_rx_isr(n) \/ mb_phy_chnl_rx_ack_isr(n) \/ mb_phy_chnl_rx_cmd_isr(n)
    <3>1. UNCHANGED mbox
      BY <2>2, Zenon DEF mbox0_rx_isr, mb_phy_chnl_rx_ack_isr, mb_phy_chnl_rx_cmd_isr
    <3> QED BY <3>1, Zenon DEF mbox
  <2> QED BY <1>1, <1>2, <1>4, <2>1, <2>2, Zenon DEF Isr
<1>5. ASSUME NEW n \in Node, NEW c \in Chan, App(n, c) PROVE mbuff'[d][b] = mbuff[d][b]
  <2>1. mb_chnl_write(n, c) \/ UNCHANGED mbox
    BY <1>5, Zenon DEF App, mb_chnl_open, mb_chnl_close, mb_chnl_close_end, mb_chnl_ctrl_set,
                mb_chnl_ctrl_clear
  <2> QED BY <1>3, <2>1, Zenon DEF mbox
<1>6. ASSUME NEW n \in Node, bk_mailbox_master_send(n) PROVE mbuff'[d][b] = mbuff[d][b]
  BY <1>6, Zenon DEF bk_mailbox_master_send
<1> QED BY <1>4, <1>5, <1>6, Zenon DEF Next

\* The two boxes of bk_mailbox_send are enough: no send overwrites a message whose
\* address the peer has not read yet or is about to copy.
THEOREM UnreadIntactCorrect == Spec => UnreadIntact
<1>1. TypeOK /\ StructInv /\ [Next]_vars
        => [\A n \in Node, b \in Box : Unread(n, b) => mbuff'[n][b] = mbuff[n][b]]_vars
  BY IntactStep
<1> QED BY <1>1, TypeCorrect, StructCorrect, PTL DEF Spec, UnreadIntact
=============================================================================
