------------------------ MODULE MailboxLinkProofs ------------------------
(***************************************************************************)
(* Where the messages of a direction go, step by step, and what follows:   *)
(* the order of the identities, the freedom from stranded commands, and    *)
(* that MailboxChannel implements ChannelLink.                             *)
(***************************************************************************)
EXTENDS MailboxMatchProofs, MailboxLink

(***************************************************************************)
(* The messages of a direction                                             *)
(***************************************************************************)
Travels(n, m) ==
    \/ \E b \in Box : Unread(n, b) /\ mbuff[n][b].kind = "cmd" /\ m = mbuff[n][b]
    \/ CmdHeld(n) /\ m = isr[Peer(n)].msg
    \/ \E b \in Box : /\ Unread(Peer(n), b) /\ mbuff[Peer(n)][b].kind = "ack"
                      /\ m = mbuff[Peer(n)][b]
    \/ AckHeld(n) /\ m = isr[n].msg

LEMMA TravelIff == \A n \in Node : \A m : m \in Travelling(n) <=> Travels(n, m)
BY DEF Travelling, Boxed, Travels

LEMMA TravelIffNext == \A n \in Node : \A m : m \in Travelling(n)' <=> Travels(n, m)'
BY DEF Travelling, Boxed, Travels

LEMMA TravelSet ==
    ASSUME NEW n \in Node
    PROVE  /\ (\A m : Travels(n, m)' <=> Travels(n, m)) => Travelling(n)' = Travelling(n)
           /\ (\A m : ~Travels(n, m)) => Travelling(n) = {}
           /\ (\A m : ~Travels(n, m)') => Travelling(n)' = {}
           /\ \A x : (\A m : Travels(n, m) <=> m = x) => Travelling(n) = {x}
           /\ \A x : (\A m : Travels(n, m)' <=> m = x) => Travelling(n)' = {x}
BY TravelIff, TravelIffNext

LEMMA TravelMsg == TypeOK => \A n \in Node : Travelling(n) \subseteq Msg
<1> SUFFICES ASSUME TypeOK, NEW n \in Node, NEW m, Travels(n, m) PROVE m \in Msg
  BY TravelIff
<1>1. Peer(n) \in Node /\ mbuff \in [Node -> [Box -> Msg]] /\ isr \in [Node -> Handler]
  BY PeerFacts DEF TypeOK, MboxType
<1> QED BY <1>1 DEF Travels, Handler

\* a direction without a message and without a handler that looks for the next one
LEMMA TokenTravels == \A n \in Node : Token(n) <=> Travelling(n) /= {} \/ Scanning(n)
<1> SUFFICES ASSUME NEW n \in Node PROVE Token(n) <=> (\E m : Travels(n, m)) \/ Scanning(n)
  BY TravelIff
<1> QED BY Zenon DEF Token, Travels, CmdUnread, AckUnread

\* a step that moves nothing in the direction of d
LEMMA TravelKept ==
    ASSUME NEW d \in Node,
           \A b \in Box : mbuff'[d][b].kind = "cmd" /\ Unread(d, b)'
                          <=> mbuff[d][b].kind = "cmd" /\ Unread(d, b),
           \A b \in Box : Unread(d, b) => mbuff'[d][b] = mbuff[d][b],
           \A b \in Box : mbuff'[Peer(d)][b].kind = "ack" /\ Unread(Peer(d), b)'
                          <=> mbuff[Peer(d)][b].kind = "ack" /\ Unread(Peer(d), b),
           \A b \in Box : Unread(Peer(d), b) => mbuff'[Peer(d)][b] = mbuff[Peer(d)][b],
           CmdHeld(d)' <=> CmdHeld(d), CmdHeld(d) => isr'[Peer(d)].msg = isr[Peer(d)].msg,
           AckHeld(d)' <=> AckHeld(d), AckHeld(d) => isr'[d].msg = isr[d].msg
    PROVE  Travelling(d)' = Travelling(d)
<1> SUFFICES ASSUME NEW m PROVE Travels(d, m)' <=> Travels(d, m)
  BY TravelSet
<1> QED BY Zenon DEF Travels

(***************************************************************************)
(* What the steps do, seen from the two directions                         *)
(***************************************************************************)
Still(d) == Travelling(d)' = Travelling(d) /\ (Scanning(d)' <=> Scanning(d))

\* bk_mailbox_send of node n may be refused, or its address dropped
Crowded(n) ==
    \/ Full(Peer(n))
    \/ Len(fifo[Peer(n)]) = FifoLen[Peer(n)] - 1 /\ ipis[Peer(n)] < MaxIpi[Peer(n)]

Command(c, seq, id) == [kind |-> "cmd", chan |-> c, seq |-> seq, fail |-> FALSE, id |-> id]

\* mb_phy_chnl_tx_cmd: the command leaves, unless the FIFO is crowded
Leaves(n, c, id, busy) ==
    /\ Travelling(n) = {} /\ ~Scanning(n)' /\ Still(Peer(n))
    /\ ~Unread(n, 1 - tx_box[n])
    /\ phy'[n].tx_log_chnl = c /\ phy'[Peer(n)] = phy[Peer(n)]
    /\ \/ /\ \E seq \in 0..SeqMod-1 : Travelling(n)' = {Command(c, seq, id)}
          /\ phy'[n].tx_state = BUSY
          /\ tx_busy' = [tx_busy EXCEPT ![n] = busy \ {c}]
       \/ /\ Crowded(n)
          /\ Travelling(n)' = {}
          /\ tx_busy' = [tx_busy EXCEPT ![n] = busy] \/ tx_busy' = [tx_busy EXCEPT ![n] = busy \ {c}]

LEMMA TxCmdMoves ==
    ASSUME TypeOK, StructInv, NEW n \in Node, NEW c \in Chan, NEW id \in Nat,
           NEW busy \in SUBSET Chan, mb_phy_chnl_tx_cmd(n, c, id, busy),
           \/ phy[n].tx_state = IDLE /\ isr'[n] = isr[n]
           \/ Scanning(n) /\ isr'[n].pc = "idle",
           isr'[Peer(n)] = isr[Peer(n)]
    PROVE  Leaves(n, c, id, busy)
<1> DEFINE p == Peer(n)
           seq == (phy[n].tx_seq + 1) % SeqMod
           m == Command(c, seq, id)
<1>a. PICK x : x = 1 - tx_box[n]
  OBVIOUS
<1>0. /\ p \in Node /\ p /= n /\ Peer(p) = n /\ MboxType /\ phy \in [Node -> Phy]
      /\ IDLE /= BUSY
      /\ x = 1 - tx_box[n] /\ x \in Box /\ tx_box[n] \in Box /\ x /= tx_box[n]
      /\ \A b \in Box : b = x \/ b = tx_box[n]
  BY <1>a, PeerFacts, OtherBox DEF TypeOK, TxType, MboxType, IDLE, BUSY, Box
<1>1. ~CmdUnread(n) /\ ~CmdHeld(n) /\ ~AckUnread(n) /\ ~AckHeld(n) /\ ~Lost(n)
  <2>1. OneToken(n)
    BY DEF StructInv
  <2>2. CASE phy[n].tx_state = IDLE
    BY <1>0, <2>1, <2>2, Zenon DEF OneToken, Token, Lost
  <2>3. CASE Scanning(n)
    BY <2>1, <2>3, Zenon DEF OneToken, Token, Lost, AckHeld, Scanning
  <2> QED BY <2>2, <2>3, Zenon
<1>2. ~Unread(n, x) /\ ~Unread(n, 1 - tx_box[n])
  BY <1>0, <1>1, CmdBoxFree
<1>3. seq \in 0..SeqMod-1 /\ m \in Msg
  <2>1. seq \in 0..SeqMod-1
    BY <1>0, ConstantsOK DEF Phy
  <2> QED BY <2>1, Zenon DEF Msg, Kind, Command
<1>4. phy'[p] = phy[p] /\ phy'[n].tx_log_chnl = c
  <2>1. phy'[p] = phy[p]
    BY <1>0, Zenon DEF mb_phy_chnl_tx_cmd
  <2> QED BY <1>0, <2>1 DEF mb_phy_chnl_tx_cmd
<1>5. /\ isr'[n] = isr[n] \/ (isr[n].pc = "scan" /\ isr'[n].pc = "idle")
      /\ ~Scanning(n)' /\ (Scanning(p)' <=> Scanning(p))
      /\ CmdHeld(p)' <=> CmdHeld(p)
      /\ CmdHeld(p) => isr'[n].msg = isr[n].msg
      /\ AckHeld(p)' <=> AckHeld(p)
      /\ ~CmdHeld(n)' /\ ~AckHeld(n)'
      /\ \A b \in Box : (Popped(n, b)' <=> Popped(n, b)) /\ (Popped(p, b)' <=> Popped(p, b))
  <2>1. Scanning(n) => Token(n)
    BY DEF Token
  <2>2. phy[n].tx_state = IDLE => ~Scanning(n)
    BY <1>0, <2>1, Zenon DEF StructInv, OneToken
  <2> QED BY <1>0, <1>1, <2>2, Zenon DEF Scanning, Popped, CmdHeld, AckHeld
<1>6. Travelling(n) = {}
  <2>1. \A y : ~Travels(n, y)
    BY <1>1, Zenon DEF Travels, CmdUnread, AckUnread
  <2> QED BY <2>1, TravelSet
<1>7. CASE bk_mailbox_send(n, m)
  <2>1. /\ mbuff'[n][x] = m /\ mbuff'[n][tx_box[n]] = mbuff[n][tx_box[n]]
        /\ mbuff'[p] = mbuff[p] /\ fifo'[n] = fifo[n]
        /\ Pushed(n) \/ Dropped(n)
    <3>1. OneReference(n)
      BY DEF StructInv
    <3> HIDE DEF m
    <3> QED BY <1>0, <1>2, <1>3, <1>7, <3>1, SendEffect
  <2>2. \A b \in Box : (Unread(p, b)' <=> Unread(p, b)) /\ mbuff'[p][b] = mbuff[p][b]
    BY <1>0, <1>5, <2>1, Zenon DEF Unread, Queued
  <2>3. m.kind = "cmd"
    BY Zenon DEF Command
  <2>4. \A b \in Box : b /= x => (Unread(n, b)' <=> Unread(n, b)) /\ mbuff'[n][b] = mbuff[n][b]
    BY <1>0, <2>1, Zenon DEF Pushed, Dropped
  <2>5. Travelling(p)' = Travelling(p)
    <3>1. \A b \in Box : /\ mbuff'[n][b].kind = "ack" /\ Unread(n, b)'
                            <=> mbuff[n][b].kind = "ack" /\ Unread(n, b)
                         /\ Unread(n, b) => mbuff'[n][b] = mbuff[n][b]
      <4> HIDE DEF m
      <4> QED BY <1>0, <1>2, <2>1, <2>3, <2>4, Zenon
    <3>2. \A b \in Box : /\ mbuff'[p][b].kind = "cmd" /\ Unread(p, b)'
                            <=> mbuff[p][b].kind = "cmd" /\ Unread(p, b)
                         /\ Unread(p, b) => mbuff'[p][b] = mbuff[p][b]
      BY <2>2, Zenon
    <3>3. \A b \in Box : /\ mbuff'[Peer(p)][b].kind = "ack" /\ Unread(Peer(p), b)'
                            <=> mbuff[Peer(p)][b].kind = "ack" /\ Unread(Peer(p), b)
                         /\ Unread(Peer(p), b) => mbuff'[Peer(p)][b] = mbuff[Peer(p)][b]
      BY <1>0, <3>1, Zenon
    <3>4. (CmdHeld(p) => isr'[Peer(p)].msg = isr[Peer(p)].msg) /\ isr'[p] = isr[p]
      BY <1>0, <1>5, Zenon
    <3> HIDE DEF p
    <3> QED BY <1>0, <1>5, <3>2, <3>3, <3>4, TravelKept, Zenon
  <2>6. CASE Pushed(n)
    <3>1. Unread(n, x)'
      BY <1>0, <2>6, Zenon DEF Pushed
    <3>2. \A y : Travels(n, y)' <=> y = m
      <4> HIDE DEF m
      <4> QED BY <1>0, <1>1, <1>5, <2>1, <2>2, <2>3, <2>4, <3>1, ZenonT(40)
              DEF Travels, CmdUnread, AckUnread
    <3>3. Travelling(n)' = {m}
      BY <3>2, TravelSet
    <3>4. Full(p) \/ (phy'[n].tx_state = BUSY /\ tx_busy' = [tx_busy EXCEPT ![n] = busy \ {c}])
      BY <1>0 DEF mb_phy_chnl_tx_cmd, bk_mailbox_refuse
    <3>5. ~Full(p)
      BY <1>7, Zenon DEF bk_mailbox_send
    <3> QED BY <1>2, <1>3, <1>4, <1>5, <1>6, <2>5, <3>3, <3>4, <3>5, Zenon DEF Leaves, Still
  <2>7. CASE Dropped(n)
    <3>1. \A y : ~Travels(n, y)'
      <4> HIDE DEF m
      <4> QED BY <1>0, <1>1, <1>2, <1>5, <2>2, <2>4, <2>7, Zenon
              DEF Travels, CmdUnread, AckUnread, Dropped
    <3>2. Travelling(n)' = {} /\ Crowded(n)
      BY <2>7, <3>1, TravelSet DEF Crowded, Dropped
    <3>3. tx_busy' = [tx_busy EXCEPT ![n] = busy] \/ tx_busy' = [tx_busy EXCEPT ![n] = busy \ {c}]
      BY Zenon DEF mb_phy_chnl_tx_cmd
    <3> QED BY <1>2, <1>4, <1>5, <1>6, <2>5, <3>2, <3>3, Zenon DEF Leaves, Still
  <2> QED BY <2>1, <2>6, <2>7, Zenon
<1>8. CASE bk_mailbox_refuse(n)
  <2>1. mbuff' = mbuff /\ fifo' = fifo /\ Crowded(n)
    BY <1>8, Zenon DEF bk_mailbox_refuse, mbox, Crowded
  <2>2. \A b \in Box : (Unread(p, b)' <=> Unread(p, b)) /\ (Unread(n, b)' <=> Unread(n, b))
    BY <1>0, <1>5, <2>1, Zenon DEF Unread, Queued
  <2>3. Travelling(p)' = Travelling(p)
    BY <1>0, <1>5, <2>1, <2>2, TravelKept, Zenon
  <2>4. Travelling(n)' = {}
    <3>1. \A y : ~Travels(n, y)'
      BY <1>0, <1>1, <1>5, <2>1, <2>2, Zenon DEF Travels, CmdUnread, AckUnread
    <3> QED BY <3>1, TravelSet
  <2>5. tx_busy' = [tx_busy EXCEPT ![n] = busy] \/ tx_busy' = [tx_busy EXCEPT ![n] = busy \ {c}]
    BY Zenon DEF mb_phy_chnl_tx_cmd
  <2> QED BY <1>2, <1>4, <1>5, <1>6, <2>1, <2>3, <2>4, <2>5, Zenon DEF Leaves, Still
<1> QED BY <1>7, <1>8, Zenon DEF mb_phy_chnl_tx_cmd, Command

\* mb_phy_chnl_tx_ack: the acknowledgement leaves the handler of n for a box
LEMMA TxAckMoves ==
    ASSUME TypeOK, StructInv, NEW n \in Node, mb_phy_chnl_tx_ack(n)
    PROVE  /\ Still(n) /\ ~Scanning(Peer(n)) /\ ~Scanning(Peer(n))'
           /\ ~Unread(n, 1 - tx_box[n])
           /\ Travelling(Peer(n)) = {isr[n].msg}
           /\ \/ Travelling(Peer(n))' = Travelling(Peer(n))
              \/ Crowded(n) /\ Travelling(Peer(n))' = {}
<1> DEFINE p == Peer(n)
<1>a. PICK x, m : x = 1 - tx_box[n] /\ m = isr[n].msg
  OBVIOUS
<1>0. /\ p \in Node /\ p /= n /\ Peer(p) = n /\ MboxType /\ isr \in [Node -> Handler]
      /\ m = isr[n].msg /\ x = 1 - tx_box[n] /\ x \in Box /\ tx_box[n] \in Box /\ x /= tx_box[n]
      /\ \A b \in Box : b = x \/ b = tx_box[n]
  BY <1>a, PeerFacts, OtherBox DEF TypeOK, MboxType, Box
<1>1. isr[n].pc = "tx_ack" /\ isr'[n].pc = "idle" /\ isr'[p] = isr[p]
  BY <1>0, Zenon DEF mb_phy_chnl_tx_ack, Idle
<1>2. m \in Msg /\ m.kind = "ack"
  BY <1>0, <1>1, Zenon DEF StructInv, KindsOK, Handler
<1>3. CmdHeld(p) /\ ~CmdUnread(p) /\ ~AckUnread(p) /\ ~AckHeld(p) /\ ~Scanning(p) /\ ~Lost(p)
  <2>1. OneToken(p) /\ CmdHeld(p)
    BY <1>0, <1>1, Zenon DEF StructInv, CmdHeld
  <2> QED BY <2>1, Zenon DEF OneToken, Token, Lost
<1>4. ~Unread(n, x) /\ ~Unread(n, 1 - tx_box[n])
  BY <1>0, <1>3, AckBoxFree
<1>5. /\ ~Scanning(p)' /\ (Scanning(n)' <=> Scanning(n)) /\ ~CmdHeld(p)' /\ ~AckHeld(p)'
      /\ CmdHeld(n)' <=> CmdHeld(n)
      /\ AckHeld(n)' <=> AckHeld(n)
      /\ ~AckHeld(n)
      /\ \A b \in Box : (Popped(n, b)' <=> Popped(n, b)) /\ (Popped(p, b)' <=> Popped(p, b))
  BY <1>0, <1>1, <1>3, Zenon DEF Scanning, CmdHeld, AckHeld, Popped
<1>6. Travelling(p) = {m}
  <2>1. \A y : Travels(p, y) <=> y = m
    BY <1>0, <1>3, Zenon DEF Travels, CmdUnread, AckUnread
  <2> QED BY <1>0, <2>1, TravelSet, Zenon
<1>7. CASE bk_mailbox_send(n, m)
  <2>1. /\ mbuff'[n][x] = m /\ mbuff'[n][tx_box[n]] = mbuff[n][tx_box[n]]
        /\ mbuff'[p] = mbuff[p] /\ fifo'[n] = fifo[n]
        /\ Pushed(n) \/ Dropped(n)
    <3>1. OneReference(n)
      BY DEF StructInv
    <3> QED BY <1>0, <1>1, <1>2, <1>4, <1>7, <3>1, SendEffect
  <2>2. \A b \in Box : (Unread(p, b)' <=> Unread(p, b)) /\ mbuff'[p][b] = mbuff[p][b]
    BY <1>0, <1>5, <2>1, Zenon DEF Unread, Queued
  <2>3. \A b \in Box : b /= x => (Unread(n, b)' <=> Unread(n, b)) /\ mbuff'[n][b] = mbuff[n][b]
    BY <1>0, <2>1, Zenon DEF Pushed, Dropped
  <2>4. Travelling(n)' = Travelling(n)
    <3>1. \A b \in Box : /\ mbuff'[n][b].kind = "cmd" /\ Unread(n, b)'
                            <=> mbuff[n][b].kind = "cmd" /\ Unread(n, b)
                         /\ Unread(n, b) => mbuff'[n][b] = mbuff[n][b]
      BY <1>0, <1>2, <1>4, <2>1, <2>3, Zenon
    <3> QED BY <1>0, <1>1, <1>5, <2>2, <3>1, TravelKept, Zenon
  <2>5. CASE Pushed(n)
    <3>1. Unread(n, x)'
      BY <1>0, <2>5, Zenon DEF Pushed
    <3>2. Travels(p, m)'
      BY <1>0, <1>2, <2>1, <3>1, Zenon DEF Travels
    <3>3. ASSUME NEW y, Travels(p, y)' PROVE y = m
      <4>1. \A b \in Box : mbuff'[p][b].kind = "cmd" => ~Unread(p, b)'
        BY <1>3, <2>2, Zenon DEF CmdUnread
      <4>2. \A b \in Box : b /= x /\ mbuff'[n][b].kind = "ack" => ~Unread(n, b)'
        BY <1>0, <1>3, <2>3, Zenon DEF AckUnread
      <4> QED BY <1>0, <1>5, <2>1, <3>3, <4>1, <4>2, Zenon DEF Travels
    <3>4. Travelling(p)' = {m}
      BY <1>0, <3>2, <3>3, TravelSet
    <3> QED BY <1>0, <1>3, <1>4, <1>5, <1>6, <2>4, <3>4, Zenon DEF Still
  <2>6. CASE Dropped(n)
    <3>1. \A y : ~Travels(p, y)'
      BY <1>0, <1>3, <1>4, <1>5, <2>2, <2>3, <2>6, Zenon
         DEF Travels, CmdUnread, AckUnread, Dropped
    <3>2. Travelling(p)' = {} /\ Crowded(n)
      BY <1>0, <2>6, <3>1, TravelSet DEF Crowded, Dropped
    <3> QED BY <1>0, <1>3, <1>4, <1>5, <1>6, <2>4, <3>2, Zenon DEF Still
  <2> QED BY <2>1, <2>5, <2>6, Zenon
<1>8. CASE bk_mailbox_refuse(n)
  <2>1. mbuff' = mbuff /\ fifo' = fifo /\ Crowded(n)
    BY <1>8, Zenon DEF bk_mailbox_refuse, mbox, Crowded
  <2>2. \A b \in Box : (Unread(p, b)' <=> Unread(p, b)) /\ (Unread(n, b)' <=> Unread(n, b))
    BY <1>0, <1>5, <2>1, Zenon DEF Unread, Queued
  <2>3. Travelling(n)' = Travelling(n)
    BY <1>0, <1>1, <1>5, <2>1, <2>2, TravelKept, Zenon
  <2>4. Travelling(p)' = {}
    <3>1. \A y : ~Travels(p, y)'
      BY <1>0, <1>3, <1>5, <2>1, <2>2, Zenon DEF Travels, CmdUnread, AckUnread
    <3> QED BY <1>0, <3>1, TravelSet
  <2> QED BY <1>0, <1>3, <1>4, <1>5, <1>6, <2>1, <2>3, <2>4, Zenon DEF Still
<1> QED BY <1>0, <1>7, <1>8, Zenon DEF mb_phy_chnl_tx_ack

\* from the FIFO to the handler, an entry at a time
LEMMA PopMoves ==
    ASSUME TypeOK, StructInv, NEW n \in Node, mbox0_drv_isr_handler(n)
    PROVE  \A d \in Node : Still(d)
<1> DEFINE p == Peer(n)
           q == fifo[n]
<1>0. /\ p \in Node /\ p /= n /\ Peer(p) = n
      /\ q \in Seq(Box \cup {IPI}) /\ q /= <<>>
      /\ fifo'[n] = Tail(q) /\ fifo'[p] = fifo[p]
      /\ mbuff' = mbuff
      /\ isr \in [Node -> Handler] /\ isr[n].pc = "idle" /\ isr'[p] = isr[p]
      /\ isr'[n].pc \in {"idle", "popped"}
      /\ \A b \in Box : b /= IPI
  BY PeerFacts DEF mbox0_drv_isr_handler, TypeOK, MboxType, IPI, Box
<1>1. \A d \in Node : d = n \/ d = p
  BY <1>0, Zenon DEF Node
<1>2. \A b \in Box : ~Popped(p, b) /\ (Popped(p, b)' <=> Head(q) = b)
  BY <1>0 DEF mbox0_drv_isr_handler, Popped
<1>3. \A d \in Node : /\ CmdHeld(d)' <=> CmdHeld(d)
                      /\ CmdHeld(d) => isr'[Peer(d)].msg = isr[Peer(d)].msg
                      /\ AckHeld(d)' <=> AckHeld(d)
                      /\ AckHeld(d) => isr'[d].msg = isr[d].msg
                      /\ Scanning(d)' <=> Scanning(d)
  BY <1>0, <1>1, Zenon DEF CmdHeld, AckHeld, Scanning
<1>4. \A b \in Box : Queued(p, b) <=> Head(q) = b \/ Queued(p, b)'
  BY <1>0, PopHas DEF Queued
<1>5. \A d \in Node, b \in Box : Unread(d, b)' <=> Unread(d, b)
  <2>1. \A b \in Box : Unread(p, b)' <=> Unread(p, b)
    BY <1>2, <1>4, Zenon DEF Unread
  <2>2. \A b \in Box : Unread(n, b)' <=> Unread(n, b)
    BY <1>0, Zenon DEF Unread, Queued, Popped
  <2> QED BY <1>1, <2>1, <2>2, Zenon
<1>6. \A d \in Node : Peer(d) \in Node
  BY PeerFacts
<1> QED BY <1>0, <1>3, <1>5, <1>6, TravelKept, Zenon DEF Still

LEMMA CopyMoves ==
    ASSUME TypeOK, StructInv, NEW n \in Node, mbox0_rx_isr(n)
    PROVE  \A d \in Node : Still(d)
<1> DEFINE p == Peer(n)
           h == isr[n].box
           m == mbuff[p][h]
<1>0. /\ p \in Node /\ p /= n /\ Peer(p) = n /\ h \in Box
      /\ isr[n].pc = "popped" /\ isr'[p] = isr[p] /\ isr'[n].pc = "copied"
      /\ isr'[n].msg = m
      /\ mbuff' = mbuff /\ fifo' = fifo
  BY PeerFacts DEF mbox0_rx_isr, TypeOK, Handler, mbox
<1>1. \A d \in Node : d = n \/ d = p
  BY <1>0, Zenon DEF Node
<1>2. \A b \in Box : /\ Popped(p, b) <=> b = h
                     /\ ~Popped(p, b)'
                     /\ Queued(p, b)' <=> Queued(p, b)
  BY <1>0, Zenon DEF Popped, Queued
<1>3. ~Queued(p, h)
  BY <1>0, <1>2, Zenon DEF StructInv, OneReference
<1>4. /\ Unread(p, h)
      /\ \A b \in Box : Unread(p, b)' <=> Unread(p, b) /\ b /= h
      /\ \A b \in Box : Unread(n, b)' <=> Unread(n, b)
  BY <1>0, <1>2, <1>3, Zenon DEF Unread, Queued, Popped
<1>5. m.kind \in {"cmd", "ack"}
  BY <1>0, <1>4, Zenon DEF StructInv, KindsOK
<1>6. /\ CmdHeld(n)' <=> CmdHeld(n)
      /\ ~CmdHeld(p)
      /\ CmdHeld(p)' <=> m.kind = "cmd"
      /\ ~AckHeld(n)
      /\ AckHeld(n)' <=> m.kind = "ack"
      /\ AckHeld(p)' <=> AckHeld(p)
      /\ Scanning(p)' <=> Scanning(p)
      /\ ~Scanning(n) /\ ~Scanning(n)'
  BY <1>0, <1>5, Zenon DEF CmdHeld, AckHeld, Scanning
<1>7. \A y : Travels(p, y)' <=> Travels(p, y)
  BY <1>0, <1>4, <1>6, Zenon DEF Travels
<1>8. \A y : Travels(n, y)' <=> Travels(n, y)
  BY <1>0, <1>4, <1>6, Zenon DEF Travels
<1> QED BY <1>0, <1>1, <1>6, <1>7, <1>8, TravelSet, Zenon DEF Still

\* the search of n finds no channel with data
LEMMA ScanRestMoves ==
    ASSUME TypeOK, StructInv, NEW n \in Node, Scanning(n), isr'[n].pc = "idle",
           isr'[Peer(n)] = isr[Peer(n)], UNCHANGED mbox
    PROVE  Travelling(n) = {} /\ Travelling(n)' = {} /\ ~Scanning(n)' /\ Still(Peer(n))
<1> DEFINE p == Peer(n)
<1>0. p \in Node /\ p /= n /\ Peer(p) = n /\ isr[n].pc = "scan" /\ mbuff' = mbuff /\ fifo' = fifo
  BY PeerFacts DEF Scanning, mbox
<1>1. ~CmdUnread(n) /\ ~CmdHeld(n) /\ ~AckUnread(n) /\ ~AckHeld(n)
  BY Zenon DEF StructInv, OneToken, AckHeld, Scanning
<1>2. \A b \in Box : (Unread(p, b)' <=> Unread(p, b)) /\ (Unread(n, b)' <=> Unread(n, b))
  BY <1>0, Zenon DEF Unread, Queued, Popped
<1>3. /\ ~CmdHeld(n)' /\ ~AckHeld(n)' /\ ~Scanning(n)' /\ (Scanning(p)' <=> Scanning(p))
      /\ ~CmdHeld(p) /\ ~CmdHeld(p)' /\ (AckHeld(p)' <=> AckHeld(p))
  BY <1>0, <1>1, Zenon DEF CmdHeld, AckHeld, Scanning
<1>4. \A y : ~Travels(n, y) /\ ~Travels(n, y)'
  BY <1>0, <1>1, <1>2, <1>3, Zenon DEF Travels, CmdUnread, AckUnread
<1>5. Travelling(p)' = Travelling(p)
  BY <1>0, <1>2, <1>3, TravelKept, Zenon
<1> QED BY <1>3, <1>4, <1>5, TravelSet, Zenon DEF Still

\* the acknowledgement that the physical channel waits for is taken and the search for
\* the next command begins
LEMMA AckMoves ==
    ASSUME TypeOK, StructInv, MatchInv, NEW n \in Node, mb_phy_chnl_rx_ack_isr(n)
    PROVE  /\ Still(Peer(n))
           /\ isr[n].msg.kind = "ack" /\ Travelling(n) = {isr[n].msg}
           /\ Travelling(n)' = {} /\ Scanning(n)'
<1> DEFINE p == Peer(n)
           m == isr[n].msg
<1>0. /\ p \in Node /\ p /= n /\ Peer(p) = n /\ isr \in [Node -> Handler]
      /\ isr[n].pc = "copied" /\ m.kind \in {"ack", "reset"}
      /\ isr'[p] = isr[p] /\ mbuff' = mbuff /\ fifo' = fifo
  BY PeerFacts, Zenon DEF mb_phy_chnl_rx_ack_isr, mbox, TypeOK
<1>1. m.kind = "ack" /\ AckMatches(n, m)
  BY <1>0, MatchParts DEF StructInv, KindsOK, MatchIsr, Holder
<1>2. isr'[n].pc = "scan"
  BY <1>0, <1>1 DEF mb_phy_chnl_rx_ack_isr
<1>3. AckHeld(n) /\ ~CmdUnread(n) /\ ~CmdHeld(n) /\ ~AckUnread(n) /\ ~Scanning(n)
  <2>1. OneToken(n) /\ AckHeld(n)
    BY <1>0, <1>1, Zenon DEF StructInv, AckHeld
  <2> QED BY <1>0, <2>1, Zenon DEF OneToken, Scanning
<1>4. \A b \in Box : (Unread(p, b)' <=> Unread(p, b)) /\ (Unread(n, b)' <=> Unread(n, b))
  BY <1>0, <1>2, Zenon DEF Unread, Queued, Popped
<1>5. /\ ~CmdHeld(n)' /\ ~AckHeld(n)' /\ Scanning(n)' /\ (Scanning(p)' <=> Scanning(p))
      /\ ~CmdHeld(p) /\ ~CmdHeld(p)' /\ (AckHeld(p)' <=> AckHeld(p))
  BY <1>0, <1>1, <1>2, <1>3, Zenon DEF CmdHeld, AckHeld, Scanning
<1>6. \A y : Travels(n, y) <=> y = m
  BY <1>0, <1>3, Zenon DEF Travels, CmdUnread, AckUnread
<1>7. \A y : ~Travels(n, y)'
  BY <1>0, <1>3, <1>4, <1>5, Zenon DEF Travels, CmdUnread, AckUnread
<1>8. Travelling(p)' = Travelling(p)
  BY <1>0, <1>4, <1>5, TravelKept, Zenon
<1> QED BY <1>0, <1>1, <1>5, <1>6, <1>7, <1>8, TravelSet, Zenon DEF Still

\* a command becomes its acknowledgement
LEMMA CmdMoves ==
    ASSUME TypeOK, StructInv, NEW n \in Node, mb_phy_chnl_rx_cmd_isr(n)
    PROVE  /\ Still(n) /\ (Scanning(Peer(n))' <=> Scanning(Peer(n)))
           /\ isr[n].msg.kind = "cmd" /\ Travelling(Peer(n)) = {isr[n].msg}
           /\ Travelling(Peer(n))' = {Ack(isr[n].msg, isr[n].msg.chan \notin rx_isr[n])}
<1> DEFINE p == Peer(n)
           m == isr[n].msg
           a == Ack(m, m.chan \notin rx_isr[n])
<1>0. /\ p \in Node /\ p /= n /\ Peer(p) = n /\ isr \in [Node -> Handler]
      /\ isr[n].pc = "copied" /\ m.kind = "cmd"
      /\ isr'[n] = [pc |-> "tx_ack", box |-> 0, msg |-> a]
      /\ isr'[p] = isr[p] /\ mbuff' = mbuff /\ fifo' = fifo
  BY PeerFacts, Zenon DEF mb_phy_chnl_rx_cmd_isr, mbox, TypeOK
<1>1. isr'[n].pc = "tx_ack" /\ isr'[n].msg = a
  <2> HIDE DEF a
  <2> QED BY <1>0
<1>2. CmdHeld(p) /\ ~CmdUnread(p) /\ ~AckUnread(p) /\ ~AckHeld(p)
  <2>1. OneToken(p) /\ CmdHeld(p)
    BY <1>0, Zenon DEF StructInv, CmdHeld
  <2> QED BY <1>0, <2>1, Zenon DEF OneToken
<1>3. \A b \in Box : (Unread(p, b)' <=> Unread(p, b)) /\ (Unread(n, b)' <=> Unread(n, b))
  BY <1>0, <1>1, Zenon DEF Unread, Queued, Popped
<1>4. /\ CmdHeld(p)' /\ ~AckHeld(p)' /\ (Scanning(n)' <=> Scanning(n))
      /\ Scanning(p)' <=> Scanning(p)
      /\ CmdHeld(n)' <=> CmdHeld(n)
      /\ ~AckHeld(n) /\ ~AckHeld(n)'
  BY <1>0, <1>1, <1>2, Zenon DEF CmdHeld, AckHeld, Scanning
<1>5. \A y : Travels(p, y) <=> y = m
  BY <1>0, <1>2, Zenon DEF Travels, CmdUnread, AckUnread
<1>6. \A y : Travels(p, y)' <=> y = a
  <2> HIDE DEF a
  <2> QED BY <1>0, <1>1, <1>2, <1>3, <1>4, Zenon DEF Travels, CmdUnread, AckUnread
<1>7. Travelling(n)' = Travelling(n)
  BY <1>0, <1>3, <1>4, TravelKept, Zenon
<1>8. Travelling(p) = {m} /\ Travelling(p)' = {a}
  BY <1>0, <1>5, <1>6, TravelSet, SMTT(30)
<1> QED BY <1>0, <1>4, <1>7, <1>8, Zenon DEF Still

LEMMA NothingMoves ==
    ASSUME UNCHANGED <<mbox, isr>>
    PROVE  \A d \in Node : Still(d)
<1> SUFFICES ASSUME NEW d \in Node PROVE Still(d)
  OBVIOUS
<1>1. \A y : Travels(d, y)' <=> Travels(d, y)
  BY DEF Travels, Unread, Queued, Popped, CmdHeld, AckHeld, mbox
<1> QED BY <1>1, TravelSet DEF Still, Scanning

LEMMA IpiMoves ==
    ASSUME TypeOK, NEW n \in Node, bk_mailbox_master_send(n)
    PROVE  \A d \in Node : Still(d)
<1>1. /\ fifo \in [Node -> Seq(Box \cup {IPI})] /\ IPI \in Box \cup {IPI}
      /\ \A b \in Box : IPI /= b
  BY DEF TypeOK, MboxType, IPI, Box
<1>2. /\ mbuff' = mbuff /\ isr' = isr
      /\ \A d \in Node : fifo'[d] = fifo[d] \/ fifo'[d] = Append(fifo[d], IPI)
  BY <1>1, Zenon DEF bk_mailbox_master_send
<1>3. \A d \in Node, b \in Box : Queued(d, b)' <=> Queued(d, b)
  <2> SUFFICES ASSUME NEW d \in Node, NEW b \in Box PROVE Queued(d, b)' <=> Queued(d, b)
    OBVIOUS
  <2>1. fifo[Peer(d)] \in Seq(Box \cup {IPI}) /\ Peer(d) \in Node
    BY <1>1, PeerFacts
  <2>2. Has(Append(fifo[Peer(d)], IPI), b) <=> Has(fifo[Peer(d)], b)
    BY <1>1, <2>1, PushHas
  <2> QED BY <1>2, <2>1, <2>2, Zenon DEF Queued
<1>4. \A d \in Node, b \in Box : Unread(d, b)' <=> Unread(d, b)
  BY <1>2, <1>3, Zenon DEF Unread, Popped
<1>5. \A d \in Node : \A y : Travels(d, y)' <=> Travels(d, y)
  BY <1>2, <1>4, PeerFacts, ZenonT(40) DEF Travels, CmdHeld, AckHeld
<1> QED BY <1>2, <1>5, TravelSet, Zenon DEF Still, Scanning

(***************************************************************************)
(* Every step is one of nine kinds                                         *)
(***************************************************************************)
Quiet == (\A d \in Node : Still(d)) /\ UNCHANGED <<phy, tx_busy, tx_buff, history>>

Closes(n, c) ==
    /\ \A d \in Node : Still(d)
    /\ tx_busy' = [tx_busy EXCEPT ![n] = @ \ {c}]
    /\ UNCHANGED <<phy, tx_buff, history>>

Writes(n, c) ==
    /\ c \notin tx_busy[n]
    /\ written' = [written EXCEPT ![n] = @ + 1]
    /\ tx_buff' = [tx_buff EXCEPT ![n][c] = written[n] + 1]
    /\ UNCHANGED <<rcvd, done>>

Waits(n, c) ==
    /\ Writes(n, c)
    /\ \A d \in Node : Still(d)
    /\ phy[n].tx_state = BUSY
    /\ tx_busy' = [tx_busy EXCEPT ![n] = tx_busy[n] \cup {c}]
    /\ UNCHANGED phy

Goes(n, c) ==
    /\ Writes(n, c)
    /\ phy[n].tx_state = IDLE
    /\ Leaves(n, c, written[n] + 1, tx_busy[n] \cup {c})

Resumes(n, c) ==
    /\ Scanning(n)
    /\ c \in tx_busy[n] /\ \A d \in tx_busy[n] : c <= d
    /\ Leaves(n, c, tx_buff[n][c], tx_busy[n])
    /\ UNCHANGED <<tx_buff, history>>

Rests(n) ==
    /\ Travelling(n) = {} /\ Travelling(n)' = {} /\ ~Scanning(n)' /\ Still(Peer(n))
    /\ tx_busy[n] = {}
    /\ phy'[n].tx_state = IDLE /\ phy'[n].tx_seq = phy[n].tx_seq
    /\ phy'[Peer(n)] = phy[Peer(n)]
    /\ UNCHANGED <<tx_busy, tx_buff, history>>

Handles(n) ==
    \E m \in Msg :
        /\ m.kind = "cmd" /\ Travelling(Peer(n)) = {m}
        /\ Still(n) /\ (Scanning(Peer(n))' <=> Scanning(Peer(n)))
        /\ \/ /\ Travelling(Peer(n))' = {Ack(m, FALSE)}
              /\ rcvd' = [rcvd EXCEPT ![n][m.chan] = m.id]
           \/ /\ Travelling(Peer(n))' = {Ack(m, TRUE)}
              /\ UNCHANGED rcvd
        /\ UNCHANGED <<phy, tx_busy, tx_buff, written, done>>

Completes(n) ==
    \E m \in Msg :
        /\ m.kind = "ack" /\ Travelling(n) = {m}
        /\ Travelling(n)' = {} /\ Scanning(n)' /\ Still(Peer(n))
        /\ \/ ~m.fail /\ done' = [done EXCEPT ![n][m.chan] = m.id]
           \/ UNCHANGED done
        /\ UNCHANGED <<phy, tx_busy, tx_buff, written, rcvd>>

Answers(n) ==
    /\ Still(n) /\ ~Scanning(Peer(n)) /\ ~Scanning(Peer(n))'
    /\ ~Unread(n, 1 - tx_box[n])
    /\ \/ Travelling(Peer(n))' = Travelling(Peer(n))
       \/ Crowded(n) /\ Travelling(Peer(n))' = {}
    /\ UNCHANGED <<phy, tx_busy, tx_buff, history>>

Step ==
    \/ Quiet
    \/ \E n \in Node : Rests(n) \/ Handles(n) \/ Completes(n) \/ Answers(n)
    \/ \E n \in Node, c \in Chan : Closes(n, c) \/ Waits(n, c) \/ Goes(n, c) \/ Resumes(n, c)

LEMMA IsrKinds ==
    ASSUME TypeOK, StructInv, MatchInv, NEW n \in Node, Isr(n)
    PROVE  Step
<1>0. /\ Peer(n) \in Node /\ Peer(n) /= n /\ isr \in [Node -> Handler] /\ isr[n].msg \in Msg
      /\ tx_busy \in [Node -> SUBSET Chan] /\ tx_buff \in [Node -> [Chan -> Nat]]
      /\ phy \in [Node -> Phy]
  BY PeerFacts DEF TypeOK, TxType, Handler
<1>1. CASE mbox0_drv_isr_handler(n) \/ mbox0_rx_isr(n)
  <2>1. UNCHANGED <<phy, tx_busy, tx_buff, history>>
    BY <1>1, Zenon DEF mbox0_drv_isr_handler, mbox0_rx_isr
  <2> QED BY <1>1, <2>1, PopMoves, CopyMoves, Zenon DEF Step, Quiet
<1>2. CASE mb_phy_chnl_rx_ack_isr(n)
  <2>1. /\ UNCHANGED <<phy, tx_busy, tx_buff, written, rcvd>>
        /\ \/ ~isr[n].msg.fail /\ done' = [done EXCEPT ![n][isr[n].msg.chan] = isr[n].msg.id]
           \/ UNCHANGED done
    BY <1>2, Zenon DEF mb_phy_chnl_rx_ack_isr
  <2>2. Completes(n)
    BY <1>0, <1>2, <2>1, AckMoves, Zenon DEF Completes
  <2> QED BY <2>2, Zenon DEF Step
<1>3. CASE mb_phy_chnl_scan(n)
  <2>1. /\ Scanning(n) /\ isr'[n].pc = "idle" /\ isr'[Peer(n)] = isr[Peer(n)]
        /\ UNCHANGED <<tx_buff, history>>
    BY <1>0, <1>3, Zenon DEF mb_phy_chnl_scan, Scanning, Idle
  <2>2. CASE tx_busy[n] = {} /\ UNCHANGED <<tx_busy, mbox>>
             /\ phy' = [phy EXCEPT ![n] = [tx_state |-> IDLE, tx_seq |-> phy[n].tx_seq,
                                           tx_log_chnl |-> phy[n].tx_log_chnl]]
    <3>1. /\ phy'[n].tx_state = IDLE /\ phy'[n].tx_seq = phy[n].tx_seq
          /\ phy'[Peer(n)] = phy[Peer(n)]
      BY <1>0, <2>2
    <3>2. Travelling(n) = {} /\ Travelling(n)' = {} /\ ~Scanning(n)' /\ Still(Peer(n))
      BY <1>0, <2>1, <2>2, ScanRestMoves
    <3>3. Rests(n)
      BY <2>1, <2>2, <3>1, <3>2, Zenon DEF Rests
    <3> QED BY <3>3, Zenon DEF Step
  <2>3. ASSUME NEW c \in tx_busy[n], \A d \in tx_busy[n] : c <= d,
               mb_phy_chnl_tx_cmd(n, c, tx_buff[n][c], tx_busy[n])
        PROVE Step
    <3>1. c \in Chan /\ tx_buff[n][c] \in Nat /\ tx_busy[n] \in SUBSET Chan
      BY <1>0
    <3>2. Leaves(n, c, tx_buff[n][c], tx_busy[n])
      BY <2>1, <2>3, <3>1, TxCmdMoves, Zenon
    <3>3. Resumes(n, c)
      BY <2>1, <2>3, <3>2, Zenon DEF Resumes
    <3> QED BY <3>1, <3>3, Zenon DEF Step
  <2> QED BY <1>3, <2>2, <2>3, Zenon DEF mb_phy_chnl_scan
<1>4. CASE mb_phy_chnl_rx_cmd_isr(n)
  <2> DEFINE m == isr[n].msg
  <2>1. /\ UNCHANGED <<phy, tx_busy, tx_buff, written, done>>
        /\ rcvd' = IF m.chan \in rx_isr[n] THEN [rcvd EXCEPT ![n][m.chan] = m.id] ELSE rcvd
    BY <1>4, Zenon DEF mb_phy_chnl_rx_cmd_isr
  <2>2. /\ Still(n) /\ (Scanning(Peer(n))' <=> Scanning(Peer(n)))
        /\ m.kind = "cmd" /\ Travelling(Peer(n)) = {m}
        /\ Travelling(Peer(n))' = {Ack(m, m.chan \notin rx_isr[n])}
    BY <1>4, CmdMoves
  <2>3. /\ m.chan \in rx_isr[n] => Ack(m, m.chan \notin rx_isr[n]) = Ack(m, FALSE)
        /\ m.chan \notin rx_isr[n] => Ack(m, m.chan \notin rx_isr[n]) = Ack(m, TRUE)
    BY Zenon DEF Ack
  <2>4. Handles(n)
    <3> HIDE DEF m
    <3> QED BY <1>0, <2>1, <2>2, <2>3, Zenon DEF Handles, m
  <2> QED BY <2>4, Zenon DEF Step
<1>5. CASE mb_phy_chnl_tx_ack(n)
  <2>1. UNCHANGED <<phy, tx_busy, tx_buff, history>>
    BY <1>5, Zenon DEF mb_phy_chnl_tx_ack
  <2>2. Answers(n)
    BY <1>5, <2>1, TxAckMoves, Zenon DEF Answers
  <2> QED BY <2>2, Zenon DEF Step
<1> QED BY <1>1, <1>2, <1>3, <1>4, <1>5, Zenon DEF Isr

LEMMA AppKinds ==
    ASSUME TypeOK, StructInv, NEW n \in Node, NEW c \in Chan, App(n, c)
    PROVE  Step
<1>1. CASE mb_chnl_write(n, c)
  <2>1. /\ written[n] + 1 \in Nat /\ tx_busy[n] \cup {c} \in SUBSET Chan
        /\ Writes(n, c) /\ isr' = isr
    BY <1>1 DEF mb_chnl_write, Writes, TypeOK, HistoryType, TxType
  <2>2. CASE phy[n].tx_state = IDLE
             /\ mb_phy_chnl_tx_cmd(n, c, written[n] + 1, tx_busy[n] \cup {c})
    <3>1. Leaves(n, c, written[n] + 1, tx_busy[n] \cup {c})
      BY <2>1, <2>2, TxCmdMoves, Zenon
    <3>2. Goes(n, c)
      BY <2>1, <2>2, <3>1, Zenon DEF Goes
    <3> QED BY <3>2, Zenon DEF Step
  <2>3. CASE phy[n].tx_state = BUSY /\ UNCHANGED <<phy, mbox>>
             /\ tx_busy' = [tx_busy EXCEPT ![n] = tx_busy[n] \cup {c}]
    <3>1. Waits(n, c)
      BY <2>1, <2>3, NothingMoves, Zenon DEF Waits
    <3> QED BY <3>1, Zenon DEF Step
  <2> QED BY <1>1, <2>2, <2>3, Zenon DEF mb_chnl_write, mb_phy_chnl_start_tx
<1>2. CASE mb_chnl_close_end(n, c)
  <2>1. Closes(n, c)
    BY <1>2, NothingMoves, Zenon DEF mb_chnl_close_end, Closes
  <2> QED BY <2>1, Zenon DEF Step
<1>3. CASE UNCHANGED <<mbox, isr, phy, tx_busy, tx_buff, history>>
  BY <1>3, NothingMoves, Zenon DEF Step, Quiet
<1> QED BY <1>1, <1>2, <1>3, Zenon DEF App, mb_chnl_open, mb_chnl_close,
                                 mb_chnl_ctrl_set, mb_chnl_ctrl_clear

LEMMA StepKinds == TypeOK /\ StructInv /\ MatchInv /\ [Next]_vars => Step
<1> SUFFICES ASSUME TypeOK, StructInv, MatchInv, [Next]_vars PROVE Step
  OBVIOUS
<1>1. CASE UNCHANGED vars
  BY <1>1, NothingMoves, Zenon DEF vars, Step, Quiet
<1>2. ASSUME NEW n \in Node, bk_mailbox_master_send(n) PROVE Step
  BY <1>2, IpiMoves, Zenon DEF bk_mailbox_master_send, Step, Quiet
<1> QED BY <1>1, <1>2, IsrKinds, AppKinds, Zenon DEF Next

(***************************************************************************)
(* The identities                                                          *)
(***************************************************************************)
InOrder(d) == Ordered(d) /\ \A m \in Travelling(d) : Fresh(d, m)

LEMMA IdParts == (IdInv <=> \A d \in Node : InOrder(d)) /\ (IdInv' <=> \A d \in Node : InOrder(d)')
BY DEF IdInv, InOrder

HistoryOf(d) ==
    /\ written[d] \in Nat /\ rcvd[Peer(d)] \in [Chan -> Nat] /\ done[d] \in [Chan -> Nat]
    /\ tx_buff[d] \in [Chan -> Nat] /\ tx_busy[d] \in SUBSET Chan
    /\ Travelling(d) \subseteq Msg

LEMMA HistoryTypes == TypeOK => \A d \in Node : HistoryOf(d)
<1> SUFFICES ASSUME TypeOK, NEW d \in Node PROVE HistoryOf(d)
  OBVIOUS
<1>1. Peer(d) \in Node /\ Travelling(d) \subseteq Msg
  BY PeerFacts, TravelMsg
<1> QED BY <1>1 DEF HistoryOf, TypeOK, TxType, HistoryType

\* a step that writes, handles and completes nothing in the direction of d
LEMMA InOrderKept ==
    ASSUME NEW d \in Node, InOrder(d), Travelling(d)' \subseteq Travelling(d),
           written'[d] = written[d], rcvd'[Peer(d)] = rcvd[Peer(d)], done'[d] = done[d],
           tx_buff'[d] = tx_buff[d], tx_busy'[d] \subseteq tx_busy[d]
    PROVE  InOrder(d)'
<1>1. Ordered(d)'
  BY DEF InOrder, Ordered
<1>2. ASSUME NEW m \in Travelling(d)' PROVE Fresh(d, m)'
  <2>1. Fresh(d, m)
    BY <1>2 DEF InOrder
  <2> QED BY <2>1 DEF Fresh
<1> QED BY <1>1, <1>2, Zenon DEF InOrder

LEMMA InOrderWrites ==
    ASSUME NEW n \in Node, NEW c \in Chan, HistoryOf(n), InOrder(n), Travelling(n)' = Travelling(n),
           written'[n] = written[n] + 1, rcvd'[Peer(n)] = rcvd[Peer(n)], done'[n] = done[n],
           tx_buff'[n] = [tx_buff[n] EXCEPT ![c] = written[n] + 1],
           tx_busy'[n] = tx_busy[n] \cup {c}
    PROVE  InOrder(n)'
<1>1. Ordered(n)'
  BY DEF HistoryOf, InOrder, Ordered
<1>2. ASSUME NEW m \in Travelling(n)' PROVE Fresh(n, m)'
  <2>1. Fresh(n, m) /\ m \in Msg
    BY <1>2 DEF InOrder, HistoryOf
  <2>2. m.chan \in Chan /\ m.id \in Nat
    BY <2>1 DEF Msg
  <2> QED BY <2>1, <2>2 DEF Fresh, HistoryOf
<1> QED BY <1>1, <1>2, Zenon DEF InOrder

\* a command leaves: id is newer than everything handled of its channel
LEMMA InOrderLeaves ==
    ASSUME NEW n \in Node, NEW c \in Chan, NEW id \in Nat, NEW busy \in SUBSET Chan,
           Leaves(n, c, id, busy), HistoryOf(n), tx_busy \in [Node -> SUBSET Chan],
           \A e \in Chan : /\ done'[n][e] <= rcvd'[Peer(n)][e] /\ rcvd'[Peer(n)][e] <= written'[n]
                           /\ e \in busy => rcvd'[Peer(n)][e] < tx_buff'[n][e]
                                            /\ tx_buff'[n][e] <= written'[n],
           rcvd'[Peer(n)][c] < id, id <= written'[n]
    PROVE  InOrder(n)'
<1>1. tx_busy'[n] \subseteq busy
  BY DEF Leaves
<1>2. Ordered(n)'
  BY <1>1 DEF Ordered
<1>3. ASSUME NEW m \in Travelling(n)' PROVE Fresh(n, m)'
  <2>1. PICK seq : Travelling(n)' = {Command(c, seq, id)} /\ tx_busy' = [tx_busy EXCEPT ![n] = busy \ {c}]
    BY <1>3 DEF Leaves
  <2>2. m.kind = "cmd" /\ m.chan = c /\ m.id = id
    BY <1>3, <2>1 DEF Command
  <2>3. c \notin tx_busy'[n]
    BY <2>1
  <2> QED BY <2>2, <2>3 DEF Fresh
<1> QED BY <1>2, <1>3, Zenon DEF InOrder

LEMMA InOrderHandles ==
    ASSUME TypeOK, NEW n \in Node, Handles(n), InOrder(Peer(n))
    PROVE  InOrder(Peer(n))'
<1> DEFINE p == Peer(n)
<1>0. p \in Node /\ Peer(p) = n /\ HistoryOf(p) /\ rcvd \in [Node -> [Chan -> Nat]]
  BY PeerFacts, HistoryTypes DEF TypeOK, HistoryType
<1>1. PICK m \in Msg :
        /\ m.kind = "cmd" /\ Travelling(p) = {m}
        /\ \/ Travelling(p)' = {Ack(m, FALSE)} /\ rcvd' = [rcvd EXCEPT ![n][m.chan] = m.id]
           \/ Travelling(p)' = {Ack(m, TRUE)} /\ UNCHANGED rcvd
        /\ UNCHANGED <<tx_busy, tx_buff, written, done>>
  BY Zenon DEF Handles
<1>2. Fresh(p, m) /\ m.chan \in Chan /\ m.id \in Nat
  BY <1>1 DEF InOrder, Msg
<1>3. /\ rcvd[n][m.chan] < m.id /\ m.id <= written[p]
      /\ m.chan \in tx_busy[p] => m.id < tx_buff[p][m.chan]
  BY <1>0, <1>1, <1>2, Zenon DEF Fresh
<1>4. Ordered(p)'
  <2>1. Ordered(p)
    BY DEF InOrder
  <2>2. \A c \in Chan : rcvd'[n][c] = rcvd[n][c] \/ (c = m.chan /\ rcvd'[n][c] = m.id)
    BY <1>0, <1>1, <1>2, ZenonT(30)
  <2> QED BY <1>0, <1>1, <1>2, <1>3, <2>1, <2>2 DEF Ordered, HistoryOf
<1>5. done[p][m.chan] < m.id
  <2>1. done[p][m.chan] <= rcvd[n][m.chan]
    BY <1>0, <1>2, Zenon DEF InOrder, Ordered
  <2> QED BY <1>0, <1>2, <1>3, <2>1 DEF HistoryOf
<1>6. ASSUME NEW a \in Travelling(p)' PROVE Fresh(p, a)'
  <2>1. /\ a.kind = "ack" /\ a.chan = m.chan /\ a.id = m.id
        /\ a.fail \/ rcvd'[n][m.chan] = m.id
    BY <1>0, <1>1, <1>2, <1>6 DEF Ack
  <2> QED BY <1>0, <1>1, <1>5, <2>1 DEF Fresh
<1> QED BY <1>4, <1>6, Zenon DEF InOrder

LEMMA InOrderCompletes ==
    ASSUME TypeOK, NEW n \in Node, Completes(n), InOrder(n)
    PROVE  InOrder(n)'
<1>0. HistoryOf(n) /\ done \in [Node -> [Chan -> Nat]]
  BY HistoryTypes DEF TypeOK, HistoryType
<1>1. PICK m \in Msg :
        /\ m.kind = "ack" /\ Travelling(n) = {m} /\ Travelling(n)' = {}
        /\ \/ ~m.fail /\ done' = [done EXCEPT ![n][m.chan] = m.id]
           \/ UNCHANGED done
        /\ UNCHANGED <<tx_busy, tx_buff, written, rcvd>>
  BY Zenon DEF Completes
<1>2. Fresh(n, m) /\ m.chan \in Chan /\ m.id \in Nat
  BY <1>1 DEF InOrder, Msg
<1>3. m.fail \/ m.id = rcvd[Peer(n)][m.chan]
  BY <1>1, <1>2 DEF Fresh
<1>4. Ordered(n)'
  <2>1. Ordered(n)
    BY DEF InOrder
  <2> QED BY <1>0, <1>1, <1>2, <1>3, <2>1 DEF Ordered, HistoryOf
<1> QED BY <1>1, <1>4 DEF InOrder

LEMMA IdStep == TypeOK /\ IdInv /\ Step => IdInv'
<1> SUFFICES ASSUME TypeOK, IdInv, Step PROVE IdInv'
  OBVIOUS
<1>0. /\ \A d \in Node : InOrder(d) /\ HistoryOf(d)
      /\ \A d \in Node : Peer(d) \in Node /\ Peer(d) /= d /\ Peer(Peer(d)) = d
      /\ \A n, d \in Node : d = n \/ d = Peer(n)
      /\ written \in [Node -> Nat] /\ rcvd \in [Node -> [Chan -> Nat]]
      /\ done \in [Node -> [Chan -> Nat]] /\ tx_buff \in [Node -> [Chan -> Nat]]
      /\ tx_busy \in [Node -> SUBSET Chan]
  BY IdParts, HistoryTypes, PeerFacts DEF TypeOK, HistoryType, TxType, Node
<1>1. CASE Quiet
  BY <1>0, <1>1, IdParts, InOrderKept, Zenon DEF Quiet, Still, history
<1>2. ASSUME NEW n \in Node, Rests(n) PROVE IdInv'
  <2>1. \A d \in Node : Travelling(d)' = Travelling(d)
    BY <1>0, <1>2, Zenon DEF Rests, Still
  <2> QED BY <1>0, <1>2, <2>1, IdParts, InOrderKept, Zenon DEF Rests, history
<1>3. ASSUME NEW n \in Node, Answers(n) PROVE IdInv'
  <2>1. \A d \in Node : Travelling(d)' \subseteq Travelling(d)
    BY <1>0, <1>3, Zenon DEF Answers, Still
  <2> QED BY <1>0, <1>3, <2>1, IdParts, InOrderKept, Zenon DEF Answers, history
<1>4. ASSUME NEW n \in Node, Handles(n) PROVE IdInv'
  <2>1. /\ Travelling(n)' = Travelling(n) /\ UNCHANGED <<tx_busy, tx_buff, written, done>>
        /\ rcvd'[Peer(n)] = rcvd[Peer(n)]
    BY <1>0, <1>4, Zenon DEF Handles, Still
  <2>2. InOrder(n)'
    BY <1>0, <2>1, InOrderKept, Zenon
  <2> QED BY <1>0, <1>4, <2>2, IdParts, InOrderHandles, Zenon
<1>5. ASSUME NEW n \in Node, Completes(n) PROVE IdInv'
  <2>1. /\ Travelling(Peer(n))' = Travelling(Peer(n))
        /\ UNCHANGED <<tx_busy, tx_buff, written, rcvd>>
        /\ done'[Peer(n)] = done[Peer(n)]
    BY <1>0, <1>5, Zenon DEF Completes, Still
  <2>2. InOrder(Peer(n))'
    BY <1>0, <2>1, InOrderKept, Zenon
  <2> QED BY <1>0, <1>5, <2>2, IdParts, InOrderCompletes, Zenon
<1>6. ASSUME NEW n \in Node, NEW c \in Chan, Closes(n, c) PROVE IdInv'
  <2>1. \A d \in Node : tx_busy'[d] \subseteq tx_busy[d]
    BY <1>0, <1>6, Zenon DEF Closes
  <2> QED BY <1>0, <1>6, <2>1, IdParts, InOrderKept, Zenon DEF Closes, Still, history
<1>7. ASSUME NEW n \in Node, NEW c \in Chan, Writes(n, c)
      PROVE /\ written'[n] = written[n] + 1 /\ written'[Peer(n)] = written[Peer(n)]
            /\ tx_buff'[n] = [tx_buff[n] EXCEPT ![c] = written[n] + 1]
            /\ tx_buff'[Peer(n)] = tx_buff[Peer(n)] /\ rcvd' = rcvd /\ done' = done
  BY <1>0, <1>7, Zenon DEF Writes
<1>8. ASSUME NEW n \in Node, NEW c \in Chan, Waits(n, c) PROVE IdInv'
  <2>1. /\ tx_busy'[n] = tx_busy[n] \cup {c} /\ tx_busy'[Peer(n)] = tx_busy[Peer(n)]
        /\ \A d \in Node : Travelling(d)' = Travelling(d)
        /\ Writes(n, c)
    BY <1>0, <1>8, Zenon DEF Waits, Still
  <2>2. InOrder(n)'
    BY <1>0, <1>7, <2>1, InOrderWrites, Zenon
  <2>3. InOrder(Peer(n))'
    BY <1>0, <1>7, <2>1, InOrderKept, Zenon
  <2> QED BY <1>0, <2>2, <2>3, IdParts, Zenon
<1>9. ASSUME NEW n \in Node, NEW c \in Chan, NEW id, NEW busy, Leaves(n, c, id, busy)
      PROVE Travelling(Peer(n))' = Travelling(Peer(n)) /\ tx_busy'[Peer(n)] = tx_busy[Peer(n)]
  BY <1>0, <1>9, Zenon DEF Leaves, Still
<1>10. ASSUME NEW n \in Node, NEW c \in Chan, Goes(n, c) PROVE IdInv'
  <2>1. Writes(n, c) /\ Leaves(n, c, written[n] + 1, tx_busy[n] \cup {c})
    BY <1>10, Zenon DEF Goes
  <2>2. InOrder(Peer(n))'
    BY <1>0, <1>7, <1>9, <2>1, InOrderKept, Zenon
  <2>3. Ordered(n) /\ HistoryOf(n)
    BY <1>0, Zenon DEF InOrder
  <2>a. /\ written'[n] = written[n] + 1 /\ rcvd' = rcvd /\ done' = done
        /\ tx_buff'[n] = [tx_buff[n] EXCEPT ![c] = written[n] + 1]
    BY <1>7, <2>1, ZenonT(40)
  <2>4. \A e \in Chan : /\ done'[n][e] <= rcvd'[Peer(n)][e] /\ rcvd'[Peer(n)][e] <= written'[n]
                        /\ e \in tx_busy[n] \cup {c} => rcvd'[Peer(n)][e] < tx_buff'[n][e]
                                                        /\ tx_buff'[n][e] <= written'[n]
    BY <2>3, <2>a DEF Ordered, HistoryOf
  <2>5. /\ rcvd'[Peer(n)][c] < written[n] + 1 /\ written[n] + 1 <= written'[n]
        /\ written[n] + 1 \in Nat /\ tx_busy[n] \cup {c} \in SUBSET Chan
    BY <2>3, <2>a DEF Ordered, HistoryOf
  <2>6. InOrder(n)'
    BY <1>0, <2>1, <2>3, <2>4, <2>5, InOrderLeaves, ZenonT(40)
  <2> QED BY <1>0, <2>2, <2>6, IdParts, Zenon
<1>11. ASSUME NEW n \in Node, NEW c \in Chan, Resumes(n, c) PROVE IdInv'
  <2>1. /\ c \in tx_busy[n] /\ Leaves(n, c, tx_buff[n][c], tx_busy[n])
        /\ tx_buff' = tx_buff /\ written' = written /\ rcvd' = rcvd /\ done' = done
    BY <1>11, Zenon DEF Resumes, history
  <2>2. InOrder(Peer(n))'
    BY <1>0, <1>9, <2>1, InOrderKept, Zenon
  <2>3. Ordered(n) /\ HistoryOf(n) /\ tx_buff[n][c] \in Nat
    BY <1>0 DEF InOrder, HistoryOf
  <2>4. InOrder(n)'
    BY <1>0, <2>1, <2>3, InOrderLeaves, Zenon DEF Ordered, HistoryOf
  <2> QED BY <1>0, <2>2, <2>4, IdParts, Zenon
<1> QED BY <1>1, <1>2, <1>3, <1>4, <1>5, <1>6, <1>8, <1>10, <1>11, Zenon DEF Step

LEMMA NothingTravels == Init => \A n \in Node : Travelling(n) = {} /\ ~Scanning(n)
<1> SUFFICES ASSUME Init, NEW n \in Node PROVE Travelling(n) = {} /\ ~Scanning(n)
  OBVIOUS
<1>1. \A d \in Node : fifo[d] = <<>> /\ isr[d].pc = "idle"
  BY DEF Init, InitWith, Idle
<1>2. Peer(n) \in Node /\ \A d \in Node, b \in Box : ~Unread(d, b)
  BY <1>1, PeerFacts DEF Queued, Popped, Unread, Has
<1>3. ~CmdHeld(n) /\ ~AckHeld(n) /\ ~Scanning(n)
  BY <1>1, <1>2, Zenon DEF CmdHeld, AckHeld, Scanning
<1>4. \A y : ~Travels(n, y)
  BY <1>2, <1>3, Zenon DEF Travels
<1> QED BY <1>3, <1>4, TravelSet

LEMMA IdInit == Init => IdInv
<1> SUFFICES ASSUME Init, NEW n \in Node PROVE InOrder(n)
  BY IdParts
<1>1. Peer(n) \in Node /\ Travelling(n) = {}
  BY PeerFacts, NothingTravels
<1>2. /\ written = [d \in Node |-> 0] /\ rcvd = [d \in Node |-> [c \in Chan |-> 0]]
      /\ done = [d \in Node |-> [c \in Chan |-> 0]] /\ tx_busy = [d \in Node |-> {}]
  BY Zenon DEF Init, InitWith
<1> QED BY <1>1, <1>2 DEF InOrder, Ordered

LEMMA MatchCorrect == Spec => [](TypeOK /\ StructInv /\ MatchInv)
<1>1. Init => MatchInv
  BY MatchInit
<1>2. TypeOK /\ StructInv /\ MatchInv /\ [Next]_vars => MatchInv'
  BY MatchStep
<1> QED BY <1>1, <1>2, TypeCorrect, StructCorrect, PTL DEF Spec

LEMMA IdCorrect == Spec => []IdInv
<1>1. TypeOK /\ StructInv /\ MatchInv /\ IdInv /\ [Next]_vars => IdInv'
  BY StepKinds, IdStep
<1> QED BY <1>1, IdInit, MatchCorrect, PTL DEF Spec

\* mb_phy_chnl_rx_cmd_isr gives rx_isr every command of a channel once and in the order of
\* the writes, and mb_phy_chnl_rx_ack_isr completes it once, whatever is refused or lost.
THEOREM AtMostOnceCorrect == Spec => []AtMostOnce
<1>1. TypeOK /\ IdInv => AtMostOnce
  <2> SUFFICES ASSUME TypeOK, IdInv, NEW n \in Node
               PROVE /\ isr[n].pc = "copied" /\ isr[n].msg.kind = "cmd" =>
                          isr[n].msg.id > rcvd[n][isr[n].msg.chan]
                     /\ AckHeld(n) => isr[n].msg.id > done[n][isr[n].msg.chan]
    BY DEF AtMostOnce
  <2>0. Peer(n) \in Node /\ Peer(Peer(n)) = n /\ isr[n].msg \in Msg
        /\ rcvd \in [Node -> [Chan -> Nat]] /\ done \in [Node -> [Chan -> Nat]]
    BY PeerFacts DEF TypeOK, HistoryType, Handler
  <2>1. ASSUME isr[n].pc = "copied", isr[n].msg.kind = "cmd"
        PROVE isr[n].msg.id > rcvd[n][isr[n].msg.chan]
    <3>1. isr[n].msg \in Travelling(Peer(n))
      BY <2>0, <2>1, TravelIff DEF Travels, CmdHeld
    <3>2. Fresh(Peer(n), isr[n].msg)
      BY <2>0, <3>1 DEF IdInv
    <3> QED BY <2>0, <2>1, <3>2 DEF Fresh, Msg
  <2>2. ASSUME AckHeld(n) PROVE isr[n].msg.id > done[n][isr[n].msg.chan]
    <3>1. isr[n].msg \in Travelling(n) /\ isr[n].msg.kind = "ack"
      BY <2>2, TravelIff DEF Travels, AckHeld
    <3>2. Fresh(n, isr[n].msg)
      BY <3>1 DEF IdInv
    <3> QED BY <2>0, <3>1, <3>2 DEF Fresh, Msg
  <2> QED BY <2>1, <2>2
<1> QED BY <1>1, IdCorrect, TypeCorrect, PTL

\* A success is reported only for a command that rx_isr of the peer has handled, although
\* channels are closed, reopened and left without callbacks meanwhile.
THEOREM CompletedAfterHandledCorrect == Spec => []CompletedAfterHandled
<1>1. IdInv => CompletedAfterHandled
  BY DEF IdInv, Ordered, CompletedAfterHandled
<1> QED BY <1>1, IdCorrect, PTL

(***************************************************************************)
(* Room in the FIFOs                                                       *)
(***************************************************************************)
Room(n) == ipis[n] <= MaxIpi[n] /\ Len(fifo[n]) <= ipis[n] + Load(Peer(n))

LEMMA RoomParts == (RoomInv <=> \A n \in Node : Room(n)) /\ (RoomInv' <=> \A n \in Node : Room(n)')
BY DEF RoomInv, Room

LEMMA RoomKept ==
    ASSUME NEW n \in Node, Room(n), fifo'[n] = fifo[n], ipis'[n] = ipis[n]
    PROVE  Room(n)'
BY PeerFacts DEF Room, Load, Queued

LEMMA RoomTypes ==
    ASSUME MboxType, NEW n \in Node
    PROVE  /\ fifo[n] \in Seq(Box \cup {IPI}) /\ Len(fifo[n]) \in Nat
           /\ ipis[n] \in Int /\ MaxIpi[n] \in Nat /\ FifoLen[n] \in Nat
           /\ Load(n) \in 0..2
           /\ IPI \in Box \cup {IPI} /\ \A b \in Box : IPI /= b
BY ConstantsOK DEF MboxType, Load, IPI, Box

LEMMA SendRoom ==
    ASSUME MboxType, RoomInv, NEW n \in Node, NEW m, bk_mailbox_send(n, m),
           ~Unread(n, 1 - tx_box[n])
    PROVE  RoomInv'
<1> DEFINE p == Peer(n)
           x == 1 - tx_box[n]
<1>0. p \in Node /\ p /= n /\ Peer(p) = n /\ (x = 0 \/ x = 1) /\ x \in Box /\ (tx_box[n] + 1) % 2 = x
      /\ \A d \in Node : d = n \/ d = p
  BY PeerFacts, OtherBox DEF MboxType, Box, Node
<1>1. fifo \in [Node -> Seq(Box \cup {IPI})] /\ ipis \in [Node -> Int]
  BY DEF MboxType
<1>2. Room(n) /\ Room(p)
  BY <1>0, RoomParts
<1>3. \/ fifo' = [fifo EXCEPT ![p] = Append(@, x)] /\ ipis' = ipis
      \/ /\ fifo' = [fifo EXCEPT ![p] = Append(@, IPI)] /\ ipis' = [ipis EXCEPT ![p] = @ + 1]
         /\ ipis[p] < MaxIpi[p]
  BY <1>0, Zenon DEF bk_mailbox_send
<1>4. Room(n)'
  <2>1. fifo'[n] = fifo[n] /\ ipis'[n] = ipis[n]
    BY <1>0, <1>1, <1>3, Zenon
  <2> QED BY <1>2, <2>1, RoomKept, Zenon
<1>5. Room(p)'
  <2>1. ~Queued(n, x)
    BY DEF Unread
  <2>2. CASE fifo'[p] = Append(fifo[p], x) /\ ipis'[p] = ipis[p]
    <3>1. \A b \in Box : Queued(n, b)' <=> Queued(n, b) \/ x = b
      <4>1. fifo[p] \in Seq(Box \cup {IPI}) /\ x \in Box \cup {IPI}
        BY <1>0, RoomTypes
      <4> HIDE DEF x, p
      <4>2. \A b \in Box : Has(fifo'[p], b) <=> Has(fifo[p], b) \/ x = b
        BY <2>2, <4>1, PushHas
      <4> QED BY <4>2, Zenon DEF Queued, p
    <3>2. Load(n)' = Load(n) + 1
      BY <1>0, <2>1, <3>1 DEF Load, Box
    <3>3. Len(fifo'[p]) = Len(fifo[p]) + 1
      BY <1>0, <2>2, RoomTypes
    <3> QED BY <1>0, <1>2, <2>2, <3>2, <3>3, RoomTypes DEF Room
  <2>3. CASE fifo'[p] = Append(fifo[p], IPI) /\ ipis'[p] = ipis[p] + 1 /\ ipis[p] < MaxIpi[p]
    <3>1. \A b \in Box : Queued(n, b)' <=> Queued(n, b)
      BY <1>0, <2>3, RoomTypes, PushHas DEF Queued
    <3>2. Load(n)' = Load(n)
      BY <3>1 DEF Load, Box
    <3>3. Len(fifo'[p]) = Len(fifo[p]) + 1
      BY <1>0, <2>3, RoomTypes
    <3> QED BY <1>0, <1>2, <2>3, <3>2, <3>3, RoomTypes DEF Room
  <2> QED BY <1>0, <1>1, <1>3, <2>2, <2>3, Zenon
<1> QED BY <1>0, <1>4, <1>5, RoomParts, Zenon

LEMMA IpiRoom ==
    ASSUME MboxType, RoomInv, NEW n \in Node, bk_mailbox_master_send(n)
    PROVE  RoomInv'
<1> DEFINE p == Peer(n)
<1>0. p \in Node /\ p /= n /\ Peer(p) = n /\ \A d \in Node : d = n \/ d = p
  BY PeerFacts DEF Node
<1>1. /\ fifo'[n] = Append(fifo[n], IPI) /\ ipis'[n] = ipis[n] + 1 /\ ipis[n] < MaxIpi[n]
      /\ fifo'[p] = fifo[p] /\ ipis'[p] = ipis[p]
  BY <1>0, Zenon DEF bk_mailbox_master_send, MboxType
<1>2. Room(n) /\ Room(p)
  BY <1>0, RoomParts
<1>3. Room(p)'
  BY <1>0, <1>1, <1>2, RoomKept
<1>4. Room(n)'
  <2>1. \A b \in Box : Queued(p, b)' <=> Queued(p, b)
    BY <1>0, <1>1, RoomTypes, PushHas DEF Queued
  <2>2. Load(p)' = Load(p)
    BY <2>1 DEF Load, Box
  <2>3. Len(fifo'[n]) = Len(fifo[n]) + 1
    BY <1>0, <1>1, RoomTypes
  <2> QED BY <1>0, <1>1, <1>2, <2>2, <2>3, RoomTypes DEF Room
<1> QED BY <1>0, <1>3, <1>4, RoomParts, Zenon

LEMMA PopRoom ==
    ASSUME MboxType, StructInv, RoomInv, NEW n \in Node, mbox0_drv_isr_handler(n)
    PROVE  RoomInv'
<1> DEFINE p == Peer(n)
           q == fifo[n]
<1>0. p \in Node /\ p /= n /\ Peer(p) = n /\ \A d \in Node : d = n \/ d = p
  BY PeerFacts DEF Node
<1>1. /\ fifo'[n] = Tail(q) /\ fifo'[p] = fifo[p] /\ q /= <<>> /\ q \in Seq(Box \cup {IPI})
      /\ ipis'[p] = ipis[p]
      /\ \/ Head(q) = IPI /\ ipis'[n] = ipis[n] - 1
         \/ Head(q) \in Box /\ ipis'[n] = ipis[n]
  <2>1. q \in Seq(Box \cup {IPI}) /\ q /= <<>>
    BY RoomTypes DEF mbox0_drv_isr_handler
  <2>2. Head(q) \in Box \cup {IPI}
    BY <2>1
  <2> QED BY <1>0, <2>1, <2>2, Zenon DEF mbox0_drv_isr_handler, MboxType
<1>2. Room(n) /\ Room(p)
  BY <1>0, RoomParts
<1>3. Room(p)'
  BY <1>0, <1>1, <1>2, RoomKept
<1>4. Len(fifo'[n]) = Len(q) - 1
  BY <1>1
<1>5. \A b \in Box : /\ Queued(p, b) <=> Head(q) = b \/ Queued(p, b)'
                     /\ Head(q) = b => ~Queued(p, b)'
  <2>1. \A b \in Box : Single(q, b)
    BY <1>0, Zenon DEF StructInv, OneReference
  <2> QED BY <1>0, <1>1, <2>1, PopHas DEF Queued
<1>6. Room(n)'
  <2>1. CASE Head(q) = IPI /\ ipis'[n] = ipis[n] - 1
    <3>1. Load(p)' = Load(p)
      BY <1>5, <2>1, RoomTypes DEF Load, Box
    <3> QED BY <1>0, <1>2, <1>4, <2>1, <3>1, RoomTypes, SMTT(30) DEF Room
  <2>2. CASE Head(q) \in Box /\ ipis'[n] = ipis[n]
    <3>1. Load(p)' = Load(p) - 1
      BY <1>5, <2>2 DEF Load, Box
    <3> QED BY <1>0, <1>2, <1>4, <2>2, <3>1, RoomTypes DEF Room
  <2> QED BY <1>1, <2>1, <2>2
<1> QED BY <1>0, <1>3, <1>6, RoomParts, Zenon

LEMMA RoomAlone == RoomInv /\ UNCHANGED mbox => RoomInv'
BY DEF RoomInv, Load, Queued, mbox

LEMMA TxCmdRoom ==
    ASSUME TypeOK, StructInv, RoomInv, NEW n \in Node, NEW c \in Chan, NEW id \in Nat,
           NEW busy \in SUBSET Chan, mb_phy_chnl_tx_cmd(n, c, id, busy),
           \/ phy[n].tx_state = IDLE /\ isr'[n] = isr[n]
           \/ Scanning(n) /\ isr'[n].pc = "idle",
           isr'[Peer(n)] = isr[Peer(n)]
    PROVE  RoomInv'
<1>1. ~Unread(n, 1 - tx_box[n]) /\ MboxType
  BY TxCmdMoves, Zenon DEF Leaves, TypeOK
<1> QED BY <1>1, SendRoom, RoomAlone, Zenon DEF mb_phy_chnl_tx_cmd, bk_mailbox_refuse

LEMMA RoomStep == TypeOK /\ StructInv /\ RoomInv /\ [Next]_vars => RoomInv'
<1> SUFFICES ASSUME TypeOK, StructInv, RoomInv, [Next]_vars PROVE RoomInv'
  OBVIOUS
<1>0. MboxType
  BY DEF TypeOK
<1>1. CASE UNCHANGED vars
  BY <1>1, RoomAlone, Zenon DEF vars
<1>2. ASSUME NEW n \in Node, mb_phy_chnl_scan(n) PROVE RoomInv'
  <2>1. /\ Peer(n) \in Node /\ Peer(n) /= n /\ isr \in [Node -> Handler]
        /\ tx_busy \in [Node -> SUBSET Chan] /\ tx_buff \in [Node -> [Chan -> Nat]]
    BY PeerFacts DEF TypeOK, TxType
  <2>2. Scanning(n) /\ isr'[n].pc = "idle" /\ isr'[Peer(n)] = isr[Peer(n)]
    BY <1>2, <2>1, Zenon DEF mb_phy_chnl_scan, Scanning, Idle
  <2>3. ASSUME NEW c \in tx_busy[n], mb_phy_chnl_tx_cmd(n, c, tx_buff[n][c], tx_busy[n])
        PROVE RoomInv'
    <3>1. c \in Chan /\ tx_buff[n][c] \in Nat /\ tx_busy[n] \in SUBSET Chan
      BY <2>1
    <3> QED BY <2>2, <2>3, <3>1, TxCmdRoom, Zenon
  <2> QED BY <1>2, <2>3, RoomAlone, Zenon DEF mb_phy_chnl_scan
<1>3. ASSUME NEW n \in Node, mb_phy_chnl_tx_ack(n) PROVE RoomInv'
  BY <1>0, <1>3, TxAckMoves, SendRoom, RoomAlone, Zenon DEF mb_phy_chnl_tx_ack, bk_mailbox_refuse
<1>4. ASSUME NEW n \in Node, NEW c \in Chan, App(n, c) PROVE RoomInv'
  <2>1. CASE mb_chnl_write(n, c)
    <3>1. written[n] + 1 \in Nat /\ tx_busy[n] \cup {c} \in SUBSET Chan
      BY DEF TypeOK, HistoryType, TxType
    <3>2. CASE phy[n].tx_state = IDLE
               /\ mb_phy_chnl_tx_cmd(n, c, written[n] + 1, tx_busy[n] \cup {c})
      BY <2>1, <3>1, <3>2, TxCmdRoom, Zenon DEF mb_chnl_write
    <3> QED BY <2>1, <3>2, RoomAlone, Zenon DEF mb_chnl_write, mb_phy_chnl_start_tx
  <2>2. CASE UNCHANGED mbox
    BY <2>2, RoomAlone
  <2> QED BY <1>4, <2>1, <2>2, Zenon DEF App, mb_chnl_open, mb_chnl_close, mb_chnl_close_end,
                                  mb_chnl_ctrl_set, mb_chnl_ctrl_clear
<1>5. ASSUME NEW n \in Node, Isr(n) PROVE RoomInv'
  <2>1. CASE UNCHANGED mbox
    BY <2>1, RoomAlone
  <2> QED BY <1>0, <1>2, <1>3, <1>5, <2>1, PopRoom, Zenon
          DEF Isr, mbox0_rx_isr, mb_phy_chnl_rx_ack_isr, mb_phy_chnl_rx_cmd_isr
<1> QED BY <1>0, <1>1, <1>4, <1>5, IpiRoom, Zenon DEF Next

LEMMA RoomInit == Init => RoomInv
<1> SUFFICES ASSUME Init, NEW n \in Node PROVE Room(n)
  BY RoomParts
<1>1. fifo[n] = <<>> /\ ipis[n] = 0
  BY DEF Init, InitWith
<1>2. Load(Peer(n)) \in 0..2 /\ MaxIpi[n] \in Nat
  BY ConstantsOK DEF Load
<1> QED BY <1>1, <1>2 DEF Room

\* both senders leave the other box of their node, at most, in the FIFO of the peer
LEMMA RoomToSend ==
    ASSUME Roomy, MboxType, RoomInv, NEW n \in Node, ~Unread(n, 1 - tx_box[n])
    PROVE  ~Crowded(n)
<1> DEFINE p == Peer(n)
<1>0. p \in Node /\ Peer(p) = n /\ (1 - tx_box[n] = 0 \/ 1 - tx_box[n] = 1)
  <2>1. tx_box[n] \in 0..1
    BY DEF MboxType, Box
  <2> QED BY <2>1, PeerFacts
<1>1. ~Queued(n, 0) \/ ~Queued(n, 1)
  BY <1>0 DEF Unread
<1>2. Load(n) <= 1 /\ Load(n) \in Nat
  BY <1>1 DEF Load
<1>3. Room(p) /\ MaxIpi[p] + 2 <= FifoLen[p]
  BY <1>0, RoomParts DEF Roomy
<1> QED BY <1>0, <1>2, <1>3, RoomTypes DEF Room, Crowded, Full

(***************************************************************************)
(* No command is stranded                                                  *)
(***************************************************************************)
Live(n) ==
    /\ phy[n].tx_state = IDLE => tx_busy[n] = {}
    /\ phy[n].tx_state = BUSY => Travelling(n) /= {} \/ Scanning(n)

LEMMA LiveParts == NoStranded <=> \A n \in Node : Live(n)
BY TokenTravels DEF NoStranded, Live, Token

LEMMA TokenTravelsNext == \A n \in Node : Token(n)' <=> Travelling(n)' /= {} \/ Scanning(n)'
<1> SUFFICES ASSUME NEW n \in Node PROVE Token(n)' <=> (\E m : Travels(n, m)') \/ Scanning(n)'
  BY TravelIffNext
<1> QED BY Zenon DEF Token, Travels, CmdUnread, AckUnread

LEMMA LivePartsNext == NoStranded' <=> \A n \in Node : Live(n)'
BY TokenTravelsNext DEF NoStranded, Live, Token

LEMMA LiveKept ==
    ASSUME NEW d \in Node, Live(d), Still(d), phy'[d] = phy[d],
           tx_busy'[d] \subseteq tx_busy[d] \/ phy[d].tx_state = BUSY
    PROVE  Live(d)'
<1>1. IDLE /= BUSY
  BY DEF IDLE, BUSY
<1> QED BY <1>1 DEF Live, Still

LEMMA StrandStep ==
    ASSUME Roomy, TypeOK, RoomInv, NoStranded, Step
    PROVE  NoStranded'
<1>0. /\ \A d \in Node : Live(d)
      /\ \A d \in Node : Peer(d) \in Node /\ Peer(d) /= d /\ Peer(Peer(d)) = d
      /\ \A n, d \in Node : d = n \/ d = Peer(n)
      /\ tx_busy \in [Node -> SUBSET Chan] /\ MboxType /\ IDLE /= BUSY
  BY LiveParts, PeerFacts DEF TypeOK, TxType, Node, IDLE, BUSY
<1>1. CASE Quiet
  BY <1>0, <1>1, LiveKept, LivePartsNext, Zenon DEF Quiet
<1>2. ASSUME NEW n \in Node, Rests(n) PROVE NoStranded'
  <2>1. Live(n)'
    BY <1>0, <1>2, Zenon DEF Rests, Live
  <2>2. Live(Peer(n))'
    BY <1>0, <1>2, LiveKept, Zenon DEF Rests
  <2> QED BY <1>0, <2>1, <2>2, LivePartsNext, Zenon
<1>3. ASSUME NEW n \in Node, Answers(n) PROVE NoStranded'
  <2>1. ~Crowded(n)
    BY <1>0, <1>3, RoomToSend, Zenon DEF Answers
  <2>2. \A d \in Node : Still(d)
    BY <1>0, <1>3, <2>1, Zenon DEF Answers, Still
  <2> QED BY <1>0, <1>3, <2>2, LiveKept, LivePartsNext, Zenon DEF Answers
<1>4. ASSUME NEW n \in Node, Handles(n) PROVE NoStranded'
  <2>1. Live(n)'
    BY <1>0, <1>4, LiveKept, Zenon DEF Handles
  <2>2. Live(Peer(n))'
    <3>1. /\ Travelling(Peer(n))' /= {} /\ phy' = phy /\ tx_busy' = tx_busy
      BY <1>4, Zenon DEF Handles
    <3> QED BY <1>0, <3>1, Zenon DEF Live
  <2> QED BY <1>0, <2>1, <2>2, LivePartsNext, Zenon
<1>5. ASSUME NEW n \in Node, Completes(n) PROVE NoStranded'
  <2>1. Live(n)'
    BY <1>0, <1>5, Zenon DEF Completes, Live
  <2>2. Live(Peer(n))'
    BY <1>0, <1>5, LiveKept, Zenon DEF Completes
  <2> QED BY <1>0, <2>1, <2>2, LivePartsNext, Zenon
<1>6. ASSUME NEW n \in Node, NEW c \in Chan, Closes(n, c) PROVE NoStranded'
  <2>1. \A d \in Node : tx_busy'[d] \subseteq tx_busy[d]
    BY <1>0, <1>6, Zenon DEF Closes
  <2> QED BY <1>0, <1>6, <2>1, LiveKept, LivePartsNext, Zenon DEF Closes
<1>7. ASSUME NEW n \in Node, NEW c \in Chan, Waits(n, c) PROVE NoStranded'
  <2>1. tx_busy'[Peer(n)] = tx_busy[Peer(n)]
    BY <1>0, <1>7, Zenon DEF Waits
  <2> QED BY <1>0, <1>7, <2>1, LiveKept, LivePartsNext, Zenon DEF Waits
<1>8. ASSUME NEW n \in Node, NEW c \in Chan, NEW id, NEW busy, Leaves(n, c, id, busy)
      PROVE NoStranded'
  <2>1. ~Crowded(n)
    BY <1>0, <1>8, RoomToSend, ZenonT(40) DEF Leaves
  <2>2. Live(n)'
    BY <1>0, <1>8, <2>1 DEF Leaves, Live
  <2>3. Live(Peer(n))'
    BY <1>0, <1>8, LiveKept, Zenon DEF Leaves
  <2> QED BY <1>0, <2>2, <2>3, LivePartsNext, Zenon
<1> QED BY <1>1, <1>2, <1>3, <1>4, <1>5, <1>6, <1>7, <1>8, Zenon DEF Step, Goes, Resumes

LEMMA StrandInit == Init => NoStranded
<1> SUFFICES ASSUME Init, NEW n \in Node PROVE Live(n)
  BY LiveParts
<1>1. phy[n].tx_state = IDLE /\ tx_busy[n] = {} /\ IDLE /= BUSY
  BY DEF Init, InitWith, IDLE, BUSY
<1> QED BY <1>1, Zenon DEF Live

LEMMA RoomCorrect == Spec => []RoomInv
BY RoomInit, RoomStep, TypeCorrect, StructCorrect, PTL DEF Spec

\* "Set to BUSY means there is data in tx-buff": when the interrupts of the other core leave
\* room for a command and an acknowledgement, a channel with data always has a handler or
\* an acknowledgement on its way that makes mb_phy_chnl_rx_ack_isr look for it.
THEOREM NoStrandedCorrect ==
    ASSUME Roomy
    PROVE  Spec => []NoStranded
<1>1. TypeOK /\ StructInv /\ MatchInv /\ RoomInv /\ NoStranded /\ [Next]_vars => NoStranded'
  BY StepKinds, StrandStep
<1> QED BY <1>1, StrandInit, RoomCorrect, MatchCorrect, PTL DEF Spec

LEMMA PriorityStep ==
    ASSUME NoStranded, Step, NEW d \in Node, phy'[d].tx_seq /= phy[d].tx_seq, NEW e \in tx_busy[d]
    PROVE  phy'[d].tx_log_chnl <= e
<1>0. /\ \A n \in Node : n = d \/ Peer(n) = d
      /\ \A n \in Node : Live(n)
  BY PeerFacts, LiveParts DEF Node
<1>1. ~Quiet /\ \A n \in Node : ~Rests(n) /\ ~Handles(n) /\ ~Completes(n) /\ ~Answers(n)
  BY <1>0, Zenon DEF Quiet, Rests, Handles, Completes, Answers
<1>2. \A n \in Node, c \in Chan : ~Closes(n, c) /\ ~Waits(n, c)
  BY Zenon DEF Closes, Waits
<1>3. \A n \in Node, c \in Chan : ~Goes(n, c)
  BY <1>0, Zenon DEF Goes, Leaves, Live
<1>4. PICK n \in Node, c \in Chan : Resumes(n, c)
  BY <1>1, <1>2, <1>3, Zenon DEF Step
<1>5. n = d
  BY <1>0, <1>4, Zenon DEF Resumes, Leaves
<1> QED BY <1>4, <1>5, Zenon DEF Resumes, Leaves

\* A command that goes to the wire, from mb_chnl_write or from the search in
\* mb_phy_chnl_rx_ack_isr, is that of the most urgent channel with data, when the
\* interrupts of the other core leave room.
THEOREM PriorityOrderCorrect ==
    ASSUME Roomy
    PROVE  Spec => PriorityOrder
<1>1. TypeOK /\ StructInv /\ MatchInv /\ NoStranded /\ [Next]_vars
      => [\A n \in Node : phy'[n].tx_seq /= phy[n].tx_seq =>
            \A c \in tx_busy[n] : phy'[n].tx_log_chnl <= c]_vars
  BY StepKinds, PriorityStep
<1> QED BY <1>1, MatchCorrect, NoStrandedCorrect, PTL DEF Spec, PriorityOrder

(***************************************************************************)
(* MailboxChannel implements ChannelLink                                   *)
(***************************************************************************)
Wire(m) ==
    [st |-> IF m.kind = "cmd" THEN "sent" ELSE IF m.fail THEN "turned_down" ELSE "handled",
     chan |-> m.chan, id |-> m.id]

LEMMA WireFacts ==
    ASSUME NEW n \in Node
    PROVE  /\ Travelling(n) = {} => wireBar[n] = Link!Free
           /\ Travelling(n)' = {} => wireBar'[n] = Link!Free
           /\ \A m : Travelling(n) = {m} => wireBar[n] = Wire(m)
           /\ \A m : Travelling(n)' = {m} => wireBar'[n] = Wire(m)
           /\ Travelling(n)' = Travelling(n) => wireBar'[n] = wireBar[n]
<1>1. wireBar[n] = UnderWay(n) /\ wireBar'[n] = UnderWay(n)'
  BY DEF wireBar
<1>2. \A m : Travelling(n) = {m} => (CHOOSE x \in Travelling(n) : TRUE) = m
  OBVIOUS
<1>3. \A m : Travelling(n)' = {m} => (CHOOSE x \in Travelling(n)' : TRUE) = m
  OBVIOUS
<1>4. \A m : {m} /= {}
  OBVIOUS
<1>5. Travelling(n) = {} => wireBar[n] = Link!Free
  BY <1>1, Zenon DEF UnderWay, Link!Free
<1>6. Travelling(n)' = {} => wireBar'[n] = Link!Free
  BY <1>1, Zenon DEF UnderWay, Link!Free
<1>7. ASSUME NEW m, Travelling(n) = {m} PROVE wireBar[n] = Wire(m)
  BY <1>1, <1>2, <1>4, <1>7, Zenon DEF UnderWay, Wire
<1>8. ASSUME NEW m, Travelling(n)' = {m} PROVE wireBar'[n] = Wire(m)
  BY <1>1, <1>3, <1>4, <1>8, Zenon DEF UnderWay, Wire
<1>9. Travelling(n)' = Travelling(n) => wireBar'[n] = wireBar[n]
  BY <1>1 DEF UnderWay
<1> QED BY <1>5, <1>6, <1>7, <1>8, <1>9, Zenon

LEMMA WireUpdate ==
    ASSUME NEW n \in Node, NEW v, wireBar'[n] = v, wireBar'[Peer(n)] = wireBar[Peer(n)]
    PROVE  wireBar' = [wireBar EXCEPT ![n] = v]
<1>1. \A d \in Node : d = n \/ d = Peer(n)
  BY PeerFacts DEF Node
<1>2. /\ wireBar = [d \in Node |-> wireBar[d]]
      /\ wireBar' = [d \in Node |-> wireBar'[d]]
  BY DEF wireBar
<1> QED BY <1>1, <1>2, PeerFacts

LEMMA WireSame == (\A d \in Node : Travelling(d)' = Travelling(d)) => wireBar' = wireBar
<1>1. /\ wireBar = [d \in Node |-> wireBar[d]]
      /\ wireBar' = [d \in Node |-> wireBar'[d]]
  BY DEF wireBar
<1> QED BY <1>1, WireFacts

LEMMA PendIs ==
    /\ \A n \in Node, c \in Chan : c \in tx_busy[n] => pendBar[n][c] = tx_buff[n][c]
    /\ \A n \in Node, c \in Chan : c \notin tx_busy[n] => pendBar[n][c] = 0
    /\ \A n \in Node, c \in Chan : c \in tx_busy'[n] => pendBar'[n][c] = tx_buff'[n][c]
    /\ \A n \in Node, c \in Chan : c \notin tx_busy'[n] => pendBar'[n][c] = 0
BY DEF pendBar

LEMMA PendUpdate ==
    ASSUME NEW n \in Node, NEW c \in Chan,
           \A e \in Chan : e /= c => pendBar'[n][e] = pendBar[n][e],
           \A e \in Chan : pendBar'[Peer(n)][e] = pendBar[Peer(n)][e]
    PROVE  pendBar' = [pendBar EXCEPT ![n][c] = pendBar'[n][c]]
<1>1. \A d \in Node : d = n \/ d = Peer(n)
  BY PeerFacts DEF Node
<1>2. \A d \in Node : /\ pendBar[d] = [e \in Chan |-> pendBar[d][e]]
                      /\ pendBar'[d] = [e \in Chan |-> pendBar'[d][e]]
  BY DEF pendBar
<1>3. pendBar = [d \in Node |-> pendBar[d]] /\ pendBar' = [d \in Node |-> pendBar'[d]]
  BY DEF pendBar
<1>4. pendBar'[n] = [pendBar[n] EXCEPT ![c] = pendBar'[n][c]]
  <2>1. PICK f, g : f = pendBar[n] /\ g = pendBar'[n]
    OBVIOUS
  <2>2. f = [e \in Chan |-> f[e]] /\ g = [e \in Chan |-> g[e]]
    BY <1>2, <2>1, Zenon
  <2>3. \A e \in Chan : e /= c => g[e] = f[e]
    BY <2>1, Zenon
  <2>4. g = [f EXCEPT ![c] = g[c]]
    BY <2>2, <2>3
  <2> QED BY <2>1, <2>4, Zenon
<1>5. pendBar'[Peer(n)] = pendBar[Peer(n)]
  <2>1. PICK f, g : f = pendBar[Peer(n)] /\ g = pendBar'[Peer(n)]
    OBVIOUS
  <2>2. f = [e \in Chan |-> f[e]] /\ g = [e \in Chan |-> g[e]]
    BY <1>2, <2>1, PeerFacts, Zenon
  <2>3. \A e \in Chan : g[e] = f[e]
    BY <2>1, Zenon
  <2> QED BY <2>1, <2>2, <2>3
<1>6. pendBar' = [pendBar EXCEPT ![n] = pendBar'[n]]
  <2>1. \A d \in Node : d /= n => pendBar'[d] = pendBar[d]
    BY <1>1, <1>5, Zenon
  <2> QED BY <1>3, <2>1
<1> QED BY <1>4, <1>6, Zenon

LEMMA PendSame ==
    ASSUME \A n \in Node, e \in Chan : pendBar'[n][e] = pendBar[n][e]
    PROVE  pendBar' = pendBar
<1>1. \A d \in Node : /\ pendBar[d] = [e \in Chan |-> pendBar[d][e]]
                      /\ pendBar'[d] = [e \in Chan |-> pendBar'[d][e]]
  BY DEF pendBar
<1>2. pendBar = [d \in Node |-> pendBar[d]] /\ pendBar' = [d \in Node |-> pendBar'[d]]
  BY DEF pendBar
<1>3. ASSUME NEW d \in Node PROVE pendBar'[d] = pendBar[d]
  <2>1. PICK f, g : f = pendBar[d] /\ g = pendBar'[d]
    OBVIOUS
  <2>2. f = [e \in Chan |-> f[e]] /\ g = [e \in Chan |-> g[e]]
    BY <1>1, <2>1, Zenon
  <2>3. \A e \in Chan : g[e] = f[e]
    BY <2>1, Zenon
  <2> QED BY <2>1, <2>2, <2>3
<1> QED BY <1>2, <1>3

LEMMA OtherIsPeer == \A n \in Node : Link!Other(n) = Peer(n)
<1> SUFFICES ASSUME NEW n \in Node PROVE (CHOOSE m \in Node : m /= n) = Peer(n)
  BY DEF Link!Other
<1>1. \A m \in Node : m /= n <=> m = Peer(n)
  BY PeerFacts DEF Node
<1> QED BY <1>1, PeerFacts

\* what waits in a channel has a number
LEMMA WaitingNumber ==
    ASSUME TypeOK, IdInv, NEW n \in Node, NEW c \in Chan
    PROVE  pendBar[n][c] = 0 <=> c \notin tx_busy[n]
<1>1. Ordered(n) /\ Peer(n) \in Node
  BY PeerFacts DEF IdInv
<1>2. rcvd[Peer(n)][c] \in Nat /\ tx_buff[n][c] \in Nat
  BY <1>1 DEF TypeOK, TxType, HistoryType
<1>3. c \in tx_busy[n] => tx_buff[n][c] /= 0
  BY <1>1, <1>2 DEF Ordered
<1> QED BY <1>3, PendIs, Zenon

LEMMA LinkStays ==
    ASSUME \A d \in Node : Travelling(d)' = Travelling(d), UNCHANGED <<tx_busy, tx_buff, history>>
    PROVE  UNCHANGED Link!linkVars
<1>1. pendBar' = pendBar
  BY DEF pendBar
<1>2. wireBar' = wireBar
  BY WireSame
<1> QED BY <1>1, <1>2 DEF Link!linkVars, history

LEMMA LinkCloses ==
    ASSUME TypeOK, IdInv, NEW n \in Node, NEW c \in Chan, Closes(n, c)
    PROVE  Link!Discard(n, c) \/ UNCHANGED Link!linkVars
<1>0. /\ Peer(n) \in Node /\ Peer(n) /= n /\ tx_busy \in [Node -> SUBSET Chan]
  BY PeerFacts DEF TypeOK, TxType
<1>1. UNCHANGED <<wireBar, written, rcvd, done, tx_buff>>
  BY WireSame DEF Closes, Still, history
<1>2. tx_busy'[n] = tx_busy[n] \ {c} /\ tx_busy'[Peer(n)] = tx_busy[Peer(n)]
  BY <1>0 DEF Closes
<1>3. CASE c \in tx_busy[n]
  <2>1. ASSUME NEW e \in Chan, e /= c PROVE pendBar'[n][e] = pendBar[n][e]
    BY <1>1, <1>2, <2>1, PendIs
  <2>2. ASSUME NEW e \in Chan PROVE pendBar'[Peer(n)][e] = pendBar[Peer(n)][e]
    BY <1>0, <1>1, <1>2, PendIs
  <2>3. pendBar' = [pendBar EXCEPT ![n][c] = 0]
    <3>1. pendBar' = [pendBar EXCEPT ![n][c] = pendBar'[n][c]]
      BY <2>1, <2>2, PendUpdate
    <3>2. pendBar'[n][c] = 0
      BY <1>2, PendIs
    <3> QED BY <3>1, <3>2, Zenon
  <2> QED BY <1>1, <1>3, <2>3, WaitingNumber, Zenon DEF Link!Discard
<1>4. CASE c \notin tx_busy[n]
  <2>1. tx_busy' = tx_busy
    BY <1>0, <1>4 DEF Closes
  <2>2. pendBar' = pendBar
    BY <1>1, <2>1 DEF pendBar
  <2> QED BY <1>1, <2>2 DEF Link!linkVars
<1> QED BY <1>3, <1>4

LEMMA LinkWaits ==
    ASSUME TypeOK, IdInv, NEW n \in Node, NEW c \in Chan, Waits(n, c)
    PROVE  Link!Write(n, c)
<1>0. /\ Peer(n) \in Node /\ Peer(n) /= n /\ tx_busy \in [Node -> SUBSET Chan]
      /\ tx_buff \in [Node -> [Chan -> Nat]] /\ written \in [Node -> Nat]
  BY PeerFacts DEF TypeOK, TxType, HistoryType
<1>1. UNCHANGED <<wireBar, rcvd, done>>
  BY WireSame DEF Waits, Writes, Still
<1>2. /\ tx_busy'[n] = tx_busy[n] \cup {c} /\ tx_busy'[Peer(n)] = tx_busy[Peer(n)]
      /\ tx_buff'[Peer(n)] = tx_buff[Peer(n)]
      /\ tx_buff'[n][c] = written[n] + 1
      /\ \A e \in Chan : e /= c => tx_buff'[n][e] = tx_buff[n][e]
      /\ written'[n] = written[n] + 1
  BY <1>0 DEF Waits, Writes
<1>3. ASSUME NEW e \in Chan, e /= c PROVE pendBar'[n][e] = pendBar[n][e]
  BY <1>2, <1>3, PendIs
<1>4. ASSUME NEW e \in Chan PROVE pendBar'[Peer(n)][e] = pendBar[Peer(n)][e]
  BY <1>0, <1>2, PendIs
<1>5. pendBar' = [pendBar EXCEPT ![n][c] = written'[n]]
  <2>1. pendBar' = [pendBar EXCEPT ![n][c] = pendBar'[n][c]]
    BY <1>3, <1>4, PendUpdate
  <2>2. pendBar'[n][c] = written'[n]
    BY <1>2, PendIs
  <2> QED BY <2>1, <2>2, Zenon
<1>6. pendBar[n][c] = 0 /\ written' = [written EXCEPT ![n] = @ + 1]
  BY WaitingNumber, Zenon DEF Waits, Writes
<1> QED BY <1>1, <1>5, <1>6, Zenon DEF Link!Write

\* a command that leaves a link with room is carried by the wire
LEMMA WireLeaves ==
    ASSUME Roomy, TypeOK, RoomInv, NEW n \in Node, NEW c \in Chan, NEW id, NEW busy,
           Leaves(n, c, id, busy)
    PROVE  /\ wireBar[n] = Link!Free
           /\ wireBar' = [wireBar EXCEPT ![n] = Link!Carries(c, id)]
           /\ tx_busy' = [tx_busy EXCEPT ![n] = busy \ {c}]
<1>1. ~Crowded(n)
  BY RoomToSend, Zenon DEF Leaves, TypeOK
<1>2. PICK seq \in 0..SeqMod-1 : Travelling(n)' = {Command(c, seq, id)}
  BY <1>1, Zenon DEF Leaves
<1>3. Wire(Command(c, seq, id)) = Link!Carries(c, id)
  BY DEF Wire, Command, Link!Carries
<1>4. wireBar'[n] = Link!Carries(c, id)
  BY <1>2, <1>3, WireFacts, Zenon
<1>5. wireBar'[Peer(n)] = wireBar[Peer(n)]
  BY WireFacts, PeerFacts, Zenon DEF Leaves, Still
<1>6. wireBar' = [wireBar EXCEPT ![n] = Link!Carries(c, id)]
  BY <1>4, <1>5, WireUpdate, Zenon
<1>7. wireBar[n] = Link!Free
  BY WireFacts, Zenon DEF Leaves
<1> QED BY <1>1, <1>6, <1>7, Zenon DEF Leaves

LEMMA LinkGoes ==
    ASSUME Roomy, TypeOK, RoomInv, IdInv, NoStranded, NEW n \in Node, NEW c \in Chan, Goes(n, c)
    PROVE  Link!Write(n, c)
<1>0. /\ Peer(n) \in Node /\ Peer(n) /= n /\ tx_busy \in [Node -> SUBSET Chan]
      /\ tx_buff \in [Node -> [Chan -> Nat]] /\ written \in [Node -> Nat]
      /\ tx_busy[n] = {}
  BY PeerFacts, LiveParts DEF TypeOK, TxType, HistoryType, Live, Goes
<1>1. /\ wireBar[n] = Link!Free
      /\ wireBar' = [wireBar EXCEPT ![n] = Link!Carries(c, written[n] + 1)]
      /\ tx_busy' = [tx_busy EXCEPT ![n] = (tx_busy[n] \cup {c}) \ {c}]
  <2>1. Leaves(n, c, written[n] + 1, tx_busy[n] \cup {c})
    BY Zenon DEF Goes
  <2> QED BY <2>1, WireLeaves
<1>2. tx_busy' = tx_busy
  BY <1>0, <1>1
<1>3. /\ \A e \in Chan : pendBar[n][e] = 0 /\ pendBar'[n][e] = 0
      /\ \A e \in Chan : pendBar'[Peer(n)][e] = pendBar[Peer(n)][e]
  <2>1. tx_buff'[Peer(n)] = tx_buff[Peer(n)]
    BY <1>0 DEF Goes, Writes
  <2> QED BY <1>0, <1>2, <2>1, PendIs
<1>4. pendBar' = pendBar
  <2>1. \A d \in Node : d = n \/ d = Peer(n)
    BY PeerFacts DEF Node
  <2> QED BY <1>3, <2>1, PendSame
<1>5. written'[n] = written[n] + 1
  BY <1>0 DEF Goes, Writes
<1>6. written' = [written EXCEPT ![n] = @ + 1] /\ UNCHANGED <<rcvd, done>>
  BY Zenon DEF Goes, Writes
<1> QED BY <1>1, <1>3, <1>4, <1>5, <1>6 DEF Link!Write

LEMMA LinkResumes ==
    ASSUME Roomy, TypeOK, RoomInv, IdInv, NEW n \in Node, NEW c \in Chan, Resumes(n, c)
    PROVE  Link!Send(n, c)
<1>0. /\ Peer(n) \in Node /\ Peer(n) /= n /\ tx_busy \in [Node -> SUBSET Chan]
      /\ c \in tx_busy[n] /\ UNCHANGED <<tx_buff, written, rcvd, done>>
  BY PeerFacts DEF TypeOK, TxType, Resumes, history
<1>1. /\ wireBar[n] = Link!Free
      /\ wireBar' = [wireBar EXCEPT ![n] = Link!Carries(c, tx_buff[n][c])]
      /\ tx_busy' = [tx_busy EXCEPT ![n] = tx_busy[n] \ {c}]
  <2>1. Leaves(n, c, tx_buff[n][c], tx_busy[n])
    BY Zenon DEF Resumes
  <2> QED BY <2>1, WireLeaves
<1>2. tx_busy'[n] = tx_busy[n] \ {c} /\ tx_busy'[Peer(n)] = tx_busy[Peer(n)]
  BY <1>0, <1>1
<1>3. ASSUME NEW e \in Chan, e /= c PROVE pendBar'[n][e] = pendBar[n][e]
  BY <1>0, <1>2, <1>3, PendIs
<1>4. ASSUME NEW e \in Chan PROVE pendBar'[Peer(n)][e] = pendBar[Peer(n)][e]
  BY <1>0, <1>2, PendIs
<1>5. pendBar' = [pendBar EXCEPT ![n][c] = 0]
  <2>1. pendBar' = [pendBar EXCEPT ![n][c] = pendBar'[n][c]]
    BY <1>3, <1>4, PendUpdate
  <2>2. pendBar'[n][c] = 0
    BY <1>2, PendIs
  <2> QED BY <2>1, <2>2, Zenon
<1>6. pendBar[n][c] = tx_buff[n][c] /\ pendBar[n][c] /= 0
  <2>1. pendBar[n][c] = tx_buff[n][c]
    BY <1>0, PendIs
  <2>2. pendBar[n][c] /= 0
    BY <1>0, WaitingNumber
  <2> QED BY <2>1, <2>2, Zenon
<1>7. \A d \in Chan : pendBar[n][d] /= 0 => c <= d
  BY WaitingNumber, Zenon DEF Resumes
<1> QED BY <1>0, <1>1, <1>5, <1>6, <1>7, Zenon DEF Link!Send

LEMMA LinkHandles ==
    ASSUME TypeOK, NEW n \in Node, Handles(n)
    PROVE  Link!Handle(Peer(n))
<1>0. /\ Peer(n) \in Node /\ Peer(Peer(n)) = n /\ UNCHANGED <<pendBar, written, done>>
  BY PeerFacts DEF Handles, pendBar
<1>1. PICK m \in Msg :
        /\ m.kind = "cmd" /\ Travelling(Peer(n)) = {m}
        /\ \/ /\ Travelling(Peer(n))' = {Ack(m, FALSE)}
              /\ rcvd' = [rcvd EXCEPT ![n][m.chan] = m.id]
           \/ /\ Travelling(Peer(n))' = {Ack(m, TRUE)}
              /\ UNCHANGED rcvd
  BY Zenon DEF Handles
<1>2. wireBar[Peer(n)] = Wire(m) /\ wireBar'[n] = wireBar[n]
  BY <1>0, <1>1, WireFacts, Zenon DEF Handles, Still
<1>3. Wire(m).st = "sent" /\ Wire(m).chan = m.chan /\ Wire(m).id = m.id
  BY <1>1 DEF Wire
<1>4. /\ Wire(Ack(m, FALSE)) = [Wire(m) EXCEPT !.st = "handled"]
      /\ Wire(Ack(m, TRUE)) = [Wire(m) EXCEPT !.st = "turned_down"]
  BY <1>1 DEF Wire, Ack, Msg
<1>5. ASSUME NEW v, Travelling(Peer(n))' = {v} PROVE wireBar' = [wireBar EXCEPT ![Peer(n)] = Wire(v)]
  <2>1. wireBar'[Peer(n)] = Wire(v)
    BY <1>0, <1>5, WireFacts, Zenon
  <2> QED BY <1>0, <1>2, <2>1, WireUpdate, Zenon
<1>6. Link!Other(Peer(n)) = n
  BY <1>0, OtherIsPeer, Zenon
<1>7. CASE Travelling(Peer(n))' = {Ack(m, FALSE)} /\ rcvd' = [rcvd EXCEPT ![n][m.chan] = m.id]
  <2>1. wireBar' = [wireBar EXCEPT ![Peer(n)].st = "handled"]
    BY <1>2, <1>4, <1>5, <1>7, Zenon
  <2> QED BY <1>0, <1>2, <1>3, <1>6, <1>7, <2>1, Zenon DEF Link!Handle
<1>8. CASE Travelling(Peer(n))' = {Ack(m, TRUE)} /\ UNCHANGED rcvd
  <2>1. wireBar' = [wireBar EXCEPT ![Peer(n)].st = "turned_down"]
    BY <1>2, <1>4, <1>5, <1>8, Zenon
  <2> QED BY <1>0, <1>2, <1>3, <1>8, <2>1, Zenon DEF Link!Handle
<1> QED BY <1>1, <1>7, <1>8, Zenon

LEMMA LinkCompletes ==
    ASSUME TypeOK, NEW n \in Node, Completes(n)
    PROVE  Link!Complete(n)
<1>0. /\ Peer(n) \in Node /\ UNCHANGED <<pendBar, written, rcvd>>
  BY PeerFacts DEF Completes, pendBar
<1>1. PICK m \in Msg :
        /\ m.kind = "ack" /\ Travelling(n) = {m} /\ Travelling(n)' = {}
        /\ \/ ~m.fail /\ done' = [done EXCEPT ![n][m.chan] = m.id]
           \/ UNCHANGED done
  BY Zenon DEF Completes
<1>2. /\ wireBar[n] = Wire(m) /\ wireBar'[n] = Link!Free
      /\ wireBar'[Peer(n)] = wireBar[Peer(n)]
  BY <1>0, <1>1, WireFacts, Zenon DEF Completes, Still
<1>3. /\ Wire(m).st = IF m.fail THEN "turned_down" ELSE "handled"
      /\ Wire(m).chan = m.chan /\ Wire(m).id = m.id
  BY <1>1 DEF Wire
<1>4. wireBar' = [wireBar EXCEPT ![n] = Link!Free]
  BY <1>2, WireUpdate, Zenon
<1>5. m.fail \in BOOLEAN
  BY DEF Msg
<1> QED BY <1>0, <1>1, <1>2, <1>3, <1>4, <1>5 DEF Link!Complete

LEMMA LinkStep ==
    ASSUME Roomy, TypeOK, RoomInv, IdInv, NoStranded, Step
    PROVE  Link!LinkNext \/ UNCHANGED Link!linkVars
<1>1. CASE Quiet
  BY <1>1, LinkStays, Zenon DEF Quiet, Still
<1>2. ASSUME NEW n \in Node, Rests(n) PROVE UNCHANGED Link!linkVars
  <2>1. \A d \in Node : d = n \/ d = Peer(n)
    BY PeerFacts DEF Node
  <2> QED BY <1>2, <2>1, LinkStays, Zenon DEF Rests, Still
<1>3. ASSUME NEW n \in Node, Answers(n) PROVE UNCHANGED Link!linkVars
  <2>1. \A d \in Node : d = n \/ d = Peer(n)
    BY PeerFacts DEF Node
  <2>2. ~Crowded(n)
    BY <1>3, RoomToSend, Zenon DEF Answers, TypeOK
  <2> QED BY <1>3, <2>1, <2>2, LinkStays, Zenon DEF Answers, Still
<1>4. \A n \in Node : Handles(n) => Link!LinkNext
  BY LinkHandles, PeerFacts, Zenon DEF Link!LinkNext
<1>5. \A n \in Node : Completes(n) => Link!LinkNext
  BY LinkCompletes, Zenon DEF Link!LinkNext
<1>6. \A n \in Node, c \in Chan : Closes(n, c) => Link!LinkNext \/ UNCHANGED Link!linkVars
  BY LinkCloses, Zenon DEF Link!LinkNext
<1>7. \A n \in Node, c \in Chan : Waits(n, c) \/ Goes(n, c) \/ Resumes(n, c) => Link!LinkNext
  BY LinkWaits, LinkGoes, LinkResumes, ZenonT(40) DEF Link!LinkNext
<1> QED BY <1>1, <1>2, <1>3, <1>4, <1>5, <1>6, <1>7, Zenon DEF Step

LEMMA LinkStart == Init => Link!LinkInit
<1> SUFFICES ASSUME Init PROVE Link!LinkInit
  OBVIOUS
<1>1. wireBar = [n \in Node |-> Link!Free]
  <2>1. \A n \in Node : UnderWay(n) = Link!Free
    BY NothingTravels, Zenon DEF UnderWay, Link!Free
  <2> QED BY <2>1 DEF wireBar
<1>2. pendBar = [n \in Node |-> [c \in Chan |-> 0]]
  BY DEF Init, InitWith, pendBar
<1> QED BY <1>1, <1>2 DEF Init, InitWith, Link!LinkInit

\* The boxes, FIFOs, handlers and callbacks of MailboxChannel implement the two
\* stop-and-wait wires of ChannelLink when the interrupts of the other core leave room.
THEOREM RefinesLinkCorrect ==
    ASSUME Roomy
    PROVE  Spec => RefinesLink
<1>1. TypeOK /\ StructInv /\ MatchInv /\ RoomInv /\ IdInv /\ NoStranded /\ [Next]_vars
      => [Link!LinkNext]_(Link!linkVars)
  BY StepKinds, LinkStep
<1> QED
  BY <1>1, LinkStart, MatchCorrect, RoomCorrect, IdCorrect, NoStrandedCorrect, PTL
     DEF Spec, RefinesLink, Link!LinkSafety
=============================================================================
