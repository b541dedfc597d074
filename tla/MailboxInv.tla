---------------------------- MODULE MailboxInv ----------------------------
(***************************************************************************)
(* The inductive invariant behind the safety properties of MailboxChannel. *)
(* It is stated per direction: node n sends commands and its peer          *)
(* acknowledges them.                                                      *)
(***************************************************************************)
EXTENDS MailboxChannel

Ahead(q, a, b) == \E i, j \in DOMAIN q : i < j /\ q[i] = a /\ q[j] = b
Single(q, b) == \A i, j \in DOMAIN q : q[i] = b /\ q[j] = b => i = j

\* a message is a command or an acknowledgement; the reset notification is read
KindsOK(n) ==
    /\ \A b \in Box : Unread(n, b) => mbuff[n][b].kind \in {"cmd", "ack"}
    /\ isr[n].pc = "copied" => isr[n].msg.kind \in {"cmd", "ack"}
    /\ isr[n].pc = "tx_ack" => isr[n].msg.kind = "ack"

\* the two boxes never hold two unread commands or two unread acknowledgements
TwoKinds(n) == Unread(n, 0) /\ Unread(n, 1) => mbuff[n][0].kind /= mbuff[n][1].kind

\* the command of a direction, or its acknowledgement, is in one place at a time,
\* and the physical channel is BUSY for as long as it exists
Token(n) == CmdUnread(n) \/ CmdHeld(n) \/ AckUnread(n) \/ AckHeld(n) \/ Scanning(n)
OneToken(n) ==
    /\ CmdUnread(n) => ~CmdHeld(n) /\ ~AckUnread(n) /\ ~AckHeld(n) /\ ~Scanning(n)
    /\ CmdHeld(n) => ~AckUnread(n) /\ ~AckHeld(n) /\ ~Scanning(n)
    /\ AckUnread(n) => ~AckHeld(n) /\ ~Scanning(n)
    /\ Token(n) => phy[n].tx_state = BUSY

\* an address is unread in one place
OneReference(n) ==
    \A b \in Box : Single(fifo[Peer(n)], b) /\ (Popped(n, b) => ~Queued(n, b))

\* The box that the next send fills is unread only while a later message is unread
\* behind it, or got lost in a full FIFO; either forbids the send.
Behind(n, a, b) == (Popped(n, a) /\ Queued(n, b)) \/ Ahead(fifo[Peer(n)], a, b)
Lost(n) == phy[n].tx_state = BUSY /\ ~Token(n)
BoxOrder(n) ==
    \A old, new \in Box :
        new = tx_box[n] /\ old /= new /\ Unread(n, old) =>
            \/ Behind(n, old, new)
            \/ mbuff[n][old].kind = "ack" /\ Lost(n)
            \/ mbuff[n][old].kind = "cmd" /\ Lost(Peer(n))

StructInv ==
    \A n \in Node : KindsOK(n) /\ TwoKinds(n) /\ OneToken(n) /\ OneReference(n) /\ BoxOrder(n)

\* what travels belongs to the command that the physical channel has sent last
MatchInv ==
    \A n \in Node :
        /\ \A b \in Box : Unread(n, b) =>
              AckMatches(IF mbuff[n][b].kind = "cmd" THEN n ELSE Peer(n), mbuff[n][b])
        /\ isr[n].pc = "copied" =>
              AckMatches(IF isr[n].msg.kind = "cmd" THEN Peer(n) ELSE n, isr[n].msg)
        /\ isr[n].pc = "tx_ack" => AckMatches(Peer(n), isr[n].msg)
(***************************************************************************)
(* The messages of the direction of n: the command that n has sent, until  *)
(* the peer has dealt with it, and then its acknowledgement.               *)
(***************************************************************************)
Boxed(n, kind) == {mbuff[n][b] : b \in {x \in Box : Unread(n, x) /\ mbuff[n][x].kind = kind}}
Travelling(n) ==
    Boxed(n, "cmd") \cup (IF CmdHeld(n) THEN {isr[Peer(n)].msg} ELSE {})
    \cup Boxed(Peer(n), "ack") \cup (IF AckHeld(n) THEN {isr[n].msg} ELSE {})

\* a command is newer than what the peer has handled, and older than the one that waits
\* in its channel; an acknowledgement is newer than what has been completed
Fresh(n, m) ==
    IF m.kind = "cmd"
    THEN /\ rcvd[Peer(n)][m.chan] < m.id /\ m.id <= written[n]
         /\ m.chan \in tx_busy[n] => m.id < tx_buff[n][m.chan]
    ELSE /\ done[n][m.chan] < m.id
         /\ m.fail \/ m.id = rcvd[Peer(n)][m.chan]
Ordered(n) ==
    \A c \in Chan :
        /\ done[n][c] <= rcvd[Peer(n)][c] /\ rcvd[Peer(n)][c] <= written[n]
        /\ c \in tx_busy[n] => rcvd[Peer(n)][c] < tx_buff[n][c] /\ tx_buff[n][c] <= written[n]

IdInv == \A n \in Node : Ordered(n) /\ \A m \in Travelling(n) : Fresh(n, m)

\* the FIFO of a node holds interrupts of its other core and the boxes of its peer
Load(n) == (IF Queued(n, 0) THEN 1 ELSE 0) + (IF Queued(n, 1) THEN 1 ELSE 0)
RoomInv ==
    \A n \in Node :
        ipis[n] <= MaxIpi[n] /\ Len(fifo[n]) <= ipis[n] + Load(Peer(n))

\* the interrupts leave room for a command and an acknowledgement
Roomy == \A n \in Node : MaxIpi[n] + 2 <= FifoLen[n]
=============================================================================
