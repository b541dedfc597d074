------------------------------ MODULE IpcSocket ------------------------------
(***************************************************************************)
(* Sockets between client ports of the AP and one server port of the CP:   *)
(*   chips/drivers/mailbox/mb_ipc.c                                        *)
(* The router layer queues commands and responses and writes one at a time *)
(* to the logical mailbox channel; the API layer keeps a socket per client *)
(* port and per connection of the server port.  Both ends run this driver. *)
(*                                                                         *)
(* A task calls the API step by step.  The mailbox interrupt of a node is  *)
(* served step by step too; a task runs between two steps of the handler   *)
(* only when it is on another core (bound.smp).                            *)
(*                                                                         *)
(* Of the mailbox channel this module keeps what MailboxChannel shows: one *)
(* command waits in the channel while one is under way, messages to a node *)
(* arrive in order.  CHNL_STATE_COM_FAIL comes from a peer whose channel   *)
(* is not open; here both routers have opened theirs, so that the failures *)
(* of ipc_socket_tx_cmpl_handler are those of the route.  The path for a   *)
(* server on the own CPU                                                   *)
(* (ipc_socket_local_tx_cmd) and the forwarding of the build without SMP   *)
(* are left out.  A receiver's buffer holds the whole message.             *)
(***************************************************************************)
EXTENDS Integers, Sequences

CONSTANTS
    Client,     \* client ports, numbers above NConn
    UserCmd,    \* values of user_cmd
    NConn,      \* connections of the server port (MAX_CONNET_PER_SVR)
    TagMod,     \* tx_tag is counted modulo TagMod (256, a u8)
    QueueLen,   \* commands that chnl_tx_queue holds (IPC_SOCKET_NUM)
    Bound       \* what a behaviour is bounded by: one of these records

Node == {"AP", "CP"}
Peer(n) == IF n = "AP" THEN "CP" ELSE "AP"
NoPort == 0
Svr == -1               \* the server port, and the task of the server
Conn == 1..NConn
Sock == Client \cup Conn
Thread == Client \cup {Svr}
NoSock == -2
NodeOf(s) == IF s \in Client THEN "AP" ELSE "CP"
HomeOf(t) == IF t = Svr THEN "CP" ELSE "AP"
\* the semaphores of a socket: all connections of the server share theirs
SemaOf(s) == IF s \in Client THEN s ELSE Svr

ASSUME SocketConstants ==
    /\ NConn \in Nat \ {0}
    /\ \A c \in Client : c \in Nat /\ c > NConn
    /\ TagMod \in Nat \ {0} /\ QueueLen \in Nat \ {0}
    /\ \A b \in Bound : b.smp \in BOOLEAN /\ b.timeouts \in Nat

VARIABLES
    sk,       \* ipc_client_socket_tbl and ipc_server_socket_tbl
    queue,    \* chnl_tx_queue of every node
    tx,       \* command waiting in the logical channel
    phy,      \* a command of the node is under way
    wire,     \* messages to the node, in order
    isr,      \* the mailbox interrupt handler of every node
    tsem,     \* counts of tx_notify_sema
    rsem,     \* counts of rx_notify_sema of the clients
    buf,      \* data in the buffer that the task shares with its peer
    th,       \* the API call of every task
    bound,    \* bound.smp: the tasks of the AP run beside the interrupt handler of the AP
    timeouts, \* waits that timed out, at most bound.timeouts
    taken,    \* history: data that the receiving applications read or discarded
    full      \* history: a full queue has refused a command or a response

link == <<tx, phy, wire>>
router == <<queue, link>>
sema == <<tsem, rsem>>
hist == <<bound, taken, full>>
sockVars == <<sk, router, isr, sema, buf, th, timeouts, hist>>

Tag == 0..TagMod-1
Command == {"connect", "disconnect", "send"}
ApiStatus == {"ok", "not_inited", "not_connect", "data_failed"}
RouteStatus == {"ok", "unreachable", "unsolicited", "unmatched", "rx_busy"}
TxStatus == {"ok", "disconnected", "unreachable", "route", "api"}
NoUser == "none"
\* port is the client port of the connection, user and id the data of a send
Msg == [cmd : Command, rsp : BOOLEAN, port : Client \cup {NoPort}, tag : Tag,
        status : ApiStatus, user : UserCmd \cup {NoUser}, id : Int]
NoMsg == [cmd |-> "connect", rsp |-> FALSE, port |-> NoPort, tag |-> 0,
          status |-> "ok", user |-> NoUser, id |-> 0]
Socket == [alloc : BOOLEAN, conn : BOOLEAN, dst : Client \cup {NoPort, Svr},
           tx : BOOLEAN, rx : BOOLEAN, rx_tag : Tag, tx_tag : Tag,
           tx_status : TxStatus, tx_cmd : Msg, rx_cmd : Msg]
Entry == [ack : BOOLEAN, msg : Msg, route : RouteStatus]
IsrPc == {"idle", "rsp", "ack", "cmpl", "scan"}
IsrIdle == [pc |-> "idle", sock |-> NoSock, route |-> "ok"]
Pc == {"idle", "push", "write", "wait", "recv", "rwrite", "rwait", "drain"}
Call == [pc : Pc, call : {"none", "connect", "close", "send", "recv", "discard"},
         sock : Sock, ret : {"none", "ok", "fail", "timeout"},
         user : UserCmd \cup {NoUser}, id : Int]

SocketTypeOK ==
    /\ sk \in [Sock -> Socket]
    /\ queue \in [Node -> Seq(Msg)] /\ \A n \in Node : Len(queue[n]) <= QueueLen
    /\ tx \in [Node -> Msg] /\ phy \in [Node -> BOOLEAN]
    /\ wire \in [Node -> Seq(Entry)]
    /\ isr \in [Node -> [pc : IsrPc, sock : Sock \cup {NoSock}, route : RouteStatus]]
    /\ tsem \in [Thread -> Nat] /\ rsem \in [Client -> Nat]
    /\ buf \in [Thread -> Int]
    /\ th \in [Thread -> Call]
    /\ bound \in Bound
    /\ timeouts \in 0..bound.timeouts
    /\ taken \subseteq Int /\ full \in BOOLEAN

\* mb_ipc_init is done and the server has created its socket
SocketInit ==
    /\ sk = [s \in Sock |-> [alloc |-> s \in Conn, conn |-> FALSE, dst |-> NoPort,
                             tx |-> FALSE, rx |-> FALSE, rx_tag |-> 0, tx_tag |-> 0,
                             tx_status |-> "ok", tx_cmd |-> NoMsg, rx_cmd |-> NoMsg]]
    /\ queue = [n \in Node |-> <<>>]
    /\ tx = [n \in Node |-> NoMsg]
    /\ phy = [n \in Node |-> FALSE]
    /\ wire = [n \in Node |-> <<>>]
    /\ isr = [n \in Node |-> IsrIdle]
    /\ tsem = [t \in Thread |-> 0]
    /\ rsem = [c \in Client |-> 0]
    /\ buf = [t \in Thread |-> 0]
    /\ th = [t \in Thread |-> [pc |-> "idle", call |-> "none", ret |-> "none",
                               user |-> NoUser, id |-> 0,
                               sock |-> IF t = Svr THEN 1 ELSE t]]
    /\ bound \in Bound
    /\ timeouts = 0
    /\ taken = {} /\ full = FALSE

(***************************************************************************)
(* The router layer                                                        *)
(***************************************************************************)
Carry(m) == [ack |-> FALSE, msg |-> m, route |-> "ok"]

\* A write to a busy channel is refused, and the router does not look at the result.
mb_chnl_write(n, m) ==
    \/ tx[n] /= NoMsg /\ UNCHANGED link
    \/ /\ tx[n] = NoMsg /\ phy[n]
       /\ tx' = [tx EXCEPT ![n] = m]
       /\ UNCHANGED <<phy, wire>>
    \/ /\ tx[n] = NoMsg /\ ~phy[n]
       /\ phy' = [phy EXCEPT ![n] = TRUE]
       /\ wire' = [wire EXCEPT ![Peer(n)] = Append(@, Carry(m))]
       /\ UNCHANGED tx

\* mutant: one command more than the queue has room for
QueueFull_late(n) == Len(queue[n]) > QueueLen
QueueFull(n) == Len(queue[n]) >= QueueLen

\* ipc_router_send as the interrupt handler calls it: nothing comes between the critical
\* section and the write, except tasks that find the queue not empty
ipc_router_send(n, m) ==
    /\ queue' = [queue EXCEPT ![n] = Append(@, m)]
    /\ \/ queue[n] = <<>> /\ mb_chnl_write(n, m)
       \/ queue[n] /= <<>> /\ UNCHANGED link

First(S) == {s \in S : \A d \in S : s <= d}

\* mutant: any client that is connected to the server
ipc_socket_search_noport(n, m) ==
    IF n = "AP" THEN First({c \in Client : sk[c].dst = Svr})
                ELSE First({s \in Conn : sk[s].dst = m.port})

\* the socket that a message belongs to: ipc_socket_search_recver, and the same search in
\* ipc_socket_search_sender
ipc_socket_search(n, m) ==
    IF n = "AP" THEN {c \in Client : c = m.port /\ sk[c].dst = Svr}
                ELSE First({s \in Conn : sk[s].dst = m.port})

\* the first connection without a client, when the command asks for one
ipc_socket_server_accept(n, m) ==
    IF n = "CP" /\ m.cmd = "connect" THEN First({s \in Conn : sk[s].alloc /\ sk[s].dst = NoPort})
                                     ELSE {}

(***************************************************************************)
(* What a command does to the socket k that receives it.  The handlers     *)
(* also answer the command at once (rsp), wake the application (notify) or *)
(* end a send of the socket that the peer will not answer (post).          *)
(***************************************************************************)
Respond(k, st) == [k EXCEPT !.rx_cmd = [@ EXCEPT !.rsp = TRUE, !.status = st]]

ipc_socket_rx_cmd_connect(k) ==
    [sock |-> Respond([k EXCEPT !.conn = TRUE, !.tx = FALSE, !.tx_status = "ok"], "ok"),
     rsp |-> TRUE, notify |-> FALSE, post |-> FALSE]

ipc_socket_rx_cmd_disconnect(k, client) ==
    [sock |-> Respond([k EXCEPT !.conn = FALSE, !.tx = FALSE,
                                !.tx_status = IF k.tx THEN "disconnected" ELSE @], "ok"),
     rsp |-> TRUE, notify |-> client, post |-> k.tx]

\* mutant: a command is taken for a new one whatever its tag
ipc_socket_rx_cmd_default_handler_notag(k) ==
    [sock |-> IF k.conn THEN k ELSE Respond(k, "not_connect"),
     rsp |-> ~k.conn, notify |-> k.conn, post |-> FALSE]

\* a command with the tag of the last one is "a re-sent cmd" and only answered
ipc_socket_rx_cmd_default_handler(k) ==
    LET resent == k.rx_tag = k.rx_cmd.tag
    IN [sock |-> IF ~k.conn THEN Respond(k, "not_connect")
                 ELSE IF resent THEN Respond(k, "ok") ELSE k,
        rsp |-> ~k.conn \/ resent, notify |-> k.conn /\ ~resent, post |-> FALSE]

Dispatch(k, client) ==
    LET o == CASE k.rx_cmd.cmd = "connect" -> ipc_socket_rx_cmd_connect(k)
               [] k.rx_cmd.cmd = "disconnect" -> ipc_socket_rx_cmd_disconnect(k, client)
               [] k.rx_cmd.cmd = "send" -> ipc_socket_rx_cmd_default_handler(k)
    IN [o EXCEPT !.sock.rx_tag = k.rx_cmd.tag]

ipc_socket_rx_cmd_handler(k, m, client) ==
    LET a == [k EXCEPT !.rx_cmd = m, !.rx = TRUE]
    IN IF a.alloc THEN Dispatch([a EXCEPT !.rx_cmd.status = "ok"], client)
       ELSE [sock |-> Respond(a, "not_inited"), rsp |-> TRUE, notify |-> FALSE, post |-> FALSE]

(***************************************************************************)
(* The mailbox interrupt of node n serves the first message to the node.   *)
(* After ipc_router_rx_isr the channel returns the command as its          *)
(* acknowledgement; after ipc_router_tx_cmpl_isr it sends the command that *)
(* waits.  A handler that no task runs beside is not interleaved with      *)
(* anything: the other node only sees the order of its messages.           *)
(***************************************************************************)
Alone(n) == isr[n].pc /= "idle" /\ (n = "CP" \/ ~bound.smp)
Runs == \A n \in Node : ~Alone(n)
Got(n) == Head(wire[n])
GotCmd(n) == isr[n].pc = "idle" /\ wire[n] /= <<>> /\ ~Got(n).ack
GotAck(n) == isr[n].pc = "idle" /\ wire[n] /= <<>> /\ Got(n).ack
IsrTo(n, at) == isr' = [isr EXCEPT ![n].pc = at]
AckWith(n, status) == isr' = [isr EXCEPT ![n].pc = "ack", ![n].route = status]

Unreachable(n) ==
    /\ GotCmd(n)
    /\ ipc_socket_search(n, Got(n).msg) = {}
    /\ Got(n).msg.rsp \/ ipc_socket_server_accept(n, Got(n).msg) = {}
    /\ AckWith(n, "unreachable")
    /\ UNCHANGED <<sk, router, sema, buf, th, timeouts, hist>>

\* socket s, which is k when the handler begins, handles the command
Handle(n, s, k) ==
    LET o == ipc_socket_rx_cmd_handler(k, Got(n).msg, s \in Client)
    IN /\ \/ /\ o.rsp /\ ~QueueFull(n)
             /\ sk' = [sk EXCEPT ![s] = o.sock]
             /\ ipc_router_send(n, o.sock.rx_cmd)
             /\ UNCHANGED full
          \/ /\ o.rsp /\ QueueFull(n)
             /\ sk' = [sk EXCEPT ![s] = [o.sock EXCEPT !.rx = FALSE]]
             /\ full' = TRUE
             /\ UNCHANGED router
          \/ /\ ~o.rsp
             /\ sk' = [sk EXCEPT ![s] = o.sock]
             /\ UNCHANGED <<router, full>>
       /\ tsem' = IF o.post THEN [tsem EXCEPT ![SemaOf(s)] = @ + 1] ELSE tsem
       /\ rsem' = IF o.notify /\ s \in Client THEN [rsem EXCEPT ![s] = @ + 1] ELSE rsem
       /\ AckWith(n, "ok")
       /\ UNCHANGED <<buf, th, timeouts, bound, taken>>

RxCmd(n) ==
    /\ GotCmd(n)
    /\ ~Got(n).msg.rsp
    /\ \E s \in ipc_socket_search(n, Got(n).msg) :
          \/ /\ sk[s].rx
             /\ AckWith(n, "rx_busy")
             /\ UNCHANGED <<sk, router, sema, buf, th, timeouts, hist>>
          \/ ~sk[s].rx /\ Handle(n, s, sk[s])

Accept(n) ==
    /\ GotCmd(n)
    /\ ~Got(n).msg.rsp
    /\ ipc_socket_search(n, Got(n).msg) = {}
    /\ \E s \in ipc_socket_server_accept(n, Got(n).msg) :
          Handle(n, s, [sk[s] EXCEPT !.dst = Got(n).msg.port, !.tx = FALSE, !.rx = FALSE,
                                     !.tx_status = "ok"])

\* mutant: the tags are not compared
RspMatches_cmd(k, m) == k.tx_cmd.cmd = m.cmd

\* the tests of ipc_socket_rx_rsp_handler
RspMatches(k, m) == k.tx_tag = m.tag /\ k.tx_cmd.cmd = m.cmd /\ k.tx_cmd.tag = m.tag

RxRsp(n) ==
    /\ GotCmd(n)
    /\ Got(n).msg.rsp
    /\ \E s \in ipc_socket_search(n, Got(n).msg) :
          \/ ~sk[s].tx /\ AckWith(n, "unsolicited")
          \/ sk[s].tx /\ ~RspMatches(sk[s], Got(n).msg) /\ AckWith(n, "unmatched")
          \/ /\ sk[s].tx /\ RspMatches(sk[s], Got(n).msg)
             /\ isr' = [isr EXCEPT ![n].pc = "rsp", ![n].sock = s]
    /\ UNCHANGED <<sk, router, sema, buf, th, timeouts, hist>>

\* mutant: the waiting task is not woken
TakeRsp_nopost(n) ==
    LET s == isr[n].sock IN
    /\ isr[n].pc = "rsp"
    /\ sk' = [sk EXCEPT ![s].tx = FALSE,
                        ![s].tx_status = IF Got(n).msg.status = "ok" THEN "ok" ELSE "api"]
    /\ AckWith(n, "ok")
    /\ UNCHANGED <<router, sema, buf, th, timeouts, hist>>

\* ... and what it does when they hold
TakeRsp(n) ==
    LET s == isr[n].sock IN
    /\ isr[n].pc = "rsp"
    /\ sk' = [sk EXCEPT ![s].tx = FALSE,
                        ![s].tx_status = IF Got(n).msg.status = "ok" THEN "ok" ELSE "api"]
    /\ tsem' = [tsem EXCEPT ![SemaOf(s)] = @ + 1]
    /\ AckWith(n, "ok")
    /\ UNCHANGED <<router, rsem, buf, th, timeouts, hist>>

SendAck(n) ==
    /\ isr[n].pc = "ack"
    /\ wire' = [wire EXCEPT ![n] = Tail(@), ![Peer(n)] =
                    Append(@, [ack |-> TRUE, msg |-> Got(n).msg, route |-> isr[n].route])]
    /\ isr' = [isr EXCEPT ![n] = IsrIdle]
    /\ UNCHANGED <<sk, queue, tx, phy, sema, buf, th, timeouts, hist>>

SameCmd(a, b) == a.port = b.port /\ a.tag = b.tag /\ a.cmd = b.cmd /\ a.rsp = b.rsp
SentHead(n) == queue[n] /= <<>> /\ SameCmd(Head(queue[n]), Got(n).msg)

\* ipc_router_tx_cmpl_isr: "something wrong", or the command is removed from the queue
TxCmplIsr(n) ==
    /\ GotAck(n)
    /\ \/ ~SentHead(n) /\ IsrTo(n, "scan") /\ UNCHANGED queue
       \/ SentHead(n) /\ IsrTo(n, "cmpl") /\ queue' = [queue EXCEPT ![n] = Tail(@)]
    /\ UNCHANGED <<sk, link, sema, buf, th, timeouts, hist>>

\* mutant: the socket stays busy after its response is delivered
ipc_socket_tx_cmpl_handler_busy(k, m, route) ==
    [sock |-> IF m.rsp THEN [k EXCEPT !.dst = IF m.cmd = "disconnect" THEN NoPort ELSE @]
              ELSE IF route /= "ok" THEN [k EXCEPT !.tx = FALSE, !.tx_status = "route"] ELSE k,
     post |-> ~m.rsp /\ route /= "ok"]

ipc_socket_tx_cmpl_handler(k, m, route) ==
    IF m.rsp THEN [sock |-> [k EXCEPT !.rx = FALSE,
                                      !.dst = IF m.cmd = "disconnect" THEN NoPort ELSE @],
                   post |-> FALSE]
    ELSE IF SameCmd(k.tx_cmd, m) /\ route /= "ok"
    THEN [sock |-> [k EXCEPT !.tx = FALSE,
                             !.tx_status = IF route = "unreachable" THEN route ELSE "route"],
          post |-> TRUE]
    ELSE [sock |-> k, post |-> FALSE]

\* mutant: the next command is left in the queue
SendNext_none(n) == UNCHANGED link

SendNext(n) ==
    \/ queue[n] /= <<>> /\ mb_chnl_write(n, Head(queue[n]))
    \/ queue[n] = <<>> /\ UNCHANGED link

Complete(n) ==
    LET m == Got(n).msg IN
    /\ isr[n].pc = "cmpl"
    /\ \/ /\ ipc_socket_search(n, m) = {}
          /\ UNCHANGED <<sk, tsem>>
       \/ \E s \in ipc_socket_search(n, m) :
             LET o == ipc_socket_tx_cmpl_handler(sk[s], m, Got(n).route)
             IN /\ sk' = [sk EXCEPT ![s] = o.sock]
                /\ tsem' = IF o.post THEN [tsem EXCEPT ![SemaOf(s)] = @ + 1] ELSE tsem
    /\ SendNext(n)
    /\ IsrTo(n, "scan")
    /\ UNCHANGED <<queue, rsem, buf, th, timeouts, hist>>

Scan(n) ==
    /\ isr[n].pc = "scan"
    /\ \/ /\ tx[n] /= NoMsg
          /\ wire' = [wire EXCEPT ![n] = Tail(@), ![Peer(n)] = Append(@, Carry(tx[n]))]
          /\ tx' = [tx EXCEPT ![n] = NoMsg]
          /\ UNCHANGED phy
       \/ /\ tx[n] = NoMsg
          /\ phy' = [phy EXCEPT ![n] = FALSE]
          /\ wire' = [wire EXCEPT ![n] = Tail(@)]
          /\ UNCHANGED tx
    /\ isr' = [isr EXCEPT ![n] = IsrIdle]
    /\ UNCHANGED <<sk, queue, sema, buf, th, timeouts, hist>>

Isr(n) ==
    /\ ~Alone(Peer(n))
    /\ \/ Unreachable(n) \/ RxCmd(n) \/ Accept(n) \/ RxRsp(n) \/ TakeRsp(n)
       \/ SendAck(n) \/ TxCmplIsr(n) \/ Complete(n) \/ Scan(n)

(***************************************************************************)
(* The API, as a task t calls it for socket s.  A call returns with pc     *)
(* "idle" and its result in ret.  A timed wait may end without a post;     *)
(* MB_IPC_RETRY_MAX is 1, so no command is sent twice.                     *)
(***************************************************************************)
Goto(t, at) == th' = [th EXCEPT ![t].pc = at]
Return(t, r) == th' = [th EXCEPT ![t].pc = "idle", ![t].ret = r]

mb_ipc_socket(t) ==
    /\ Runs /\ th[t].pc = "idle"
    /\ ~sk[t].alloc
    /\ sk' = [sk EXCEPT ![t].alloc = TRUE, ![t].conn = FALSE]
    /\ tsem' = [tsem EXCEPT ![t] = 0]
    /\ rsem' = [rsem EXCEPT ![t] = 0]
    /\ UNCHANGED <<router, isr, buf, th, timeouts, hist>>

\* The command is prepared in tx_cmd of socket s, which is k so far.  One post of an
\* earlier call is taken off the semaphore.
Prepare(t, s, k, what, cmd, user, id) ==
    LET tag == (k.tx_tag + 1) % TagMod
        m == [cmd |-> cmd, rsp |-> FALSE, port |-> IF s \in Client THEN s ELSE k.dst,
              tag |-> tag, status |-> "ok", user |-> user, id |-> id]
    IN /\ Runs /\ th[t].pc = "idle"
       /\ sk' = [sk EXCEPT ![s] = [k EXCEPT !.tx_cmd = m, !.tx_tag = tag]]
       /\ tsem' = [tsem EXCEPT ![SemaOf(s)] = IF @ > 0 THEN @ - 1 ELSE 0]
       /\ th' = [th EXCEPT ![t] = [pc |-> "push", call |-> what, sock |-> s, ret |-> "none",
                                   user |-> user, id |-> id]]
       /\ UNCHANGED <<router, isr, rsem, timeouts, hist>>

mb_ipc_connect(t) ==
    /\ sk[t].alloc /\ ~sk[t].conn
    /\ Prepare(t, t, [sk[t] EXCEPT !.dst = Svr, !.tx = FALSE, !.rx = FALSE, !.tx_status = "ok"],
               "connect", "connect", NoUser, 0)
    /\ UNCHANGED buf

mb_ipc_send(t, s, user, id) ==
    \/ /\ sk[s].alloc /\ sk[s].conn /\ ~sk[s].tx
       /\ Prepare(t, s, sk[s], "send", "send", user, id)
       /\ buf' = [buf EXCEPT ![t] = id]
    \/ /\ Runs /\ th[t].pc = "idle"
       /\ ~(sk[s].alloc /\ sk[s].conn /\ ~sk[s].tx)
       /\ th' = [th EXCEPT ![t] = [pc |-> "idle", call |-> "send", sock |-> s, ret |-> "fail",
                                   user |-> user, id |-> id]]
       /\ UNCHANGED <<sk, router, isr, sema, buf, timeouts, hist>>

\* a client that closes its socket disconnects first, when it has a destination
mb_ipc_close(t) ==
    \/ /\ sk[t].dst /= NoPort
       /\ Prepare(t, t, [sk[t] EXCEPT !.tx = FALSE], "close", "disconnect", NoUser, 0)
       /\ UNCHANGED buf
    \/ /\ Runs /\ th[t].pc = "idle"
       /\ sk[t].dst = NoPort
       /\ sk' = [sk EXCEPT ![t].alloc = FALSE, ![t].conn = FALSE]
       /\ th' = [th EXCEPT ![t].call = "close", ![t].ret = "ok"]
       /\ UNCHANGED <<router, isr, sema, buf, timeouts, hist>>

\* ipc_socket_tx_cmd and the critical section of ipc_router_send
Push(t) ==
    LET s == th[t].sock
        n == HomeOf(t)
    IN /\ Runs /\ th[t].pc = "push"
       /\ \/ /\ ~QueueFull(n)
             /\ sk' = [sk EXCEPT ![s].tx = TRUE]
             /\ queue' = [queue EXCEPT ![n] = Append(@, sk[s].tx_cmd)]
             /\ Goto(t, IF queue[n] = <<>> THEN "write" ELSE "wait")
             /\ UNCHANGED full
          \/ /\ QueueFull(n)
             /\ sk' = [sk EXCEPT ![s].tx = FALSE,
                                 ![s].dst = IF th[t].call = "connect" THEN NoPort ELSE @]
             /\ Return(t, "fail")
             /\ full' = TRUE
             /\ UNCHANGED queue
       /\ UNCHANGED <<link, isr, sema, buf, timeouts, bound, taken>>

\* "it is the first item pushed to the queue, then try to send": after the section
Write(t) ==
    /\ Runs /\ th[t].pc = "write"
    /\ mb_chnl_write(HomeOf(t), sk[th[t].sock].tx_cmd)
    /\ Goto(t, "wait")
    /\ UNCHANGED <<sk, queue, isr, sema, buf, timeouts, hist>>

\* the call on socket k ends with tx_status, or with a timeout
Ended(k, what) ==
    CASE what = "connect" -> IF k.tx_status = "ok" THEN [k EXCEPT !.conn = TRUE]
                                                   ELSE [k EXCEPT !.dst = NoPort]
      [] what = "close" -> IF k.dst = NoPort \/ k.tx_status \in {"ok", "api", "unreachable"}
                           THEN [k EXCEPT !.dst = NoPort, !.conn = FALSE, !.alloc = FALSE] ELSE k
      [] what = "send" -> k
Result(k, what) ==
    IF \/ k.tx_status = "ok"
       \/ what = "close" /\ (k.dst = NoPort \/ k.tx_status \in {"api", "unreachable"})
    THEN "ok" ELSE "fail"

Wait(t) ==
    LET s == th[t].sock IN
    /\ Runs /\ th[t].pc = "wait"
    /\ tsem[SemaOf(s)] > 0
    /\ tsem' = [tsem EXCEPT ![SemaOf(s)] = @ - 1]
    /\ sk' = [sk EXCEPT ![s] = Ended(@, th[t].call)]
    /\ Return(t, Result(sk[s], th[t].call))
    /\ UNCHANGED <<router, isr, rsem, buf, timeouts, hist>>

\* the buffer of a send that has returned is used for something else, or not yet
Timeout(t) ==
    LET s == th[t].sock IN
    /\ Runs /\ th[t].pc = "wait"
    /\ tsem[SemaOf(s)] = 0
    /\ timeouts < bound.timeouts
    /\ timeouts' = timeouts + 1
    /\ sk' = [sk EXCEPT ![s].tx = FALSE,
                        ![s].dst = IF th[t].call = "connect" THEN NoPort ELSE @]
    /\ buf' \in {buf, [buf EXCEPT ![t] = 0]}
    /\ Return(t, "timeout")
    /\ UNCHANGED <<router, isr, sema, hist>>

\* mb_ipc_recv reads a message; without a buffer (discard) it only answers it
mb_ipc_recv(t, s, what) ==
    /\ Runs /\ th[t].pc = "idle"
    /\ th' = [th EXCEPT ![t] = [pc |-> "recv", call |-> what, sock |-> s, ret |-> "none",
                                user |-> NoUser, id |-> 0]]
    /\ UNCHANGED <<sk, router, isr, sema, buf, timeouts, hist>>

Pending(k) == k.rx /\ k.rx_cmd.cmd = "send" /\ ~k.rx_cmd.rsp
Sender(s) == IF s \in Client THEN Svr ELSE sk[s].rx_cmd.port
\* the data in the buffer of the sender is what it was when the sender computed its checksum
Intact(s) == buf[Sender(s)] = sk[s].rx_cmd.id
AfterRecv(t) == IF th[t].call = "discard" THEN "drain" ELSE "idle"

\* ipc_socket_tx_rsp from a task; c is the call with the result of the read
Answer(t, s, st, c) ==
    LET n == HomeOf(t)
        k == Respond(sk[s], st)
        next == AfterRecv(t)
    IN \/ /\ ~QueueFull(n)
          /\ sk' = [sk EXCEPT ![s] = k]
          /\ queue' = [queue EXCEPT ![n] = Append(@, k.rx_cmd)]
          /\ th' = [th EXCEPT ![t] = [c EXCEPT !.pc = IF queue[n] = <<>> THEN "rwrite" ELSE next]]
          /\ UNCHANGED full
       \/ /\ QueueFull(n)
          /\ sk' = [sk EXCEPT ![s] = [k EXCEPT !.rx = FALSE]]
          /\ th' = [th EXCEPT ![t] = [c EXCEPT !.pc = next]]
          /\ full' = TRUE
          /\ UNCHANGED queue

Recv(t) ==
    LET s == th[t].sock
        m == sk[s].rx_cmd
    IN /\ Runs /\ th[t].pc = "recv"
       /\ \/ /\ ~sk[s].conn
             /\ Return(t, "fail")
             /\ UNCHANGED <<sk, queue, taken, full>>
          \/ /\ sk[s].conn /\ Pending(sk[s]) /\ th[t].call = "discard"
             /\ Answer(t, s, "ok", [th[t] EXCEPT !.ret = "ok"])
             /\ taken' = taken \cup {m.id}
          \/ /\ sk[s].conn /\ Pending(sk[s]) /\ th[t].call = "recv" /\ Intact(s)
             /\ Answer(t, s, "ok", [th[t] EXCEPT !.ret = "ok", !.user = m.user, !.id = buf[Sender(s)]])
             /\ taken' = taken \cup {m.id}
          \/ /\ sk[s].conn /\ Pending(sk[s]) /\ th[t].call = "recv" /\ ~Intact(s)
             /\ Answer(t, s, "data_failed", [th[t] EXCEPT !.ret = "fail"])
             /\ UNCHANGED taken
          \/ /\ sk[s].conn /\ ~Pending(sk[s])
             /\ Goto(t, IF th[t].call = "discard" THEN "drain" ELSE "rwait")
             /\ UNCHANGED <<sk, queue, taken, full>>
       /\ UNCHANGED <<link, isr, sema, buf, timeouts, bound>>

WriteRsp(t) ==
    /\ Runs /\ th[t].pc = "rwrite"
    /\ mb_chnl_write(HomeOf(t), sk[th[t].sock].rx_cmd)
    /\ Goto(t, AfterRecv(t))
    /\ UNCHANGED <<sk, queue, isr, sema, buf, timeouts, hist>>

\* with a timeout of 0: the posts of rx_notify_sema are used up
Drain(t) ==
    /\ Runs /\ th[t].pc = "drain"
    /\ \/ /\ rsem[t] > 0
          /\ rsem' = [rsem EXCEPT ![t] = @ - 1]
          /\ Goto(t, "recv")
       \/ /\ rsem[t] = 0
          /\ Return(t, "ok")
          /\ UNCHANGED rsem
    /\ UNCHANGED <<sk, router, isr, tsem, buf, timeouts, hist>>

WaitRecv(t) ==
    /\ Runs /\ th[t].pc = "rwait"
    /\ rsem[t] > 0
    /\ rsem' = [rsem EXCEPT ![t] = @ - 1]
    /\ Goto(t, "recv")
    /\ UNCHANGED <<sk, router, isr, tsem, buf, timeouts, hist>>

RecvTimeout(t) ==
    /\ Runs /\ th[t].pc = "rwait"
    /\ rsem[t] = 0
    /\ timeouts < bound.timeouts
    /\ timeouts' = timeouts + 1
    /\ Return(t, "timeout")
    /\ UNCHANGED <<sk, router, isr, sema, buf, hist>>

\* a call in progress goes on
Step(t) ==
    \/ Push(t) \/ Write(t) \/ Wait(t) \/ Recv(t) \/ WriteRsp(t) \/ Drain(t) \/ WaitRecv(t)
=============================================================================
