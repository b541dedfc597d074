----------------------------- MODULE FlashClient -----------------------------
(***************************************************************************)
(* The flash of the CP as the tasks of the AP use it:                      *)
(*   chips/drivers/flash/flash_client.c                                    *)
(* Every operation is a request to the server and its reply, over a socket *)
(* that the first operation opens; a read is ended by a second exchange.   *)
(* The operations of one driver exclude each other (flash_mutex), so one   *)
(* task per client port stands for all of its callers.  The other client   *)
(* ports are those of drivers that use the sockets in the same way.  A     *)
(* read that flash_read_bytes_retry repeats, or a transfer that is split,  *)
(* is several operations here.  The server is taken to succeed: a reply    *)
(* that reports an error, a short length or a wrong checksum would end the *)
(* operation with a failure at the same place.                             *)
(*                                                                         *)
(* The server is in the image of the CP, outside the repository.  It takes *)
(* one request at a time and replies to each: "every send cmd to server    *)
(* must have a recv".  Request i carries the data i, its reply -i.         *)
(***************************************************************************)
EXTENDS IpcSocket

CONSTANT
    Op         \* operations: values of user_cmd that open an exchange

ReadDone == "READ_DONE"

ASSUME FlashConstants ==
    /\ UserCmd = Op \cup {ReadDone}
    /\ \A b \in Bound : /\ b.ops \in Nat /\ b.closes \in Nat
                       /\ b.callers \subseteq Client /\ b.cmds \subseteq Op

VARIABLES
    stage,    \* where the client is in an operation
    op,       \* the operation: its command and its request
    inited,   \* s_flash_client_init
    result,   \* what the last operation returned
    ops,      \* operations begun, at most bound.ops of bound.cmds, by bound.callers
    reqs,     \* requests so far
    srv,      \* where the server is
    closes    \* calls of bk_flash_driver_deinit, at most bound.closes

flash == <<stage, op, inited, result, ops, reqs, srv, closes>>
vars == <<sockVars, flash>>

Stage == {"idle", "socket", "connect", "reset", "discard", "send", "recv", "done_send",
          "done_recv", "deinit"}

TypeOK ==
    /\ SocketTypeOK
    /\ stage \in [Client -> Stage]
    /\ op \in [Client -> [cmd : Op \cup {NoUser}, req : Nat]]
    /\ inited \in [Client -> BOOLEAN]
    /\ result \in [Client -> {"none", "ok", "fail"}]
    /\ ops \in 0..bound.ops
    /\ reqs \in Nat
    /\ srv \in {"idle", "recv", "reply"}
    /\ closes \in 0..bound.closes

Init ==
    /\ SocketInit
    /\ stage = [c \in Client |-> "idle"]
    /\ op = [c \in Client |-> [cmd |-> NoUser, req |-> 0]]
    /\ inited = [c \in Client |-> FALSE]
    /\ result = [c \in Client |-> "none"]
    /\ ops = 0
    /\ reqs = 0
    /\ srv = "idle"
    /\ closes = 0

(***************************************************************************)
(* bk_flash_erase_sector, bk_flash_read_bytes, bk_flash_write_bytes        *)
(***************************************************************************)
StageTo(c, next) == stage' = [stage EXCEPT ![c] = next]
End(c, r) ==
    /\ Runs /\ th[c].pc = "idle"
    /\ StageTo(c, "idle")
    /\ result' = [result EXCEPT ![c] = r]
    /\ UNCHANGED sockVars
At(c, s) == stage[c] = s /\ th[c].pc = "idle"

\* every operation begins with bk_flash_driver_init, which returns at once when it is
\* done, and fails when the port of the client is still in use
Begin(c, cmd) ==
    /\ At(c, "idle")
    /\ c \in bound.callers /\ cmd \in bound.cmds /\ ops < bound.ops
    /\ ops' = ops + 1
    /\ op' = [op EXCEPT ![c] = [cmd |-> cmd, req |-> 0]]
    /\ \/ inited[c] /\ mb_ipc_recv(c, c, "discard") /\ StageTo(c, "discard") /\ UNCHANGED result
       \/ ~inited[c] /\ mb_ipc_socket(c) /\ StageTo(c, "socket") /\ UNCHANGED result
       \/ ~inited[c] /\ sk[c].alloc /\ End(c, "fail")
    /\ UNCHANGED <<inited, reqs, srv, closes>>

Connect(c) ==
    /\ At(c, "socket")
    /\ mb_ipc_connect(c)
    /\ StageTo(c, "connect")
    /\ UNCHANGED <<op, inited, result, ops, reqs, srv, closes>>

\* a failed connection is closed; the result of the close is not looked at
Connected(c) ==
    /\ At(c, "connect")
    /\ \/ /\ th[c].ret = "ok"
          /\ inited' = [inited EXCEPT ![c] = TRUE]
          /\ mb_ipc_recv(c, c, "discard")
          /\ StageTo(c, "discard")
       \/ /\ th[c].ret /= "ok"
          /\ mb_ipc_close(c)
          /\ StageTo(c, "reset")
          /\ UNCHANGED inited
    /\ UNCHANGED <<op, result, ops, reqs, srv, closes>>

Reset(c) ==
    /\ At(c, "reset")
    /\ End(c, "fail")
    /\ UNCHANGED <<op, inited, ops, reqs, srv, closes>>

\* what was left of an earlier exchange has been discarded
SendRequest(c) ==
    /\ At(c, "discard")
    /\ mb_ipc_send(c, c, op[c].cmd, reqs + 1)
    /\ reqs' = reqs + 1
    /\ op' = [op EXCEPT ![c].req = reqs + 1]
    /\ StageTo(c, "send")
    /\ UNCHANGED <<inited, result, ops, srv, closes>>

\* after a send: wait for the reply
Sent(c, from, to) ==
    /\ At(c, from)
    /\ \/ th[c].ret = "ok" /\ mb_ipc_recv(c, c, "recv") /\ StageTo(c, to) /\ UNCHANGED result
       \/ th[c].ret /= "ok" /\ End(c, "fail")
    /\ UNCHANGED <<op, inited, ops, reqs, srv, closes>>

Replied(c) == th[c].ret = "ok" /\ th[c].user = op[c].cmd

Received(c) ==
    /\ At(c, "recv")
    /\ \/ ~Replied(c) /\ End(c, "fail") /\ UNCHANGED <<op, reqs>>
       \/ Replied(c) /\ op[c].cmd /= "READ" /\ End(c, "ok") /\ UNCHANGED <<op, reqs>>
       \/ /\ Replied(c) /\ op[c].cmd = "READ"
          /\ mb_ipc_send(c, c, ReadDone, reqs + 1)
          /\ reqs' = reqs + 1
          /\ op' = [op EXCEPT ![c].req = reqs + 1]
          /\ StageTo(c, "done_send")
          /\ UNCHANGED result
    /\ UNCHANGED <<inited, ops, srv, closes>>

\* "it is just a handshake": the outcome of the second reply is ignored
Handshake(c) ==
    /\ At(c, "done_recv")
    /\ End(c, "ok")
    /\ UNCHANGED <<op, inited, ops, reqs, srv, closes>>

\* bk_flash_driver_deinit ignores the result of mb_ipc_close
Deinit(c) ==
    /\ At(c, "idle")
    /\ inited[c]
    /\ closes < bound.closes
    /\ closes' = closes + 1
    /\ mb_ipc_close(c)
    /\ StageTo(c, "deinit")
    /\ UNCHANGED <<op, inited, result, ops, reqs, srv>>

DeinitEnd(c) ==
    /\ At(c, "deinit")
    /\ Runs
    /\ inited' = [inited EXCEPT ![c] = FALSE]
    /\ StageTo(c, "idle")
    /\ UNCHANGED <<sockVars, op, result, ops, reqs, srv, closes>>

(***************************************************************************)
(* The server                                                              *)
(***************************************************************************)
ServerRecv ==
    /\ srv = "idle" /\ th[Svr].pc = "idle"
    /\ \E s \in Conn : sk[s].conn /\ Pending(sk[s]) /\ mb_ipc_recv(Svr, s, "recv")
    /\ srv' = "recv"
    /\ UNCHANGED <<stage, op, inited, result, ops, reqs, closes>>

ServerReply ==
    /\ srv = "recv" /\ th[Svr].pc = "idle"
    /\ \/ /\ th[Svr].ret = "ok"
          /\ mb_ipc_send(Svr, th[Svr].sock, th[Svr].user, 0 - th[Svr].id)
          /\ srv' = "reply"
       \/ /\ th[Svr].ret /= "ok"
          /\ srv' = "idle"
          /\ UNCHANGED sockVars
    /\ UNCHANGED <<stage, op, inited, result, ops, reqs, closes>>

ServerDone ==
    /\ srv = "reply" /\ th[Svr].pc = "idle"
    /\ srv' = "idle"
    /\ UNCHANGED <<sockVars, stage, op, inited, result, ops, reqs, closes>>

Server == ServerRecv \/ ServerReply \/ ServerDone

ClientStep(c) ==
    \/ Connect(c) \/ Connected(c) \/ Reset(c) \/ SendRequest(c)
    \/ Sent(c, "send", "recv") \/ Received(c) \/ Sent(c, "done_send", "done_recv")
    \/ Handshake(c) \/ DeinitEnd(c)

Next ==
    \/ \E n \in Node : Isr(n) /\ UNCHANGED flash
    \/ \E t \in Thread : (Step(t) \/ Timeout(t) \/ RecvTimeout(t)) /\ UNCHANGED flash
    \/ \E c \in Client : ClientStep(c) \/ Deinit(c) \/ \E cmd \in Op : Begin(c, cmd)
    \/ Server

Spec == Init /\ [][Next]_vars

\* Interrupts are served and tasks run; whether a wait times out is left open.
FairSpec ==
    /\ Spec
    /\ \A n \in Node : WF_vars(Isr(n) /\ UNCHANGED flash)
    /\ \A t \in Thread : WF_vars(Step(t) /\ UNCHANGED flash)
    /\ \A c \in Client : WF_vars(ClientStep(c))
    /\ WF_vars(Server)

-----------------------------------------------------------------------------
(***************************************************************************)
(* Properties.  Without bound.smp the tasks of a node and its interrupt    *)
(* handler run on one core.                                                *)
(***************************************************************************)

\* mb_ipc_send reports success only for data that the application at the other end has
\* read or discarded: an answer to an earlier send that timed out is not taken for the
\* answer to this one (ipc_socket_rx_rsp_handler compares the tags).  A server whose client
\* has disconnected and connected again may be told that its last send succeeded
\* (ipc_socket_rx_cmd_connect clears tx_status), hence the condition on closes.
SentIsTaken ==
    timeouts = 0 \/ ~bound.smp =>
    \A t \in Thread :
        /\ t \in Client \/ closes = 0
        /\ th[t].pc = "idle" /\ th[t].call = "send" /\ th[t].ret = "ok"
        => th[t].id \in taken

\* No data is read twice, even when the router writes a command to the channel twice
\* (ipc_socket_rx_cmd_default_handler: "a re-sent cmd").
TakenOnce ==
    [][\A t \in Thread :
           /\ th[t].pc = "recv" /\ th[t].call = "recv"
           /\ th'[t].pc /= "recv" /\ th'[t].ret = "ok"
           => th'[t].id \notin taken]_vars

\* As long as no wait has timed out, the reply that an operation of the flash client
\* accepts is the reply to its own request, although only the command is compared.
OwnReply ==
    timeouts = 0 =>
    \A c \in Client : At(c, "recv") /\ Replied(c) => th[c].id = 0 - op[c].req

\* On one core the queue of the router stays in step with the channel, whatever the
\* timeouts: a completed command is the first one of the queue (otherwise
\* ipc_router_tx_cmpl_isr meets "something wrong" and leaves the queue as it is), and a
\* queued command is never left behind: one is under way, or the task that found the queue
\* empty is about to write it ("it is the first item pushed to the queue, then try to send").
Writing(n) == \E t \in Thread : HomeOf(t) = n /\ th[t].pc \in {"write", "rwrite"}
RouterLive ==
    ~bound.smp => \A n \in Node : /\ GotAck(n) => SentHead(n)
                                  /\ queue[n] /= <<>> => phy[n] \/ Writing(n)

\* On one core, unless a wait times out or a queue is full, every operation succeeds:
\* no command meets a busy socket, and a closed client can connect again.
Succeeds ==
    timeouts = 0 /\ ~full /\ ~bound.smp => \A c \in Client : result[c] /= "fail"

\* On one core, unless a queue is full, every operation ends without the help of a timeout:
\* client and server do not wait for each other for ever.
OpEnds ==
    \A c \in Client :
        stage[c] /= "idle" /\ ~bound.smp ~> (stage[c] = "idle" \/ timeouts > 0 \/ full)
=============================================================================
