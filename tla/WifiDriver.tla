----------------------------- MODULE WifiDriver -----------------------------
(***************************************************************************)
(* The Wi-Fi driver of the AP, which leaves the work to the CP:            *)
(*   chips/component/bk_wifi_driver/wdrv_{tx,rx,main,ipc,cntrl}.c          *)
(* Tasks give commands and wait for a confirmation (wdrv_tx_msg), the IP   *)
(* stack gives packets (wdrv_txdata_sender), and both go through the queue *)
(* of the task wdrv_main to one mailbox channel each.  What comes back     *)
(* goes from the interrupt handler through the same queue.                 *)
(*                                                                         *)
(* Commands, packets and received frames are named by the buffers they are *)
(* in.  A task, wdrv_main and the interrupt handler run beside each other  *)
(* on two cores (bound.smp); on one core the handler and the sections with *)
(* interrupts off are not interrupted.  A channel keeps what               *)
(* MailboxChannel shows: one write under way, completed after the peer has *)
(* handled it.  The driver is started (wdrv_init); the build is the one of *)
(* the Kconfig defaults, CONFIG_CONTROLLER_RX_DIRECT_PSH.                  *)
(*                                                                         *)
(* A behaviour ends where the C code has no defined meaning any more; bad  *)
(* says why: two tasks took one command buffer, two critical sections      *)
(* overlap, a confirmation is written to a call that has returned, or      *)
(* BK_ASSERT failed.                                                       *)
(***************************************************************************)
EXTENDS Naturals, Sequences, FiniteSets, SequencesExt

CONSTANTS
    Task,       \* tasks that call wdrv_tx_msg
    Packet,     \* pbufs of the IP stack, numbered in the order it allocates them
    Frame,      \* pbufs of the CP for what it receives, other numbers
    Nil,        \* no task, no buffer
    Bound       \* what a behaviour is bounded by: one of these records

Chnl == {"cmd", "data"}     \* IPC_CMD and IPC_DATA

VARIABLES
    queue,      \* wdrv_env.io_queue
    sending,    \* sending_flag of every channel
    tx_list,    \* tx_list of every channel
    wire,       \* what the channel has under way: nothing, a list, or its acknowledgement
    up,         \* what the CP has to send on every channel
    cp,         \* what the CP has: commands in order, packets to transmit
    thread,     \* wdrv_main: next step and its local variables
    isr,        \* the mailbox interrupt handler
    call,       \* the call of every task: next step and local variables
    sema,       \* semaphore in the wdrv_cmd_cfm of the call
    result,     \* what the confirmation has stored for the call
    pending,    \* wdrv_host_env.cfm_pending_list
    critical,   \* who is in a critical section of the pending list
    pattern,    \* the command buffers that are PATTERN_BUSY
    content,    \* the command in every command buffer
    held,       \* packets the driver has a reference of
    left,       \* what the bound still allows
    bound,      \* the bound of this behaviour
    returned,   \* history: what the last call of every task returned
    flow,       \* history: per channel, what was queued for the CP and not yet taken by it
    lost,       \* history: the ways in which something was dropped or held up
    bad         \* why the behaviour ended, or ""

tx == <<queue, sending, tx_list, wire, flow>>
cfm == <<call, sema, result, pending, critical, returned>>
vars == <<tx, up, cp, thread, isr, cfm, pattern, content, held, left, bound, lost, bad>>

Buf == 1..bound.bufs
Command(t) == [task |-> t, n |-> call[t].n, id |-> call[t].id, wait |-> call[t].wait]
Confirmation(cmd) == [kind |-> "cfm", cmd |-> cmd, buf |-> Nil]
Event(kind, buf) == [kind |-> kind, cmd |-> Nil, buf |-> buf]
Room == Len(queue) < bound.queue
ToSend(type, buf) == [type |-> type, buf |-> buf, ev |-> Nil, retry |-> FALSE]
Retry(type) == [type |-> type, buf |-> Nil, ev |-> Nil, retry |-> TRUE]
Received(type, ev) == [type |-> type, buf |-> Nil, ev |-> ev, retry |-> FALSE]

\* wdrv_main before it takes a message, the handler when it has returned
Waiting == [pc |-> "pop", chnl |-> "cmd", msg |-> Event("none", Nil), ent |-> Nil, n |-> 0]
Done == [pc |-> "idle", chnl |-> "cmd", todo |-> <<>>]
\* a task after its n-th call
Returned(n) == [pc |-> "idle", n |-> n, id |-> Nil, wait |-> FALSE, buf |-> Nil,
                cfm_id |-> Nil, sent |-> FALSE]

wdrv_msg_sender(m) == queue' = IF Room THEN Append(queue, m) ELSE queue

\* the tasks and wdrv_main: on one core not while the handler runs, nor while another one
\* has the interrupts off
MayRun(a) == bad = "" /\ (bound.smp \/ (isr.pc = "idle" /\ critical \subseteq {a}))
IsrMayRun == bad = "" /\ (bound.smp \/ critical = {})

Init ==
    /\ bound \in Bound
    /\ queue = <<>> /\ pending = <<>> /\ critical = {} /\ pattern = {} /\ held = {}
    /\ sending = [c \in Chnl |-> FALSE]
    /\ tx_list = [c \in Chnl |-> <<>>]
    /\ wire = [c \in Chnl |-> [st |-> "idle", node |-> <<>>]]
    /\ up = [c \in Chnl |-> <<>>]
    /\ flow = [c \in Chnl |-> <<>>]
    /\ cp = [cmds |-> <<>>, packets |-> {}, frames |-> Frame]
    /\ thread = Waiting
    /\ isr = Done
    /\ call = [t \in Task |-> Returned(0)]
    /\ sema = [t \in Task |-> 0]
    /\ result = [t \in Task |-> Nil]
    /\ returned = [t \in Task |-> Nil]
    /\ content = [b \in Buf |-> Nil]
    /\ left = [calls |-> bound.calls, timeouts |-> bound.timeouts, refused |-> bound.refused,
               packets |-> bound.packets, frames |-> bound.frames]
    /\ lost = {} /\ bad = ""

-----------------------------------------------------------------------------
(* Commands: wdrv_tx_msg, in the task that gives one *)

Goto(t, pc) == call' = [call EXCEPT ![t].pc = pc]

\* entry: the semaphore is made, the cfm record is on the stack of the task; without
\* memory for the semaphore, or with wrong parameters, the call returns at once
wdrv_tx_msg(t) ==
    /\ MayRun(t) /\ call[t].pc = "idle" /\ left.calls[t] > 0
    /\ \/ \E w \in bound.wait :
             call' = [call EXCEPT ![t] =
                 [pc |-> IF w THEN "push" ELSE "scan", n |-> @.n + 1, id |-> bound.id[t],
                  wait |-> w, buf |-> Nil, cfm_id |-> Nil, sent |-> FALSE]]
       \/ call' = [call EXCEPT ![t] = Returned(@.n + 1)]
    /\ sema' = [sema EXCEPT ![t] = 0]
    /\ result' = [result EXCEPT ![t] = Nil]
    /\ returned' = [returned EXCEPT ![t] = Nil]
    /\ left' = [left EXCEPT !.calls[t] = @ - 1]
    /\ UNCHANGED <<tx, up, cp, thread, isr, pending, critical, pattern, content, held, bound,
                   lost, bad>>

\* The spin lock is static in a header: the tasks share the copy of wdrv_tx.c, and wdrv_main
\* uses the one of wdrv_rx.c, which does not keep the tasks of the other core out.
wdrv_txmsg_enter_critical(a) ==
    /\ a \in Task => critical \cap Task = {}
    /\ critical' = critical \cup {a}
    /\ bad' = IF critical = {} THEN bad ELSE "torn"

EnterTask(t) ==
    /\ MayRun(t) /\ call[t].pc \in {"push", "extract"}
    /\ wdrv_txmsg_enter_critical(t)
    /\ Goto(t, IF call[t].pc = "push" THEN "pushing" ELSE "extracting")
    /\ UNCHANGED <<tx, up, cp, thread, isr, sema, result, pending, returned, pattern, content,
                   held, left, bound, lost>>

co_list_push_back(t) ==
    /\ MayRun(t) /\ call[t].pc = "pushing"
    /\ pending' = Append(pending, t)
    /\ critical' = critical \ {t}
    /\ Goto(t, "scan")
    /\ UNCHANGED <<tx, up, cp, thread, isr, sema, result, returned, pattern, content, held,
                   left, bound, lost, bad>>

\* after wdrv_tx_msg_send, whose result nobody looks at
AfterSend(t) ==
    IF call[t].wait THEN [call[t] EXCEPT !.pc = "wait"] ELSE Returned(call[t].n)

\* cfm_id is stored, then a buffer is looked for; it is marked in a later step
wdrv_get_cmd_buffer(t) ==
    /\ MayRun(t) /\ call[t].pc = "scan"
    /\ LET free == Buf \ pattern
           c == IF free = {} THEN AfterSend(t)
                ELSE [call[t] EXCEPT !.pc = "mark", !.buf = Min(free)]
       IN call' = [call EXCEPT ![t] = [c EXCEPT !.cfm_id = IF c.wait THEN c.id ELSE @]]
    /\ UNCHANGED <<tx, up, cp, thread, isr, sema, result, pending, critical, returned, pattern,
                   content, held, left, bound, lost, bad>>

MarkBusy(t) ==
    /\ MayRun(t) /\ call[t].pc = "mark"
    /\ bad' = IF call[t].buf \in pattern THEN "clash" ELSE bad
    /\ pattern' = pattern \cup {call[t].buf}
    /\ content' = [content EXCEPT ![call[t].buf] = Command(t)]
    /\ Goto(t, "post")
    /\ UNCHANGED <<tx, up, cp, thread, isr, sema, result, pending, critical, returned, held,
                   left, bound, lost>>

\* mutant: the buffer stays busy when the queue is full
wdrv_tx_msg_send_kept(t) ==
    /\ MayRun(t) /\ call[t].pc = "post"
    /\ call' = [call EXCEPT ![t] = [AfterSend(t) EXCEPT !.sent = Room /\ call[t].wait]]
    /\ wdrv_msg_sender(ToSend("CMD", call[t].buf))
    /\ flow' = IF Room THEN [flow EXCEPT !["cmd"] = Append(@, call[t].buf)] ELSE flow
    /\ UNCHANGED <<sending, tx_list, wire, up, cp, thread, isr, sema, result, pending, critical,
                   returned, pattern, content, held, left, bound, lost, bad>>

\* The message goes into the queue for wdrv_main, or the buffer is given back.
wdrv_tx_msg_send(t) ==
    /\ MayRun(t) /\ call[t].pc = "post"
    /\ call' = [call EXCEPT ![t] = [AfterSend(t) EXCEPT !.sent = Room /\ call[t].wait]]
    /\ wdrv_msg_sender(ToSend("CMD", call[t].buf))
    /\ flow' = IF Room THEN [flow EXCEPT !["cmd"] = Append(@, call[t].buf)] ELSE flow
    /\ pattern' = IF Room THEN pattern ELSE pattern \ {call[t].buf}
    /\ UNCHANGED <<sending, tx_list, wire, up, cp, thread, isr, sema, result, pending, critical,
                   returned, content, held, left, bound, lost, bad>>

\* the wait for the semaphore ends with the confirmation ...
Confirmed(t) ==
    /\ MayRun(t) /\ call[t].pc = "wait" /\ sema[t] > 0
    /\ returned' = [returned EXCEPT ![t] = result[t]]
    /\ call' = [call EXCEPT ![t] = Returned(@.n)]
    /\ UNCHANGED <<tx, up, cp, thread, isr, sema, result, pending, critical, pattern, content,
                   held, left, bound, lost, bad>>

\* ... or after WDRV_CMDCFM_TIMEOUT
TimedOut(t) ==
    /\ MayRun(t) /\ call[t].pc = "wait" /\ sema[t] = 0 /\ left.timeouts > 0
    /\ left' = [left EXCEPT !.timeouts = @ - 1]
    /\ Goto(t, "extract")
    /\ UNCHANGED <<tx, up, cp, thread, isr, sema, result, pending, critical, returned, pattern,
                   content, held, bound, lost, bad>>

\* The entry is taken out; wdrv_cntrl_get_cif_stats sends a command that nobody waits for.
co_list_extract(t) ==
    /\ MayRun(t) /\ call[t].pc = "extracting"
    /\ pending' = Remove(pending, t)
    /\ critical' = critical \ {t}
    /\ call' = [call EXCEPT ![t].pc = "scan", ![t].wait = FALSE, ![t].id = Nil]
    /\ UNCHANGED <<tx, up, cp, thread, isr, sema, result, returned, pattern, content, held,
                   left, bound, lost, bad>>

TaskStep(t) ==
    \/ EnterTask(t) \/ co_list_push_back(t) \/ wdrv_get_cmd_buffer(t) \/ MarkBusy(t)
    \/ wdrv_tx_msg_send(t) \/ Confirmed(t) \/ co_list_extract(t)

-----------------------------------------------------------------------------
(* Packets: wdrv_txdata_sender *)

\* for the IP stack, which does not give a packet again while the driver has a reference.
\* A wait that ends after a second with the queue full changes nothing.
wdrv_txdata_sender(p) ==
    /\ bad = "" /\ (bound.smp \/ (isr.pc = "idle" /\ critical = {}))
    /\ left.packets > 0 /\ Room
    /\ p \notin held /\ \A o \in Packet : o < p => o \in held
    /\ held' = held \cup {p}
    /\ queue' = Append(queue, ToSend("TXDATA", p))
    /\ flow' = [flow EXCEPT !["data"] = Append(@, p)]
    /\ left' = [left EXCEPT !.packets = @ - 1]
    /\ UNCHANGED <<sending, tx_list, wire, up, cp, thread, isr, cfm, pattern, content, bound,
                   lost, bad>>

-----------------------------------------------------------------------------
(* wdrv_main, the task that serves the queue *)

rest == <<up, cp, left, bound, content, pattern>>    \* what wdrv_main leaves alone

wdrv_main ==
    /\ MayRun("main") /\ thread.pc = "pop" /\ queue # <<>>
    /\ queue' = Tail(queue)
    /\ LET m == Head(queue)
           c == IF m.type = "CMD" THEN "cmd" ELSE "data"
       IN \/ /\ m.type \in {"CMD", "TXDATA"}        \* wdrv_txdata_pre_process
             /\ tx_list' = IF m.retry THEN tx_list ELSE [tx_list EXCEPT ![c] = Append(@, m.buf)]
             /\ thread' = [thread EXCEPT !.pc = "test", !.chnl = c]
             /\ UNCHANGED held
          \/ /\ m.type = "EVENT"                    \* wdrv_rx_handle_msg
             /\ thread' = CASE m.ev.kind = "cfm" -> [thread EXCEPT !.msg = m.ev, !.pc = "find"]
                            [] m.ev.kind = "special" -> [thread EXCEPT !.msg = m.ev, !.pc = "sender"]
                            [] OTHER -> thread
             /\ UNCHANGED <<tx_list, held>>
          \/ /\ m.type = "RXDATA"                   \* wdrv_rxdata_process
             /\ held' = IF m.ev.kind = "txc" THEN held \ {m.ev.buf} ELSE held
             /\ thread' = CASE m.ev.kind = "txc" -> thread
                            [] m.ev.kind = "special" -> [thread EXCEPT !.msg = m.ev, !.pc = "repost"]
                            [] OTHER -> [thread EXCEPT !.msg = m.ev, !.pc = "sender"]
             /\ UNCHANGED tx_list
    /\ UNCHANGED <<sending, wire, flow, isr, cfm, rest, lost, bad>>

\* a list that is being sent stays alone until the completion
TestSending ==
    /\ MayRun("main") /\ thread.pc = "test"
    /\ thread' = IF sending[thread.chnl] THEN Waiting ELSE [thread EXCEPT !.pc = "push"]
    /\ sending' = [sending EXCEPT ![thread.chnl] = TRUE]
    /\ UNCHANGED <<queue, tx_list, wire, flow, isr, cfm, rest, held, lost, bad>>

\* The whole list is handed over, its length in a uint8_t; mb_chnl_write may refuse it.
wdrv_txbuf_push ==
    /\ MayRun("main") /\ thread.pc = "push"
    /\ LET c == thread.chnl
           list == tx_list[c]
           num == Len(list) % bound.num
           Stop == sending' = [sending EXCEPT ![c] = FALSE]
                   /\ thread' = Waiting
       IN \/ /\ list = <<>> /\ Stop
             /\ UNCHANGED <<wire, left, lost, bad>>
          \/ /\ list # <<>> /\ num = 0
             /\ bad' = "assert"
             /\ UNCHANGED <<sending, thread, wire, left, lost>>
          \/ /\ list # <<>> /\ num > 0
             /\ wire' = [wire EXCEPT ![c] = [st |-> "sent", node |-> SubSeq(list, 1, num)]]
             /\ thread' = [thread EXCEPT !.pc = "clear"]
             /\ lost' = IF num < Len(list) THEN lost \cup {"wrapped"} ELSE lost
             /\ UNCHANGED <<sending, left, bad>>
          \/ /\ list # <<>> /\ num > 0 /\ left.refused > 0 /\ Stop
             /\ left' = [left EXCEPT !.refused = @ - 1]
             /\ lost' = lost \cup {"refused"}
             /\ UNCHANGED <<wire, bad>>
    /\ UNCHANGED <<queue, tx_list, flow, isr, cfm, up, cp, bound, content, pattern, held>>

\* mutant: the list is kept after it was written
co_list_init_kept ==
    /\ MayRun("main") /\ thread.pc = "clear"
    /\ thread' = Waiting
    /\ UNCHANGED <<tx, isr, cfm, rest, held, lost, bad>>
co_list_init ==
    /\ MayRun("main") /\ thread.pc = "clear"
    /\ tx_list' = [tx_list EXCEPT ![thread.chnl] = <<>>]
    /\ thread' = Waiting
    /\ UNCHANGED <<queue, sending, wire, flow, isr, cfm, rest, held, lost, bad>>

\* mutant: the first entry, whatever its id
MatchingEntry_first == IF pending = <<>> THEN Nil ELSE Head(pending)
\* wdrv_rx_confirm_tx_msg: the first entry with the id of the confirmation (cmd_sn, and with
\* it cfm_sn, is 0 in every command).  cfm_lock keeps nobody out: only wdrv_main takes it.
MatchingEntry ==
    LET match == SelectSeq(pending, LAMBDA t : call[t].cfm_id = thread.msg.cmd.id)
    IN IF match = <<>> THEN Nil ELSE Head(match)

FindEntry ==
    /\ MayRun("main") /\ thread.pc = "find"
    /\ thread' = IF MatchingEntry = Nil THEN Waiting
                 ELSE [thread EXCEPT !.ent = MatchingEntry, !.n = call[MatchingEntry].n,
                                     !.pc = "copy"]
    /\ UNCHANGED <<tx, isr, cfm, rest, held, lost, bad>>

\* the entry is on the stack of a task; the call that has put it there has not returned
Alive == call[thread.ent].pc # "idle" /\ call[thread.ent].n = thread.n

\* mutant: the task is woken before its entry is taken out
CopyResult_early ==
    /\ MayRun("main") /\ thread.pc = "copy" /\ Alive
    /\ result' = [result EXCEPT ![thread.ent] = thread.msg.cmd]
    /\ sema' = [sema EXCEPT ![thread.ent] = 1]
    /\ thread' = [thread EXCEPT !.pc = "enter"]
    /\ UNCHANGED <<tx, isr, call, pending, critical, returned, rest, held, lost, bad>>

CopyResult ==
    /\ MayRun("main") /\ thread.pc = "copy"
    /\ \/ /\ Alive
          /\ result' = [result EXCEPT ![thread.ent] = thread.msg.cmd]
          /\ thread' = [thread EXCEPT !.pc = "enter"]
          /\ UNCHANGED bad
       \/ /\ ~Alive
          /\ bad' = "wild"
          /\ UNCHANGED <<result, thread>>
    /\ UNCHANGED <<tx, isr, call, sema, pending, critical, returned, rest, held, lost>>

EnterMain ==
    /\ MayRun("main") /\ thread.pc = "enter"
    /\ wdrv_txmsg_enter_critical("main")
    /\ thread' = [thread EXCEPT !.pc = "extract"]
    /\ UNCHANGED <<tx, isr, call, sema, result, pending, returned, rest, held, lost>>

ExtractEntry ==
    /\ MayRun("main") /\ thread.pc = "extract"
    /\ pending' = Remove(pending, thread.ent)
    /\ critical' = critical \ {"main"}
    /\ thread' = [thread EXCEPT !.pc = "set"]
    /\ UNCHANGED <<tx, isr, call, sema, result, returned, rest, held, lost, bad>>

SetSemaphore ==
    /\ MayRun("main") /\ thread.pc = "set"
    /\ \/ /\ Alive
          /\ sema' = [sema EXCEPT ![thread.ent] = 1]
          /\ thread' = Waiting
          /\ UNCHANGED bad
       \/ /\ ~Alive
          /\ bad' = "wild"
          /\ UNCHANGED <<sema, thread>>
    /\ UNCHANGED <<tx, isr, call, result, pending, critical, returned, rest, held, lost>>

\* A frame is copied and goes back to the CP through the queue that only this task empties:
\* when it is full, the wait of a second is in vain and the frame does not go back.
ReturnFrame ==
    /\ MayRun("main") /\ thread.pc = "sender"
    /\ wdrv_msg_sender(ToSend("TXDATA", thread.msg.buf))
    /\ flow' = IF Room THEN [flow EXCEPT !["data"] = Append(@, thread.msg.buf)] ELSE flow
    /\ lost' = IF Room THEN lost ELSE lost \cup {"frame"}
    /\ thread' = Waiting
    /\ UNCHANGED <<sending, tx_list, wire, isr, cfm, rest, held, bad>>

\* a frame for a monitor or filter callback takes the way of an event
RepostSpecial ==
    /\ MayRun("main") /\ thread.pc = "repost"
    /\ wdrv_msg_sender(Received("EVENT", thread.msg))
    /\ lost' = IF Room THEN lost ELSE lost \cup {"frame"}
    /\ thread' = Waiting
    /\ UNCHANGED <<sending, tx_list, wire, flow, isr, cfm, rest, held, bad>>

MainStep ==
    \/ wdrv_main \/ TestSending \/ wdrv_txbuf_push \/ co_list_init
    \/ FindEntry \/ CopyResult \/ EnterMain \/ ExtractEntry \/ SetSemaphore
    \/ ReturnFrame \/ RepostSpecial

-----------------------------------------------------------------------------
(* The mailbox interrupt *)

same == <<up, cp, thread, cfm, pattern, content, held, left, bound>>

\* The completion of a write: sending_flag is cleared, then tx_list is looked at.
wdrv_tx_complete(c) ==
    /\ IsrMayRun /\ isr.pc = "idle" /\ wire[c].st = "ack"
    /\ wire' = [wire EXCEPT ![c].st = "idle"]
    /\ sending' = [sending EXCEPT ![c] = FALSE]
    /\ isr' = [isr EXCEPT !.pc = "look", !.chnl = c]
    /\ UNCHANGED <<queue, tx_list, flow, same, lost, bad>>

\* mutant: nothing is posted for the list that waits
PostRetry_quiet ==
    /\ IsrMayRun /\ isr.pc = "look"
    /\ isr' = Done
    /\ UNCHANGED <<tx, same, lost, bad>>
PostRetry ==
    /\ IsrMayRun /\ isr.pc = "look"
    /\ LET c == isr.chnl
       IN IF tx_list[c] = <<>> THEN UNCHANGED <<queue, lost>>
          ELSE /\ wdrv_msg_sender(Retry(IF c = "cmd" THEN "CMD" ELSE "TXDATA"))
               /\ lost' = IF Room THEN lost ELSE lost \cup {"retry"}
    /\ isr' = Done
    /\ UNCHANGED <<sending, tx_list, wire, flow, same, bad>>

\* wdrv_recv_buffer posts the elements of a list one by one.
wdrv_recv_buffer(c) ==
    /\ IsrMayRun /\ isr.pc = "idle" /\ up[c] # <<>>
    /\ isr' = [pc |-> "recv", chnl |-> c, todo |-> up[c]]
    /\ up' = [up EXCEPT ![c] = <<>>]
    /\ UNCHANGED <<tx, cp, thread, cfm, pattern, content, held, left, bound, lost, bad>>

PostReceived ==
    /\ IsrMayRun /\ isr.pc = "recv"
    /\ wdrv_msg_sender(Received(IF isr.chnl = "cmd" THEN "EVENT" ELSE "RXDATA", Head(isr.todo)))
    /\ lost' = IF Room THEN lost ELSE lost \cup {"event"}
    /\ bad' = IF Room \/ isr.chnl = "cmd" THEN bad ELSE "assert"
    /\ isr' = IF Len(isr.todo) = 1 THEN Done ELSE [isr EXCEPT !.todo = Tail(@)]
    /\ UNCHANGED <<sending, tx_list, wire, flow, same>>

IsrStep ==
    \/ \E c \in Chnl : wdrv_tx_complete(c) \/ wdrv_recv_buffer(c)
    \/ PostRetry \/ PostReceived

-----------------------------------------------------------------------------
(* The CP *)

ap == <<queue, sending, tx_list, thread, isr, cfm, held, bound, lost, bad>>

\* It takes the list of a write and acknowledges it.
CpTake(c) ==
    /\ bad = "" /\ wire[c].st = "sent"
    /\ wire' = [wire EXCEPT ![c] = [st |-> "ack", node |-> <<>>]]
    /\ flow' = [flow EXCEPT ![c] = SubSeq(@, Len(wire[c].node) + 1, Len(@))]
    /\ LET node == wire[c].node
       IN cp' = IF c = "cmd" THEN [cp EXCEPT !.cmds = @ \o node]
                ELSE [cp EXCEPT !.packets = @ \cup (Packet \cap Range(node)),
                                !.frames = @ \cup (Frame \cap Range(node))]
    /\ UNCHANGED <<ap, up, pattern, content, left>>

\* It carries out a command, gives the buffer back and sends the confirmation.
CpCommand ==
    /\ bad = "" /\ cp.cmds # <<>>
    /\ cp' = [cp EXCEPT !.cmds = Tail(@)]
    /\ pattern' = pattern \ {Head(cp.cmds)}
    /\ content' = [content EXCEPT ![Head(cp.cmds)] = Nil]
    /\ LET cmd == content[Head(cp.cmds)]
       IN up' = IF cmd.wait THEN [up EXCEPT !["cmd"] = Append(@, Confirmation(cmd))] ELSE up
    /\ UNCHANGED <<ap, wire, flow, left>>

\* It has transmitted a packet: the buffer goes back with need_free set.
CpTransmit(p) ==
    /\ bad = "" /\ p \in cp.packets
    /\ cp' = [cp EXCEPT !.packets = @ \ {p}]
    /\ up' = [up EXCEPT !["data"] = Append(@, Event("txc", p))]
    /\ UNCHANGED <<ap, wire, flow, pattern, content, left>>

\* It has received a frame, or something has happened.
CpFrame(f, kind) ==
    /\ bad = "" /\ left.frames > 0 /\ f \in cp.frames
    /\ cp' = [cp EXCEPT !.frames = @ \ {f}]
    /\ up' = [up EXCEPT !["data"] = Append(@, Event(kind, f))]
    /\ left' = [left EXCEPT !.frames = @ - 1]
    /\ UNCHANGED <<ap, wire, flow, pattern, content>>
CpEvent ==
    /\ bad = "" /\ left.frames > 0
    /\ up' = [up EXCEPT !["cmd"] = Append(@, Event("event", Nil))]
    /\ left' = [left EXCEPT !.frames = @ - 1]
    /\ UNCHANGED <<ap, wire, flow, pattern, content, cp>>

CpStep == CpCommand \/ (\E c \in Chnl : CpTake(c)) \/ (\E p \in Packet : CpTransmit(p))

-----------------------------------------------------------------------------
Next ==
    \/ \E t \in Task : wdrv_tx_msg(t) \/ TaskStep(t) \/ TimedOut(t)
    \/ \E p \in Packet : wdrv_txdata_sender(p)
    \/ MainStep \/ IsrStep \/ CpStep
    \/ \E f \in Frame, kind \in {"msdu", "special"} : CpFrame(f, kind)
    \/ CpEvent

Spec == Init /\ [][Next]_vars

\* The scheduler runs every task that can go on, the mailbox raises its interrupts and the
\* CP serves what it is given; timeouts, calls, packets and frames need not happen.
FairSpec ==
    Spec /\ WF_vars(MainStep) /\ WF_vars(IsrStep) /\ WF_vars(CpStep)
         /\ \A t \in Task : WF_vars(TaskStep(t))

-----------------------------------------------------------------------------
(* Properties *)

ForChnl(m, c) == m.type = IF c = "cmd" THEN "CMD" ELSE "TXDATA"
Working(pcs, c) == thread.pc \in pcs /\ thread.chnl = c
Trouble == bad # "" \/ lost # {}

\* What was put into the queue for a channel is, in this order and once, in the list under
\* way, in tx_list and in the queue, until the CP takes it: also when the completion of a
\* write comes before co_list_init has emptied the list that was written
\* (wdrv_txdata_pre_process, wdrv_tx_complete).
Pipeline ==
    \A c \in Chnl :
        LET queued == SelectSeq(queue, LAMBDA m : ForChnl(m, c) /\ ~m.retry)
        IN \/ "wrapped" \in lost
           \/ flow[c] = wire[c].node
                        \o (IF Working({"clear"}, c) THEN <<>> ELSE tx_list[c])
                        \o [i \in 1..Len(queued) |-> queued[i].buf]

\* sending_flag is set only while a write is under way, and a list that waits while it is
\* clear is about to be written: wdrv_main works on it, or a message for the channel is in
\* the queue or is about to be posted by the completion, unless mb_chnl_write was refused or
\* the message of the completion found the queue full.
TxLive ==
    \A c \in Chnl :
        /\ sending[c] => wire[c].st # "idle" \/ Working({"push"}, c)
        /\ tx_list[c] # <<>> /\ ~sending[c] =>
              \/ Working({"test", "push", "clear"}, c)
              \/ isr.pc = "look" /\ isr.chnl = c
              \/ \E i \in 1..Len(queue) : ForChnl(queue[i], c)
              \/ lost \cap {"refused", "retry"} # {}

\* A call that waits for a confirmation returns that of its own command.  The confirmation
\* is only recognised by the id: when a call has timed out, or two tasks give the same
\* command, it is that of some command with this id (wdrv_rx_confirm_tx_msg).
OwnConfirm ==
    \A t \in Task :
        returned[t] # Nil =>
            /\ returned[t].id = bound.id[t]
            /\ \/ returned[t].task = t /\ returned[t].n = call[t].n
               \/ left.timeouts < bound.timeouts
               \/ \E o \in Task \ {t} : bound.id[o] = bound.id[t]

\* The entries of the pending list are on the stacks of calls that have not returned, each
\* once, and wdrv_main stores nothing in an entry whose call has returned, unless a call
\* has timed out meanwhile (wdrv_tx_msg, wdrv_rx_confirm_tx_msg).
EntryAlive ==
    /\ \A i \in 1..Len(pending) : call[pending[i]].pc # "idle"
    /\ IsInjective(pending)
    /\ bad = "wild" => left.timeouts < bound.timeouts

\* A call whose command was queued gets a confirmation, unless something was dropped on the
\* way: nothing else is needed to end the wait of wdrv_tx_msg, in particular no timeout.
Answered ==
    \A t \in Task : (call[t].pc = "wait" /\ call[t].sent) ~> (call[t].pc # "wait" \/ Trouble)

\* Command buffers become free again, packets are given back to the IP stack and frames to
\* the CP, unless something was dropped on the way (wdrv_free_cmd_buffer,
\* wdrv_rxdata_process).
GivenBack ==
    /\ \A b \in UNION {1..x.bufs : x \in Bound} : b \in pattern ~> (b \notin pattern \/ Trouble)
    /\ \A p \in Packet : p \in held ~> (p \notin held \/ Trouble)
    /\ \A f \in Frame : f \notin cp.frames ~> (f \in cp.frames \/ Trouble)
=============================================================================
