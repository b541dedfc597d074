------------------------------- MODULE IpcCmd -------------------------------
(***************************************************************************)
(* Remote commands between AP and CP, seen from the caller:                *)
(*   chips/drivers/mailbox/mb_ipc_cmd.c                                    *)
(* A task that calls ipc_send_cmd owns the channel (chnl_sema), puts its   *)
(* data into the exchange buffer, writes the command to the mailbox and    *)
(* waits for rsp_sema.  The peer reads the data, writes the answer to the  *)
(* same buffer and acknowledges the command; if it cannot answer at once   *)
(* (ACK_STATE_PENDING) it sends the answer later, as a command of its own. *)
(* The interrupt handler runs beside the tasks, on the other core of the   *)
(* AP: it tests the state, stores the answer and posts rsp_sema in steps.  *)
(*                                                                         *)
(* Of the mailbox this module keeps what MailboxChannel shows of it: one   *)
(* command waits in the logical channel, one is under way until its        *)
(* acknowledgement is handled.  The data of a call is its number.          *)
(***************************************************************************)
EXTENDS Integers, FiniteSets

CONSTANTS
    Task,      \* the tasks that call ipc_send_cmd
    Cmd,       \* the commands
    MaxCalls,  \* bound on the number of calls
    MaxTimeout \* bound on the waits longer than IPC_RSP_TIMEOUT

NoCmd == "none"

ASSUME IpcConstants == NoCmd \notin Cmd /\ MaxCalls \in Nat /\ MaxTimeout \in Nat

Fail == [kind |-> "fail", id |-> 0]
Data == [kind : {"req", "ans"}, id : 0..MaxCalls]
AckState == {"FAIL", "PENDING", "COMPLETE"}
NoFly == [cmd |-> NoCmd, state |-> "none"]
Flying == [cmd : Cmd, state : AckState \cup {"sent"}] \cup {NoFly}
RspCmd == [cmd : Cmd, data : Data]
IsrMsg == [kind : {"none", "ack", "rsp"}, cmd : Cmd \cup {NoCmd}, state : AckState, data : Data]

VARIABLES
    chnl_sema, rsp_sema,  \* counts of the two semaphores of ipc_chnl_cb
    tx_cmd, tx_cmd_in_process, tx_cmd_failed, rsp_buf,
    xchg,   \* the exchange buffer tx_xchg_buff, which is rx_xchg_buff of the peer
    tx,     \* command in the logical channel, not sent yet (its tx_state is BUSY)
    fly,    \* command under way or acknowledged
    rsps,   \* answers to pending commands, under way as commands of the peer
    isr,    \* the interrupt handler: its next step and its message
    pc, call, ret,  \* of every task: the next step in ipc_send_cmd, its command and
                    \* number, and the data it returns, or Fail
    calls,    \* number of calls so far
    timeouts  \* number of waits that timed out

cb == <<chnl_sema, rsp_sema, tx_cmd, tx_cmd_in_process, tx_cmd_failed, rsp_buf>>
wire == <<xchg, tx, fly, rsps>>
task == <<pc, call, ret, calls, timeouts>>
vars == <<cb, wire, isr, task>>

TypeOK ==
    /\ chnl_sema \in {0, 1} /\ rsp_sema \in Nat
    /\ tx_cmd \in Cmd \cup {NoCmd}
    /\ tx_cmd_in_process \in BOOLEAN /\ tx_cmd_failed \in BOOLEAN
    /\ rsp_buf \in Data /\ xchg \in Data
    /\ tx \in Cmd \cup {NoCmd}
    /\ fly \in Flying
    /\ rsps \subseteq RspCmd
    /\ isr \in [pc : {"idle", "test", "take", "post"}, msg : IsrMsg]
    /\ pc \in [Task -> {"idle", "lock", "begin", "write", "send", "wait", "got", "exit"}]
    /\ call \in [Task -> [cmd : Cmd \cup {NoCmd}, id : 0..MaxCalls]]
    /\ ret \in [Task -> Data \cup {Fail}]
    /\ calls \in 0..MaxCalls
    /\ timeouts \in 0..MaxTimeout

Blank == [kind |-> "ans", id |-> 0]
Ack(c, result) == [kind |-> "ack", cmd |-> c, state |-> result, data |-> Blank]
Rsp(r) == [kind |-> "rsp", cmd |-> r.cmd, state |-> "COMPLETE", data |-> r.data]
NoMsg == [kind |-> "none", cmd |-> NoCmd, state |-> "FAIL", data |-> Blank]

Init ==
    /\ chnl_sema = 1 /\ rsp_sema = 0
    /\ tx_cmd = NoCmd /\ tx_cmd_in_process = FALSE /\ tx_cmd_failed = FALSE
    /\ rsp_buf = Blank /\ xchg = Blank
    /\ tx = NoCmd /\ fly = NoFly /\ rsps = {}
    /\ isr = [pc |-> "idle", msg |-> NoMsg]
    /\ pc = [t \in Task |-> "idle"]
    /\ call = [t \in Task |-> [cmd |-> NoCmd, id |-> 0]]
    /\ ret = [t \in Task |-> Fail]
    /\ calls = 0 /\ timeouts = 0

Goto(t, next) == pc' = [pc EXCEPT ![t] = next]

(***************************************************************************)
(* ipc_send_cmd                                                            *)
(***************************************************************************)
ipc_send_cmd(t, c) ==
    /\ pc[t] = "idle"
    /\ calls < MaxCalls
    /\ calls' = calls + 1
    /\ call' = [call EXCEPT ![t] = [cmd |-> c, id |-> calls + 1]]
    /\ ret' = [ret EXCEPT ![t] = Fail]
    /\ Goto(t, "lock")
    /\ UNCHANGED <<cb, wire, isr, timeouts>>

\* mutant: the channel is tested and not taken
Lock_open(t) ==
    /\ pc[t] = "lock"
    /\ chnl_sema > 0
    /\ Goto(t, "begin")
    /\ UNCHANGED <<cb, wire, isr, call, ret, calls, timeouts>>

Lock(t) ==
    /\ pc[t] = "lock"
    /\ chnl_sema > 0
    /\ chnl_sema' = chnl_sema - 1
    /\ Goto(t, "begin")
    /\ UNCHANGED <<rsp_sema, tx_cmd, tx_cmd_in_process, tx_cmd_failed, rsp_buf, wire, isr,
                   call, ret, calls, timeouts>>

Begin(t) ==
    /\ pc[t] = "begin"
    /\ tx_cmd' = call[t].cmd
    /\ tx_cmd_failed' = FALSE
    /\ tx_cmd_in_process' = TRUE
    /\ Goto(t, "write")
    /\ UNCHANGED <<chnl_sema, rsp_sema, rsp_buf, wire, isr,
                   call, ret, calls, timeouts>>

\* the data is too long, or goes into the exchange buffer
Write(t) ==
    /\ pc[t] = "write"
    /\ \/ Goto(t, "exit") /\ UNCHANGED xchg
       \/ xchg' = [kind |-> "req", id |-> call[t].id] /\ Goto(t, "send")
    /\ UNCHANGED <<cb, tx, fly, rsps, isr, call, ret, calls, timeouts>>

\* mb_chnl_write
Send(t) ==
    /\ pc[t] = "send"
    /\ \/ tx /= NoCmd /\ Goto(t, "exit") /\ UNCHANGED tx
       \/ tx = NoCmd /\ tx' = call[t].cmd /\ Goto(t, "wait")
    /\ UNCHANGED <<cb, xchg, fly, rsps, isr, call, ret, calls, timeouts>>

rtos_get_semaphore(t) ==
    /\ pc[t] = "wait"
    /\ rsp_sema > 0
    /\ rsp_sema' = rsp_sema - 1
    /\ Goto(t, "got")
    /\ UNCHANGED <<chnl_sema, tx_cmd, tx_cmd_in_process, tx_cmd_failed, rsp_buf, wire, isr,
                   call, ret, calls, timeouts>>

Timeout(t) ==
    /\ pc[t] = "wait"
    /\ rsp_sema = 0
    /\ timeouts < MaxTimeout
    /\ timeouts' = timeouts + 1
    /\ Goto(t, "exit")
    /\ UNCHANGED <<cb, wire, isr, call, ret, calls>>

\* the answer is copied from rsp_buf, unless the buffer of the caller is too small
Got(t) ==
    /\ pc[t] = "got"
    /\ tx_cmd_in_process' = FALSE
    /\ \/ UNCHANGED ret
       \/ ~tx_cmd_failed /\ ret' = [ret EXCEPT ![t] = rsp_buf]
    /\ Goto(t, "exit")
    /\ UNCHANGED <<chnl_sema, rsp_sema, tx_cmd, tx_cmd_failed, rsp_buf, wire, isr, call, calls, timeouts>>

\* mutant: the channel is not given back after an error
Exit_locked(t) ==
    /\ pc[t] = "exit"
    /\ tx_cmd_in_process' = FALSE
    /\ chnl_sema' = IF ret[t] = Fail THEN chnl_sema ELSE chnl_sema + 1
    /\ Goto(t, "idle")
    /\ UNCHANGED <<rsp_sema, tx_cmd, tx_cmd_failed, rsp_buf, wire, isr,
                   call, ret, calls, timeouts>>

Exit(t) ==
    /\ pc[t] = "exit"
    /\ tx_cmd_in_process' = FALSE
    /\ chnl_sema' = chnl_sema + 1
    /\ Goto(t, "idle")
    /\ UNCHANGED <<rsp_sema, tx_cmd, tx_cmd_failed, rsp_buf, wire, isr,
                   call, ret, calls, timeouts>>

(***************************************************************************)
(* The mailbox and the peer                                                *)
(***************************************************************************)
\* the physical channel is free: the command of the logical channel is sent
mb_phy_chnl_tx_cmd ==
    /\ tx /= NoCmd
    /\ fly = NoFly
    /\ fly' = [cmd |-> tx, state |-> "sent"]
    /\ tx' = NoCmd
    /\ UNCHANGED <<cb, xchg, rsps, isr, task>>

\* The peer copies the data and handles the command.  FAIL stands for a command it
\* refuses, and for a channel without a handler (CHNL_STATE_COM_FAIL).
ipc_cmd_handler ==
    /\ fly.state = "sent"
    /\ \E result \in AckState :
          LET answer == [kind |-> "ans", id |-> xchg.id] IN
          /\ fly' = [fly EXCEPT !.state = result]
          /\ xchg' = IF result = "COMPLETE" THEN answer ELSE xchg
          /\ rsps' = IF result = "PENDING" THEN rsps \cup {[cmd |-> fly.cmd, data |-> answer]}
                                           ELSE rsps
    /\ UNCHANGED <<cb, tx, isr, task>>

(***************************************************************************)
(* The interrupt handler of the caller: ipc_cmd_tx_cmpl_isr for an         *)
(* acknowledgement, ipc_cmd_rx_isr for an answer that comes as a command.  *)
(***************************************************************************)
TxCmplIsr ==
    /\ isr.pc = "idle"
    /\ fly.state \in AckState
    /\ isr' = [pc |-> "test", msg |-> Ack(fly.cmd, fly.state)]
    /\ UNCHANGED <<cb, wire, task>>

RxIsr ==
    /\ isr.pc = "idle"
    /\ \E r \in rsps :
          /\ isr' = [pc |-> "test", msg |-> Rsp(r)]
          /\ rsps' = rsps \ {r}
    /\ UNCHANGED <<cb, xchg, tx, fly, task>>

Return ==
    /\ isr' = [pc |-> "idle", msg |-> NoMsg]
    /\ fly' = IF isr.msg.kind = "ack" THEN NoFly ELSE fly

AnswerIn(m) == IF m.kind = "rsp" THEN m.data ELSE xchg

\* mutant: a pending command counts as answered
Expected_pending(m) == tx_cmd_in_process /\ m.cmd = tx_cmd

\* mutant: whatever comes for tx_cmd counts as its answer
Expected_any(m) == m.cmd = tx_cmd

Expected(m) == tx_cmd_in_process /\ m.cmd = tx_cmd /\ m.state /= "PENDING"

Test ==
    /\ isr.pc = "test"
    /\ \/ Expected(isr.msg) /\ isr' = [isr EXCEPT !.pc = "take"] /\ UNCHANGED fly
       \/ ~Expected(isr.msg) /\ Return
    /\ UNCHANGED <<cb, xchg, tx, rsps, task>>

\* mutant: tx_cmd_in_process is left to the task
Take_inprocess ==
    /\ isr.pc = "take"
    /\ \/ tx_cmd_failed' = TRUE /\ UNCHANGED rsp_buf
       \/ isr.msg.state /= "FAIL" /\ tx_cmd_failed' = FALSE /\ rsp_buf' = AnswerIn(isr.msg)
    /\ isr' = [isr EXCEPT !.pc = "post"]
    /\ UNCHANGED <<chnl_sema, rsp_sema, tx_cmd, tx_cmd_in_process, wire, task>>

\* the command is refused or its answer is longer than rsp_buf, or the answer is copied
Take ==
    /\ isr.pc = "take"
    /\ tx_cmd_in_process' = FALSE
    /\ \/ tx_cmd_failed' = TRUE /\ UNCHANGED rsp_buf
       \/ isr.msg.state /= "FAIL" /\ tx_cmd_failed' = FALSE /\ rsp_buf' = AnswerIn(isr.msg)
    /\ isr' = [isr EXCEPT !.pc = "post"]
    /\ UNCHANGED <<chnl_sema, rsp_sema, tx_cmd, wire, task>>

Post ==
    /\ isr.pc = "post"
    /\ rsp_sema' = rsp_sema + 1
    /\ Return
    /\ UNCHANGED <<chnl_sema, tx_cmd, tx_cmd_in_process, tx_cmd_failed, rsp_buf, xchg, tx, rsps, task>>

Isr == TxCmplIsr \/ RxIsr \/ Test \/ Take \/ Post

Run(t) ==
    \/ Lock(t) \/ Begin(t) \/ Write(t) \/ Send(t) \/ rtos_get_semaphore(t)
    \/ Timeout(t) \/ Got(t) \/ Exit(t)

Next ==
    \/ \E t \in Task : Run(t) \/ \E c \in Cmd : ipc_send_cmd(t, c)
    \/ mb_phy_chnl_tx_cmd \/ ipc_cmd_handler \/ Isr

Spec == Init /\ [][Next]_vars

\* Tasks run, the mailbox sends (WriteSent of MailboxChannel), the peer handles every
\* command and answers the pending ones, and interrupts are served.
FairSpec ==
    /\ Spec
    /\ \A t \in Task : WF_vars(Run(t))
    /\ WF_vars(mb_phy_chnl_tx_cmd) /\ WF_vars(ipc_cmd_handler) /\ WF_vars(Isr)

(***************************************************************************)
(* Properties.  All but SendReturns are about the time until a wait is     *)
(* longer than IPC_RSP_TIMEOUT: a late answer may be taken for the answer  *)
(* to a later call.                                                        *)
(***************************************************************************)
\* A call of ipc_send_cmd that succeeds returns the answer to its own data, though the
\* exchange buffer, rsp_buf and rsp_sema are shared by all calls and an acknowledgement
\* may still be under way when the next call begins.
OwnAnswer ==
    timeouts = 0 =>
    \A t \in Task : pc[t] = "exit" /\ ret[t] /= Fail =>
                        ret[t] = [kind |-> "ans", id |-> call[t].id]

\* "must have been set to 0 by callback": when rtos_get_semaphore succeeds, it was
\* posted for this call and the interrupt handler has ended its processing.
CallbackDone == \A t \in Task : pc[t] = "got" => ~tx_cmd_in_process

\* The comment of ipc_send_cmd on tx_cmd_in_process is right until a wait times out.
CallbackFirst == timeouts = 0 => CallbackDone

\* rsp_sema is posted once for a call that waits: no post is left for the next call.
NoLeftover ==
    timeouts = 0 /\ rsp_sema > 0 => rsp_sema = 1 /\ \E t \in Task : pc[t] = "wait"

\* The request is in the exchange buffer until the peer has read it.
RequestIntact ==
    timeouts = 0 =>
    \A t \in Task :
        pc[t] = "wait" /\ (tx /= NoCmd \/ fly.state = "sent") =>
            xchg = [kind |-> "req", id |-> call[t].id]

\* Every call returns and gives the channel back, in whatever order the acknowledgement
\* and the answer to a pending command arrive, and also when it comes too late.
SendReturns == \A t \in Task : pc[t] /= "idle" ~> pc[t] = "idle"
=============================================================================
