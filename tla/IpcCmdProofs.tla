---------------------------- MODULE IpcCmdProofs ----------------------------
(***************************************************************************)
(* Every call of ipc_send_cmd returns its own answer, for any number of    *)
(* tasks, commands and calls, as long as the answers come within the       *)
(* timeout.                                                                *)
(***************************************************************************)
EXTENDS IpcCmd, TLAPS

Req(t) == [kind |-> "req", id |-> call[t].id]
Ans(t) == [kind |-> "ans", id |-> call[t].id]

\* the task that has taken chnl_sema
Owner(t) == pc[t] \in {"begin", "write", "send", "wait", "got", "exit"}

OneOwner ==
    /\ \A t, u \in Task : Owner(t) /\ Owner(u) => t = u
    /\ \A t \in Task : Owner(t) => chnl_sema = 0

\* What is left of an earlier call: at most the acknowledgement of a pending command,
\* overtaken by the answer.
OldAck == fly.state \in {"none", "PENDING"}
OldIsr == isr.pc = "idle" \/ (isr.pc = "test" /\ isr.msg.state = "PENDING")

IsrAck ==
    /\ isr.pc /= "idle" /\ isr.msg.kind = "ack" => fly = [cmd |-> isr.msg.cmd, state |-> isr.msg.state]
    /\ isr.pc /= "idle" => isr.msg.kind = "ack" \/ (isr.msg.kind = "rsp" /\ isr.msg.state = "COMPLETE")
    /\ fly.state = "none" => fly = NoFly

Quiet == tx = NoCmd /\ OldAck /\ rsps = {} /\ OldIsr /\ rsp_sema = 0

\* the answer of the call is on its way to the caller in the message of the handler
Carried(t) ==
    /\ isr.msg.cmd = call[t].cmd
    /\ \/ isr.msg.kind = "rsp" /\ isr.msg.data = Ans(t) /\ isr.msg.state = "COMPLETE" /\ OldAck
       \/ isr.msg.kind = "ack" /\ isr.msg.state = "FAIL"
       \/ isr.msg.kind = "ack" /\ isr.msg.state = "COMPLETE" /\ xchg = Ans(t)

Delivered(t) == ~tx_cmd_in_process /\ (tx_cmd_failed \/ rsp_buf = Ans(t))

\* Where the command of a waiting task, or its answer, is.
Queued(t) == tx = call[t].cmd /\ xchg = Req(t) /\ OldAck /\ rsps = {} /\ OldIsr /\ rsp_sema = 0
Sent(t) == /\ tx = NoCmd /\ fly = [cmd |-> call[t].cmd, state |-> "sent"] /\ xchg = Req(t)
           /\ rsps = {} /\ isr.pc = "idle" /\ rsp_sema = 0
Acked(t) == /\ tx = NoCmd /\ fly.cmd = call[t].cmd /\ fly.state \in {"FAIL", "COMPLETE"}
            /\ fly.state = "COMPLETE" => xchg = Ans(t)
            /\ rsps = {} /\ isr.pc = "idle" /\ rsp_sema = 0
Answered(t) == /\ tx = NoCmd /\ OldAck /\ rsps = {[cmd |-> call[t].cmd, data |-> Ans(t)]}
               /\ OldIsr /\ rsp_sema = 0
Handled(t) == tx = NoCmd /\ rsps = {} /\ isr.pc \in {"test", "take"} /\ Carried(t) /\ rsp_sema = 0
Stored(t) == /\ tx = NoCmd /\ rsps = {} /\ isr.pc = "post" /\ rsp_sema = 0 /\ Delivered(t)
             /\ isr.msg.kind = "rsp" => OldAck
Posted(t) == tx = NoCmd /\ OldAck /\ rsps = {} /\ OldIsr /\ rsp_sema = 1 /\ Delivered(t)

Unanswered(t) == Queued(t) \/ Sent(t) \/ Acked(t) \/ Answered(t) \/ Handled(t)
Waiting(t) == (tx_cmd_in_process /\ Unanswered(t)) \/ Stored(t) \/ Posted(t)

CallInv(t) ==
    /\ Owner(t) => call[t].cmd \in Cmd
    /\ pc[t] \in {"write", "send", "wait"} => tx_cmd = call[t].cmd
    /\ pc[t] = "send" => xchg = Req(t)
    /\ pc[t] \in {"write", "send"} => tx_cmd_in_process
    /\ pc[t] = "wait" => Waiting(t)
    /\ pc[t] = "got" => Delivered(t)
    /\ pc[t] \in {"lock", "begin", "write", "send", "wait", "got"} => ret[t] = Fail
    /\ pc[t] = "exit" => ret[t] \in {Fail, Ans(t)}
    /\ pc[t] = "lock" => call[t].cmd \in Cmd

IpcInv ==
    /\ TypeOK
    /\ OneOwner
    /\ IsrAck
    /\ (\A t \in Task : pc[t] /= "wait") => Quiet
    /\ \A t \in Task : CallInv(t)

InvBeforeTimeout == timeouts = 0 => IpcInv

\* One task at a time is between the two operations on chnl_sema, which stays a binary
\* semaphore although rtos_init_semaphore_adv gives it no upper limit.
LEMMA OwnerStep == ASSUME TypeOK, OneOwner, [Next]_vars PROVE OneOwner' /\ chnl_sema' \in {0, 1}
<1> USE DEF TypeOK, OneOwner, Owner, Goto, cb, wire, task
<1>1. ASSUME NEW t \in Task, NEW c \in Cmd, ipc_send_cmd(t, c) PROVE OneOwner' /\ chnl_sema' \in {0, 1}
  BY <1>1 DEF ipc_send_cmd
<1>2. ASSUME NEW t \in Task, Lock(t) PROVE OneOwner' /\ chnl_sema' \in {0, 1}
  BY <1>2 DEF Lock
<1>3. ASSUME NEW t \in Task, Begin(t) PROVE OneOwner' /\ chnl_sema' \in {0, 1}
  BY <1>3 DEF Begin
<1>4. ASSUME NEW t \in Task, Write(t) PROVE OneOwner' /\ chnl_sema' \in {0, 1}
  BY <1>4 DEF Write
<1>5. ASSUME NEW t \in Task, Send(t) PROVE OneOwner' /\ chnl_sema' \in {0, 1}
  BY <1>5 DEF Send
<1>6. ASSUME NEW t \in Task, rtos_get_semaphore(t) PROVE OneOwner' /\ chnl_sema' \in {0, 1}
  BY <1>6 DEF rtos_get_semaphore
<1>7. ASSUME NEW t \in Task, Timeout(t) PROVE OneOwner' /\ chnl_sema' \in {0, 1}
  BY <1>7 DEF Timeout
<1>8. ASSUME NEW t \in Task, Got(t) PROVE OneOwner' /\ chnl_sema' \in {0, 1}
  BY <1>8 DEF Got
<1>9. ASSUME NEW t \in Task, Exit(t) PROVE OneOwner' /\ chnl_sema' \in {0, 1}
  BY <1>9 DEF Exit
<1>10. ASSUME mb_phy_chnl_tx_cmd PROVE OneOwner' /\ chnl_sema' \in {0, 1}
  BY <1>10, Zenon DEF mb_phy_chnl_tx_cmd
<1>11. ASSUME ipc_cmd_handler PROVE OneOwner' /\ chnl_sema' \in {0, 1}
  BY <1>11, Zenon DEF ipc_cmd_handler
<1>12. ASSUME TxCmplIsr PROVE OneOwner' /\ chnl_sema' \in {0, 1}
  BY <1>12, Zenon DEF TxCmplIsr
<1>13. ASSUME RxIsr PROVE OneOwner' /\ chnl_sema' \in {0, 1}
  BY <1>13, Zenon DEF RxIsr
<1>14. ASSUME Test PROVE OneOwner' /\ chnl_sema' \in {0, 1}
  BY <1>14, Zenon DEF Test
<1>15. ASSUME Take PROVE OneOwner' /\ chnl_sema' \in {0, 1}
  BY <1>15, Zenon DEF Take
<1>16. ASSUME Post PROVE OneOwner' /\ chnl_sema' \in {0, 1}
  BY <1>16, Zenon DEF Post
<1>17. CASE UNCHANGED vars
  BY <1>17, Zenon DEF vars
<1> QED
  BY <1>1, <1>2, <1>3, <1>4, <1>5, <1>6, <1>7, <1>8, <1>9, <1>10, <1>11, <1>12, <1>13, <1>14, <1>15, <1>16, <1>17, Zenon DEF Next, Run, Isr

\* The initial state has the types, and chnl_sema is free.
LEMMA IpcInit == ASSUME Init PROVE TypeOK /\ OneOwner
<1>1. Blank \in Data /\ 0 \in 0..MaxCalls
  BY IpcConstants DEF Blank, Data
<1>2. NoFly \in Flying /\ NoMsg \in IsrMsg
  BY <1>1, Zenon DEF NoMsg, Flying, IsrMsg, AckState
<1>3. isr \in [pc : {"idle", "test", "take", "post"}, msg : IsrMsg]
  BY <1>2, Zenon DEF Init
<1>4. call \in [Task -> [cmd : Cmd \cup {NoCmd}, id : 0..MaxCalls]]
  BY <1>1, Zenon DEF Init
<1>5. pc \in [Task -> {"idle", "lock", "begin", "write", "send", "wait", "got", "exit"}]
  BY DEF Init
<1>6. ret \in [Task -> Data \cup {Fail}]
  BY DEF Init
<1>7. OneOwner
  BY DEF Init, OneOwner, Owner
<1>8. timeouts \in 0..MaxTimeout
  BY IpcConstants DEF Init
<1> QED
  BY <1>1, <1>2, <1>3, <1>4, <1>5, <1>6, <1>7, <1>8, Zenon DEF Init, TypeOK

\* Every variable keeps its type.
THEOREM IpcTypeCorrect == Spec => [](TypeOK /\ OneOwner)
<1>1. Init => TypeOK /\ OneOwner
  BY IpcInit
<1>2. TypeOK /\ OneOwner /\ [Next]_vars => TypeOK' /\ OneOwner'
  <2> SUFFICES ASSUME TypeOK, OneOwner, [Next]_vars, chnl_sema' \in {0, 1} PROVE TypeOK'
    BY OwnerStep
  <2> USE IpcConstants
  <2> USE DEF TypeOK, Goto, cb, wire, task
  <2>1. ASSUME NEW t \in Task, NEW c \in Cmd, ipc_send_cmd(t, c) PROVE TypeOK'
    BY <2>1 DEF ipc_send_cmd
  <2>2. ASSUME NEW t \in Task, Lock(t) PROVE TypeOK'
    BY <2>2 DEF Lock
  <2>3. ASSUME NEW t \in Task, Begin(t) PROVE TypeOK'
    BY <2>3, Zenon DEF Begin
  <2>4. ASSUME NEW t \in Task, Write(t) PROVE TypeOK'
    <3>1. [kind |-> "req", id |-> call[t].id] \in Data
      BY DEF Data
    <3>2. xchg' \in Data
      BY <2>4, <3>1, Zenon DEF Write
    <3> QED
      BY <2>4, <3>2, Zenon DEF Write
  <2>5. ASSUME NEW t \in Task, Send(t) PROVE TypeOK'
    BY <2>5 DEF Send
  <2>6. ASSUME NEW t \in Task, rtos_get_semaphore(t) PROVE TypeOK'
    BY <2>6 DEF rtos_get_semaphore
  <2>7. ASSUME NEW t \in Task, Timeout(t) PROVE TypeOK'
    <3>1. timeouts' \in 0..MaxTimeout
      BY <2>7 DEF Timeout
    <3> QED
      BY <2>7, <3>1, Zenon DEF Timeout
  <2>8. ASSUME NEW t \in Task, Got(t) PROVE TypeOK'
    <3>1. ret' \in [Task -> Data \cup {Fail}]
      BY <2>8, Zenon DEF Got
    <3> QED
      BY <2>8, <3>1, Zenon DEF Got
  <2>9. ASSUME NEW t \in Task, Exit(t) PROVE TypeOK'
    BY <2>9, Zenon DEF Exit
  <2>10. ASSUME mb_phy_chnl_tx_cmd PROVE TypeOK'
    BY <2>10, Zenon DEF mb_phy_chnl_tx_cmd, Flying
  <2>11. ASSUME ipc_cmd_handler PROVE TypeOK'
    <3>1. [kind |-> "ans", id |-> xchg.id] \in Data /\ fly.cmd \in Cmd
      BY <2>11 DEF Data, Flying, NoFly, ipc_cmd_handler
    <3>2. fly' \in Flying
      <4>1. fly \in [cmd : Cmd, state : AckState \cup {"sent"}]
        BY <2>11 DEF ipc_cmd_handler, Flying, NoFly
      <4> QED
        BY <2>11, <4>1 DEF ipc_cmd_handler, Flying
    <3>3. xchg' \in Data
      BY <2>11, <3>1, Zenon DEF ipc_cmd_handler
    <3>4. rsps' \subseteq RspCmd
      BY <2>11, <3>1 DEF ipc_cmd_handler, RspCmd
    <3> QED
      BY <2>11, <3>2, <3>3, <3>4, Zenon DEF ipc_cmd_handler
  <2>12. ASSUME TxCmplIsr PROVE TypeOK'
    <3>1. Blank \in Data
      BY DEF Blank, Data
    <3>2. fly.cmd \in Cmd
      BY <2>12 DEF TxCmplIsr, Flying, NoFly, AckState
    <3>3. Ack(fly.cmd, fly.state) \in IsrMsg
      BY <2>12, <3>1, <3>2, Zenon DEF TxCmplIsr, Ack, IsrMsg
    <3> QED
      BY <2>12, <3>3, Zenon DEF TxCmplIsr
  <2>13. ASSUME RxIsr PROVE TypeOK'
    BY <2>13 DEF RxIsr, IsrMsg, Rsp, RspCmd, AckState
  <2>14. ASSUME Test PROVE TypeOK'
    BY <2>14 DEF Test, Return, NoMsg, NoFly, IsrMsg, Flying, Blank, Data, AckState
  <2>15. ASSUME Take PROVE TypeOK'
    <3>1. AnswerIn(isr.msg) \in Data
      BY DEF AnswerIn, IsrMsg
    <3> QED
      BY <2>15, <3>1, Zenon DEF Take
  <2>16. ASSUME Post PROVE TypeOK'
    BY <2>16 DEF Post, Return, NoMsg, NoFly, IsrMsg, Flying, Blank, Data, AckState
  <2>17. CASE UNCHANGED vars
    BY <2>17 DEF vars
  <2> QED
    BY <2>1, <2>2, <2>3, <2>4, <2>5, <2>6, <2>7, <2>8, <2>9, <2>10, <2>11, <2>12, <2>13, <2>14, <2>15, <2>16, <2>17, Zenon DEF Next, Run, Isr
<1> QED
  BY <1>1, <1>2, PTL DEF Spec

\* A task that does not own the channel is not touched by the steps of others.
LEMMA Away ==
    ASSUME NEW u \in Task, ~Owner(u), CallInv(u),
           pc'[u] = pc[u], call'[u] = call[u], ret'[u] = ret[u]
    PROVE  CallInv(u)'
BY Zenon DEF Owner, CallInv

\* the steps of the mailbox, of the peer and of the interrupt handler
WireStep == mb_phy_chnl_tx_cmd \/ ipc_cmd_handler \/ Isr

\* While nobody waits the interrupt handler only drops an acknowledgement that the
\* answer has overtaken.
LEMMA QuietStep ==
    ASSUME TypeOK, IsrAck, Quiet, WireStep
    PROVE  Quiet' /\ IsrAck' /\ UNCHANGED <<cb, xchg, task>>
<1> USE DEF Quiet, OldAck, OldIsr, IsrAck
<1>1. ~mb_phy_chnl_tx_cmd /\ ~ipc_cmd_handler /\ ~RxIsr /\ ~Take /\ ~Post
  BY DEF mb_phy_chnl_tx_cmd, ipc_cmd_handler, RxIsr, Take, Post
<1>2. CASE TxCmplIsr
  BY <1>2, Zenon DEF TxCmplIsr, Ack, AckState, TypeOK, Flying, NoFly, cb, wire, task
<1>3. CASE Test
  BY <1>3 DEF Test, Expected, Return, NoMsg, NoFly, cb, task
<1> QED
  BY <1>1, <1>2, <1>3, Zenon DEF WireStep, Isr

\* The command of a waiting task, or its answer, moves from one place to the next.
LEMMA WaitStep ==
    ASSUME TypeOK, IsrAck, NEW t \in Task, call[t].cmd \in Cmd, tx_cmd = call[t].cmd,
           Waiting(t), WireStep
    PROVE  Waiting(t)' /\ IsrAck' /\ UNCHANGED <<tx_cmd, task>>
<1>1. UNCHANGED <<tx_cmd, task>>
  BY DEF WireStep, Isr, mb_phy_chnl_tx_cmd, ipc_cmd_handler, TxCmplIsr, RxIsr, Test, Take, Post, cb
<1>2. Req(t)' = Req(t) /\ Ans(t)' = Ans(t)
  BY <1>1, Zenon DEF Req, Ans, task
<1>3. call'[t] = call[t]
  BY <1>1, Zenon DEF task
<1>4. NoCmd \notin Cmd
  BY IpcConstants
<1> USE DEF IsrAck, OldAck, OldIsr
<1>5. CASE tx_cmd_in_process /\ Queued(t)
  <2>1. ~ipc_cmd_handler /\ ~RxIsr /\ ~Take /\ ~Post
    BY <1>5, Zenon DEF Queued, ipc_cmd_handler, RxIsr, Take, Post
  <2>2. CASE mb_phy_chnl_tx_cmd
    <3>1. tx_cmd_in_process' /\ Sent(t)'
      BY <1>5, <2>2, <1>2, <1>3, Zenon DEF Queued, Sent, mb_phy_chnl_tx_cmd, NoFly, cb
    <3>2. IsrAck'
      BY <1>5, <2>2, Zenon DEF Queued, mb_phy_chnl_tx_cmd, NoFly, cb
    <3> QED
      BY <1>1, <3>1, <3>2, Zenon DEF Waiting, Unanswered
  <2>3. CASE TxCmplIsr
    <3>1. tx_cmd_in_process' /\ Queued(t)' /\ IsrAck'
      BY <1>5, <2>3, <1>2, <1>3, Zenon DEF Queued, TxCmplIsr, Ack, AckState, TypeOK, Flying, NoFly, cb, wire
    <3> QED
      BY <1>1, <3>1, Zenon DEF Waiting, Unanswered
  <2>4. CASE Test
    <3>1. tx_cmd_in_process' /\ Queued(t)' /\ IsrAck'
      BY <1>5, <2>4, <1>2, <1>3 DEF Queued, Test, Expected, Return, NoMsg, NoFly, cb
    <3> QED
      BY <1>1, <3>1, Zenon DEF Waiting, Unanswered
  <2> QED
    BY <2>1, <2>2, <2>3, <2>4, Zenon DEF WireStep, Isr
<1>6. CASE tx_cmd_in_process /\ Sent(t)
  <2>1. ~mb_phy_chnl_tx_cmd /\ ~Isr
    BY <1>6, Zenon DEF Sent, mb_phy_chnl_tx_cmd, Isr, TxCmplIsr, RxIsr, Test, Take, Post, AckState
  <2>2. ipc_cmd_handler
    BY <2>1, Zenon DEF WireStep
  <2>3. PICK result \in AckState :
            /\ fly' = [fly EXCEPT !.state = result]
            /\ xchg' = IF result = "COMPLETE" THEN [kind |-> "ans", id |-> xchg.id] ELSE xchg
            /\ rsps' = IF result = "PENDING"
                       THEN rsps \cup {[cmd |-> fly.cmd, data |-> [kind |-> "ans", id |-> xchg.id]]}
                       ELSE rsps
    BY <2>2, Zenon DEF ipc_cmd_handler
  <2>4. [kind |-> "ans", id |-> xchg.id] = Ans(t) /\ fly.cmd = call[t].cmd
    BY <1>6, Zenon DEF Sent, Req, Ans
  <2>5. fly' = [cmd |-> call[t].cmd, state |-> result]
    BY <1>6, <2>3, Zenon DEF Sent
  <2>6. UNCHANGED <<cb, tx, isr>>
    BY <2>2, Zenon DEF ipc_cmd_handler
  <2>7. CASE result = "PENDING"
    BY <1>1, <1>2, <1>3, <1>6, <2>3, <2>4, <2>5, <2>6, <2>7
       DEF Sent, Answered, Waiting, Unanswered, cb
  <2>8. CASE result \in {"FAIL", "COMPLETE"}
    BY <1>1, <1>2, <1>3, <1>6, <2>3, <2>4, <2>5, <2>6, <2>8, Zenon
       DEF Sent, Acked, Waiting, Unanswered, cb
  <2> QED
    BY <2>7, <2>8, Zenon DEF AckState
<1>7. CASE tx_cmd_in_process /\ Acked(t)
  <2>1. TxCmplIsr
    BY <1>7, Zenon DEF Acked, WireStep, mb_phy_chnl_tx_cmd, ipc_cmd_handler, Isr, RxIsr, Test, Take, Post
  <2>2. tx_cmd_in_process' /\ Handled(t)' /\ IsrAck'
    BY <1>7, <2>1, <1>2, <1>3, Zenon DEF Acked, Handled, Carried, TxCmplIsr, Ack, TypeOK, Flying, NoFly, cb, wire
  <2> QED
    BY <1>1, <2>2, Zenon DEF Waiting, Unanswered
<1>8. CASE tx_cmd_in_process /\ Answered(t)
  <2>1. ~mb_phy_chnl_tx_cmd /\ ~ipc_cmd_handler /\ ~Take /\ ~Post
    BY <1>8, Zenon DEF Answered, mb_phy_chnl_tx_cmd, ipc_cmd_handler, Take, Post
  <2>2. CASE TxCmplIsr
    <3>1. tx_cmd_in_process' /\ Answered(t)' /\ IsrAck'
      BY <1>8, <2>2, <1>2, <1>3, Zenon DEF Answered, TxCmplIsr, Ack, AckState, TypeOK, Flying, NoFly, cb, wire
    <3> QED
      BY <1>1, <3>1, Zenon DEF Waiting, Unanswered
  <2>3. CASE RxIsr
    <3>1. isr' = [pc |-> "test", msg |-> Rsp([cmd |-> call[t].cmd, data |-> Ans(t)])] /\ rsps' = {}
      BY <1>8, <2>3, Zenon DEF Answered, RxIsr
    <3>2. tx_cmd_in_process' /\ Handled(t)' /\ IsrAck'
      BY <1>8, <2>3, <3>1, <1>2, <1>3, Zenon DEF Answered, Handled, Carried, RxIsr, Rsp, cb
    <3> QED
      BY <1>1, <3>2, Zenon DEF Waiting, Unanswered
  <2>4. CASE Test
    <3>1. tx_cmd_in_process' /\ Answered(t)' /\ IsrAck'
      BY <1>8, <2>4, <1>2, <1>3 DEF Answered, Test, Expected, Return, NoMsg, NoFly, cb
    <3> QED
      BY <1>1, <3>1, Zenon DEF Waiting, Unanswered
  <2> QED
    BY <2>1, <2>2, <2>3, <2>4, Zenon DEF WireStep, Isr
<1>9. CASE tx_cmd_in_process /\ Handled(t)
  <2>1. ~mb_phy_chnl_tx_cmd /\ ~TxCmplIsr /\ ~RxIsr /\ ~Post
    BY <1>9, Zenon DEF Handled, mb_phy_chnl_tx_cmd, TxCmplIsr, RxIsr, Post
  <2>2. ~ipc_cmd_handler
    BY <1>9 DEF Handled, Carried, ipc_cmd_handler
  <2>3. CASE Test
    <3>1. Expected(isr.msg)
      BY <1>9, Zenon DEF Handled, Carried, Expected
    <3>2. isr' = [isr EXCEPT !.pc = "take"] /\ UNCHANGED <<cb, xchg, tx, fly, rsps>>
      BY <2>3, <3>1, Zenon DEF Test
    <3>3. isr'.pc = "take" /\ isr'.msg = isr.msg
      BY <3>2, Zenon DEF TypeOK
    <3>4. tx_cmd_in_process' /\ Handled(t)' /\ IsrAck'
      BY <1>9, <3>2, <3>3, <1>2, <1>3 DEF Handled, Carried, cb
    <3> QED
      BY <1>1, <3>4, Zenon DEF Waiting, Unanswered
  <2>4. CASE Take
    <3>1. isr' = [isr EXCEPT !.pc = "post"] /\ UNCHANGED <<rsp_sema, xchg, tx, fly, rsps>>
      BY <2>4, Zenon DEF Take, wire
    <3>2. isr'.pc = "post" /\ isr'.msg = isr.msg
      BY <3>1, Zenon DEF TypeOK
    <3>3. tx_cmd_failed' \/ (isr.msg.state /= "FAIL" /\ rsp_buf' = AnswerIn(isr.msg))
      BY <2>4, Zenon DEF Take
    <3>4. isr.msg.state /= "FAIL" => AnswerIn(isr.msg) = Ans(t)
      BY <1>9, Zenon DEF Handled, Carried, AnswerIn
    <3>5. ~tx_cmd_in_process'
      BY <2>4, Zenon DEF Take
    <3>6. Delivered(t)'
      BY <3>3, <3>4, <3>5, <1>2, Zenon DEF Delivered
    <3>7. IsrAck'
      BY <3>1, <3>2, <1>9, Zenon DEF Handled
    <3>8. Stored(t)'
      BY <1>9, <3>1, <3>2, <3>6, Zenon DEF Handled, Carried, Stored
    <3> QED
      BY <1>1, <3>7, <3>8, Zenon DEF Waiting
  <2> QED
    BY <2>1, <2>2, <2>3, <2>4, Zenon DEF WireStep, Isr
<1>10. CASE Stored(t)
  <2>1. Post
    <3>1. fly.state /= "sent"
      BY <1>10 DEF Stored, TypeOK, IsrMsg, AckState
    <3> QED
      BY <1>10, <3>1, Zenon DEF Stored, WireStep, mb_phy_chnl_tx_cmd, ipc_cmd_handler, Isr, TxCmplIsr, RxIsr, Test, Take
  <2>2. Delivered(t)'
    BY <1>10, <2>1, <1>2, Zenon DEF Stored, Post, Delivered
  <2>3. OldAck' /\ isr'.pc = "idle" /\ IsrAck'
    BY <1>10, <2>1, Zenon DEF Stored, Post, Return, NoMsg, NoFly
  <2>4. tx' = NoCmd /\ rsps' = {} /\ rsp_sema' = 1
    BY <1>10, <2>1 DEF Stored, Post
  <2> QED
    BY <1>1, <2>2, <2>3, <2>4, Zenon DEF Waiting, Posted
<1>11. CASE Posted(t)
  <2>2. ~mb_phy_chnl_tx_cmd /\ ~ipc_cmd_handler /\ ~RxIsr /\ ~Take /\ ~Post
    BY <1>11, Zenon DEF Posted, mb_phy_chnl_tx_cmd, ipc_cmd_handler, RxIsr, Take, Post
  <2>3. UNCHANGED cb
    BY <2>2, Zenon DEF WireStep, Isr, TxCmplIsr, Test
  <2>4. Delivered(t)'
    BY <1>11, <2>3, <1>2, Zenon DEF Posted, Delivered, cb
  <2>5. CASE TxCmplIsr
    <3>1. OldAck' /\ OldIsr' /\ IsrAck' /\ tx' = NoCmd /\ rsps' = {} /\ rsp_sema' = 1
      BY <1>11, <2>5, <2>3, Zenon DEF Posted, TxCmplIsr, Ack, AckState, TypeOK, Flying, NoFly, cb, wire
    <3> QED
      BY <1>1, <2>4, <3>1, Zenon DEF Waiting, Posted
  <2>6. CASE Test
    <3>1. OldAck' /\ OldIsr' /\ IsrAck' /\ tx' = NoCmd /\ rsps' = {} /\ rsp_sema' = 1
      BY <1>11, <2>6, <2>3 DEF Posted, Test, Expected, Return, NoMsg, NoFly, cb
    <3> QED
      BY <1>1, <2>4, <3>1, Zenon DEF Waiting, Posted
  <2> QED
    BY <2>2, <2>5, <2>6, Zenon DEF WireStep, Isr
<1> QED
  BY <1>5, <1>6, <1>7, <1>8, <1>9, <1>10, <1>11, Zenon DEF Waiting, Unanswered

\* The steps of a task t that owns the channel, or takes it: the other tasks are away.
LEMMA OthersAway ==
    ASSUME IpcInv, NEW t \in Task, NEW u \in Task, u /= t,
           Owner(t) \/ chnl_sema > 0,
           pc'[u] = pc[u], call'[u] = call[u], ret'[u] = ret[u]
    PROVE  ~Owner(u) /\ CallInv(u)'
<1>1. ~Owner(u)
  BY DEF IpcInv, OneOwner
<1> QED
  BY <1>1, Away, Zenon DEF IpcInv

\* A wait that timed out is never forgotten.
LEMMA TimeoutsGrow ==
    ASSUME TypeOK, [Next]_vars, timeouts' = 0
    PROVE  timeouts = 0
<1>1. ASSUME NEW t \in Task, Run(t) PROVE timeouts' = timeouts \/ timeouts' = timeouts + 1
  BY <1>1 DEF Run, Lock, Begin, Write, Send, rtos_get_semaphore, Timeout, Got, Exit
<1>2. ASSUME NEW t \in Task, NEW c \in Cmd, ipc_send_cmd(t, c) PROVE timeouts' = timeouts
  BY <1>2 DEF ipc_send_cmd
<1>3. CASE mb_phy_chnl_tx_cmd \/ ipc_cmd_handler \/ Isr
  BY <1>3 DEF mb_phy_chnl_tx_cmd, ipc_cmd_handler, Isr, TxCmplIsr, RxIsr, Test, Take, Post, task
<1>4. CASE UNCHANGED vars
  BY <1>4 DEF vars, task
<1>5. timeouts' = timeouts \/ timeouts' = timeouts + 1
  BY <1>1, <1>2, <1>3, <1>4 DEF Next
<1> QED
  BY <1>5, IpcConstants DEF TypeOK

\* Until a wait times out every action keeps the whereabouts of commands and answers.
THEOREM IpcInvCorrect == Spec => []InvBeforeTimeout
<1>1. Init => InvBeforeTimeout
  <2> SUFFICES ASSUME Init, TypeOK, OneOwner PROVE IpcInv
    BY IpcInit, Zenon DEF InvBeforeTimeout
  <2>1. IsrAck /\ Quiet
    BY DEF Init, IsrAck, Quiet, OldAck, OldIsr, NoFly
  <2>2. \A t \in Task : CallInv(t)
    BY DEF Init, CallInv, Owner
  <2> QED
    BY <2>1, <2>2, Zenon DEF IpcInv
<1>2. InvBeforeTimeout /\ TypeOK /\ TypeOK' /\ OneOwner' /\ [Next]_vars => InvBeforeTimeout'
  <2> SUFFICES ASSUME IpcInv, TypeOK', OneOwner', [Next]_vars, timeouts' = 0
               PROVE  /\ IsrAck' /\ \A u \in Task : CallInv(u)'
                      /\ (\A u \in Task : pc'[u] /= "wait") => Quiet'
    BY TimeoutsGrow, Zenon DEF IpcInv, InvBeforeTimeout
  <2> DEFINE Kept == /\ IsrAck' /\ \A u \in Task : CallInv(u)'
                     /\ (\A u \in Task : pc'[u] /= "wait") => Quiet'
  <2>0. TypeOK /\ IsrAck /\ \A u \in Task : CallInv(u)
    BY DEF IpcInv
  <2>1. ASSUME NEW t \in Task, NEW c \in Cmd, ipc_send_cmd(t, c) PROVE Kept
    <3>1. UNCHANGED <<cb, wire, isr>> /\ pc[t] = "idle"
      BY <2>1, Zenon DEF ipc_send_cmd
    <3>2. pc'[t] = "lock" /\ call'[t].cmd = c /\ ret'[t] = Fail
      BY <2>0, <2>1 DEF ipc_send_cmd, Goto, TypeOK
    <3>3. \A u \in Task : u /= t => pc'[u] = pc[u] /\ call'[u] = call[u] /\ ret'[u] = ret[u]
      BY <2>0, <2>1 DEF ipc_send_cmd, Goto, TypeOK
    <3>4. IsrAck' /\ (Quiet => Quiet')
      BY <2>0, <3>1, Zenon DEF IsrAck, Quiet, OldAck, OldIsr, cb, wire
    <3>5. CallInv(t)'
      BY <3>2, Zenon DEF CallInv, Owner
    <3>6. ASSUME NEW u \in Task, u /= t PROVE CallInv(u)'
      <4>1. Waiting(u) => Waiting(u)'
        BY <3>1, <3>3, <3>6 DEF Waiting, Unanswered, Queued, Sent, Acked, Answered, Handled, Stored,
           Posted, Carried, Delivered, OldAck, OldIsr, Req, Ans, cb, wire
      <4> QED
        BY <2>0, <3>1, <3>3, <3>6, <4>1 DEF CallInv, Owner, Delivered, Req, Ans, cb, wire
    <3>7. (\A u \in Task : pc'[u] /= "wait") => \A u \in Task : pc[u] /= "wait"
      BY <3>1, <3>3
    <3> QED
      BY <3>4, <3>5, <3>6, <3>7, Zenon DEF IpcInv
  <2>2. ASSUME NEW t \in Task, Lock(t) PROVE Kept
    <3>1. pc[t] = "lock" /\ CallInv(t)
      BY <2>0, <2>2, Zenon DEF Lock
    <3>2. ASSUME NEW u \in Task, u /= t PROVE CallInv(u)' /\ pc[u] /= "wait" /\ pc'[u] /= "wait"
      <4>1. pc'[u] = pc[u] /\ call'[u] = call[u] /\ ret'[u] = ret[u]
        BY <2>0, <2>2, <3>2, Zenon DEF Lock, Goto, TypeOK
      <4>2. chnl_sema > 0
        BY <2>2, Zenon DEF Lock
      <4> QED
        BY <3>2, <4>1, <4>2, OthersAway, Zenon DEF Owner
    <3>3. Quiet
      BY <3>1, <3>2, Zenon DEF IpcInv
    <3>4. IsrAck' /\ Quiet'
      BY <2>0, <2>2, <3>3, Zenon DEF Lock, IsrAck, Quiet, OldAck, OldIsr, cb, wire
    <3>5. CallInv(t)'
      BY <2>0, <2>2, <3>1, Zenon DEF Lock, Goto, TypeOK, CallInv, Owner
    <3> QED
      BY <3>2, <3>4, <3>5, Zenon
  <2>3. ASSUME NEW t \in Task, Begin(t) PROVE Kept
    <3>1. pc[t] = "begin" /\ CallInv(t)
      BY <2>0, <2>3, Zenon DEF Begin
    <3>2. ASSUME NEW u \in Task, u /= t PROVE CallInv(u)' /\ pc[u] /= "wait" /\ pc'[u] /= "wait"
      <4>1. pc'[u] = pc[u] /\ call'[u] = call[u] /\ ret'[u] = ret[u]
        BY <2>0, <2>3, <3>2, Zenon DEF Begin, Goto, TypeOK
      <4>2. Owner(t)
        BY <3>1, Zenon DEF Owner
      <4> QED
        BY <3>2, <4>1, <4>2, OthersAway, Zenon DEF Owner
    <3>3. Quiet
      BY <3>1, <3>2, Zenon DEF IpcInv
    <3>4. IsrAck' /\ Quiet'
      BY <2>0, <2>3, <3>3, Zenon DEF Begin, IsrAck, Quiet, OldAck, OldIsr, cb, wire
    <3>5. CallInv(t)'
      <4>1. pc'[t] = "write" /\ call'[t] = call[t] /\ ret'[t] = ret[t]
        BY <2>0, <2>3, Zenon DEF Begin, Goto, TypeOK
      <4>2. tx_cmd' = call[t].cmd /\ tx_cmd_in_process'
        BY <2>3, Zenon DEF Begin
      <4> QED
        BY <3>1, <4>1, <4>2, Zenon DEF CallInv, Owner
    <3> QED
      BY <3>2, <3>4, <3>5, Zenon
  <2>4. ASSUME NEW t \in Task, Write(t) PROVE Kept
    <3>1. pc[t] = "write" /\ CallInv(t)
      BY <2>0, <2>4, Zenon DEF Write
    <3>2. ASSUME NEW u \in Task, u /= t PROVE CallInv(u)' /\ pc[u] /= "wait" /\ pc'[u] /= "wait"
      <4>1. pc'[u] = pc[u] /\ call'[u] = call[u] /\ ret'[u] = ret[u]
        BY <2>0, <2>4, <3>2, Zenon DEF Write, Goto, TypeOK
      <4>2. Owner(t)
        BY <3>1, Zenon DEF Owner
      <4> QED
        BY <3>2, <4>1, <4>2, OthersAway, Zenon DEF Owner
    <3>3. Quiet
      BY <3>1, <3>2, Zenon DEF IpcInv
    <3>4. IsrAck' /\ Quiet'
      BY <2>0, <2>4, <3>3, Zenon DEF Write, IsrAck, Quiet, OldAck, OldIsr, cb, wire
    <3>5. CallInv(t)'
      <4>1. call'[t] = call[t] /\ ret'[t] = ret[t] /\ UNCHANGED <<tx_cmd, tx_cmd_in_process>>
        BY <2>4, Zenon DEF Write, cb
      <4>2. pc'[t] = "exit" \/ (pc'[t] = "send" /\ xchg' = Req(t))
        BY <2>0, <2>4, Zenon DEF Write, Goto, TypeOK, Req
      <4> QED
        BY <3>1, <4>1, <4>2, Zenon DEF CallInv, Owner, Req
    <3> QED
      BY <3>2, <3>4, <3>5, Zenon
  <2>5. ASSUME NEW t \in Task, Send(t) PROVE Kept
    <3>1. pc[t] = "send" /\ CallInv(t)
      BY <2>0, <2>5, Zenon DEF Send
    <3>2. ASSUME NEW u \in Task, u /= t PROVE CallInv(u)' /\ pc[u] /= "wait" /\ pc'[u] /= "wait"
      <4>1. pc'[u] = pc[u] /\ call'[u] = call[u] /\ ret'[u] = ret[u]
        BY <2>0, <2>5, <3>2, Zenon DEF Send, Goto, TypeOK
      <4>2. Owner(t)
        BY <3>1, Zenon DEF Owner
      <4> QED
        BY <3>2, <4>1, <4>2, OthersAway, Zenon DEF Owner
    <3>3. Quiet
      BY <3>1, <3>2, Zenon DEF IpcInv
    <3>4. tx' = call[t].cmd /\ pc'[t] = "wait"
      BY <2>0, <2>5, <3>3, Zenon DEF Send, Goto, TypeOK, Quiet
    <3>5. UNCHANGED <<cb, xchg, fly, rsps, isr, call, ret>>
      BY <2>5, Zenon DEF Send
    <3>6. IsrAck'
      BY <2>0, <3>5, Zenon DEF IsrAck
    <3>7. tx_cmd_in_process' /\ Queued(t)'
      BY <3>1, <3>3, <3>4, <3>5, Zenon DEF CallInv, Quiet, Queued, OldAck, OldIsr, Req, cb
    <3>8. CallInv(t)'
      BY <3>1, <3>4, <3>5, <3>7, Zenon DEF CallInv, Owner, Waiting, Unanswered, cb
    <3> QED
      BY <3>2, <3>4, <3>6, <3>8, Zenon
  <2>6. ASSUME NEW t \in Task, rtos_get_semaphore(t) PROVE Kept
    <3>1. pc[t] = "wait" /\ CallInv(t)
      BY <2>0, <2>6, Zenon DEF rtos_get_semaphore
    <3>2. ASSUME NEW u \in Task, u /= t PROVE CallInv(u)' /\ pc[u] /= "wait" /\ pc'[u] /= "wait"
      <4>1. pc'[u] = pc[u] /\ call'[u] = call[u] /\ ret'[u] = ret[u]
        BY <2>0, <2>6, <3>2, Zenon DEF rtos_get_semaphore, Goto, TypeOK
      <4>2. Owner(t)
        BY <3>1, Zenon DEF Owner
      <4> QED
        BY <3>2, <4>1, <4>2, OthersAway, Zenon DEF Owner
    <3>3. Posted(t)
      BY <2>6, <3>1 DEF rtos_get_semaphore, CallInv, Waiting, Unanswered, Queued, Sent, Acked, Answered, Handled, Stored
    <3>4. IsrAck' /\ Quiet'
      BY <2>0, <2>6, <3>3 DEF rtos_get_semaphore, IsrAck, Quiet, Posted, OldAck, OldIsr, wire
    <3>5. CallInv(t)'
      <4>1. pc'[t] = "got" /\ call'[t] = call[t] /\ ret'[t] = ret[t]
        BY <2>0, <2>6, Zenon DEF rtos_get_semaphore, Goto, TypeOK
      <4>2. Delivered(t)'
        BY <2>6, <3>3, <4>1, Zenon DEF rtos_get_semaphore, Posted, Delivered, Ans
      <4> QED
        BY <3>1, <4>1, <4>2, Zenon DEF CallInv, Owner
    <3> QED
      BY <3>2, <3>4, <3>5, Zenon
  <2>7. ASSUME NEW t \in Task, Timeout(t) PROVE FALSE
    BY <2>0, <2>7, IpcConstants DEF Timeout, TypeOK
  <2>8. ASSUME NEW t \in Task, Got(t) PROVE Kept
    <3>1. pc[t] = "got" /\ CallInv(t)
      BY <2>0, <2>8, Zenon DEF Got
    <3>2. ASSUME NEW u \in Task, u /= t PROVE CallInv(u)' /\ pc[u] /= "wait" /\ pc'[u] /= "wait"
      <4>1. pc'[u] = pc[u] /\ call'[u] = call[u] /\ ret'[u] = ret[u]
        BY <2>0, <2>8, <3>2 DEF Got, Goto, TypeOK
      <4>2. Owner(t)
        BY <3>1, Zenon DEF Owner
      <4> QED
        BY <3>2, <4>1, <4>2, OthersAway, Zenon DEF Owner
    <3>3. Quiet
      BY <3>1, <3>2, Zenon DEF IpcInv
    <3>4. IsrAck' /\ Quiet'
      BY <2>0, <2>8, <3>3, Zenon DEF Got, IsrAck, Quiet, OldAck, OldIsr, cb, wire
    <3>5. CallInv(t)'
      <4>1. pc'[t] = "exit" /\ call'[t] = call[t]
        BY <2>0, <2>8, Zenon DEF Got, Goto, TypeOK
      <4>2. ret'[t] \in {Fail, Ans(t)}
        BY <2>0, <2>8, <3>1 DEF Got, TypeOK, CallInv, Delivered
      <4> QED
        BY <3>1, <4>1, <4>2, Zenon DEF CallInv, Owner, Ans
    <3> QED
      BY <3>2, <3>4, <3>5, Zenon
  <2>9. ASSUME NEW t \in Task, Exit(t) PROVE Kept
    <3>1. pc[t] = "exit" /\ CallInv(t)
      BY <2>0, <2>9, Zenon DEF Exit
    <3>2. ASSUME NEW u \in Task, u /= t PROVE CallInv(u)' /\ pc[u] /= "wait" /\ pc'[u] /= "wait"
      <4>1. pc'[u] = pc[u] /\ call'[u] = call[u] /\ ret'[u] = ret[u]
        BY <2>0, <2>9, <3>2, Zenon DEF Exit, Goto, TypeOK
      <4>2. Owner(t)
        BY <3>1, Zenon DEF Owner
      <4> QED
        BY <3>2, <4>1, <4>2, OthersAway, Zenon DEF Owner
    <3>3. Quiet
      BY <3>1, <3>2, Zenon DEF IpcInv
    <3>4. IsrAck' /\ Quiet'
      BY <2>0, <2>9, <3>3, Zenon DEF Exit, IsrAck, Quiet, OldAck, OldIsr, cb, wire
    <3>5. CallInv(t)'
      BY <2>0, <2>9 DEF Exit, Goto, TypeOK, CallInv, Owner
    <3> QED
      BY <3>2, <3>4, <3>5, Zenon
  <2>10. CASE WireStep
    <3>1. CASE \A u \in Task : pc[u] /= "wait"
      <4>1. Quiet' /\ IsrAck' /\ UNCHANGED <<cb, xchg, task>>
        BY <2>0, <2>10, <3>1, QuietStep, Zenon DEF IpcInv
      <4>2. ASSUME NEW u \in Task PROVE CallInv(u)'
        BY <2>0, <3>1, <4>1, Zenon DEF CallInv, Owner, Delivered, Req, Ans, cb, task
      <4> QED
        BY <4>1, <4>2
    <3>2. ASSUME NEW t \in Task, pc[t] = "wait" PROVE Kept
      <4>1. CallInv(t) /\ Owner(t)
        BY <2>0, <3>2, Zenon DEF Owner
      <4>2. Waiting(t)' /\ IsrAck' /\ UNCHANGED <<tx_cmd, task>>
        BY <2>0, <2>10, <3>2, <4>1, WaitStep, Zenon DEF CallInv
      <4>3. CallInv(t)'
        BY <3>2, <4>1, <4>2, Zenon DEF CallInv, Owner, task
      <4>4. ASSUME NEW u \in Task, u /= t PROVE CallInv(u)'
        BY <4>1, <4>2, <4>4, OthersAway, Zenon DEF task
      <4> QED
        BY <3>2, <4>2, <4>3, <4>4, Zenon DEF task
    <3> QED
      BY <3>1, <3>2
  <2>11. CASE UNCHANGED vars
    <3>0. UNCHANGED <<cb, wire, isr, call>>
      BY <2>11, Zenon DEF vars, task
    <3>1. ASSUME NEW u \in Task PROVE Waiting(u) => Waiting(u)'
      BY <3>0, Zenon DEF Waiting, Unanswered, Queued, Sent, Acked, Answered, Handled, Stored,
         Posted, Carried, Delivered, OldAck, OldIsr, Req, Ans, cb, wire
    <3>2. IsrAck' /\ (Quiet => Quiet')
      BY <2>0, <2>11, Zenon DEF IsrAck, Quiet, OldAck, OldIsr, vars, cb, wire
    <3>3. \A u \in Task : CallInv(u)'
      BY <2>0, <2>11, <3>1, Zenon DEF CallInv, Owner, Delivered, Req, Ans, vars, cb, wire, task
    <3> QED
      BY <2>11, <3>2, <3>3, Zenon DEF IpcInv, vars, task
  <2> QED
    BY <2>1, <2>2, <2>3, <2>4, <2>5, <2>6, <2>7, <2>8, <2>9, <2>10, <2>11, Zenon
       DEF Next, Run, WireStep
<1> QED
  BY <1>1, <1>2, IpcTypeCorrect, PTL DEF Spec

\* A call that succeeds returns the answer to its own data, for any number of tasks,
\* commands and calls, until an answer exceeds IPC_RSP_TIMEOUT.
THEOREM OwnAnswerCorrect == Spec => []OwnAnswer
<1>1. InvBeforeTimeout => OwnAnswer
  BY Zenon DEF InvBeforeTimeout, IpcInv, CallInv, OwnAnswer, Ans
<1> QED
  BY <1>1, IpcInvCorrect, PTL

\* The comment in ipc_send_cmd is right until an answer exceeds IPC_RSP_TIMEOUT: the
\* callback has set tx_cmd_in_process to 0 before the wait for rsp_sema succeeds.
THEOREM CallbackFirstCorrect == Spec => []CallbackFirst
<1>1. InvBeforeTimeout => CallbackFirst
  BY Zenon DEF InvBeforeTimeout, IpcInv, CallInv, Delivered, CallbackFirst, CallbackDone
<1> QED
  BY <1>1, IpcInvCorrect, PTL

\* No post of rsp_sema is left behind for a later call, and none is given twice.
THEOREM NoLeftoverCorrect == Spec => []NoLeftover
<1>1. InvBeforeTimeout => NoLeftover
  <2> SUFFICES ASSUME IpcInv, timeouts = 0, rsp_sema > 0 PROVE rsp_sema = 1 /\ \E t \in Task : pc[t] = "wait"
    BY Zenon DEF NoLeftover, InvBeforeTimeout
  <2>1. PICK t \in Task : pc[t] = "wait"
    BY DEF IpcInv, Quiet
  <2>2. Waiting(t)
    BY <2>1, Zenon DEF IpcInv, CallInv
  <2>3. rsp_sema = 0 \/ rsp_sema = 1
    BY <2>2, Zenon DEF Waiting, Unanswered, Queued, Sent, Acked, Answered, Handled, Stored, Posted
  <2> QED
    BY <2>1, <2>3
<1> QED
  BY <1>1, IpcInvCorrect, PTL

\* The request of a waiting call is in the exchange buffer until the peer has read it.
THEOREM RequestIntactCorrect == Spec => []RequestIntact
<1>1. InvBeforeTimeout => RequestIntact
  <2> SUFFICES ASSUME IpcInv, NEW t \in Task, pc[t] = "wait", tx /= NoCmd \/ fly.state = "sent"
               PROVE  xchg = Req(t)
    BY Zenon DEF RequestIntact, Req, InvBeforeTimeout
  <2>1. Waiting(t) /\ IsrAck /\ TypeOK
    BY Zenon DEF IpcInv, CallInv
  <2>2. ~OldAck \/ tx /= NoCmd
    BY DEF OldAck
  <2>3. isr.pc /= "idle" /\ isr.msg.kind = "ack" => fly.state /= "sent"
    BY <2>1 DEF IsrAck, TypeOK, IsrMsg, AckState
  <2>4. isr.pc /= "idle" => isr.msg.kind \in {"ack", "rsp"}
    BY <2>1 DEF IsrAck
  <2>5. ~Acked(t) /\ ~Answered(t) /\ ~Posted(t)
    BY <2>2 DEF Acked, Answered, Posted
  <2>6. ~Handled(t) /\ ~Stored(t)
    BY <2>2, <2>3, <2>4 DEF Handled, Stored, Carried
  <2> QED
    BY <2>1, <2>5, <2>6, Zenon DEF Waiting, Unanswered, Queued, Sent
<1> QED
  BY <1>1, IpcInvCorrect, PTL
=============================================================================
