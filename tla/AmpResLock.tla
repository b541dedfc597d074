----------------------------- MODULE AmpResLock -----------------------------
(***************************************************************************)
(* The lock of one resource that AP and CP share:                          *)
(*   chips/drivers/spinlock/amp_res_lock.c                                 *)
(* CP is the server and counts the requests of both CPUs; AP is the client *)
(* and reaches the counts with ipc_send_cmd.  On every CPU a semaphore     *)
(* hands the resource to one of the tasks that wait there.  The semaphores *)
(* have no upper limit: rtos_init_semaphore (beken_rtos.c) drops max_count.*)
(*                                                                         *)
(* A task runs amp_res_lock_acquire and amp_res_lock_release step by step; *)
(* between two steps the other tasks and the interrupt handlers run.  What *)
(* a task finds in its local cnt_list decides its next step and is kept as *)
(* that step.  owner_cpu is read by amp_res_lock_reset_all alone, which is *)
(* not modelled.                                                           *)
(*                                                                         *)
(* A call of ipc_send_cmd that fails may still be served later.  Until a   *)
(* call of its CPU has timed out, a call that succeeds returns its own     *)
(* answer, and its request is served with its own arguments (OwnAnswer and *)
(* RequestIntact in IpcCmd).  After that the calls may be mixed up.        *)
(***************************************************************************)
EXTENDS Integers, FiniteSets

CONSTANTS
    Task,        \* the tasks of both CPUs
    CpuOf,       \* [Task -> Cpu]
    MaxTimeout,  \* waits that time out: 0 when timeout_ms is BEKEN_WAIT_FOREVER,
                 \* positive when it is finite, as in sys_amp_res_acquire (10 ms)
    MaxLost,     \* calls of ipc_send_cmd that fail
    MaxMixed     \* calls that take the answer, or overwrite the request, of another one

Cpu == {"AP", "CP"}
Other(c) == IF c = "AP" THEN "CP" ELSE "AP"

ASSUME LockConstants ==
    /\ IsFiniteSet(Task)
    /\ CpuOf \in [Task -> Cpu]
    /\ MaxTimeout \in Nat
    /\ MaxLost \in Nat
    /\ MaxMixed \in Nat

VARIABLES
    inited,    \* amp_res_sync[res].inited of every CPU
    req_cnt,   \* amp_res_sync[res].req_cnt[cpu], kept by the server
    res_sema,  \* count of amp_res_sync[res].res_sema of every CPU
    pc,        \* the next step of the task in acquire or release
    late,      \* requests under way that their caller does not wait for
    overdue,   \* whether a call of the CPU has timed out
    timeouts,  \* waits counted against MaxTimeout
    lost,      \* calls counted against MaxLost
    mixed      \* calls counted against MaxMixed

ipcVars == <<late, overdue, lost, mixed>>
vars == <<inited, req_cnt, res_sema, pc, timeouts, ipcVars>>

\* the client's calls of the server, and the indication that a CPU may go on
Call == {"acquire", "release"} \cup Cpu

\* the calls that a CPU sends
CallsOf(c) == IF c = "AP" THEN {"acquire", "release", "CP"} ELSE {"AP"}

PC == {"idle", "acquire", "set", "wait", "hold", "release", "unblock", "inform", "undo", "clear"}

TypeOK ==
    /\ inited \in [Cpu -> BOOLEAN]
    /\ req_cnt \in [Cpu -> Nat]
    /\ res_sema \in [Cpu -> Nat]
    /\ pc \in [Task -> PC]
    /\ late \in [Call -> Nat]
    /\ timeouts \in 0..MaxTimeout
    /\ lost \in 0..MaxLost
    /\ overdue \in [Cpu -> BOOLEAN]
    /\ mixed \in 0..MaxMixed

Init ==
    /\ inited = [c \in Cpu |-> FALSE]
    /\ req_cnt = [c \in Cpu |-> 0]
    /\ res_sema = [c \in Cpu |-> 0]
    /\ pc = [t \in Task |-> "idle"]
    /\ late = [k \in Call |-> 0]
    /\ overdue = [c \in Cpu |-> FALSE]
    /\ timeouts = 0
    /\ lost = 0
    /\ mixed = 0

Goto(t, next) == pc' = [pc EXCEPT ![t] = next]

rtos_set_semaphore(c) == res_sema' = [res_sema EXCEPT ![c] = @ + 1]

amp_res_lock_init(c) ==
    /\ ~inited[c]
    /\ inited' = [inited EXCEPT ![c] = TRUE]
    /\ req_cnt' = IF c = "CP" THEN [d \in Cpu |-> 0] ELSE req_cnt
    /\ res_sema' = [res_sema EXCEPT ![c] = 0]
    /\ UNCHANGED <<pc, ipcVars, timeouts>>

(***************************************************************************)
(* The server.  A task of CP calls these functions, a task of AP has       *)
(* ipc_cmd_handler of CP call them.                                        *)
(***************************************************************************)
\* mutant: the requests of the other CPU are overlooked
amp_res_acquire_cnt_own(t) ==
    /\ inited["CP"]
    /\ req_cnt' = [req_cnt EXCEPT ![CpuOf[t]] = @ + 1]
    /\ Goto(t, IF req_cnt[CpuOf[t]] = 0 THEN "set" ELSE "wait")

\* the counts before the request tell whether the resource is free
amp_res_acquire_cnt(t) ==
    /\ inited["CP"]
    /\ req_cnt' = [req_cnt EXCEPT ![CpuOf[t]] = @ + 1]
    /\ Goto(t, IF \A c \in Cpu : req_cnt[c] = 0 THEN "set" ELSE "wait")

\* A count of zero, or a server that is not initialised, fails the call.
amp_res_release_cnt(t) ==
    /\ inited["CP"]
    /\ req_cnt[CpuOf[t]] > 0
    /\ req_cnt' = [req_cnt EXCEPT ![CpuOf[t]] = @ - 1]

NothingToRelease(t) ==
    /\ ~inited["CP"] \/ req_cnt[CpuOf[t]] = 0
    /\ Goto(t, "idle")
    /\ UNCHANGED req_cnt

\* called by ipc_cmd_handler of the CPU that may go on
amp_res_available(c) == res_sema' = [res_sema EXCEPT ![c] = IF inited[c] THEN @ + 1 ELSE @]

(***************************************************************************)
(* ipc_send_cmd fails.  mb_chnl_write refuses the request, or the wait for *)
(* the answer times out; the request may then be served late.              *)
(***************************************************************************)
ipc_send_cmd_fails(c, k) ==
    /\ lost < MaxLost
    /\ lost' = lost + 1
    /\ \/ UNCHANGED <<late, overdue>>
       \/ /\ overdue' = [overdue EXCEPT ![c] = TRUE]
          /\ late' \in {late, [late EXCEPT ![k] = @ + 1]}
    /\ UNCHANGED mixed

(***************************************************************************)
(* The answer to a call that has timed out comes before the caller has     *)
(* cleared tx_cmd_in_process, or while the next call waits with the same   *)
(* command: it is left in rsp_buf and rsp_sema, and that call returns at   *)
(* once with what it finds there, which are counts of another moment, no   *)
(* counts at all (rsp_len is 0), or a failure.  Its own request is under   *)
(* way, and its answer is left for the call after it.                      *)
(***************************************************************************)
ipc_send_cmd_mixed(c, k) ==
    /\ overdue[c]
    /\ mixed < MaxMixed
    /\ mixed' = mixed + 1
    /\ late' \in {late, [late EXCEPT ![k] = @ + 1]}
    /\ UNCHANGED <<overdue, lost>>

\* A call for something else, such as another resource, times out.
OtherOverdue(c) ==
    /\ lost < MaxLost
    /\ lost' = lost + 1
    /\ overdue' = [overdue EXCEPT ![c] = TRUE]
    /\ UNCHANGED <<inited, req_cnt, res_sema, pc, timeouts, late, mixed>>

\* The next call copies its arguments into tx_xchg_buff: a request for something else
\* that is still under way becomes one for this resource.
OtherOverwritten(c) ==
    /\ overdue[c]
    /\ mixed < MaxMixed
    /\ mixed' = mixed + 1
    /\ \E k \in CallsOf(c) : late' = [late EXCEPT ![k] = @ + 1]
    /\ UNCHANGED <<inited, req_cnt, res_sema, pc, timeouts, overdue, lost>>

\* what ipc_cmd_handler does for a request nobody waits for any more; cpu_id is
\* what tx_xchg_buff holds by then
ServeLate(k) ==
    /\ late[k] > 0
    /\ late' = [late EXCEPT ![k] = @ - 1]
    /\ \/ /\ k \in Cpu
          /\ amp_res_available(k) /\ UNCHANGED req_cnt
       \/ /\ k \notin Cpu
          /\ \E c \in IF mixed = 0 THEN {"AP"} ELSE Cpu :
                req_cnt' = [req_cnt EXCEPT ![c] =
                              CASE ~inited["CP"] -> @
                                [] inited["CP"] /\ k = "acquire" -> @ + 1
                                [] inited["CP"] /\ k = "release" -> IF @ > 0 THEN @ - 1 ELSE @]
          /\ UNCHANGED res_sema
    /\ UNCHANGED <<inited, pc, timeouts, overdue, lost, mixed>>

(***************************************************************************)
(* amp_res_lock_acquire                                                    *)
(***************************************************************************)
amp_res_lock_acquire(t) ==
    /\ pc[t] = "idle"
    /\ inited[CpuOf[t]]
    /\ Goto(t, "acquire")
    /\ UNCHANGED <<inited, req_cnt, res_sema, ipcVars, timeouts>>

AcquireCnt(t) ==
    /\ pc[t] = "acquire"
    /\ \/ amp_res_acquire_cnt(t)
       \/ ~inited["CP"] /\ Goto(t, "idle") /\ UNCHANGED req_cnt
    /\ UNCHANGED <<inited, res_sema, ipcVars, timeouts>>

AcquireFails(t) ==
    /\ pc[t] = "acquire"
    /\ CpuOf[t] = "AP" /\ ipc_send_cmd_fails("AP", "acquire")
    /\ Goto(t, "idle")
    /\ UNCHANGED <<inited, req_cnt, res_sema, timeouts>>

\* the counts of another call say that the resource is free, or that it is not
AcquireMixed(t) ==
    /\ pc[t] = "acquire"
    /\ CpuOf[t] = "AP" /\ ipc_send_cmd_mixed("AP", "acquire")
    /\ \E q \in {"set", "wait", "idle"} : Goto(t, q)
    /\ UNCHANGED <<inited, req_cnt, res_sema, timeouts>>

\* the resource is free: the task sets the semaphore it is going to take
SetFree(t) ==
    /\ pc[t] = "set"
    /\ rtos_set_semaphore(CpuOf[t])
    /\ Goto(t, "wait")
    /\ UNCHANGED <<inited, req_cnt, ipcVars, timeouts>>

rtos_get_semaphore(t) ==
    /\ pc[t] = "wait"
    /\ res_sema[CpuOf[t]] > 0
    /\ res_sema' = [res_sema EXCEPT ![CpuOf[t]] = @ - 1]
    /\ Goto(t, "hold")
    /\ UNCHANGED <<inited, req_cnt, ipcVars, timeouts>>

\* the wait ends without the semaphore; the request is taken back
Timeout(t) ==
    /\ pc[t] = "wait"
    /\ res_sema[CpuOf[t]] = 0
    /\ timeouts < MaxTimeout
    /\ timeouts' = timeouts + 1
    /\ Goto(t, "undo")
    /\ UNCHANGED <<inited, req_cnt, res_sema, ipcVars>>

\* mutant: a task that gives up does not take its request back
Undo_forgotten(t) ==
    /\ pc[t] = "undo"
    /\ Goto(t, "idle")
    /\ UNCHANGED <<inited, req_cnt, res_sema, ipcVars, timeouts>>

Undo(t) ==
    /\ pc[t] = "undo"
    /\ \/ /\ amp_res_release_cnt(t)
          /\ Goto(t, IF req_cnt'[CpuOf[t]] = 0 THEN "clear" ELSE "idle")
       \/ NothingToRelease(t)
    /\ UNCHANGED <<inited, res_sema, ipcVars, timeouts>>

UndoFails(t) ==
    /\ pc[t] = "undo"
    /\ CpuOf[t] = "AP" /\ ipc_send_cmd_fails("AP", "release")
    /\ Goto(t, "idle")
    /\ UNCHANGED <<inited, req_cnt, res_sema, timeouts>>

UndoMixed(t) ==
    /\ pc[t] = "undo"
    /\ CpuOf[t] = "AP" /\ ipc_send_cmd_mixed("AP", "release")
    /\ \E q \in {"clear", "idle"} : Goto(t, q)
    /\ UNCHANGED <<inited, req_cnt, res_sema, timeouts>>

\* mutant: the semaphore is taken off without a look at its count
ClearSemaphore_blind(t) ==
    /\ pc[t] = "clear"
    /\ Goto(t, "idle")
    /\ res_sema' = [res_sema EXCEPT ![CpuOf[t]] = @ - 1]
    /\ UNCHANGED <<inited, req_cnt, ipcVars, timeouts>>

\* the semaphore may have been set since the wait ended: clear it
ClearSemaphore(t) ==
    /\ pc[t] = "clear"
    /\ Goto(t, "idle")
    /\ res_sema' = [res_sema EXCEPT ![CpuOf[t]] = IF @ > 0 THEN @ - 1 ELSE 0]
    /\ UNCHANGED <<inited, req_cnt, ipcVars, timeouts>>

(***************************************************************************)
(* amp_res_lock_release: a waiting task of the own CPU comes first, then   *)
(* the other CPU.                                                          *)
(***************************************************************************)
amp_res_lock_release(t) ==
    /\ pc[t] = "hold"
    /\ Goto(t, "release")
    /\ UNCHANGED <<inited, req_cnt, res_sema, ipcVars, timeouts>>

\* mutant: the other CPU is not informed
PassOn_own(t) == IF req_cnt'[CpuOf[t]] > 0 THEN "unblock" ELSE "idle"

PassOn(t) ==
    CASE req_cnt'[CpuOf[t]] > 0 -> "unblock"
      [] req_cnt'[CpuOf[t]] = 0 /\ req_cnt'[Other(CpuOf[t])] > 0 -> "inform"
      [] OTHER -> "idle"

ReleaseCnt(t) ==
    /\ pc[t] = "release"
    /\ \/ amp_res_release_cnt(t) /\ Goto(t, PassOn(t))
       \/ NothingToRelease(t)
    /\ UNCHANGED <<inited, res_sema, ipcVars, timeouts>>

ReleaseFails(t) ==
    /\ pc[t] = "release"
    /\ CpuOf[t] = "AP" /\ ipc_send_cmd_fails("AP", "release")
    /\ Goto(t, "idle")
    /\ UNCHANGED <<inited, req_cnt, res_sema, timeouts>>

ReleaseMixed(t) ==
    /\ pc[t] = "release"
    /\ CpuOf[t] = "AP" /\ ipc_send_cmd_mixed("AP", "release")
    /\ \E q \in {"unblock", "inform", "idle"} : Goto(t, q)
    /\ UNCHANGED <<inited, req_cnt, res_sema, timeouts>>

Unblock(t) ==
    /\ pc[t] = "unblock"
    /\ rtos_set_semaphore(CpuOf[t])
    /\ Goto(t, "idle")
    /\ UNCHANGED <<inited, req_cnt, ipcVars, timeouts>>

ipc_send_available_ind(t) ==
    /\ pc[t] = "inform"
    /\ \/ amp_res_available(Other(CpuOf[t])) /\ UNCHANGED ipcVars
       \/ ipc_send_cmd_fails(CpuOf[t], Other(CpuOf[t])) /\ UNCHANGED res_sema
       \/ ipc_send_cmd_mixed(CpuOf[t], Other(CpuOf[t])) /\ UNCHANGED res_sema
    /\ Goto(t, "idle")
    /\ UNCHANGED <<inited, req_cnt, timeouts>>

Proceed(t) ==
    \/ AcquireCnt(t) \/ AcquireFails(t) \/ AcquireMixed(t)
    \/ SetFree(t) \/ rtos_get_semaphore(t)
    \/ Undo(t) \/ UndoFails(t) \/ UndoMixed(t) \/ ClearSemaphore(t)
    \/ amp_res_lock_release(t) \/ ReleaseCnt(t) \/ ReleaseFails(t) \/ ReleaseMixed(t)
    \/ Unblock(t) \/ ipc_send_available_ind(t)

Run(t) == Proceed(t) \/ Timeout(t)

Next == \/ \E c \in Cpu : amp_res_lock_init(c) \/ OtherOverdue(c) \/ OtherOverwritten(c)
        \/ \E t \in Task : amp_res_lock_acquire(t) \/ Run(t)
        \/ \E k \in Call : ServeLate(k)
Spec == Init /\ [][Next]_vars

\* Tasks run, calls return and an owner releases the resource.  A wait need not time
\* out: its timeout may be BEKEN_WAIT_FOREVER.
FairSpec == Spec /\ \A t \in Task : WF_vars(Proceed(t))

(***************************************************************************)
(* Properties                                                              *)
(***************************************************************************)
\* Two tasks never own the resource.
OneHolder == \A t, u \in Task : pc[t] = "hold" /\ pc[u] = "hold" => t = u

\* Two tasks never own the resource, whichever CPU they run on and whatever calls
\* between the CPUs fail, or are served late by amp_res_release_cnt or
\* amp_res_available: the right to the resource is created by the first request alone
\* and handed on by one release at a time.  This is so until a wait for the semaphore
\* times out, or a call of ipc_send_cmd takes the answer or the arguments of another one.
MutualExclusion == timeouts = 0 /\ mixed = 0 => OneHolder

\* the right to the resource is with the task
Permit(t) == pc[t] \in {"set", "hold", "release", "unblock", "inform"}

\* While requests are counted the right to the resource exists: with a task, or in the
\* semaphore of a CPU on which a task is going to take it.  A release never hands it
\* to a CPU where nobody waits, and no waiting task is forgotten, unless a call between
\* the CPUs has failed or a wait has timed out.
GrantKept ==
    lost = 0 /\ timeouts = 0 =>
    /\ (\E c \in Cpu : req_cnt[c] > 0) =>
          (\E t \in Task : Permit(t)) \/ (\E c \in Cpu : res_sema[c] > 0)
    /\ \A c \in Cpu : res_sema[c] > 0 => \E t \in Task : CpuOf[t] = c /\ pc[t] = "wait"

\* The server counts a task from its request to its release, once, on the right CPU,
\* also when waits time out at any moment.  A failed call of AP may leave a request
\* counted for ever, but only on AP; it never makes the server forget the request of
\* another task.  This is so until a call takes the answer or the arguments of another.
Requesting(c) ==
    {t \in Task : CpuOf[t] = c /\ pc[t] \in {"set", "wait", "hold", "release", "undo"}}
CountsMatch ==
    mixed = 0 => \A c \in Cpu :
        LET due == Cardinality(Requesting(c)) + (IF c = "AP" THEN late["release"] ELSE 0)
        IN  req_cnt[c] >= due /\ (c = "CP" \/ lost = 0 => req_cnt[c] = due)

\* While a task waits the resource is owned again and again, on one CPU or the other,
\* unless a call between the CPUs fails or a wait times out.
Granted ==
    (\E t \in Task : pc[t] = "wait") ~>
        (lost > 0 \/ timeouts > 0 \/ \E t \in Task : pc[t] = "hold")
=============================================================================
