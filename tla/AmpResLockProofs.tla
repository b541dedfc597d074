-------------------------- MODULE AmpResLockProofs --------------------------
(***************************************************************************)
(* AmpResLock for any number of tasks on the two CPUs and any number of    *)
(* lost or late calls and of timeouts, until calls are mixed up: the       *)
(* server's counts; and, until a wait times out, mutual exclusion and the  *)
(* way of the right.                                                       *)
(***************************************************************************)
EXTENDS AmpResLock, FiniteSetTheorems, TLAPS

(***************************************************************************)
(* The right to the resource is in one place at a time: with a task, in a  *)
(* semaphore, or on its way in a late indication.  A late release is a     *)
(* right that was given back and that the server still counts.            *)
(***************************************************************************)
OneRight ==
    /\ \A t, u \in Task : Permit(t) /\ Permit(u) => t = u
    /\ \A t \in Task : Permit(t) =>
          late["release"] = 0 /\ \A c \in Cpu : res_sema[c] = 0 /\ late[c] = 0
    /\ \A c \in Cpu : res_sema[c] > 0 =>
          /\ res_sema[c] = 1 /\ res_sema[Other(c)] = 0
          /\ late[c] = 0 /\ late[Other(c)] = 0 /\ late["release"] = 0
    /\ \A c \in Cpu : late[c] > 0 =>
          late[c] = 1 /\ late[Other(c)] = 0 /\ late["release"] = 0
    /\ late["release"] \in {0, 1}

(***************************************************************************)
(* Whoever has the right is counted, so nobody finds the resource free.    *)
(***************************************************************************)
Counted ==
    /\ ~inited["CP"] => \A c \in Cpu : req_cnt[c] = 0
    /\ \A t \in Task : /\ Permit(t) /\ pc[t] /= "inform" => req_cnt[CpuOf[t]] > 0
                       /\ pc[t] = "inform" => req_cnt[Other(CpuOf[t])] > 0
    /\ \A c \in Cpu : res_sema[c] > 0 \/ late[c] > 0 => req_cnt[c] > 0
    /\ late["release"] > 0 => req_cnt["AP"] > 0

\* nobody gives up a wait
Patient == \A t \in Task : pc[t] \notin {"undo", "clear"}

LockInv == TypeOK /\ OneRight /\ Counted /\ Patient

\* the right is in one place until a wait times out or calls are mixed up
InvBeforeTimeout == timeouts = 0 /\ mixed = 0 => LockInv

\* A call of ipc_send_cmd leaves late as it is or adds the call to it.
LEMMA FailsType ==
    ASSUME TypeOK, NEW c \in Cpu, NEW k \in Call,
           ipc_send_cmd_fails(c, k) \/ ipc_send_cmd_mixed(c, k)
    PROVE  /\ late' \in [Call -> Nat] /\ overdue' \in [Cpu -> BOOLEAN]
           /\ lost' \in 0..MaxLost /\ mixed' \in 0..MaxMixed
<1>1. CASE ipc_send_cmd_fails(c, k)
  <2>1. overdue' \in [Cpu -> BOOLEAN]
    BY <1>1, Zenon DEF TypeOK, ipc_send_cmd_fails
  <2>2. late' \in [Call -> Nat] /\ lost' \in 0..MaxLost /\ mixed' \in 0..MaxMixed
    <3>1. late' \in {late, [late EXCEPT ![k] = @ + 1]}
      BY <1>1, Zenon DEF ipc_send_cmd_fails
    <3> QED
      BY <1>1, <3>1, LockConstants DEF TypeOK, ipc_send_cmd_fails
  <2> QED
    BY <2>1, <2>2
<1>2. CASE ipc_send_cmd_mixed(c, k)
  BY <1>2, LockConstants DEF TypeOK, ipc_send_cmd_mixed
<1> QED
  BY <1>1, <1>2

\* Every variable of the lock keeps its type: the counts of the server and of the
\* semaphores never become negative.
THEOREM LockTypeCorrect == Spec => []TypeOK
<1>1. Init => TypeOK
  BY LockConstants, SMTT(20) DEF Init, TypeOK, PC
<1>2. TypeOK /\ [Next]_vars => TypeOK'
  <2> SUFFICES ASSUME TypeOK, [Next]_vars PROVE TypeOK'
    OBVIOUS
  <2> USE LockConstants
  <2> USE DEF TypeOK, PC, Goto, ipcVars
  <2>1. ASSUME NEW c \in Cpu, amp_res_lock_init(c) PROVE TypeOK'
    BY <2>1 DEF amp_res_lock_init
  <2>2. ASSUME NEW t \in Task, amp_res_lock_acquire(t) PROVE TypeOK'
    BY <2>2 DEF amp_res_lock_acquire
  <2>3. ASSUME NEW t \in Task, AcquireCnt(t) PROVE TypeOK'
    BY <2>3 DEF AcquireCnt, amp_res_acquire_cnt
  <2>4. ASSUME NEW t \in Task, AcquireFails(t) \/ AcquireMixed(t) PROVE TypeOK'
    <3>1. late' \in [Call -> Nat] /\ overdue' \in [Cpu -> BOOLEAN] /\ lost' \in 0..MaxLost /\ mixed' \in 0..MaxMixed
      BY <2>4, FailsType DEF AcquireFails, AcquireMixed, Call, Cpu
    <3> QED
      BY <2>4, <3>1 DEF AcquireFails, AcquireMixed
  <2>5. ASSUME NEW t \in Task, SetFree(t) PROVE TypeOK'
    BY <2>5 DEF SetFree, rtos_set_semaphore
  <2>6. ASSUME NEW t \in Task, rtos_get_semaphore(t) PROVE TypeOK'
    BY <2>6 DEF rtos_get_semaphore
  <2>7. ASSUME NEW t \in Task, Timeout(t) PROVE TypeOK'
    BY <2>7 DEF Timeout
  <2>8. ASSUME NEW t \in Task, Undo(t) PROVE TypeOK'
    BY <2>8 DEF Undo, amp_res_release_cnt, NothingToRelease
  <2>9. ASSUME NEW t \in Task, UndoFails(t) \/ UndoMixed(t) PROVE TypeOK'
    <3>1. late' \in [Call -> Nat] /\ overdue' \in [Cpu -> BOOLEAN] /\ lost' \in 0..MaxLost /\ mixed' \in 0..MaxMixed
      BY <2>9, FailsType DEF UndoFails, UndoMixed, Call, Cpu
    <3> QED
      BY <2>9, <3>1 DEF UndoFails, UndoMixed
  <2>10. ASSUME NEW t \in Task, ClearSemaphore(t) PROVE TypeOK'
    BY <2>10 DEF ClearSemaphore
  <2>11. ASSUME NEW t \in Task, amp_res_lock_release(t) PROVE TypeOK'
    BY <2>11 DEF amp_res_lock_release
  <2>12. ASSUME NEW t \in Task, ReleaseCnt(t) PROVE TypeOK'
    <3>1. PassOn(t) \in PC
      BY DEF PassOn
    <3> QED
      BY <2>12, <3>1 DEF ReleaseCnt, amp_res_release_cnt, NothingToRelease
  <2>13. ASSUME NEW t \in Task, ReleaseFails(t) \/ ReleaseMixed(t) PROVE TypeOK'
    <3>1. late' \in [Call -> Nat] /\ overdue' \in [Cpu -> BOOLEAN] /\ lost' \in 0..MaxLost /\ mixed' \in 0..MaxMixed
      BY <2>13, FailsType DEF ReleaseFails, ReleaseMixed, Call, Cpu
    <3> QED
      BY <2>13, <3>1 DEF ReleaseFails, ReleaseMixed
  <2>14. ASSUME NEW t \in Task, Unblock(t) PROVE TypeOK'
    BY <2>14 DEF Unblock, rtos_set_semaphore
  <2>15. ASSUME NEW t \in Task, ipc_send_available_ind(t) PROVE TypeOK'
    <3>1. Other(CpuOf[t]) \in Cpu /\ Other(CpuOf[t]) \in Call
      BY DEF Other, Cpu, Call
    <3>2. CASE amp_res_available(Other(CpuOf[t])) /\ UNCHANGED ipcVars
      BY <2>15, <3>1, <3>2 DEF ipc_send_available_ind, amp_res_available
    <3>3. CASE /\ \/ ipc_send_cmd_fails(CpuOf[t], Other(CpuOf[t]))
                  \/ ipc_send_cmd_mixed(CpuOf[t], Other(CpuOf[t]))
               /\ UNCHANGED res_sema
      <4>1. late' \in [Call -> Nat] /\ overdue' \in [Cpu -> BOOLEAN] /\ lost' \in 0..MaxLost /\ mixed' \in 0..MaxMixed
        BY <3>1, <3>3, FailsType
      <4> QED
        BY <2>15, <3>3, <4>1 DEF ipc_send_available_ind
    <3> QED
      BY <2>15, <3>2, <3>3 DEF ipc_send_available_ind
  <2>16. ASSUME NEW k \in Call, ServeLate(k) PROVE TypeOK'
    <3>1. late' \in [Call -> Nat]
      BY <2>16 DEF ServeLate
    <3>2. CASE k \in Cpu
      BY <2>16, <3>1, <3>2 DEF ServeLate, amp_res_available
    <3>3. CASE k \notin Cpu
      <4>1. PICK c \in Cpu : req_cnt' =
              [req_cnt EXCEPT ![c] = CASE ~inited["CP"] -> @
                                       [] inited["CP"] /\ k = "acquire" -> @ + 1
                                       [] inited["CP"] /\ k = "release" -> IF @ > 0 THEN @ - 1 ELSE @]
        BY <2>16, <3>3, Zenon DEF ServeLate, Cpu
      <4>2. req_cnt' \in [Cpu -> Nat]
        BY <3>3, <4>1 DEF Call
      <4> QED
        BY <2>16, <3>1, <3>3, <4>2 DEF ServeLate
    <3> QED
      BY <3>2, <3>3
  <2>17. CASE UNCHANGED vars
    BY <2>17 DEF vars
  <2>18. ASSUME NEW c \in Cpu, OtherOverdue(c) \/ OtherOverwritten(c) PROVE TypeOK'
    <3>1. overdue' \in [Cpu -> BOOLEAN]
      BY <2>18, Zenon DEF OtherOverdue, OtherOverwritten
    <3>2. CallsOf(c) \subseteq Call
      BY DEF CallsOf, Call, Cpu
    <3>3. CASE OtherOverdue(c)
      BY <3>1, <3>3 DEF OtherOverdue
    <3>4. CASE OtherOverwritten(c)
      <4>1. PICK k \in Call : late' = [late EXCEPT ![k] = @ + 1]
        BY <3>2, <3>4, Zenon DEF OtherOverwritten
      <4> QED
        BY <3>1, <3>4, <4>1 DEF OtherOverwritten
    <3> QED
      BY <2>18, <3>3, <3>4
  <2> QED
    BY <2>1, <2>2, <2>3, <2>4, <2>5, <2>6, <2>7, <2>8, <2>9, <2>10, <2>11, <2>12,
       <2>13, <2>14, <2>15, <2>16, <2>17, <2>18, SMTT(20) DEF Next, Run, Proceed
<1> QED
  BY <1>1, <1>2, PTL DEF Spec

\* what one place of the right excludes, in the form the steps below use
LEMMA NoRight ==
    ASSUME LockInv, \A c \in Cpu : req_cnt[c] = 0
    PROVE  /\ \A t \in Task : ~Permit(t)
           /\ \A c \in Cpu : res_sema[c] = 0 /\ late[c] = 0
           /\ late["release"] = 0
<1>1. \A t \in Task : CpuOf[t] \in Cpu /\ Other(CpuOf[t]) \in Cpu
  BY LockConstants DEF Other, Cpu
<1>2. \A c \in Cpu : res_sema[c] \in Nat /\ late[c] \in Nat
  BY DEF LockInv, TypeOK, Call
<1>3. late["release"] \in {0, 1} /\ "AP" \in Cpu
  BY DEF LockInv, OneRight, Cpu
<1> QED
  BY <1>1, <1>2, <1>3 DEF LockInv, Counted

\* A timeout is counted and stays counted.
LEMMA TimeoutsGrow ==
    ASSUME TypeOK, [Next]_vars, timeouts' = 0
    PROVE  timeouts = 0 /\ \A t \in Task : ~Timeout(t)
<1>1. timeouts \in Nat
  BY LockConstants DEF TypeOK
<1>2. \A t \in Task : Timeout(t) => timeouts' = timeouts + 1
  BY DEF Timeout
<1>3. (\A t \in Task : ~Timeout(t)) => timeouts' = timeouts
  BY Zenon DEF Next, Run, Proceed, vars, amp_res_lock_init, amp_res_lock_acquire, AcquireCnt, AcquireFails,
         AcquireMixed, SetFree, rtos_get_semaphore, Undo, UndoFails, UndoMixed, ClearSemaphore,
         amp_res_lock_release, ReleaseCnt, ReleaseFails, ReleaseMixed, Unblock, ipc_send_available_ind,
         ServeLate, OtherOverdue, OtherOverwritten
<1> QED
  BY <1>1, <1>2, <1>3

\* the steps of a task that take the answer of another call
Mixed(t) == AcquireMixed(t) \/ UndoMixed(t) \/ ReleaseMixed(t)

\* Calls that are mixed up are counted and stay counted.
LEMMA MixedGrows ==
    ASSUME TypeOK, [Next]_vars, mixed' = 0
    PROVE  /\ mixed = 0 /\ \A t \in Task : ~Mixed(t)
           /\ \A c \in Cpu : ~OtherOverwritten(c) /\ \A k \in Call : ~ipc_send_cmd_mixed(c, k)
<1>1. mixed \in Nat
  BY LockConstants DEF TypeOK
<1>2. \A c \in Cpu : /\ OtherOverwritten(c) => mixed' = mixed + 1
                      /\ \A k \in Call : ipc_send_cmd_mixed(c, k) => mixed' = mixed + 1
  BY DEF OtherOverwritten, ipc_send_cmd_mixed
<1>3. \A t \in Task : Mixed(t) => mixed' = mixed + 1
  BY Zenon DEF Mixed, AcquireMixed, UndoMixed, ReleaseMixed, ipc_send_cmd_mixed
<1>4. ASSUME \A c \in Cpu : ~OtherOverwritten(c) /\ \A k \in Call : ~ipc_send_cmd_mixed(c, k),
             \A t \in Task : ~Mixed(t)
      PROVE  mixed' = mixed
  <2>1. \A t \in Task : CpuOf[t] \in Cpu /\ Other(CpuOf[t]) \in Call
    BY LockConstants DEF Other, Cpu, Call
  <2>2. \A t \in Task : ipc_send_available_ind(t) => mixed' = mixed
    BY <1>4, <2>1, Zenon DEF ipc_send_available_ind, ipc_send_cmd_fails, ipcVars
  <2> QED
    BY <1>4, <2>2, Zenon DEF Mixed, Next, Run, Proceed, vars, ipcVars, amp_res_lock_init,
         amp_res_lock_acquire, AcquireCnt, AcquireFails, SetFree, rtos_get_semaphore, Timeout, Undo,
         UndoFails, ClearSemaphore, amp_res_lock_release, ReleaseCnt, ReleaseFails, Unblock,
         ServeLate, OtherOverdue, ipc_send_cmd_fails
<1>5. mixed' /= mixed + 1 /\ (mixed' = mixed => mixed = 0)
  BY <1>1
<1>6. \A c \in Cpu : ~OtherOverwritten(c) /\ \A k \in Call : ~ipc_send_cmd_mixed(c, k)
  <2>1. \A c \in Cpu : ~OtherOverwritten(c)
    BY <1>2, <1>5, Zenon
  <2>2. ASSUME NEW c \in Cpu, NEW k \in Call, ipc_send_cmd_mixed(c, k) PROVE FALSE
    BY <1>5, <2>2 DEF ipc_send_cmd_mixed
  <2> QED
    BY <2>1, <2>2, Zenon
<1>7. \A t \in Task : ~Mixed(t)
  BY <1>3, <1>5, Zenon
<1> QED
  BY <1>4, <1>5, <1>6, <1>7, Zenon

\* Until a wait times out or calls are mixed up the right to the resource is in one place
\* and counted there: every action of a task, of the interrupt handlers and of the late
\* calls keeps it so.
THEOREM LockInvCorrect == Spec => []InvBeforeTimeout
<1>1. Init => InvBeforeTimeout
  BY LockConstants DEF Init, InvBeforeTimeout, LockInv, TypeOK, PC, OneRight, Counted, Patient,
                       Permit, Cpu, Call, Other
<1>2. InvBeforeTimeout /\ TypeOK /\ TypeOK' /\ [Next]_vars => InvBeforeTimeout'
  <2> DEFINE Right == OneRight /\ Counted /\ Patient
  <2> SUFFICES ASSUME InvBeforeTimeout, TypeOK, TypeOK', [Next]_vars, timeouts' = 0, mixed' = 0
               PROVE  Right'
    BY DEF LockInv, InvBeforeTimeout
  <2>0. /\ LockInv /\ mixed = 0 /\ \A t \in Task : ~Timeout(t) /\ ~Mixed(t)
        /\ \A c \in Cpu : ~OtherOverwritten(c) /\ \A k \in Call : ~ipc_send_cmd_mixed(c, k)
    BY TimeoutsGrow, MixedGrows, Zenon DEF InvBeforeTimeout
  <2>a. LockInv /\ mixed = 0
    BY <2>0
  <2> USE LockConstants
  <2> USE DEF LockInv, TypeOK, OneRight, Counted, Patient, Permit, Goto, Cpu, Call, Other, ipcVars
  <2>1. ASSUME NEW c \in Cpu, amp_res_lock_init(c) PROVE Right'
    BY <2>a, <2>1, SMTT(20) DEF amp_res_lock_init
  <2>2. ASSUME NEW t \in Task, amp_res_lock_acquire(t) PROVE Right'
    BY <2>a, <2>2, SMTT(20) DEF amp_res_lock_acquire
  <2>3. ASSUME NEW t \in Task, AcquireCnt(t) PROVE Right'
    BY <2>a, <2>3, NoRight, SMTT(20) DEF AcquireCnt, amp_res_acquire_cnt
  <2>4. ASSUME NEW t \in Task, AcquireFails(t) PROVE Right'
    BY <2>a, <2>4, SMTT(20) DEF AcquireFails, ipc_send_cmd_fails
  <2>5. ASSUME NEW t \in Task, SetFree(t) PROVE Right'
    BY <2>a, <2>5, SMTT(20) DEF SetFree, rtos_set_semaphore
  <2>6. ASSUME NEW t \in Task, rtos_get_semaphore(t) PROVE Right'
    BY <2>a, <2>6, SMTT(20) DEF rtos_get_semaphore
  <2>7. ASSUME NEW t \in Task, Undo(t) \/ UndoFails(t) \/ ClearSemaphore(t)
        PROVE  FALSE
    BY <2>a, <2>7, SMTT(20) DEF Undo, UndoFails, ClearSemaphore
  <2>8. ASSUME NEW t \in Task, amp_res_lock_release(t) PROVE Right'
    BY <2>a, <2>8 DEF amp_res_lock_release
  <2>9. ASSUME NEW t \in Task, ReleaseCnt(t) PROVE Right'
    <3>1. ~NothingToRelease(t)
      BY <2>a, <2>9, SMTT(20) DEF ReleaseCnt, NothingToRelease
    <3> QED
      BY <2>a, <2>9, <3>1, SMTT(20) DEF ReleaseCnt, amp_res_release_cnt, PassOn
  <2>10. ASSUME NEW t \in Task, ReleaseFails(t) PROVE Right'
    BY <2>a, <2>10, SMTT(20) DEF ReleaseFails, ipc_send_cmd_fails
  <2>11. ASSUME NEW t \in Task, Unblock(t) PROVE Right'
    BY <2>a, <2>11, SMTT(20) DEF Unblock, rtos_set_semaphore
  <2>12. ASSUME NEW t \in Task, ipc_send_available_ind(t) PROVE Right'
    <3>1. ~ipc_send_cmd_mixed(CpuOf[t], Other(CpuOf[t]))
      BY <2>0, SMTT(20)
    <3>2. CASE amp_res_available(Other(CpuOf[t])) /\ UNCHANGED ipcVars
      BY <2>a, <2>12, <3>2, SMTT(20) DEF ipc_send_available_ind, amp_res_available
    <3>3. CASE ipc_send_cmd_fails(CpuOf[t], Other(CpuOf[t])) /\ UNCHANGED res_sema
      BY <2>a, <2>12, <3>3, SMTT(20) DEF ipc_send_available_ind, ipc_send_cmd_fails
    <3> QED
      BY <2>12, <3>1, <3>2, <3>3, SMTT(20) DEF ipc_send_available_ind
  <2>13. ASSUME NEW k \in Call, ServeLate(k) PROVE Right'
    <3>1. CASE k \in Cpu
      BY <2>a, <2>13, <3>1 DEF ServeLate, amp_res_available
    <3>2. CASE k \notin Cpu
      BY <2>a, <2>13, <3>2 DEF ServeLate
    <3> QED
      BY <3>1, <3>2
  <2>14. CASE UNCHANGED vars
    BY <2>a, <2>14 DEF vars
  <2>15. ASSUME NEW c \in Cpu, OtherOverdue(c) PROVE Right'
    BY <2>a, <2>15 DEF OtherOverdue
  <2> HIDE DEF Right
  <2> QED
    BY <2>0, <2>1, <2>2, <2>3, <2>4, <2>5, <2>6, <2>7, <2>8, <2>9, <2>10, <2>11, <2>12,
       <2>13, <2>14, <2>15, Zenon DEF Next, Run, Proceed, Mixed
<1> QED
  BY <1>1, <1>2, LockTypeCorrect, PTL DEF Spec

\* Two tasks never own the resource: for any number of tasks on the CPUs and any calls
\* of ipc_send_cmd that are lost or served late, as long as no wait for the semaphore
\* has timed out and no call has taken the answer or the arguments of another one.
THEOREM MutualExclusionCorrect == Spec => []MutualExclusion
<1>1. InvBeforeTimeout => MutualExclusion
  BY DEF InvBeforeTimeout, LockInv, OneRight, Permit, MutualExclusion, OneHolder
<1> QED
  BY <1>1, LockInvCorrect, PTL

(***************************************************************************)
(* The server's counts                                                     *)
(***************************************************************************)
\* the steps at which the request of a task is counted
Asking == {"set", "wait", "hold", "release", "undo"}

\* A task asks only when its CPU and the server are initialised; calls are late only
\* when some have failed.
CountInv ==
    mixed = 0 =>
    /\ CountsMatch
    /\ \A t \in Task : pc[t] /= "idle" => inited[CpuOf[t]]
    /\ ~inited["CP"] => late["release"] = 0 /\ \A t \in Task : pc[t] \in {"idle", "acquire"}
    /\ lost = 0 => \A k \in Call : late[k] = 0

\* The tasks that are counted for a CPU are finitely many.
LEMMA RequestingFinite ==
    \A c \in Cpu : IsFiniteSet(Requesting(c)) /\ Cardinality(Requesting(c)) \in Nat
<1> SUFFICES ASSUME NEW c \in Cpu
             PROVE  IsFiniteSet(Requesting(c)) /\ Cardinality(Requesting(c)) \in Nat
  OBVIOUS
<1>1. Requesting(c) \subseteq Task
  BY DEF Requesting
<1> QED
  BY <1>1, LockConstants, FS_Subset, FS_CardinalityType

\* A step of a task within the request, or outside it, leaves the counted tasks alone.
LEMMA RequestingStays ==
    ASSUME TypeOK, NEW t \in Task, NEW q \in PC, Goto(t, q), pc[t] \in Asking <=> q \in Asking
    PROVE  \A c \in Cpu : Requesting(c)' = Requesting(c)
BY DEF TypeOK, Goto, Requesting, Asking

\* A task that asks is one more of its CPU.
LEMMA RequestingJoins ==
    ASSUME TypeOK, NEW t \in Task, NEW q \in Asking, Goto(t, q), pc[t] \notin Asking
    PROVE  \A c \in Cpu : Cardinality(Requesting(c)') =
                             Cardinality(Requesting(c)) + (IF c = CpuOf[t] THEN 1 ELSE 0)
<1> SUFFICES ASSUME NEW c \in Cpu
             PROVE  Cardinality(Requesting(c)') =
                      Cardinality(Requesting(c)) + (IF c = CpuOf[t] THEN 1 ELSE 0)
  OBVIOUS
<1>1. IsFiniteSet(Requesting(c)) /\ Cardinality(Requesting(c)) \in Nat
  BY RequestingFinite
<1>2. CASE c = CpuOf[t]
  <2>1. Requesting(c)' = Requesting(c) \cup {t} /\ t \notin Requesting(c)
    BY <1>2 DEF TypeOK, Goto, Requesting, Asking
  <2>2. Cardinality(Requesting(c) \cup {t}) = Cardinality(Requesting(c)) + 1
    BY <1>1, <2>1, FS_AddElement, Zenon
  <2> QED
    BY <1>1, <1>2, <2>1, <2>2
<1>3. CASE c /= CpuOf[t]
  <2>1. Requesting(c)' = Requesting(c)
    BY <1>3 DEF TypeOK, Goto, Requesting, Asking
  <2> QED
    BY <1>1, <1>3, <2>1
<1> QED
  BY <1>2, <1>3

\* A task that has its request taken back is one less of its CPU.
LEMMA RequestingLeaves ==
    ASSUME TypeOK, NEW t \in Task, NEW q \in PC \ Asking, Goto(t, q), pc[t] \in Asking
    PROVE  \A c \in Cpu : Cardinality(Requesting(c)') =
                             Cardinality(Requesting(c)) - (IF c = CpuOf[t] THEN 1 ELSE 0)
<1> SUFFICES ASSUME NEW c \in Cpu
             PROVE  Cardinality(Requesting(c)') =
                      Cardinality(Requesting(c)) - (IF c = CpuOf[t] THEN 1 ELSE 0)
  OBVIOUS
<1>1. IsFiniteSet(Requesting(c)) /\ Cardinality(Requesting(c)) \in Nat
  BY RequestingFinite
<1>2. CASE c = CpuOf[t]
  <2>1. Requesting(c)' = Requesting(c) \ {t} /\ t \in Requesting(c)
    BY <1>2 DEF TypeOK, Goto, Requesting, Asking
  <2>2. Cardinality(Requesting(c) \ {t}) = Cardinality(Requesting(c)) - 1
    BY <1>1, <2>1, FS_RemoveElement, Zenon
  <2> QED
    BY <1>1, <1>2, <2>1, <2>2
<1>3. CASE c /= CpuOf[t]
  <2>1. Requesting(c)' = Requesting(c)
    BY <1>3 DEF TypeOK, Goto, Requesting, Asking
  <2> QED
    BY <1>1, <1>3, <2>1
<1> QED
  BY <1>2, <1>3

\* Every action keeps the counts equal to the tasks that ask, and a call that fails
\* makes them no smaller.
THEOREM CountInvCorrect == Spec => []CountInv
<1>1. Init => CountInv
  <2> SUFFICES ASSUME Init PROVE CountInv
    OBVIOUS
  <2>1. \A c \in Cpu : Cardinality(Requesting(c)) = 0
    <3>1. \A c \in Cpu : Requesting(c) = {}
      BY DEF Init, Requesting
    <3> QED
      BY <3>1, FS_EmptySet
  <2> QED
    BY <2>1 DEF Init, CountInv, CountsMatch, Cpu, Call
<1>2. CountInv /\ TypeOK /\ TypeOK' /\ [Next]_vars => CountInv'
  <2> SUFFICES ASSUME CountInv, TypeOK, TypeOK', [Next]_vars, mixed' = 0 PROVE CountInv'
    BY DEF CountInv
  <2>y. /\ mixed = 0 /\ \A t \in Task : ~Mixed(t)
        /\ \A c \in Cpu : ~OtherOverwritten(c) /\ \A k \in Call : ~ipc_send_cmd_mixed(c, k)
    BY MixedGrows, Zenon
  <2>z. mixed = 0
    BY <2>y
  <2> DEFINE Due(c) == Cardinality(Requesting(c))
  <2>0. \A c \in Cpu : Due(c) \in Nat
    BY RequestingFinite
  <2> HIDE DEF Due
  <2>a. ASSUME \A c \in Cpu : Requesting(c)' = Requesting(c) PROVE \A c \in Cpu : Due(c)' = Due(c)
    BY <2>a DEF Due
  <2>b. CountsMatch <=> \A c \in Cpu :
          LET due == Due(c) + (IF c = "AP" THEN late["release"] ELSE 0)
          IN  req_cnt[c] >= due /\ (c = "CP" \/ lost = 0 => req_cnt[c] = due)
    BY <2>z DEF CountsMatch, Due
  <2>c. CountsMatch' <=> \A c \in Cpu :
          LET due == Due(c)' + (IF c = "AP" THEN late'["release"] ELSE 0)
          IN  req_cnt'[c] >= due /\ (c = "CP" \/ lost' = 0 => req_cnt'[c] = due)
    BY <2>z, SMTT(20) DEF CountsMatch, Due
  <2> USE LockConstants, <2>0, <2>b, <2>c, <2>z
  <2> USE DEF CountInv, TypeOK, Cpu, Call, ipcVars
  <2>1. ASSUME NEW c \in Cpu, amp_res_lock_init(c) PROVE CountInv'
    <3>1. \A d \in Cpu : Requesting(d)' = Requesting(d)
      BY <2>1 DEF amp_res_lock_init, Requesting
    <3>2. ASSUME c = "CP" PROVE \A d \in Cpu : Due(d) = 0
      <4>1. \A d \in Cpu : Requesting(d) = {}
        BY <2>1, <3>2 DEF amp_res_lock_init, Requesting
      <4> QED
        BY <4>1, FS_EmptySet, Zenon DEF Due
    <3> QED
      BY <2>a, <2>1, <3>1, <3>2, SMTT(20) DEF amp_res_lock_init
  <2> USE DEF Goto, PC, Asking
  <2>2. ASSUME NEW t \in Task, amp_res_lock_acquire(t) PROVE CountInv'
    <3>1. \A c \in Cpu : Requesting(c)' = Requesting(c)
      BY <2>2, RequestingStays, Zenon DEF amp_res_lock_acquire
    <3> QED
      BY <2>a, <2>2, <3>1 DEF amp_res_lock_acquire
  <2>3. ASSUME NEW t \in Task, AcquireCnt(t) PROVE CountInv'
    <3>1. CASE amp_res_acquire_cnt(t)
      <4>1. \A c \in Cpu : Due(c)' = Due(c) + (IF c = CpuOf[t] THEN 1 ELSE 0)
        BY <2>3, <3>1, RequestingJoins, Zenon DEF AcquireCnt, amp_res_acquire_cnt, Due
      <4> QED
        BY <2>3, <3>1, <4>1 DEF AcquireCnt, amp_res_acquire_cnt
    <3>2. CASE ~inited["CP"] /\ Goto(t, "idle") /\ UNCHANGED req_cnt
      <4>1. \A c \in Cpu : Requesting(c)' = Requesting(c)
        BY <2>3, <3>2, RequestingStays, Zenon DEF AcquireCnt
      <4> QED
        BY <2>a, <2>3, <3>2, <4>1 DEF AcquireCnt
    <3> QED
      BY <2>3, <3>1, <3>2, SMTT(20) DEF AcquireCnt
  <2>4. ASSUME NEW t \in Task, AcquireFails(t) PROVE CountInv'
    <3>1. \A c \in Cpu : Requesting(c)' = Requesting(c)
      BY <2>4, RequestingStays, Zenon DEF AcquireFails
    <3> QED
      BY <2>a, <2>4, <3>1 DEF AcquireFails, ipc_send_cmd_fails
  <2>5. ASSUME NEW t \in Task, SetFree(t) PROVE CountInv'
    <3>1. \A c \in Cpu : Requesting(c)' = Requesting(c)
      BY <2>5, RequestingStays, Zenon DEF SetFree
    <3> QED
      BY <2>a, <2>5, <3>1 DEF SetFree
  <2>6. ASSUME NEW t \in Task, rtos_get_semaphore(t) PROVE CountInv'
    <3>1. \A c \in Cpu : Requesting(c)' = Requesting(c)
      BY <2>6, RequestingStays, Zenon DEF rtos_get_semaphore
    <3> QED
      BY <2>a, <2>6, <3>1 DEF rtos_get_semaphore
  <2>7. ASSUME NEW t \in Task, Timeout(t) PROVE CountInv'
    <3>1. \A c \in Cpu : Requesting(c)' = Requesting(c)
      BY <2>7, RequestingStays, Zenon DEF Timeout
    <3> QED
      BY <2>a, <2>7, <3>1 DEF Timeout
  <2>d. ASSUME NEW t \in Task, pc[t] \in {"undo", "release"} PROVE ~NothingToRelease(t)
    <3>1. Requesting(CpuOf[t]) /= {}
      BY <2>d DEF Requesting
    <3>2. Due(CpuOf[t]) /= 0
      BY <3>1, RequestingFinite, FS_EmptySet, SMTT(20) DEF Due
    <3> QED
      BY <2>d, <3>2 DEF NothingToRelease
  <2>8. ASSUME NEW t \in Task, Undo(t) PROVE CountInv'
    <3>0. ~NothingToRelease(t)
      BY <2>8, <2>d DEF Undo
    <3>1. \A c \in Cpu : Due(c)' = Due(c) - (IF c = CpuOf[t] THEN 1 ELSE 0)
      BY <2>8, <3>0, RequestingLeaves, Zenon DEF Undo, Due
    <3> QED
      BY <2>8, <3>0, <3>1, SMTT(20) DEF Undo, amp_res_release_cnt
  <2>9. ASSUME NEW t \in Task, UndoFails(t) \/ ReleaseFails(t) PROVE CountInv'
    <3>1. \A c \in Cpu : Due(c)' = Due(c) - (IF c = CpuOf[t] THEN 1 ELSE 0)
      BY <2>9, RequestingLeaves, SMTT(20) DEF UndoFails, ReleaseFails, Due
    <3> QED
      BY <2>9, <3>1 DEF UndoFails, ReleaseFails, ipc_send_cmd_fails
  <2>10. ASSUME NEW t \in Task, ClearSemaphore(t) \/ Unblock(t) PROVE CountInv'
    <3>1. \A c \in Cpu : Requesting(c)' = Requesting(c)
      BY <2>10, RequestingStays, SMTT(20) DEF ClearSemaphore, Unblock
    <3> QED
      BY <2>a, <2>10, <3>1, SMTT(20) DEF ClearSemaphore, Unblock
  <2>11. ASSUME NEW t \in Task, amp_res_lock_release(t) PROVE CountInv'
    <3>1. \A c \in Cpu : Requesting(c)' = Requesting(c)
      BY <2>11, RequestingStays, Zenon DEF amp_res_lock_release
    <3> QED
      BY <2>a, <2>11, <3>1 DEF amp_res_lock_release
  <2>12. ASSUME NEW t \in Task, ReleaseCnt(t) PROVE CountInv'
    <3>0. ~NothingToRelease(t)
      BY <2>12, <2>d DEF ReleaseCnt
    <3>1. PassOn(t) \in PC \ Asking
      BY DEF PassOn
    <3>2. \A c \in Cpu : Due(c)' = Due(c) - (IF c = CpuOf[t] THEN 1 ELSE 0)
      BY <2>12, <3>0, <3>1, RequestingLeaves, Zenon DEF ReleaseCnt, Due
    <3> QED
      BY <2>12, <3>0, <3>1, <3>2, SMTT(20) DEF ReleaseCnt, amp_res_release_cnt
  <2>13. ASSUME NEW t \in Task, ipc_send_available_ind(t) PROVE CountInv'
    <3>1. \A c \in Cpu : Requesting(c)' = Requesting(c)
      BY <2>13, RequestingStays, Zenon DEF ipc_send_available_ind
    <3>2. Other(CpuOf[t]) \in Cpu /\ ~ipc_send_cmd_mixed(CpuOf[t], Other(CpuOf[t]))
      BY <2>y, SMTT(20) DEF Other
    <3>3. CASE UNCHANGED ipcVars
      BY <2>a, <2>13, <3>1, <3>3, SMTT(20) DEF ipc_send_available_ind
    <3>4. CASE ipc_send_cmd_fails(CpuOf[t], Other(CpuOf[t]))
      BY <2>a, <2>13, <3>1, <3>2, <3>4, SMTT(20) DEF ipc_send_available_ind, ipc_send_cmd_fails
    <3> QED
      BY <2>13, <3>2, <3>3, <3>4 DEF ipc_send_available_ind
  <2>14. ASSUME NEW k \in Call, ServeLate(k) PROVE CountInv'
    <3>1. \A c \in Cpu : Requesting(c)' = Requesting(c)
      BY <2>14 DEF ServeLate, Requesting
    <3>2. CASE k \in Cpu
      BY <2>a, <2>14, <3>1, <3>2, SMTT(20) DEF ServeLate
    <3>3. CASE k \notin Cpu
      <4>1. late' = [late EXCEPT ![k] = @ - 1] /\ late[k] > 0 /\ lost' = lost /\ inited' = inited /\ pc' = pc
        BY <2>14 DEF ServeLate
      <4>2. req_cnt'["CP"] = req_cnt["CP"]
        BY <2>14, <3>3 DEF ServeLate
      <4>3. lost > 0
        BY <4>1
      <4>6. Due("AP")' = Due("AP") /\ Due("CP")' = Due("CP")
        BY <2>a, <3>1, Zenon
      <4>7. ASSUME req_cnt'["AP"] >= Due("AP")' + late'["release"],
                   req_cnt'["CP"] = Due("CP")',
                   ~inited["CP"] => late'["release"] = 0
            PROVE  CountInv'
        <5>1. CountsMatch'
          <6>1. lost' /= 0 /\ Due("AP")' \in Nat /\ late'["release"] \in Nat /\ req_cnt'["CP"] \in Nat
            BY <4>1, <4>3, <4>6
          <6> HIDE <2>b
          <6> HIDE DEF CountInv, TypeOK, Call, ipcVars
          <6> QED
            BY <4>7, <6>1
        <5>2. \A t \in Task : pc'[t] /= "idle" => inited'[CpuOf[t]]
          BY <4>1
        <5>3. ~inited'["CP"] => late'["release"] = 0 /\ \A t \in Task : pc'[t] \in {"idle", "acquire"}
          BY <4>1, <4>7
        <5>4. lost' /= 0
          BY <4>1, <4>3, SMTT(20)
        <5> QED
          BY <5>1, <5>2, <5>3, <5>4, Zenon
      <4>4. CASE k = "acquire"
        <5>1. req_cnt'["AP"] >= req_cnt["AP"] /\ late'["release"] = late["release"]
          BY <2>14, <3>3, <4>1, <4>4, SMTT(20) DEF ServeLate
        <5> QED
          BY <4>1, <4>2, <4>3, <4>6, <4>7, <5>1
      <4>5. CASE k = "release"
        <5>1. inited["CP"]
          BY <4>1, <4>5
        <5>2. req_cnt'["AP"] >= req_cnt["AP"] - 1 /\ late'["release"] = late["release"] - 1
          BY <2>14, <3>3, <4>1, <4>5, SMTT(20) DEF ServeLate
        <5> QED
          BY <4>1, <4>2, <4>3, <4>6, <4>7, <5>1, <5>2, SMTT(20)
      <4> QED
        BY <3>3, <4>4, <4>5
    <3> QED
      BY <3>2, <3>3
  <2>15. CASE UNCHANGED vars
    <3>1. \A c \in Cpu : Requesting(c)' = Requesting(c)
      BY <2>15, SMTT(20) DEF vars, Requesting
    <3> QED
      BY <2>a, <2>15, <3>1, SMTT(20) DEF vars
  <2>16. ASSUME NEW c \in Cpu, OtherOverdue(c) PROVE CountInv'
    <3>1. \A d \in Cpu : Requesting(d)' = Requesting(d)
      BY <2>16 DEF OtherOverdue, Requesting
    <3> QED
      BY <2>a, <2>16, <3>1, SMTT(20) DEF OtherOverdue
  <2> HIDE DEF CountInv
  <2> QED
    BY <2>y, <2>1, <2>2, <2>3, <2>4, <2>5, <2>6, <2>7, <2>8, <2>9, <2>10, <2>11, <2>12,
       <2>13, <2>14, <2>15, <2>16, Zenon DEF Next, Run, Proceed, Mixed
<1> QED
  BY <1>1, <1>2, LockTypeCorrect, PTL DEF Spec

\* The server counts every task from its request to its release, once and on the right
\* CPU, whatever waits time out; a call that fails never makes it forget the request of
\* another task.  This is so until calls are mixed up.
THEOREM CountsMatchCorrect == Spec => []CountsMatch
<1>1. CountInv => CountsMatch
  BY DEF CountInv, CountsMatch
<1> QED
  BY <1>1, CountInvCorrect, PTL

(***************************************************************************)
(* The way of the right                                                    *)
(***************************************************************************)
\* Calls are mixed up only after a call has failed.
MixedLate == /\ (\E c \in Cpu : overdue[c]) => lost > 0
             /\ mixed > 0 => lost > 0

\* Every action keeps it so: only a call that fails is overdue, and only after one that
\* is overdue do calls of its CPU take the answers or the arguments of others.
LEMMA MixedLateCorrect == Spec => []MixedLate
<1>1. Init => MixedLate
  BY DEF Init, MixedLate
<1>2. MixedLate /\ TypeOK /\ [Next]_vars => MixedLate'
  <2> SUFFICES ASSUME MixedLate, TypeOK, [Next]_vars PROVE MixedLate'
    OBVIOUS
  <2>0. lost \in Nat
    BY LockConstants DEF TypeOK
  <2> DEFINE Fails == \E c \in Cpu, k \in Call : ipc_send_cmd_fails(c, k)
             Mixes == \E c \in Cpu, k \in Call : ipc_send_cmd_mixed(c, k)
  <2>1. ASSUME Fails \/ \E c \in Cpu : OtherOverdue(c) PROVE lost' = lost + 1
    BY <2>1, Zenon DEF ipc_send_cmd_fails, OtherOverdue
  <2>2. ASSUME Mixes \/ \E c \in Cpu : OtherOverwritten(c)
        PROVE  lost > 0 /\ lost' = lost
    BY <2>2, Zenon DEF ipc_send_cmd_mixed, OtherOverwritten, MixedLate
  <2>3. ASSUME ~Fails, ~Mixes, \A c \in Cpu : ~OtherOverdue(c) /\ ~OtherOverwritten(c)
        PROVE  UNCHANGED <<overdue, lost, mixed>>
    <3>1. "AP" \in Cpu /\ "acquire" \in Call /\ "release" \in Call
      BY DEF Cpu, Call
    <3>2. \A t \in Task : CpuOf[t] \in Cpu /\ Other(CpuOf[t]) \in Call
      BY LockConstants DEF Other, Cpu, Call
    <3>3. \A c \in Cpu, k \in Call : ~ipc_send_cmd_fails(c, k) /\ ~ipc_send_cmd_mixed(c, k)
      BY <2>3, Zenon
    <3>4. \A t \in Task : /\ ~AcquireFails(t) /\ ~AcquireMixed(t) /\ ~UndoFails(t) /\ ~UndoMixed(t)
                          /\ ~ReleaseFails(t) /\ ~ReleaseMixed(t)
      BY <3>1, <3>3, Zenon
      DEF AcquireFails, AcquireMixed, UndoFails, UndoMixed, ReleaseFails, ReleaseMixed
    <3>5. \A t \in Task : ipc_send_available_ind(t) => UNCHANGED <<overdue, lost, mixed>>
      BY <3>2, <3>3, Zenon DEF ipc_send_available_ind, ipcVars
    <3> QED
      BY <2>3, <3>4, <3>5, Zenon
      DEF Next, Run, Proceed, vars, ipcVars, amp_res_lock_init, amp_res_lock_acquire, AcquireCnt,
          SetFree, rtos_get_semaphore, Timeout, Undo, ClearSemaphore, amp_res_lock_release,
          ReleaseCnt, Unblock, ServeLate
  <2> HIDE DEF Fails, Mixes
  <2>4. lost' > 0 \/ UNCHANGED <<overdue, lost, mixed>>
    BY <2>0, <2>1, <2>2, <2>3
  <2> QED
    BY <2>4 DEF MixedLate
<1> QED
  BY <1>1, <1>2, LockTypeCorrect, PTL DEF Spec

\* A CPU whose requests are counted while a task passes the right on has a waiting task:
\* the counts are the tasks that ask, and none of those has the right.
LEMMA SomebodyWaits ==
    ASSUME LockInv, CountInv, lost = 0, mixed = 0, NEW c \in Cpu, req_cnt[c] > 0,
           NEW t \in Task, pc[t] \in {"unblock", "inform"}
    PROVE  \E u \in Task : u /= t /\ CpuOf[u] = c /\ pc[u] = "wait"
<1>1. Cardinality(Requesting(c)) > 0
  <2>1. late["release"] = 0
    BY DEF CountInv, Call
  <2>2. Cardinality(Requesting(c)) \in Nat
    BY RequestingFinite
  <2> QED
    BY <2>1, <2>2 DEF CountInv, CountsMatch
<1>2. Requesting(c) /= {}
  BY <1>1, FS_EmptySet
<1>3. PICK u \in Task : CpuOf[u] = c /\ pc[u] \in Asking
  BY <1>2 DEF Requesting, Asking
<1>4. Permit(t) /\ (Permit(u) => u = t)
  BY DEF LockInv, OneRight, Permit
<1>5. pc[u] /= "undo" /\ u /= t
  BY <1>3 DEF LockInv, Patient, Asking
<1> QED
  BY <1>3, <1>4, <1>5 DEF Permit, Asking

\* A task that passes the right on does so to a CPU with a counted request.
LEMMA PasserCounted ==
    ASSUME LockInv, NEW t \in Task
    PROVE  /\ pc[t] = "unblock" => req_cnt[CpuOf[t]] > 0
           /\ pc[t] = "inform" => req_cnt[Other(CpuOf[t])] > 0
BY DEF LockInv, Counted, Permit

\* While requests are counted the right exists, and it is never handed to a CPU where
\* nobody waits: for any number of tasks, as long as no call between the CPUs has
\* failed and no wait has timed out.
THEOREM GrantKeptCorrect == Spec => []GrantKept
<1>1. Init => GrantKept
  BY DEF Init, GrantKept
<1>2. GrantKept /\ InvBeforeTimeout /\ CountInv /\ MixedLate' /\ TypeOK /\ TypeOK' /\ [Next]_vars
        => GrantKept'
  <2> SUFFICES ASSUME GrantKept, InvBeforeTimeout, CountInv, MixedLate', TypeOK, TypeOK', [Next]_vars,
                      lost' = 0, timeouts' = 0
               PROVE  GrantKept'
    BY DEF GrantKept
  <2>y. mixed' = 0
    BY DEF MixedLate, TypeOK
  <2>0. timeouts = 0 /\ mixed = 0 /\ LockInv /\ \A t \in Task : ~Timeout(t) /\ ~Mixed(t)
    BY <2>y, TimeoutsGrow, MixedGrows, Zenon DEF InvBeforeTimeout
  <2>z. \A c \in Cpu : ~OtherOverwritten(c) /\ \A k \in Call : ~ipc_send_cmd_mixed(c, k)
    BY <2>y, MixedGrows, Zenon
  <2>x. /\ \A c \in Cpu : ~OtherOverdue(c) /\ \A k \in Call : ~ipc_send_cmd_fails(c, k)
        /\ \A t \in Task : ~AcquireFails(t) /\ ~UndoFails(t) /\ ~ReleaseFails(t)
    <3>1. lost + 1 /= 0
      BY LockConstants DEF TypeOK
    <3>2. \A c \in Cpu : ~OtherOverdue(c) /\ \A k \in Call : ~ipc_send_cmd_fails(c, k)
      BY <3>1, Zenon DEF OtherOverdue, ipc_send_cmd_fails
    <3> QED
      BY <3>1, <3>2, Zenon DEF AcquireFails, UndoFails, ReleaseFails, ipc_send_cmd_fails
  <2>a. LockInv /\ mixed = 0 /\ timeouts = 0
    BY <2>0, SMTT(20)
  <2> USE LockConstants
  <2> USE DEF GrantKept, TypeOK, Goto, Permit, Cpu, ipcVars
  <2>1. ASSUME NEW c \in Cpu, amp_res_lock_init(c) PROVE GrantKept'
    <3>1. lost = 0
      BY <2>1 DEF amp_res_lock_init
    <3>2. res_sema[c] = 0
      <4>1. CASE c = "AP"
        BY <2>a, <2>1, <3>1, <4>1, SMTT(20) DEF amp_res_lock_init, CountInv
      <4>2. CASE c = "CP"
        BY <2>a, <2>1, <3>1, <4>2, SMTT(20) DEF amp_res_lock_init, LockInv, Counted
      <4> QED
        BY <4>1, <4>2, SMTT(20)
    <3>3. res_sema' = res_sema
      BY <2>1, <3>2, SMTT(20) DEF amp_res_lock_init
    <3> QED
      BY <2>a, <2>1, <3>1, <3>3, SMTT(20) DEF amp_res_lock_init
  <2>2. ASSUME NEW t \in Task, amp_res_lock_acquire(t) PROVE GrantKept'
    BY <2>a, <2>2 DEF amp_res_lock_acquire
  <2>3. ASSUME NEW t \in Task, AcquireCnt(t) PROVE GrantKept'
    BY <2>a, <2>3, SMTT(20) DEF AcquireCnt, amp_res_acquire_cnt
  <2>5. ASSUME NEW t \in Task, SetFree(t) PROVE GrantKept'
    BY <2>a, <2>5, SMTT(20) DEF SetFree, rtos_set_semaphore, LockInv, OneRight
  <2>6. ASSUME NEW t \in Task, rtos_get_semaphore(t) PROVE GrantKept'
    BY <2>a, <2>6, SMTT(20) DEF rtos_get_semaphore, LockInv, OneRight, Other
  <2>7. ASSUME NEW t \in Task, Undo(t) \/ ClearSemaphore(t) PROVE FALSE
    BY <2>a, <2>7, SMTT(20) DEF Undo, ClearSemaphore, LockInv, Patient
  <2>8. ASSUME NEW t \in Task, amp_res_lock_release(t) PROVE GrantKept'
    BY <2>a, <2>8, SMTT(20) DEF amp_res_lock_release
  <2>9. ASSUME NEW t \in Task, ReleaseCnt(t) PROVE GrantKept'
    <3>1. \A c \in Cpu : res_sema[c] = 0 /\ res_sema'[c] = 0
      BY <2>a, <2>9, SMTT(20) DEF ReleaseCnt, LockInv, OneRight
    <3>2. ~NothingToRelease(t)
      BY <2>a, <2>9 DEF ReleaseCnt, NothingToRelease, LockInv, Counted
    <3>3. (\E c \in Cpu : req_cnt'[c] > 0) => PassOn(t) \in {"unblock", "inform"}
      BY SMTT(20) DEF PassOn, Other
    <3> QED
      BY <2>9, <3>1, <3>2, <3>3, SMTT(20) DEF ReleaseCnt
  <2>10. ASSUME NEW t \in Task, Unblock(t) PROVE GrantKept'
    <3>1. lost = 0 /\ pc[t] = "unblock" /\ req_cnt[CpuOf[t]] > 0
      BY <2>a, <2>10, PasserCounted, SMTT(20) DEF Unblock
    <3>2. PICK u \in Task : u /= t /\ CpuOf[u] = CpuOf[t] /\ pc[u] = "wait"
      BY <2>a, <3>1, SomebodyWaits, SMTT(20)
    <3> QED
      BY <2>a, <2>10, <3>2, SMTT(20) DEF Unblock, rtos_set_semaphore, LockInv, OneRight
  <2>11. ASSUME NEW t \in Task, ipc_send_available_ind(t) PROVE GrantKept'
    <3>1. Other(CpuOf[t]) \in Cpu /\ Other(CpuOf[t]) \in Call
      BY DEF Other, Call
    <3>2. /\ ~ipc_send_cmd_mixed(CpuOf[t], Other(CpuOf[t]))
          /\ ~ipc_send_cmd_fails(CpuOf[t], Other(CpuOf[t]))
      BY <2>x, <2>z, <3>1, SMTT(20)
    <3>3. lost = 0 /\ pc[t] = "inform" /\ amp_res_available(Other(CpuOf[t]))
      BY <2>11, <3>2, SMTT(20) DEF ipc_send_available_ind
    <3>4. req_cnt[Other(CpuOf[t])] > 0
      BY <2>a, <3>3, PasserCounted, SMTT(20)
    <3>5. PICK u \in Task : u /= t /\ CpuOf[u] = Other(CpuOf[t]) /\ pc[u] = "wait"
      BY <2>a, <3>1, <3>3, <3>4, SomebodyWaits, SMTT(20)
    <3>6. inited[Other(CpuOf[t])]
      BY <2>a, <3>5 DEF CountInv
    <3> QED
      BY <2>a, <2>11, <3>1, <3>3, <3>5, <3>6, SMTT(20)
      DEF ipc_send_available_ind, amp_res_available, LockInv, OneRight
  <2>12. ASSUME NEW k \in Call, ServeLate(k) PROVE FALSE
    BY <2>a, <2>12, SMTT(20) DEF ServeLate, CountInv
  <2>13. CASE UNCHANGED vars
    BY <2>a, <2>13 DEF vars
  <2> HIDE DEF GrantKept
  <2> QED
    BY <2>0, <2>x, <2>z, <2>1, <2>2, <2>3, <2>5, <2>6, <2>7, <2>8, <2>9, <2>10, <2>11, <2>12,
       <2>13, Zenon DEF Next, Run, Proceed, Mixed
<1> QED
  BY <1>1, <1>2, LockTypeCorrect, LockInvCorrect, CountInvCorrect, MixedLateCorrect, PTL DEF Spec
=============================================================================
