------------------------- MODULE RhinoKernelProofs --------------------------
(***************************************************************************)
(* What holds of the kernel for every set of tasks, semaphores and mutexes *)
(* and every value of the other constants: the invariants IInv and KInv,   *)
(* and the properties that follow from them.                               *)
(***************************************************************************)
EXTENDS RhinoStepProofs, RhinoPriorityProofs, WellFoundedInduction

USE ZenonT(60)

\* The hypothesis of the lemmas on lists.
LEMMA NaturalsAreWellOrdered == NatLeast
<1> SUFFICES ASSUME NEW S \in SUBSET Nat, S # {} PROVE \E x \in S : \A y \in S : x <= y
  BY DEF NatLeast
<1>1. PICK x \in S : \A y \in S : ~(<<y, x>> \in OpToRel(<, Nat))
  BY NatLessThanWellFounded, WFMin
<1>2. ASSUME NEW y \in S PROVE x <= y
  <2>1. y < x => <<y, x>> \in OpToRel(<, Nat)
    BY DEF OpToRel
  <2>2. ~(y < x)
    BY <1>1, <2>1
  <2> QED BY <2>2, SMTT(60)
<1> QED BY <1>2

\* Every step of the kernel preserves its invariant.
LEMMA IInvStep == IInv /\ Next => IInv'
<1> SUFFICES ASSUME NatLeast, IInv, Next PROVE IInv'
  BY NaturalsAreWellOrdered
<1>1. ListPart'
  BY ListStep
<1>2. StateTypes' /\ PrioOK(prio') /\ PrioOK(b_prio') /\ CpuTypes'
  BY StateTypesStep, PrioStep, CpuTypesStep
<1>3. OwnerTypes' /\ MutexLinks(mutex_list') /\ OwnerInv'
  BY <1>1, OwnerInvStep
<1>4. KcallType(kcall') /\ ChgInv' /\ resched' \subseteq Tasks
  BY <1>1, KcallTypeStep, ChgStep, ReschedStep
<1>5. count' \in [Sems -> 0..SEM_MAX] /\ NoWaiterWithCount'
  BY <1>1, CountStep
<1>6. /\ pri_req' \in [Tasks -> Chg] /\ suspend_count' \in [Tasks -> 0..SUSPEND_MAX]
      /\ g_tick_count' \in 0..(TICK_MODULUS - 1)
  BY PriReqStep, CounterStep
<1>7. TypeOK'
  BY <1>1, <1>2, <1>3, <1>4, <1>5, <1>6 DEF TypeOK, ListPart, ReadyPart, BlkPart, TickPart, StateTypes, PrioOK,
     CpuTypes, OwnerTypes, MutexLinks, KcallType, ChgInv
<1>8. ListInv'
  <2>1. ListsMatchState' /\ HighestPriIsFirst' /\ WaitersSorted'
        /\ \A t \in Tasks : Pending(t)' => blk_obj'[t] \in Objs
    BY <1>1 DEF ListPart, ReadyPart, BlkPart, TickPart, ListsMatchState
  <2>2. \A o \in Objs : ~obj_type'[o] /\ blk_list'[o] # <<>> => kcall'.pc = "del" /\ kcall'.obj = o
    BY <1>1, DeadStep
  <2> QED BY <2>1, <2>2 DEF ListInv, Pending
<1>9. LoopInv'
  BY <1>4, LoopStep
<1>10. RunInv'
  <2>1. g_active_task \in Tasks
    BY DEF IInv, TypeOK
  <2>2. ActiveStops
    BY <2>1, ReadyStays DEF ActiveStops
  <2> QED BY <2>2, RunStep
<1>11. IdleInv' /\ SuspendInv'
  BY IdleStep, SuspendStep
<1> QED BY <1>3, <1>7, <1>8, <1>5, <1>9, <1>10, <1>11 DEF IInv

-----------------------------------------------------------------------------
(* The invariant.                                                           *)

\* IInv holds between any two steps of the kernel, those of its loops included.
THEOREM Invariance == Spec => []IInv
<1>1. IInv /\ [Next]_vars => IInv'
  BY IInvStep, IInvStutter
<1>2. Init => IInv
  BY InitIInv, NaturalsAreWellOrdered
<1> QED BY <1>1, <1>2, PTL DEF Spec

\* Every step preserves each part of KInv, given IInv and the parts before it.
LEMMA KInvStep == KInv /\ IInv' /\ [Next]_vars => KInv'
<1> SUFFICES ASSUME NatLeast, KInv, IInv', [Next]_vars PROVE KInv'
  BY NaturalsAreWellOrdered
<1>1. IInv /\ PriorityInv /\ HighestInv /\ DeadlineInv /\ LockInv
  BY DEF KInv
<1>2. PriorityInv'
  BY <1>1, PriorityStep
<1>3. HighestInv'
  BY <1>1, HighestStep
<1>4. DeadlineInv'
  BY <1>1, DeadlineStep
<1>5. LockInv'
  BY <1>1, LockStep
<1> QED BY <1>2, <1>3, <1>4, <1>5 DEF KInv

\* Besides IInv, every task has the priority it inherits or is about to get it,
\* the right task runs, nobody is overdue on the tick list, and the results of
\* krhino_mutex_lock are right, between any two steps of the kernel.
THEOREM KernelInvariance == Spec => []KInv
<1>1. Init /\ IInv => KInv
  BY PriorityInit, HighestInit, DeadlineInit, LockInit DEF KInv
<1>2. KInv /\ IInv' /\ [Next]_vars => KInv'
  BY KInvStep
<1> QED BY <1>1, <1>2, Invariance, PTL DEF Spec

-----------------------------------------------------------------------------
(* The properties.                                                          *)

\* Every variable of the kernel stays in its type: no counter passes its
\* limit, no list holds anything but tasks, and tick counts wrap.
THEOREM TypeCorrect == Spec => []TypeOK
<1>1. IInv => TypeOK
  BY DEF IInv
<1> QED BY <1>1, Invariance, PTL

\* Each task is on exactly the ready list, waiting list and tick list that its
\* task_state, prio and blk_obj name.
THEOREM ListsMatchStateThm == Spec => []ListsMatchState
<1>1. IInv => ListsMatchState
  BY DEF IInv, ListInv
<1> QED BY <1>1, Invariance, PTL

\* The highest_pri that ready_list_add and ready_list_rm keep up to date is the
\* priority of the first non-empty ready list.
THEOREM HighestPriIsFirstThm == Spec => []HighestPriIsFirst
<1>1. IInv => HighestPriIsFirst
  BY DEF IInv, ListInv
<1> QED BY <1>1, Invariance, PTL

\* pend_list_add and pend_list_reorder keep every waiting list sorted by
\* current priority.
THEOREM WaitersSortedThm == Spec => []WaitersSorted
<1>1. IInv => WaitersSorted
  BY DEF IInv, ListInv
<1> QED BY <1>1, Invariance, PTL

\* A semaphore with a count has no waiters.
THEOREM NoWaiterWithCountThm == Spec => []NoWaiterWithCount
<1>1. IInv => NoWaiterWithCount
  BY DEF IInv
<1> QED BY <1>1, Invariance, PTL

\* Between calls the mutex_list of each live task holds exactly the mutexes it
\* owns; owners are alive, and task_pri_change never meets a deleted task.
THEOREM OwnersConsistentThm == Spec => []OwnersConsistent
<1>1. IInv => OwnersConsistent
  BY OwnersImplied
<1> QED BY <1>1, Invariance, PTL

\* A task that has locked the scheduler stays the active task until it unlocks
\* it, whatever the interrupt handlers wake up: core_sched and
\* krhino_intrpt_exit test the lock before they request a switch, and
\* krhino_sched_disable runs in a task, so after every switch requested before.
THEOREM SchedLockKeepsTaskThm == Spec => SchedLockKeepsTask
<1>1. IInv /\ [Next]_vars => [g_sched_lock > 0 => g_active_task' = g_active_task]_vars
  BY LockedKeepsTask
<1> QED BY <1>1, Invariance, PTL DEF Spec, SchedLockKeepsTask

\* Outside the kernel every live task has the highest of its base priority and
\* those of the tasks that wait for a mutex it owns, whatever chains of owners
\* task_pri_change followed and whichever waits timed out or were cut short.
THEOREM PriorityInheritedThm == Spec => []PriorityInherited
<1>1. KInv => PriorityInherited
  BY NaturalsAreWellOrdered, PriorityImplied DEF KInv
<1> QED BY <1>1, KernelInvariance, PTL

\* A task executes with the scheduler unlocked only while it is the first task
\* of the highest priority: no wake-up and no change of a priority goes without
\* the core_sched or krhino_intrpt_exit that acts on it.
THEOREM RunsHighestThm == Spec => []RunsHighest
<1>1. KInv => RunsHighest
  BY DEF KInv, HighestInv
<1> QED BY <1>1, KernelInvariance, PTL

\* tick_list_insert and tick_list_update keep the tick list sorted and wake
\* every task in time, across the wrap of g_tick_count.
THEOREM DeadlinesKeptThm == Spec => []DeadlinesKept
<1>1. KInv => DeadlinesKept
  BY DEF KInv, DeadlineInv
<1> QED BY <1>1, KernelInvariance, PTL

\* Unless mutexes are created anew while a task has not yet read the result of
\* its wait for the old one, krhino_mutex_lock reports success to exactly the
\* tasks that own the mutex.
THEOREM LockResultThm == "mutex_create" \notin Calls => (Spec => []LockResult)
<1> SUFFICES ASSUME "mutex_create" \notin Calls PROVE Spec => []LockResult
  OBVIOUS
<1>1. KInv => LockResult
  BY DEF KInv, LockInv, LockResult, Dying
<1> QED BY <1>1, KernelInvariance, PTL
=============================================================================
