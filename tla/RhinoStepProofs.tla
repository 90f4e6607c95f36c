-------------------------- MODULE RhinoStepProofs ---------------------------
(***************************************************************************)
(* Every step of the kernel preserves what IInv says of the states of      *)
(* tasks, of priorities, requests of task_pri_change, semaphores, the loops *)
(* of the kernel, the processor and deleted objects; and it keeps the ready *)
(* queue, the waiting lists and the tick list as the task states name them. *)
(***************************************************************************)
EXTENDS RhinoFacts

USE ZenonT(60)

\* The next state of a task that a step wakes up
Woken(u) == /\ u # Idle /\ task_state[u] # "K_RDY" /\ task_state'[u] \in {"K_RDY", "K_SUSPENDED"}
            /\ task_state'[u] = "K_SUSPENDED" => task_state[u] \in {"K_PEND_SUSPENDED", "K_SLEEP_SUSPENDED"}

\* Waking a waiter changes the state of no other task.
LEMMA WakingEffect ==
    ASSUME NatLeast, IInv, Waking, NEW u \in Tasks
    PROVE  task_state'[u] = task_state[u] \/ Woken(u)
<1>1. PICK o \in Objs, t \in Tasks, why \in BlkStates : Pending(t) /\ o = blk_obj[t] /\ PendTaskWake(o, t, why)
  BY DEF Waking
<1>2. /\ task_state'[t] \in {"K_RDY", "K_SUSPENDED"} /\ t # Idle
      /\ task_state'[t] = "K_SUSPENDED" => task_state[t] = "K_PEND_SUSPENDED"
      /\ \A x \in Tasks \ {t} : task_state'[x] = task_state[x]
  BY <1>1, Parts, PendTaskWakeEffect
<1> QED BY <1>1, <1>2 DEF Woken, Pending

\* tick_list_update wakes the first task of the tick list.
LEMMA TickEffect ==
    ASSUME NatLeast, IInv, TickStep, NEW u \in Tasks
    PROVE  task_state'[u] = task_state[u] \/ Woken(u)
<1>1. ListPart /\ TaskPart
  BY Parts
<1>2. CASE UNCHANGED task_state
  BY <1>2
<1>3. CASE ~UNCHANGED task_state
  <2>1. tick_list # <<>> /\ tick_list \in Seq(Tasks) /\ TickDue
    BY <1>1, <1>3 DEF TickStep, TickDue, ListPart, TickPart
  <2>2. PICK t \in Tasks : t = Head(tick_list)
    BY <2>1, SMTT(60)
  <2>3. CASE Pending(t)
    <3>1. PendTaskWake(blk_obj[t], t, "BLK_TIMEOUT") /\ blk_obj[t] \in Objs
      BY <1>1, <2>1, <2>2, <2>3 DEF TickStep, Pending, Sleeping, ListPart, BlkPart
    <3>2. Waking
      BY <2>3, <3>1 DEF Waking, BlkStates
    <3> QED BY <3>2, WakingEffect
  <2>4. CASE ~Pending(t)
    <3>1. /\ Sleeping(t)
          /\ IF task_state[t] = "K_SLEEP"
             THEN task_state' = [task_state EXCEPT ![t] = "K_RDY"]
             ELSE task_state' = [task_state EXCEPT ![t] = "K_SUSPENDED"]
      BY <1>3, <2>1, <2>2, <2>4 DEF TickStep
    <3> QED BY <1>1, <3>1 DEF Sleeping, Woken, TaskPart, IdleInv
  <2> QED BY <2>3, <2>4
<1> QED BY <1>2, <1>3

\* The active task blocks.
BlockStep == \/ \E s \in Sems, w \in Waits : SemTake(s, w)
             \/ MutexLockPend \/ \E n \in Timeouts : TaskSleep(n)

\* A blocking call changes the state of its caller only, which was ready.
LEMMA BlockEffect ==
    ASSUME IInv, BlockStep
    PROVE  \/ UNCHANGED task_state
           \/ /\ g_active_task \in Tasks \ {Idle} /\ task_state[g_active_task] = "K_RDY"
              /\ task_state'[g_active_task] \in {"K_PEND", "K_SLEEP"}
              /\ \A u \in Tasks \ {g_active_task} : task_state'[u] = task_state[u]
              /\ g_sched_lock = 0 /\ g_active_task \in resched' /\ g_intrpt_nested_level = 0
<1>1. TaskPart
  BY Parts
<1>2. ASSUME NEW s \in Sems, NEW w \in Waits, SemTake(s, w), task_state' # task_state
      PROVE  /\ task_state' = [task_state EXCEPT ![g_active_task] = "K_PEND"] /\ ExitSched
             /\ g_sched_lock = 0 /\ TaskCall("sem_take")
  BY <1>2 DEF SemTake, PendToBlkObj
<1>3. ASSUME NEW n \in Timeouts, TaskSleep(n)
      PROVE  /\ task_state' = [task_state EXCEPT ![g_active_task] = "K_SLEEP"] /\ ExitSched
             /\ g_sched_lock = 0 /\ TaskCall("task_sleep")
  BY <1>3 DEF TaskSleep
<1>4. CASE MutexLockPend
  <2>1. /\ task_state' = [task_state EXCEPT ![g_active_task] = "K_PEND"] /\ ExitSched
        /\ g_sched_lock = 0 /\ g_active_task \in Tasks \ {Idle} /\ task_state[g_active_task] = "K_RDY"
        /\ g_intrpt_nested_level = 0
    BY <1>4 DEF MutexLockPend, PendToBlkObj, IInv, TypeOK, LoopInv
  <2> QED BY <1>1, <2>1 DEF TaskPart, ExitSched
<1> QED BY <1>1, <1>2, <1>3, <1>4, Caller DEF BlockStep, TaskPart, ExitSched

\* krhino_task_suspend, krhino_task_resume and task_create
StateCall(t) == TaskSuspend(t) \/ TaskResume(t) \/ \E autorun \in BOOLEAN : TaskCreate(t, autorun)

\* The other steps change no task_state.
LEMMA OtherSteps ==
    ASSUME IInv, Next, ~WakeStep, ~TickStep, ~BlockStep, ~TaskDelState, \A t \in Tasks : ~StateCall(t)
    PROVE  UNCHANGED <<task_state, suspend_count>>
<1>1. CASE SemNext
  BY <1>1 DEF SemNext, SemCreate, SemGiveAll, SemDel, SemCountSet, semUnchanged, WakeStep, BlockStep
<1>2. CASE MutexNext
  BY <1>2 DEF MutexNext, MutexCreate, MutexUnlock, MutexDel, MutexLock, mutexUnchanged
<1>3. CASE TaskNext
  BY <1>3 DEF TaskNext, TaskYield, TaskPriChange, TaskDel, TaskPriChangeCheck, StateCall, BlockStep
<1>4. CASE SchedNext
  BY <1>4 DEF SchedNext, SchedDisable, SchedEnable, CoreSched, PendSV, IntrptEnter, IntrptExit,
              PendReturn, Tick, schedUnchanged
<1>5. CASE KernelStep
  BY <1>5 DEF KernelStep, PriChangeStep, ExitStep, mutexUnchanged, WakeStep, BlockStep
<1> QED BY <1>1, <1>2, <1>3, <1>4, <1>5 DEF Next

\* krhino_task_suspend counts, and a task it suspends has a count.
LEMMA SuspendEffect ==
    ASSUME IInv, NEW t \in Tasks, TaskSuspend(t)
    PROVE  /\ t # Idle /\ (t = g_active_task => g_sched_lock = 0) /\ ExitSched
           /\ \/ UNCHANGED task_state /\ suspend_count' = [suspend_count EXCEPT ![t] = @ + 1]
                 /\ suspend_count[t] < SUSPEND_MAX
              \/ task_state'[t] \in {"K_SUSPENDED", "K_SLEEP_SUSPENDED", "K_PEND_SUSPENDED"}
                 /\ task_state[t] \in {"K_RDY", "K_SLEEP", "K_PEND"}
                 /\ suspend_count' = [suspend_count EXCEPT ![t] = 1]
           /\ \A u \in Tasks \ {t} : task_state'[u] = task_state[u]
<1>1. t # Idle /\ (t = g_active_task => g_sched_lock = 0) /\ ExitSched
  BY DEF TaskSuspend, IInv, IdleInv
<1>2. task_state \in [Tasks -> TaskStates]
  BY DEF IInv, TypeOK
<1>3. CASE task_state[t] \in DOMAIN ResumedTo
  <2>1. /\ UNCHANGED task_state /\ suspend_count' = [suspend_count EXCEPT ![t] = @ + 1]
        /\ suspend_count[t] < SUSPEND_MAX
    BY <1>3 DEF TaskSuspend, SuspendedFrom, ResumedTo
  <2> QED BY <1>1, <2>1
<1>4. CASE task_state[t] \notin DOMAIN ResumedTo
  <2>1. /\ task_state[t] \in DOMAIN SuspendedFrom
        /\ task_state' = [task_state EXCEPT ![t] = SuspendedFrom[task_state[t]]]
        /\ suspend_count' = [suspend_count EXCEPT ![t] = 1]
    BY <1>2, <1>4 DEF TaskSuspend
  <2>2. /\ SuspendedFrom[task_state[t]] \in {"K_SUSPENDED", "K_SLEEP_SUSPENDED", "K_PEND_SUSPENDED"}
        /\ task_state[t] \in {"K_RDY", "K_SLEEP", "K_PEND"}
    BY <2>1, SMTT(60) DEF SuspendedFrom
  <2> QED BY <1>1, <1>2, <2>1, <2>2
<1> QED BY <1>3, <1>4

\* krhino_task_resume lets a task go when its count reaches zero.
LEMMA ResumeEffect ==
    ASSUME IInv, NEW t \in Tasks, TaskResume(t)
    PROVE  /\ t # Idle /\ suspend_count' = [suspend_count EXCEPT ![t] = @ - 1]
           /\ suspend_count[t] > 0 /\ task_state[t] # "K_RDY"
           /\ task_state[t] \in DOMAIN ResumedTo
           /\ \/ UNCHANGED task_state /\ suspend_count[t] # 1
              \/ task_state'[t] \in {"K_RDY", "K_SLEEP", "K_PEND"}
           /\ \A u \in Tasks \ {t} : task_state'[u] = task_state[u]
<1>1. task_state \in [Tasks -> TaskStates]
  BY DEF IInv, TypeOK
<1>2. /\ task_state[t] \in DOMAIN ResumedTo /\ suspend_count[t] > 0
      /\ suspend_count' = [suspend_count EXCEPT ![t] = @ - 1]
      /\ \/ UNCHANGED task_state /\ suspend_count[t] # 1
         \/ task_state' = [task_state EXCEPT ![t] = ResumedTo[task_state[t]]]
  BY <1>1 DEF TaskResume, IInv, SuspendInv
<1>3. /\ ResumedTo[task_state[t]] \in {"K_RDY", "K_SLEEP", "K_PEND"} /\ task_state[t] # "K_RDY"
  BY <1>2, SMTT(60) DEF ResumedTo
<1>4. t # Idle
  BY <1>3 DEF IInv, IdleInv
<1> QED BY <1>1, <1>2, <1>3, <1>4

\* krhino_task_create starts a task ready with no count or suspended with
\* count one.
LEMMA CreateEffect ==
    ASSUME IInv, NEW t \in Tasks, NEW autorun \in BOOLEAN, TaskCreate(t, autorun)
    PROVE  /\ t # Idle /\ ~Alive(t) /\ task_state[t] # "K_RDY"
           /\ \/ task_state'[t] = "K_RDY" /\ suspend_count' = [suspend_count EXCEPT ![t] = 0]
              \/ task_state'[t] = "K_SUSPENDED" /\ suspend_count' = [suspend_count EXCEPT ![t] = 1]
           /\ \A u \in Tasks \ {t} : task_state'[u] = task_state[u]
BY DEF TaskCreate, IInv, TypeOK, IdleInv, Alive

\* krhino_task_del changes the state of no other task.
LEMMA DelEffect ==
    ASSUME IInv, TaskDelState
    PROVE  /\ kcall.task \in Tasks \ {Idle} /\ (kcall.task = g_active_task => g_sched_lock = 0)
           /\ Alive(kcall.task) /\ task_state'[kcall.task] = "K_DELETED" /\ UNCHANGED suspend_count
           /\ \A u \in Tasks \ {kcall.task} : task_state'[u] = task_state[u]
BY DEF TaskDelState, IInv, TypeOK, LoopInv

\* A task stops being ready only by a call of its own, krhino_task_suspend or
\* krhino_task_del; if it is the active task, the scheduler is not locked
\* and runs before the task does.
LEMMA ReadyStays ==
    ASSUME NatLeast, IInv, Next, NEW u \in Tasks, task_state[u] = "K_RDY", task_state'[u] # "K_RDY"
    PROVE  /\ u # Idle
           /\ u = g_active_task =>
               /\ g_sched_lock = 0
               /\ u \in resched' \/ g_intrpt_nested_level > 0 \/ kcall'.pc # "none"
<1>1. CASE WakeStep \/ TickStep
  BY <1>1, WakeSteps, WakingEffect, TickEffect DEF Woken
<1>2. CASE BlockStep
  BY <1>2, BlockEffect
<1>3. CASE TaskDelState
  BY <1>3, DelEffect DEF TaskDelState, KCall
<1>4. ASSUME NEW t \in Tasks, StateCall(t)
      PROVE  /\ u # Idle
             /\ u = g_active_task => g_sched_lock = 0 /\ (u \in resched' \/ g_intrpt_nested_level > 0)
  <2>1. CASE TaskSuspend(t)
    <3>1. u = t /\ u # Idle /\ (u = g_active_task => g_sched_lock = 0) /\ ExitSched
      BY <2>1, SuspendEffect
    <3>2. g_intrpt_nested_level = 0 \/ g_intrpt_nested_level > 0
      BY SMTT(60) DEF IInv, TypeOK
    <3> QED BY <3>1, <3>2 DEF ExitSched
  <2>2. CASE TaskResume(t)
    BY <2>2, ResumeEffect
  <2>3. CASE \E autorun \in BOOLEAN : TaskCreate(t, autorun)
    BY <2>3, CreateEffect
  <2> QED BY <1>4, <2>1, <2>2, <2>3 DEF StateCall
<1> QED BY <1>1, <1>2, <1>3, <1>4, OtherSteps

\* Every step preserves SuspendInv.
LEMMA SuspendStep ==
    ASSUME NatLeast, IInv, Next
    PROVE  SuspendInv'
<1> SUFFICES ASSUME NEW u \in Tasks, task_state'[u] \in DOMAIN ResumedTo
             PROVE  suspend_count'[u] > 0
  BY DEF SuspendInv
<1>1. DOMAIN ResumedTo = {"K_SUSPENDED", "K_SLEEP_SUSPENDED", "K_PEND_SUSPENDED"}
  BY DEF ResumedTo
<1>2. suspend_count \in [Tasks -> Nat] /\ (task_state[u] \in DOMAIN ResumedTo => suspend_count[u] > 0)
  <2>1. 0..SUSPEND_MAX \subseteq Nat
    BY SMTT(60)
  <2>2. suspend_count \in [Tasks -> 0..SUSPEND_MAX]
    BY DEF IInv, TypeOK
  <2> QED BY <2>1, <2>2 DEF IInv, SuspendInv
<1>3. CASE WakeStep \/ TickStep
  <2>1. UNCHANGED suspend_count
    BY <1>3 DEF WakeStep, SemGive, MutexHandOver, SemGiveAllStep, DelStep, WakeAllLoop, TaskMutexFree, TickStep,
                semUnchanged, mutexUnchanged
  <2>2. task_state'[u] = task_state[u] \/ Woken(u)
    BY <1>3, WakeSteps, WakingEffect, TickEffect
  <2> QED BY <1>1, <1>2, <2>1, <2>2 DEF Woken
<1>4. CASE BlockStep
  <2>1. UNCHANGED suspend_count
    BY <1>4 DEF BlockStep, SemTake, MutexLockPend, TaskSleep, semUnchanged, mutexUnchanged
  <2>2. task_state'[u] = task_state[u]
    BY <1>1, <1>4, BlockEffect
  <2> QED BY <1>2, <2>1, <2>2
<1>5. CASE TaskDelState
  BY <1>1, <1>2, <1>5, DelEffect
<1>6. ASSUME NEW t \in Tasks, StateCall(t) PROVE suspend_count'[u] > 0
  <2>1. CASE TaskSuspend(t)
    BY <1>2, <2>1, SuspendEffect, SMTT(60)
  <2>2. CASE TaskResume(t)
    <3>1. CASE u = t
      <4>1. UNCHANGED task_state /\ suspend_count[t] # 1 /\ suspend_count[t] > 0
        BY <1>1, <2>2, <3>1, ResumeEffect
      <4> QED BY <1>2, <2>2, <3>1, <4>1, ResumeEffect, SMTT(60)
    <3>2. CASE u # t
      BY <1>2, <2>2, <3>2, ResumeEffect
    <3> QED BY <3>1, <3>2
  <2>3. CASE \E autorun \in BOOLEAN : TaskCreate(t, autorun)
    BY <1>1, <1>2, <2>3, CreateEffect, SMTT(60)
  <2> QED BY <1>6, <2>1, <2>2, <2>3 DEF StateCall
<1> QED BY <1>2, <1>3, <1>4, <1>5, <1>6, OtherSteps

-----------------------------------------------------------------------------
(* Priorities: IdleInv.                                                     *)

\* Only task_create, task_pri_change and krhino_task_pri_change write a priority.
LEMMA PrioSame ==
    ASSUME Next, ~PriChangeStep, ~TaskPriChange,
           \A t \in Tasks : \A autorun \in BOOLEAN : ~TaskCreate(t, autorun)
    PROVE  UNCHANGED <<prio, b_prio>>
<1>1. CASE SemNext
  BY <1>1 DEF SemNext, SemCreate, SemGive, SemGiveAll, SemDel, SemTake, SemCountSet, semUnchanged
<1>2. CASE MutexNext
  BY <1>2 DEF MutexNext, MutexCreate, MutexUnlock, MutexDel, MutexLock
<1>3. CASE TaskNext
  BY <1>3 DEF TaskNext, TaskYield, TaskSleep, TaskSuspend, TaskResume, TaskDel, TaskPriChangeCheck
<1>4. CASE SchedNext
  BY <1>4 DEF SchedNext, SchedDisable, SchedEnable, CoreSched, PendSV, IntrptEnter, IntrptExit,
              PendReturn, Tick, schedUnchanged
<1>5. CASE KernelStep
  BY <1>5 DEF KernelStep, MutexLockPend, MutexHandOver, SemGiveAllStep, DelStep, WakeAllLoop, TickStep,
              TaskMutexFree, TaskDelState, ExitStep, semUnchanged
<1> QED BY <1>1, <1>2, <1>3, <1>4, <1>5 DEF Next

\* The request of a krhino_task_pri_change whose checks passed
LEMMA PriReq ==
    ASSUME IInv, NEW t \in Tasks, pri_req[t] # NoChg
    PROVE  pri_req[t].task \in Tasks \ {Idle} /\ pri_req[t].pri \in LowPri
BY DEF IInv, TypeOK, Chg, IdleInv, LowPri

\* Only krhino_task_pri_change and krhino_task_del write a request.
LEMMA PriReqSame ==
    ASSUME Next, ~TaskPriChange, ~TaskDelState,
           \A t \in Tasks : \A p \in Prios : ~TaskPriChangeCheck(t, p)
    PROVE  UNCHANGED pri_req
<1>1. CASE SemNext
  BY <1>1 DEF SemNext, SemCreate, SemGive, SemGiveAll, SemDel, SemTake, SemCountSet, semUnchanged
<1>2. CASE MutexNext
  BY <1>2 DEF MutexNext, MutexCreate, MutexUnlock, MutexDel, MutexLock, mutexUnchanged
<1>3. CASE TaskNext
  BY <1>3 DEF TaskNext, TaskYield, TaskSleep, TaskSuspend, TaskResume, TaskDel, TaskCreate
<1>4. CASE SchedNext
  BY <1>4 DEF SchedNext, SchedDisable, SchedEnable, CoreSched, PendSV, IntrptEnter, IntrptExit,
              PendReturn, Tick, schedUnchanged
<1>5. CASE KernelStep
  BY <1>5 DEF KernelStep, PriChangeStep, MutexLockPend, MutexHandOver, SemGiveAllStep, DelStep, WakeAllLoop,
              TickStep, TaskMutexFree, ExitStep, semUnchanged, mutexUnchanged
<1> QED BY <1>1, <1>2, <1>3, <1>4, <1>5 DEF Next

\* A priority array in which the idle task alone has its priority
PrioOK(pr) == pr \in [Tasks -> Pri] /\ \A t \in Tasks : pr[t] = RHINO_IDLE_PRI <=> t = Idle

\* A priority above the idle one can be given to any task but the idle one.
LEMMA PrioOKSet ==
    ASSUME NEW pr, PrioOK(pr), NEW t \in Tasks \ {Idle}, NEW p \in LowPri
    PROVE  PrioOK([pr EXCEPT ![t] = p])
BY DEF PrioOK, LowPri

\* Every step keeps the idle priority for the idle task.
LEMMA PrioStep ==
    ASSUME IInv, Next
    PROVE  PrioOK(prio') /\ PrioOK(b_prio')
<1>1. PrioOK(prio) /\ PrioOK(b_prio)
  BY DEF IInv, TypeOK, IdleInv, PrioOK
<1>2. CASE PriChangeStep
  <2>1. chg.task \in Tasks \ {Idle} /\ chg.pri \in LowPri /\ Alive(chg.task)
    BY <1>2, ChgTask DEF PriChangeStep, LowPri
  <2>2. prio' = [prio EXCEPT ![chg.task] = chg.pri] /\ b_prio' = b_prio
    BY <1>2, <2>1 DEF PriChangeStep
  <2> QED BY <1>1, <2>1, <2>2, PrioOKSet
<1>3. CASE TaskPriChange
  <2>1. PICK a \in Tasks : a = g_active_task
    BY DEF IInv, TypeOK
  <2>2. PICK t \in Tasks \ {Idle} : t = pri_req[a].task
    BY <1>3, <2>1, PriReq DEF TaskPriChange
  <2>3. PICK p \in LowPri : p = pri_req[a].pri
    BY <1>3, <2>1, PriReq DEF TaskPriChange
  <2>4. prio' = prio /\ b_prio' = [b_prio EXCEPT ![t] = p]
    BY <1>3, <2>1, <2>2, <2>3 DEF TaskPriChange
  <2> QED BY <1>1, <2>4, PrioOKSet
<1>4. ASSUME NEW t \in Tasks, NEW autorun \in BOOLEAN, TaskCreate(t, autorun)
      PROVE  PrioOK(prio') /\ PrioOK(b_prio')
  <2>1. t \in Tasks \ {Idle} /\ InitPrio[t] \in LowPri
    BY <1>4, CreateEffect, ApplicationAssumption DEF LowPri
  <2>2. prio' = [prio EXCEPT ![t] = InitPrio[t]] /\ b_prio' = [b_prio EXCEPT ![t] = InitPrio[t]]
    BY <1>4 DEF TaskCreate
  <2> QED BY <1>1, <2>1, <2>2, PrioOKSet
<1> QED BY <1>1, <1>2, <1>3, <1>4, PrioSame

\* A request to change a priority names neither the idle task nor its priority.
LEMMA PriReqStep ==
    ASSUME IInv, Next
    PROVE  /\ pri_req' \in [Tasks -> Chg]
           /\ \A t \in Tasks : pri_req'[t] # NoChg => pri_req'[t].task # Idle /\ pri_req'[t].pri # RHINO_IDLE_PRI
<1>1. /\ pri_req \in [Tasks -> Chg] /\ NoChg \in Chg
      /\ \A t \in Tasks : pri_req[t] # NoChg => pri_req[t].task # Idle /\ pri_req[t].pri # RHINO_IDLE_PRI
  BY DEF IInv, TypeOK, IdleInv, Chg
<1>2. CASE TaskPriChange \/ TaskDelState
  <2>1. \E a : pri_req' = [pri_req EXCEPT ![a] = NoChg]
    BY <1>2 DEF TaskPriChange, TaskDelState
  <2> HIDE DEF NoChg
  <2> QED BY <1>1, <2>1
<1>3. ASSUME NEW u \in Tasks, NEW p \in Prios, TaskPriChangeCheck(u, p)
      PROVE  /\ pri_req' \in [Tasks -> Chg]
             /\ \A t \in Tasks : pri_req'[t] # NoChg => pri_req'[t].task # Idle /\ pri_req'[t].pri # RHINO_IDLE_PRI
  <2>1. u # Idle /\ p \in LowPri
    <3>1. p \in Pri /\ p # RHINO_IDLE_PRI
      BY ApplicationAssumption, BoundAssumption, SMTT(60) DEF Pri, RHINO_IDLE_PRI
    <3>2. prio[Idle] = RHINO_IDLE_PRI /\ RHINO_IDLE_PRI \in Int
      BY TaskAssumption, BoundAssumption, SMTT(60) DEF IInv, IdleInv, RHINO_IDLE_PRI
    <3> QED BY <1>3, <3>1, <3>2, SMTT(60) DEF TaskPriChangeCheck, LowPri
  <2>2. ChgOf(ChgTo(u, p), u)
    BY <2>1 DEF ChgOf
  <2>3. ChgTo(u, p) \in Chg /\ ChgTo(u, p).task = u /\ ChgTo(u, p).pri # RHINO_IDLE_PRI
    BY <2>2, ChgOfChg
  <2>4. pri_req' = [pri_req EXCEPT ![g_active_task] = ChgTo(u, p)]
    BY <1>3 DEF TaskPriChangeCheck
  <2> QED BY <1>1, <2>1, <2>3, <2>4
<1> QED BY <1>1, <1>2, <1>3, PriReqSame

\* Every step preserves IdleInv.
LEMMA IdleStep ==
    ASSUME NatLeast, IInv, Next
    PROVE  IdleInv'
<1>1. task_state'[Idle] = "K_RDY"
  BY ReadyStays, TaskAssumption DEF IInv, IdleInv
<1> QED BY <1>1, PrioStep, PriReqStep DEF IdleInv, PrioOK

-----------------------------------------------------------------------------
(* Semaphores: NoWaiterWithCount.                                           *)

\* Only k_sem.c writes a count.
LEMMA CountSame ==
    ASSUME Next, ~SemNext
    PROVE  UNCHANGED count
<1>1. CASE MutexNext
  BY <1>1 DEF MutexNext, MutexCreate, MutexUnlock, MutexDel, MutexLock, mutexUnchanged
<1>2. CASE TaskNext
  BY <1>2 DEF TaskNext, TaskYield, TaskSleep, TaskSuspend, TaskResume, TaskDel, TaskCreate,
              TaskPriChange, TaskPriChangeCheck, objVars
<1>3. CASE SchedNext
  BY <1>3 DEF SchedNext, SchedDisable, SchedEnable, CoreSched, PendSV, IntrptEnter, IntrptExit,
              PendReturn, Tick, schedUnchanged, objVars
<1>4. CASE KernelStep
  BY <1>4 DEF KernelStep, PriChangeStep, MutexLockPend, MutexHandOver, SemGiveAllStep, DelStep, WakeAllLoop,
              TickStep, TaskMutexFree, TaskDelState, ExitStep, mutexUnchanged, objVars
<1> QED BY <1>1, <1>2, <1>3, <1>4 DEF Next

\* Every step keeps counts in range and waiters away from a semaphore with a
\* count.
LEMMA CountStep ==
    ASSUME NatLeast, IInv, Next, ListPart'
    PROVE  count' \in [Sems -> 0..SEM_MAX] /\ NoWaiterWithCount'
<1>1. count \in [Sems -> 0..SEM_MAX] /\ NoWaiterWithCount /\ InitCount \in 0..SEM_MAX /\ SEM_MAX \in Nat
  BY ApplicationAssumption, BoundAssumption DEF IInv, TypeOK
<1>2. CASE ~SemNext
  <2>1. count' = count
    BY <1>2, CountSame
  <2>2. ASSUME NEW s \in Sems, count[s] > 0, blk_list'[s] # <<>> PROVE FALSE
    <3>1. blk_list[s] = <<>> /\ s \in Objs /\ s \notin Mutexes
      BY <1>1, <2>2, TaskAssumption DEF NoWaiterWithCount, Objs
    <3>2. Blocking(s)
      BY <2>2, <3>1, OldWaiters
    <3> QED BY <1>1, <2>2, <3>1, <3>2, SMTT(60) DEF Blocking, MutexLockPend, IInv, LoopInv
  <2> QED BY <1>1, <2>1, <2>2 DEF NoWaiterWithCount
<1>3. CASE SemNext
  <2>1. PICK s \in Sems : \/ SemCreate(s) \/ SemGive(s) \/ SemGiveAll(s) \/ SemDel(s)
                          \/ \E w \in Waits : SemTake(s, w)
                          \/ \E n \in 0..SEM_MAX : SemCountSet(s, n)
    BY <1>3 DEF SemNext
  <2>2. /\ count' \in [Sems -> 0..SEM_MAX] /\ \A x \in Sems \ {s} : count'[x] = count[x]
        /\ ~SemCreate(s) /\ count'[s] > 0 => count[s] > 0 \/ blk_list[s] = <<>>
    <3>1. CASE SemCreate(s)
      BY <1>1, <3>1 DEF SemCreate
    <3>2. CASE SemGive(s) \/ SemGiveAll(s) \/ SemDel(s)
      BY <1>1, <3>2, SMTT(60) DEF SemGive, SemGiveAll, SemDel
    <3>3. ASSUME NEW w \in Waits, SemTake(s, w)
          PROVE  /\ count' \in [Sems -> 0..SEM_MAX] /\ \A x \in Sems \ {s} : count'[x] = count[x]
                 /\ count'[s] > 0 => count[s] > 0 \/ blk_list[s] = <<>>
      BY <1>1, <3>3, SMTT(60) DEF SemTake
    <3>4. ASSUME NEW n \in 0..SEM_MAX, SemCountSet(s, n)
          PROVE  /\ count' \in [Sems -> 0..SEM_MAX] /\ \A x \in Sems \ {s} : count'[x] = count[x]
                 /\ count'[s] > 0 => count[s] > 0 \/ blk_list[s] = <<>>
      BY <1>1, <3>4 DEF SemCountSet
    <3> QED BY <2>1, <3>1, <3>2, <3>3, <3>4
  <2>3. ASSUME SemCreate(s) PROVE blk_list[s] = <<>>
    <3>1. ~obj_type[s] /\ kcall.pc = "none"
      BY <2>3, Caller DEF SemCreate
    <3> QED BY <3>1 DEF IInv, ListInv, Objs
  <2>4. ASSUME NEW x \in Sems, count'[x] > 0, blk_list'[x] # <<>> PROVE FALSE
    <3>1. blk_list[x] = <<>> /\ x \in Objs /\ x \notin Mutexes
      BY <1>1, <2>2, <2>3, <2>4, TaskAssumption DEF NoWaiterWithCount, Objs
    <3>2. Blocking(x)
      BY <2>4, <3>1, OldWaiters
    <3> QED BY <1>1, <2>4, <3>1, <3>2, SMTT(60) DEF Blocking, MutexLockPend, IInv, LoopInv
  <2> QED BY <2>2, <2>4 DEF NoWaiterWithCount
<1> QED BY <1>2, <1>3

-----------------------------------------------------------------------------
(* The rest of the type invariant.                                          *)

StateTypes == /\ task_state \in [Tasks -> TaskStates] /\ blk_state \in [Tasks -> BlkStates]
              /\ call \in [Tasks -> Objs \cup {NONE}]

\* Every step keeps task_state, blk_state and call in their sets.
LEMMA StateTypesStep ==
    ASSUME IInv, Next
    PROVE  StateTypes'
<1>1. StateTypes
  BY DEF IInv, TypeOK, StateTypes
<1>2. CASE UNCHANGED <<task_state, blk_state, call>>
  BY <1>1, <1>2 DEF StateTypes
<1>3. CASE Waking
  <2>1. PICK o \in Objs, u \in Tasks, why \in BlkStates : PendTaskWake(o, u, why)
    BY <1>3 DEF Waking
  <2> QED BY <1>1, <2>1 DEF StateTypes, PendTaskWake, TaskStates
<1>4. ASSUME NEW o \in Objs, NEW w, PendToBlkObj(o, g_active_task, w) PROVE StateTypes'
  BY <1>1, <1>4 DEF StateTypes, PendToBlkObj, TaskStates
<1>5. CASE SemNext
  <2>1. CASE \E s \in Sems : SemGive(s)
    BY <1>2, <1>3, <2>1, WakeSteps DEF WakeStep, pendVars
  <2>2. ASSUME NEW s \in Sems, NEW w \in Waits, SemTake(s, w) PROVE StateTypes'
    BY <1>2, <1>4, <2>2 DEF SemTake, pendVars, Objs
  <2> QED BY <1>2, <1>5, <2>1, <2>2 DEF SemNext, SemCreate, SemGiveAll, SemDel, SemCountSet, pendVars
<1>6. CASE MutexNext
  BY <1>2, <1>6 DEF MutexNext, MutexCreate, MutexUnlock, MutexDel, MutexLock, pendVars
<1>7. CASE TaskNext
  <2>1. ASSUME NEW n, TaskSleep(n) PROVE StateTypes'
    BY <1>1, <2>1 DEF StateTypes, TaskSleep, pendVars, TaskStates
  <2>2. ASSUME NEW t \in Tasks, TaskSuspend(t) PROVE StateTypes'
    BY <1>1, <2>2, SMTT(60) DEF StateTypes, TaskSuspend, pendVars, TaskStates, SuspendedFrom
  <2>3. ASSUME NEW t \in Tasks, TaskResume(t) PROVE StateTypes'
    BY <1>1, <2>3, SMTT(60) DEF StateTypes, TaskResume, pendVars, TaskStates, ResumedTo
  <2>4. ASSUME NEW t \in Tasks, NEW a, TaskCreate(t, a) PROVE StateTypes'
    BY <1>1, <2>4 DEF StateTypes, TaskCreate, TaskStates
  <2>5. CASE TaskYield \/ TaskPriChange
    BY <1>2, <2>5 DEF TaskYield, TaskPriChange, pendVars
  <2>6. ASSUME NEW t \in Tasks, NEW p, TaskDel(t) \/ TaskPriChangeCheck(t, p) PROVE StateTypes'
    BY <1>2, <2>6 DEF TaskDel, TaskPriChangeCheck, pendVars
  <2> QED BY <1>7, <2>1, <2>2, <2>3, <2>4, <2>5, <2>6 DEF TaskNext
<1>8. CASE SchedNext
  <2>1. CASE PendReturn
    <3>1. g_active_task \in Tasks /\ "BLK_FINISH" \in BlkStates
      BY DEF IInv, TypeOK, BlkStates
    <3> QED BY <1>1, <2>1, <3>1 DEF StateTypes, PendReturn
  <2> QED BY <1>2, <1>8, <2>1 DEF SchedNext, SchedDisable, SchedEnable, CoreSched, PendSV, IntrptEnter,
              IntrptExit, Tick, schedUnchanged, pendVars
<1>9. CASE KernelStep
  <2>1. CASE WakeStep
    BY <1>2, <1>3, <2>1, WakeSteps DEF pendVars
  <2>2. CASE MutexLockPend
    BY <1>4, <2>2 DEF MutexLockPend, IInv, LoopInv, Objs
  <2>3. CASE TaskDelState
    BY <1>1, <2>3 DEF StateTypes, TaskDelState, TaskStates, BlkStates
  <2>4. CASE TickStep
    <3>1. CASE ~TickDue
      BY <1>2, <2>4, <3>1 DEF TickStep, pendVars
    <3>2. CASE TickDue /\ Sleeping(Head(tick_list)) /\ ~Pending(Head(tick_list))
      BY <1>1, <2>4, <3>2 DEF TickStep, StateTypes, TaskStates, pendVars
    <3>3. CASE TickDue /\ Pending(Head(tick_list))
      <4>0. tick_list # <<>> /\ tick_list \in Seq(Tasks)
        BY <3>3 DEF TickDue, IInv, TypeOK
      <4>1. PICK t \in Tasks : t = Head(tick_list)
        BY <4>0, SMTT(60)
      <4>2. blk_obj[t] \in Objs /\ ~Sleeping(t) /\ "BLK_TIMEOUT" \in BlkStates
        BY <3>3, <4>1 DEF IInv, ListInv, Pending, Sleeping, BlkStates
      <4>3. PendTaskWake(blk_obj[t], t, "BLK_TIMEOUT")
        BY <2>4, <3>3, <4>1, <4>2 DEF TickStep
      <4> QED BY <1>3, <3>3, <4>1, <4>2, <4>3 DEF Waking
    <3> QED BY <2>4, <3>1, <3>2, <3>3 DEF TickStep
  <2>5. CASE PriChangeStep \/ ExitStep
    BY <1>2, <2>5 DEF PriChangeStep, ExitStep, pendVars
  <2> QED BY <1>9, <2>1, <2>2, <2>3, <2>4, <2>5 DEF KernelStep, WakeStep
<1> QED BY <1>5, <1>6, <1>7, <1>8, <1>9 DEF Next

\* suspend_count is written by three calls, g_tick_count by the tick.
LEMMA CounterStep ==
    ASSUME IInv, Next
    PROVE  suspend_count' \in [Tasks -> 0..SUSPEND_MAX] /\ g_tick_count' \in 0..(TICK_MODULUS - 1)
<1>1. /\ suspend_count \in [Tasks -> 0..SUSPEND_MAX] /\ g_tick_count \in 0..(TICK_MODULUS - 1)
      /\ SUSPEND_MAX \in Nat \ {0} /\ 1 \in 0..SUSPEND_MAX /\ 0 \in 0..SUSPEND_MAX
  BY BoundAssumption, SMTT(60) DEF IInv, TypeOK
<1>2. ASSUME NEW t \in Tasks, TaskSuspend(t)
      PROVE  suspend_count' \in [Tasks -> 0..SUSPEND_MAX] /\ UNCHANGED g_tick_count
  BY <1>1, <1>2, SMTT(60) DEF TaskSuspend
<1>3. ASSUME NEW t \in Tasks, TaskResume(t)
      PROVE  suspend_count' \in [Tasks -> 0..SUSPEND_MAX] /\ UNCHANGED g_tick_count
  <2>1. suspend_count[t] > 0
    BY <1>3 DEF TaskResume, IInv, SuspendInv
  <2>2. suspend_count[t] - 1 \in 0..SUSPEND_MAX
    BY <1>1, <2>1, SMTT(60)
  <2> QED BY <1>1, <1>3, <2>2 DEF TaskResume
<1>4. ASSUME NEW t \in Tasks, NEW a, TaskCreate(t, a)
      PROVE  suspend_count' \in [Tasks -> 0..SUSPEND_MAX] /\ UNCHANGED g_tick_count
  BY <1>1, <1>4 DEF TaskCreate
<1>5. CASE Tick
  <2>1. g_tick_count' \in 0..(TICK_MODULUS - 1)
    BY <1>1, <1>5, BoundAssumption, SMTT(60) DEF Tick
  <2> QED BY <1>1, <1>5, <2>1 DEF Tick
<1>6. ASSUME ~Tick, \A t \in Tasks : ~StateCall(t)
      PROVE  UNCHANGED <<suspend_count, g_tick_count>>
  <2>1. CASE SemNext
    BY <2>1 DEF SemNext, SemCreate, SemGive, SemTake, SemGiveAll, SemDel, SemCountSet, semUnchanged
  <2>2. CASE MutexNext
    BY <2>2 DEF MutexNext, MutexCreate, MutexUnlock, MutexDel, MutexLock, mutexUnchanged
  <2>3. CASE TaskNext
    BY <1>6, <2>3 DEF TaskNext, TaskYield, TaskSleep, TaskPriChange, TaskDel, TaskPriChangeCheck, StateCall
  <2>4. CASE SchedNext
    BY <1>6, <2>4 DEF SchedNext, SchedDisable, SchedEnable, CoreSched, PendSV, IntrptEnter, IntrptExit,
                PendReturn, schedUnchanged
  <2>5. CASE KernelStep
    BY <2>5 DEF KernelStep, PriChangeStep, MutexLockPend, MutexHandOver, SemGiveAllStep, DelStep, WakeAllLoop,
                TickStep, TaskMutexFree, TaskDelState, ExitStep, mutexUnchanged, semUnchanged
  <2> QED BY <2>1, <2>2, <2>3, <2>4, <2>5 DEF Next
<1> QED BY <1>1, <1>2, <1>3, <1>4, <1>5, <1>6 DEF StateCall

-----------------------------------------------------------------------------
(* The loops of the kernel, the processor and deleted objects.              *)

\* mutex_pri_look and mutex_pri_limit never return the idle task's priority.
LEMMA PriLookLow ==
    ASSUME NatLeast, NEW base \in LowPri, NEW ms \in Seq(Mutexes), NEW blk \in [Objs -> Seq(Tasks)],
           NEW pr \in [Tasks -> Pri]
    PROVE  PriLook(base, ms, blk, pr) \in LowPri
<1> DEFINE M == {x \in ToSet(ms) : blk[x] # <<>>}
           S == {base} \cup {pr[Head(blk[m])] : m \in M}
<1>1. ASSUME NEW m \in M PROVE pr[Head(blk[m])] \in Pri
  <2>1. m \in Objs /\ blk[m] # <<>>
    BY SMTT(60) DEF ToSet, Objs
  <2> HIDE DEF M
  <2>2. blk[m] \in Seq(Tasks)
    BY <2>1
  <2>3. Head(blk[m]) \in Tasks
    BY <2>1, <2>2, SMTT(60)
  <2> QED BY <2>3
<1>2. S \subseteq Pri /\ base \in S
  BY <1>1 DEF LowPri
<1>3. PriLook(base, ms, blk, pr) = Least(S)
  BY DEF PriLook
<1> HIDE DEF S
<1>4. S \subseteq Nat
  BY <1>2, BoundAssumption, SMTT(60) DEF Pri
<1>5. Least(S) \in S /\ Least(S) <= base
  BY <1>2, <1>4, MinNat
<1>6. Least(S) \in Pri /\ base \in Pri /\ base # RHINO_IDLE_PRI
  BY <1>2, <1>5 DEF LowPri
<1>7. Least(S) # RHINO_IDLE_PRI
  BY <1>5, <1>6, BoundAssumption, SMTT(60) DEF Pri, RHINO_IDLE_PRI
<1> QED BY <1>3, <1>6, <1>7 DEF LowPri

\* mutex_release
LEMMA ReleaseChg ==
    ASSUME NatLeast, IInv, NEW t \in Tasks \ {Idle}, NEW ml \in Seq(Mutexes), NEW blk \in [Objs -> Seq(Tasks)],
           Release(t, ml, blk) # NoChg
    PROVE  ChgOf(Release(t, ml, blk), t)
<1>1. b_prio[t] \in LowPri /\ prio \in [Tasks -> Pri]
  BY DEF IInv, TypeOK, IdleInv, LowPri
<1>2. PriLook(b_prio[t], ml, blk, prio) \in LowPri
  BY <1>1, PriLookLow
<1> QED BY <1>2 DEF Release, ChgOf

\* A mutex with a waiter has an owner that is alive and is not the waiter.
LEMMA OwnerOfWaiter ==
    ASSUME IInv, NEW t \in Tasks, Pending(t), blk_obj[t] \in Mutexes, obj_type[blk_obj[t]]
    PROVE  LET o == mutex_task[blk_obj[t]] IN o \in Tasks \ {Idle} /\ o # t /\ Alive(o)
<1> DEFINE m == blk_obj[t]
           o == mutex_task[m]
<1>1. m \in Objs /\ blk_list[m] \in Seq(Tasks) /\ Contains(blk_list[m], t)
  BY DEF Objs, IInv, TypeOK, ListInv, ListsMatchState, BlkLists
<1>2. blk_list[m] # <<>>
  BY <1>1, NotEmpty
<1>3. o # NONE /\ Alive(o) /\ o # Idle /\ ~Contains(blk_list[m], o) /\ o \in Tasks \cup {NONE}
  BY <1>2 DEF IInv, OwnerInv, TypeOK
<1> QED BY <1>1, <1>3

\* mutex_task_pri_reset
LEMMA PriResetChg ==
    ASSUME NatLeast, IInv, NEW t \in Tasks, Pending(t), PriReset(t, blk_obj[t]) # NoChg
    PROVE  \E o \in Tasks \ {Idle} : o # t /\ Alive(o) /\ ChgOf(PriReset(t, blk_obj[t]), o)
<1> DEFINE m == blk_obj[t]
           o == mutex_task[m]
           l == KlistRm(blk_list[m], t)
           blk == [blk_list EXCEPT ![m] = l]
<1>1. m \in Mutexes /\ obj_type[m] /\ m \in Objs
  BY DEF PriReset, Objs
<1>2. o \in Tasks \ {Idle} /\ o # t /\ Alive(o)
  BY <1>1, OwnerOfWaiter
<1>3. blk_list[m] \in Seq(Tasks) /\ NoDup(blk_list[m]) /\ blk_list \in [Objs -> Seq(Tasks)]
  BY <1>1 DEF IInv, TypeOK, ListInv, ListsMatchState, BlkLists
<1>4. l \in Seq(Tasks)
  BY <1>3, KlistRmMembers
<1>5. PriReset(t, m) = Release(o, mutex_list[o], blk)
  BY <1>1, <1>3 DEF PriReset
<1> HIDE DEF l
<1>6. blk \in [Objs -> Seq(Tasks)] /\ mutex_list[o] \in Seq(Mutexes)
  BY <1>2, <1>3, <1>4 DEF IInv, TypeOK
<1> HIDE DEF blk
<1>7. ChgOf(PriReset(t, m), o)
  BY <1>2, <1>5, <1>6, ReleaseChg
<1> QED BY <1>2, <1>7

\* task_pri_change goes on with the owner of the mutex its task waits for.
LEMMA ChgNextChg ==
    ASSUME NatLeast, IInv, PriChangeStep, blk_list' \in [Objs -> Seq(Tasks)], chg' # NoChg
    PROVE  \E o \in Tasks \ {Idle} : Alive(o) /\ ChgOf(chg', o)
<1>1. PICK t \in Tasks \ {Idle} : t = chg.task
  BY ChgTask DEF PriChangeStep
<1>2. PICK p \in LowPri : p = chg.pri
  BY ChgTask DEF PriChangeStep, LowPri
<1> DEFINE m == blk_obj[t]
           o == mutex_task[m]
           pr == [prio EXCEPT ![t] = p]
           new_pri == PriLook(b_prio[o], mutex_list[o], blk_list', pr)
<1>3. chg' = ChgOwner(t, p) /\ Pending(t)
  BY <1>1, <1>2 DEF PriChangeStep, ChgNext
<1>4. /\ m \in Mutexes /\ obj_type[m]
      /\ chg' \in {ChgTo(o, p), ChgTo(o, new_pri)}
  BY <1>3 DEF ChgOwner
<1>5. o \in Tasks \ {Idle} /\ Alive(o)
  BY <1>1, <1>3, <1>4, OwnerOfWaiter
<1>6. b_prio[o] \in LowPri /\ mutex_list[o] \in Seq(Mutexes) /\ pr \in [Tasks -> Pri]
  BY <1>5 DEF IInv, TypeOK, IdleInv, LowPri
<1> HIDE DEF pr
<1>7. new_pri \in LowPri
  BY <1>6, PriLookLow
<1> HIDE DEF new_pri
<1>8. ChgOf(chg', o)
  BY <1>4, <1>7 DEF ChgOf
<1> QED BY <1>5, <1>8

\* A loop starts a task_pri_change, or passes from one task to the next.
LEMMA ChgInvOf ==
    ASSUME NEW o \in Tasks \ {Idle}, ChgOf(chg', o), task_state'[o] \notin {"K_SEED", "K_DELETED"},
           kcall'.pc \in {"lock", "unlock", "del", "exit", "tick"}
    PROVE  ChgInv'
<1>1. chg' \in Chg /\ chg'.task = o /\ chg'.pri # RHINO_IDLE_PRI
  BY ChgOfChg
<1> QED BY <1>1 DEF ChgInv, Alive, Chg, NoChg, RHINO_IDLE_PRI

\* Only the steps that call task_pri_change set chg.
LEMMA ChgUnset ==
    ASSUME IInv, Next, ~PriChangeStep, ~TickStep, ~TaskDelState, ~TaskPriChange,
           \A m \in Mutexes : ~MutexUnlock(m) /\ ~MutexDel(m) /\ \A w \in Waits : ~MutexLock(m, w)
    PROVE  chg' = NoChg
<1>1. CASE SemNext
  BY <1>1, Caller, Handler DEF SemNext, SemCreate, SemGive, SemGiveAll, SemDel, SemTake, SemCountSet, semUnchanged
<1>2. CASE MutexNext
  BY <1>2, Caller DEF MutexNext, MutexCreate
<1>3. CASE TaskNext
  BY <1>3, Caller, Handler DEF TaskNext, TaskYield, TaskSleep, TaskSuspend, TaskResume, TaskDel,
                               TaskCreate, TaskPriChangeCheck
<1>4. CASE SchedNext
  <2>1. chg' = chg /\ kcall.pc = "none"
    BY <1>4 DEF SchedNext, SchedDisable, SchedEnable, CoreSched, PendSV, IntrptEnter, IntrptExit,
                PendReturn, Tick, schedUnchanged, TaskCall, InTask, IsrCall
  <2> QED BY <2>1 DEF IInv, LoopInv
<1>5. CASE KernelStep
  BY <1>5 DEF KernelStep, MutexLockPend, MutexHandOver, SemGiveAllStep, DelStep, WakeAllLoop, TaskMutexFree,
              ExitStep, semUnchanged, IInv, LoopInv
<1> QED BY <1>1, <1>2, <1>3, <1>4, <1>5 DEF Next

\* Every step leaves no task_pri_change running, or one of a live task that
\* is not idle.
LEMMA ChgStep ==
    ASSUME NatLeast, IInv, Next, ListPart'
    PROVE  ChgInv'
<1>1. CASE chg' = NoChg
  BY <1>1 DEF ChgInv, Chg
<1>2. CASE chg' # NoChg
  <2>1. CASE PriChangeStep
    <3>1. blk_list' \in [Objs -> Seq(Tasks)]
      BY DEF ListPart, BlkPart
    <3>2. PICK o \in Tasks \ {Idle} : Alive(o) /\ ChgOf(chg', o)
      BY <1>2, <2>1, <3>1, ChgNextChg
    <3>3. task_state' = task_state /\ kcall' = kcall /\ kcall.pc \in {"lock", "unlock", "del", "exit", "tick"}
      BY <2>1 DEF PriChangeStep, IInv, LoopInv
    <3> QED BY <3>2, <3>3, ChgInvOf DEF Alive
  <2>2. CASE TickStep
    <3>0. tick_list # <<>> /\ tick_list \in Seq(Tasks)
      BY <1>2, <2>2 DEF TickStep, TickDue, IInv, TypeOK
    <3>1. PICK t \in Tasks : t = Head(tick_list)
      BY <3>0, SMTT(60)
    <3>2. /\ Pending(t) /\ chg' = PriReset(t, blk_obj[t])
          /\ kcall' = kcall /\ kcall.pc = "tick" /\ ~TaskDelState
      BY <1>2, <2>2, <3>1 DEF TickStep, TaskDelState
    <3>3. PICK o \in Tasks \ {Idle} : Alive(o) /\ ChgOf(chg', o)
      BY <1>2, <3>2, PriResetChg
    <3>4. Alive(o)'
      BY <3>2, <3>3, AliveStep
    <3> QED BY <3>2, <3>3, <3>4, ChgInvOf DEF Alive
  <2>3. CASE TaskDelState
    <3>1. PICK t \in Tasks : t = kcall.task
      BY <2>3 DEF TaskDelState, IInv, LoopInv
    <3>2. chg = NoChg /\ kcall'.pc = "exit"
      BY <2>3 DEF TaskDelState, IInv, LoopInv, KCall
    <3>3. Pending(t) /\ chg' = PriReset(t, blk_obj[t])
      BY <1>2, <2>3, <3>1, <3>2 DEF TaskDelState
    <3>4. PICK o \in Tasks \ {Idle} : o # t /\ Alive(o) /\ ChgOf(chg', o)
      BY <1>2, <3>3, PriResetChg
    <3>5. Alive(o)'
      BY <3>1, <3>4, AliveStep
    <3> QED BY <3>2, <3>4, <3>5, ChgInvOf DEF Alive
  <2>4. CASE TaskPriChange
    <3>1. PICK a \in Tasks : a = g_active_task
      BY DEF IInv, TypeOK
    <3>2. PICK t \in Tasks \ {Idle} : t = pri_req[a].task
      BY <2>4, <3>1 DEF TaskPriChange, IInv, TypeOK, Chg, IdleInv
    <3>3. PICK p \in LowPri : p = pri_req[a].pri
      BY <2>4, <3>1 DEF TaskPriChange, IInv, TypeOK, Chg, IdleInv, LowPri
    <3>4. chg = NoChg
      BY <2>4 DEF TaskPriChange, InTask, IInv, LoopInv
    <3>5. /\ Alive(t) /\ kcall'.pc = "exit" /\ task_state' = task_state
          /\ chg' = ChgTo(t, PriLook(p, mutex_list[t], blk_list, prio))
      BY <1>2, <2>4, <3>1, <3>2, <3>3, <3>4, SMTT(60) DEF TaskPriChange, KCall
    <3>6. PriLook(p, mutex_list[t], blk_list, prio) \in LowPri
      BY PriLookLow DEF IInv, TypeOK
    <3>7. ChgOf(chg', t)
      BY <3>5, <3>6 DEF ChgOf
    <3> QED BY <3>5, <3>7, ChgInvOf DEF Alive
  <2>5. ASSUME NEW m \in Mutexes, NEW w \in Waits, MutexLock(m, w) PROVE ChgInv'
    <3>1. g_active_task \in Tasks \ {Idle} /\ chg = NoChg
      BY <2>5, Caller DEF MutexLock
    <3>2. /\ obj_type[m] /\ mutex_task[m] \in Tasks /\ task_state' = task_state /\ kcall'.pc = "lock"
          /\ chg' = ChgTo(mutex_task[m], prio[g_active_task])
      BY <1>2, <2>5, <3>1, SMTT(60) DEF MutexLock, IInv, TypeOK, KCall
    <3>3. Alive(mutex_task[m]) /\ mutex_task[m] # Idle /\ mutex_task[m] # NONE
      BY <3>2, TaskAssumption DEF IInv, OwnerInv
    <3>4. prio[g_active_task] \in LowPri
      BY <3>1 DEF IInv, TypeOK, IdleInv, LowPri
    <3>5. ChgOf(chg', mutex_task[m])
      BY <3>2, <3>4 DEF ChgOf
    <3> QED BY <3>2, <3>3, <3>5, ChgInvOf DEF Alive
  <2>6. ASSUME NEW m \in Mutexes, NEW t \in Tasks \ {Idle}, Alive(t), task_state' = task_state,
               kcall'.pc \in {"unlock", "del"}, chg' = Release(t, KlistRm(mutex_list[t], m), blk_list)
        PROVE  ChgInv'
    <3>1. mutex_list[t] \in Seq(Mutexes) /\ NoDup(mutex_list[t]) /\ blk_list \in [Objs -> Seq(Tasks)]
      BY DEF IInv, TypeOK, OwnerInv
    <3>2. KlistRm(mutex_list[t], m) \in Seq(Mutexes)
      BY <3>1, KlistRmMembers
    <3>3. ChgOf(chg', t)
      BY <1>2, <2>6, <3>1, <3>2, ReleaseChg
    <3> QED BY <2>6, <3>3, ChgInvOf DEF Alive
  <2>7. ASSUME NEW m \in Mutexes, MutexUnlock(m) PROVE ChgInv'
    <3>1. g_active_task \in Tasks \ {Idle} /\ chg = NoChg /\ Alive(g_active_task)
      BY <2>7, Caller DEF MutexUnlock, Alive
    <3>2. /\ task_state' = task_state /\ kcall'.pc = "unlock"
          /\ chg' = Release(g_active_task, KlistRm(mutex_list[g_active_task], m), blk_list)
      BY <1>2, <2>7, <3>1, SMTT(60) DEF MutexUnlock, KCall
    <3> QED BY <2>6, <3>1, <3>2
  <2>8. ASSUME NEW m \in Mutexes, MutexDel(m) PROVE ChgInv'
    <3>1. chg = NoChg
      BY <2>8, Caller DEF MutexDel
    <3>2. /\ task_state' = task_state /\ kcall'.pc = "del" /\ obj_type[m] /\ mutex_task[m] # NONE
          /\ chg' = Release(mutex_task[m], KlistRm(mutex_list[mutex_task[m]], m), blk_list)
      BY <1>2, <2>8, <3>1 DEF MutexDel, KCall
    <3>3. mutex_task[m] # Idle /\ Alive(mutex_task[m])
      BY <3>2 DEF IInv, OwnerInv
    <3>4. mutex_task[m] \in Tasks
      BY <3>2 DEF IInv, TypeOK
    <3> QED BY <2>6, <3>2, <3>3, <3>4
  <2> QED BY <1>2, <2>1, <2>2, <2>3, <2>4, <2>5, <2>7, <2>8, ChgUnset
<1> QED BY <1>1, <1>2

\* Every step preserves LoopInv.
LEMMA LoopStep ==
    ASSUME NatLeast, IInv, Next, ChgInv'
    PROVE  LoopInv'
<1>1. ChgInv'
  OBVIOUS
<1>2. CASE kcall'.pc = "none"
  BY <1>1, <1>2 DEF ChgInv, LoopInv
<1>3. CASE kcall' = kcall /\ kcall.pc # "none"
  <2>1. KernelStep /\ UNCHANGED cpuVars
    BY <1>3, InLoop, LoopCpu
  <2>2. CASE PriChangeStep
    BY <1>1, <1>3, <2>1, <2>2 DEF PriChangeStep, ChgInv, IInv, LoopInv, cpuVars, Alive
  <2>3. CASE SemGiveAllStep \/ DelStep
    BY <1>1, <1>3, <2>3 DEF SemGiveAllStep, DelStep, WakeAllLoop, ChgInv, IInv, LoopInv
  <2>4. CASE TickStep
    BY <1>1, <1>3, <2>1, <2>4 DEF TickStep, ChgInv, IInv, LoopInv, cpuVars
  <2>5. CASE TaskMutexFree
    <3>1. PICK t \in Tasks : t = kcall.task
      BY <2>5 DEF TaskMutexFree, IInv, LoopInv
    <3>2. Alive(t)'
      <4>1. ~TaskDelState /\ Alive(t)
        BY <2>5, <3>1 DEF TaskMutexFree, TaskDelState, IInv, LoopInv
      <4> QED BY <4>1, AliveStep
    <3>3. kcall'.pc = "task_del" /\ kcall'.task = t /\ t # Idle /\ (t = g_active_task => g_sched_lock = 0)
      BY <1>3, <2>5, <3>1 DEF TaskMutexFree, IInv, LoopInv
    <3> QED BY <1>1, <2>1, <3>2, <3>3 DEF ChgInv, LoopInv, cpuVars, Alive
  <2>6. ~MutexLockPend /\ ~MutexHandOver /\ ~TaskDelState /\ ~ExitStep
    BY <1>3, SMTT(60) DEF MutexLockPend, MutexHandOver, TaskDelState, ExitStep, NoCall, KCall
  <2> QED BY <2>1, <2>2, <2>3, <2>4, <2>5, <2>6 DEF KernelStep
<1>4. ASSUME kcall'.pc # "none", KcallSet PROVE LoopInv' \/ kcall' = kcall
  <2>1. CASE \E s \in Sems : SemGiveAll(s) \/ SemDel(s)
    <3>1. obj_type \in [Objs -> BOOLEAN] /\ Sems \subseteq Objs
      BY DEF IInv, TypeOK, Objs
    <3>2. ASSUME NEW s \in Sems, SemGiveAll(s), kcall' # kcall PROVE LoopInv'
      <4>1. kcall'.pc = "give_all" /\ kcall'.obj = s
        BY <3>2, SMTT(60) DEF SemGiveAll, KCall
      <4> QED BY <1>1, <4>1 DEF ChgInv, LoopInv
    <3>3. ASSUME NEW s \in Sems, SemDel(s) PROVE LoopInv'
      <4>1. kcall'.pc = "del" /\ kcall'.obj = s /\ ~obj_type'[s]
        BY <3>1, <3>3 DEF SemDel, KCall
      <4> QED BY <1>1, <3>1, <4>1 DEF ChgInv, LoopInv
    <3> QED BY <2>1, <3>2, <3>3
  <2>2. ASSUME NEW m \in Mutexes, MutexDel(m) PROVE LoopInv'
    <3>1. obj_type \in [Objs -> BOOLEAN] /\ m \in Objs
      BY DEF IInv, TypeOK, Objs
    <3>2. kcall'.pc = "del" /\ kcall'.obj = m /\ ~obj_type'[m]
      BY <2>2, <3>1 DEF MutexDel, KCall
    <3> QED BY <1>1, <3>1, <3>2 DEF ChgInv, LoopInv
  <2>3. ASSUME NEW m \in Mutexes, MutexUnlock(m), kcall' # kcall PROVE LoopInv'
    <3>1. /\ kcall'.pc = "unlock" /\ kcall'.obj = m
          /\ UNCHANGED <<obj_type, mutex_task, task_state, cpuVars>> /\ obj_type[m] /\ mutex_task[m] = g_active_task
      BY <2>3, SMTT(60) DEF MutexUnlock, KCall, mutexUnchanged
    <3>2. g_active_task # Idle /\ task_state[g_active_task] = "K_RDY" /\ g_intrpt_nested_level = 0
      BY <2>3, Caller DEF MutexUnlock
    <3> QED BY <1>1, <3>1, <3>2 DEF ChgInv, LoopInv, cpuVars
  <2>4. ASSUME NEW m \in Mutexes, NEW w \in Waits, MutexLock(m, w), kcall' # kcall PROVE LoopInv'
    <3>1. /\ kcall'.pc = "lock" /\ kcall'.obj = m /\ g_sched_lock = 0
          /\ UNCHANGED <<obj_type, mutex_task, task_state, cpuVars>> /\ obj_type[m]
          /\ mutex_task[m] \notin {g_active_task, NONE}
      BY <2>4, SMTT(60) DEF MutexLock, KCall, mutexUnchanged
    <3>2. g_active_task # Idle /\ task_state[g_active_task] = "K_RDY" /\ g_intrpt_nested_level = 0
      BY <2>4, Caller DEF MutexLock
    <3> QED BY <1>1, <3>1, <3>2 DEF ChgInv, LoopInv, cpuVars
  <2>5. CASE TaskPriChange \/ TaskDelState
    <3>1. kcall' = kcall \/ kcall'.pc = "exit"
      BY <2>5, SMTT(60) DEF TaskPriChange, TaskDelState, KCall
    <3> QED BY <1>1, <3>1 DEF ChgInv, LoopInv
  <2>6. CASE Tick
    <3>1. kcall'.pc = "tick" /\ g_intrpt_nested_level' > 0
      BY <2>6 DEF Tick, IsrCall, KCall, cpuVars
    <3> QED BY <1>1, <3>1 DEF ChgInv, LoopInv
  <2>7. ASSUME NEW t \in Tasks, TaskDel(t) PROVE LoopInv'
    <3>1. /\ kcall'.pc = "task_del" /\ kcall'.task = t /\ UNCHANGED <<task_state, cpuVars>>
          /\ Alive(t) /\ (t = g_active_task => g_sched_lock = 0) /\ t # Idle
      BY <2>7 DEF TaskDel, KCall, IInv, IdleInv
    <3> QED BY <1>1, <3>1 DEF ChgInv, LoopInv, cpuVars, Alive
  <2> QED BY <1>4, <2>1, <2>2, <2>3, <2>4, <2>5, <2>6, <2>7 DEF KcallSet
<1>5. NoCall.pc = "none"
  BY DEF NoCall, KCall
<1> QED BY <1>2, <1>3, <1>4, <1>5, KcallSteps DEF KcallOther

-----------------------------------------------------------------------------
(* The processor: RunInv.                                                   *)

\* A loop that ends while a task runs makes it call core_sched, or leaves it
\* ready.
LEMMA LoopEnds ==
    ASSUME IInv, Next, kcall.pc # "none", kcall'.pc = "none", g_intrpt_nested_level = 0
    PROVE  task_state[g_active_task] = "K_RDY" \/ g_active_task \in resched'
<1>1. KernelStep
  BY InLoop
<1>2. CASE MutexLockPend \/ MutexHandOver
  BY <1>2 DEF MutexLockPend, MutexHandOver, IInv, LoopInv
<1>3. CASE SemGiveAllStep \/ DelStep
  BY <1>3 DEF SemGiveAllStep, DelStep, WakeAllLoop, ExitSched
<1>4. CASE ExitStep
  BY <1>4 DEF ExitStep, ExitSched
<1>5. ~TickStep
  BY SMTT(60) DEF TickStep, IInv, LoopInv
<1>6. ~PriChangeStep /\ ~TaskMutexFree
  BY DEF PriChangeStep, TaskMutexFree
<1>7. ~TaskDelState
  <2>1. KCall("exit", NONE, NONE, 0).pc # "none"
    BY DEF KCall
  <2> QED BY <2>1 DEF TaskDelState
<1> QED BY <1>1, <1>2, <1>3, <1>4, <1>5, <1>6, <1>7 DEF KernelStep

\* Every step preserves RunInv.
LEMMA RunStep ==
    ASSUME IInv, Next, ActiveStops
    PROVE  RunInv'
<1>1. /\ g_active_task \in Tasks /\ g_preferred_ready_task \in Tasks
      /\ g_sched_lock \in Nat /\ g_intrpt_nested_level \in Nat /\ pendsv \in BOOLEAN
  BY BoundAssumption, SMTT(60) DEF IInv, TypeOK
<1>2. PreferredReadyTask \in Tasks /\ task_state[PreferredReadyTask] = "K_RDY"
  BY Preferred
<1>3. CASE SchedDisable \/ SchedEnable
  <2>1. /\ task_state[g_active_task] = "K_RDY" /\ ~pendsv
        /\ UNCHANGED <<g_active_task, pendsv, task_state>>
    BY <1>3, Caller DEF SchedDisable, SchedEnable, schedUnchanged, TaskCall, InTask
  <2> QED BY <2>1 DEF RunInv
<1>4. CASE CoreSched
  <2>1. /\ UNCHANGED <<g_active_task, g_sched_lock, task_state, kcall>> /\ ChooseTask /\ ~pendsv /\ kcall.pc = "none"
    BY <1>4 DEF CoreSched, schedUnchanged
  <2>2. CASE g_sched_lock > 0
    BY <2>1, <2>2 DEF ChooseTask, IInv, RunInv
  <2>3. CASE ~(g_sched_lock > 0)
    <3>1. g_preferred_ready_task' = PreferredReadyTask /\ pendsv' = (PreferredReadyTask # g_active_task)
      BY <2>1, <2>3 DEF ChooseTask
    <3> QED BY <1>2, <2>1, <2>3, <3>1 DEF RunInv, InTask
  <2> QED BY <2>2, <2>3
<1>5. CASE PendSV
  <2>1. /\ g_active_task' = g_preferred_ready_task /\ ~pendsv' /\ UNCHANGED <<task_state, g_sched_lock>>
        /\ task_state[g_preferred_ready_task] = "K_RDY"
    BY <1>5 DEF PendSV, schedUnchanged, IInv, RunInv
  <2> QED BY <2>1 DEF RunInv
<1>6. CASE IntrptEnter
  <2>1. /\ UNCHANGED <<g_active_task, g_sched_lock, pendsv, task_state>>
        /\ g_intrpt_nested_level' = g_intrpt_nested_level + 1
    BY <1>6 DEF IntrptEnter, schedUnchanged
  <2>2. g_intrpt_nested_level' # 0
    BY <1>1, <2>1, SMTT(60)
  <2> QED BY <2>1, <2>2 DEF IInv, RunInv, InTask
<1>7. CASE IntrptExit
  <2>1. /\ UNCHANGED <<g_active_task, g_sched_lock, task_state, kcall>> /\ kcall.pc = "none"
        /\ g_intrpt_nested_level' = g_intrpt_nested_level - 1 /\ g_intrpt_nested_level > 0
    BY <1>7 DEF IntrptExit, schedUnchanged
  <2>2. CASE g_intrpt_nested_level > 1
    <3>1. UNCHANGED pendsv /\ g_intrpt_nested_level' # 0
      BY <1>1, <1>7, <2>1, <2>2, SMTT(60) DEF IntrptExit
    <3> QED BY <2>1, <3>1 DEF IInv, RunInv, InTask
  <2>3. CASE ~(g_intrpt_nested_level > 1)
    <3>1. ChooseTask
      BY <1>7, <2>3 DEF IntrptExit
    <3>2. CASE g_sched_lock > 0
      <4>1. ~pendsv /\ task_state[g_active_task] = "K_RDY" /\ UNCHANGED pendsv
        BY <3>1, <3>2 DEF ChooseTask, IInv, RunInv
      <4> QED BY <2>1, <4>1 DEF RunInv
    <3>3. CASE ~(g_sched_lock > 0)
      <4>1. g_preferred_ready_task' = PreferredReadyTask /\ pendsv' = (pendsv \/ PreferredReadyTask # g_active_task)
        BY <3>1, <3>3 DEF ChooseTask
      <4>2. pendsv' \/ g_active_task = PreferredReadyTask
        BY <4>1
      <4> QED BY <1>2, <2>1, <3>3, <4>1, <4>2 DEF RunInv, InTask
    <3> QED BY <3>2, <3>3
  <2> QED BY <2>2, <2>3
<1>8. CASE ~CpuStep
  <2>1. UNCHANGED cpuVars
    BY <1>8, CpuSame
  <2>2. CASE g_sched_lock > 0
    <3>1. ~pendsv /\ task_state[g_active_task] = "K_RDY"
      BY <2>2 DEF IInv, RunInv
    <3>2. task_state'[g_active_task] = "K_RDY"
      BY <1>1, <2>2, <3>1, SMTT(60) DEF ActiveStops
    <3> QED BY <2>1, <3>1, <3>2 DEF RunInv, cpuVars
  <2>3. CASE ~(g_sched_lock > 0)
    <3>1. InTask' => task_state'[g_active_task] = "K_RDY"
      <4> SUFFICES ASSUME InTask', task_state'[g_active_task] # "K_RDY" PROVE FALSE
        OBVIOUS
      <4>1. /\ g_intrpt_nested_level = 0 /\ ~pendsv /\ kcall'.pc = "none" /\ g_active_task \notin resched'
        BY <2>1 DEF InTask, cpuVars
      <4>2. task_state[g_active_task] # "K_RDY"
        BY <1>1, <4>1, SMTT(60) DEF ActiveStops
      <4>3. kcall.pc = "none"
        BY <4>1, <4>2, LoopEnds
      <4>4. g_active_task \in resched
        BY <4>1, <4>2, <4>3 DEF IInv, RunInv, InTask
      <4>5. ~TaskDelState /\ ~CoreSched
        BY <1>8, <4>3 DEF TaskDelState, CpuStep
      <4> QED BY <4>1, <4>4, <4>5, ReschedStep
    <3>2. ~(pendsv /\ g_intrpt_nested_level = 0)
      <4> SUFFICES ASSUME pendsv, g_intrpt_nested_level = 0 PROVE FALSE
        OBVIOUS
      <4>1. kcall.pc = "none" /\ chg = NoChg
        BY DEF IInv, RunInv, LoopInv
      <4> QED BY <1>8, <4>1, CpuContext, SMTT(60) DEF InTask, PriChangeStep
    <3> QED BY <2>1, <2>3, <3>1, <3>2 DEF RunInv, cpuVars
  <2> QED BY <2>2, <2>3
<1> QED BY <1>3, <1>4, <1>5, <1>6, <1>7, <1>8 DEF CpuStep

\* A deleted object keeps waiters only during the loop that wakes them.
LEMMA DeadStep ==
    ASSUME NatLeast, IInv, Next, ListPart', NEW o \in Objs, ~obj_type'[o], blk_list'[o] # <<>>
    PROVE  kcall'.pc = "del" /\ kcall'.obj = o
<1>1. \A p, x, t, n : KCall(p, x, t, n).pc = p /\ KCall(p, x, t, n).obj = x
  BY DEF KCall
<1>2. obj_type \in [Objs -> BOOLEAN]
  BY DEF IInv, TypeOK
<1>3. CASE obj_type[o]
  <2>1. CASE SemNext
    <3>1. \E s \in Sems : SemDel(s) /\ s = o
      BY <1>2, <1>3, <2>1 DEF SemNext, SemCreate, SemGive, SemGiveAll, SemDel, SemTake, SemCountSet
    <3> QED BY <1>1, <3>1, SMTT(60) DEF SemDel
  <2>2. CASE MutexNext
    <3>1. \E m \in Mutexes : MutexDel(m) /\ m = o
      BY <1>2, <1>3, <2>2 DEF MutexNext, MutexCreate, MutexLock, MutexUnlock, MutexDel
    <3> QED BY <1>1, <3>1, SMTT(60) DEF MutexDel
  <2>3. CASE TaskNext
    BY <1>3, <2>3 DEF TaskNext, TaskYield, TaskSleep, TaskSuspend, TaskResume, TaskDel, TaskCreate,
                TaskPriChange, TaskPriChangeCheck, objVars
  <2>4. CASE SchedNext
    BY <1>3, <2>4 DEF SchedNext, SchedDisable, SchedEnable, CoreSched, PendSV, IntrptEnter, IntrptExit,
                PendReturn, Tick, schedUnchanged, objVars
  <2>5. CASE KernelStep
    BY <1>3, <2>5 DEF KernelStep, PriChangeStep, MutexLockPend, SemGiveAllStep, DelStep, WakeAllLoop,
                TickStep, TaskDelState, ExitStep, semUnchanged, objVars, MutexHandOver, TaskMutexFree
  <2> QED BY <2>1, <2>2, <2>3, <2>4, <2>5 DEF Next
<1>4. CASE ~obj_type[o]
  <2>1. ~Blocking(o)
    BY <1>4 DEF Blocking, MutexLockPend, IInv, LoopInv
  <2>2. blk_list[o] # <<>>
    BY <2>1, OldWaiters
  <2>3. kcall.pc = "del" /\ kcall.obj = o
    BY <1>4, <2>2 DEF IInv, ListInv
  <2>4. PriChangeStep \/ DelStep
    BY <2>3, InLoop DEF KernelStep, MutexLockPend, MutexHandOver, SemGiveAllStep, WakeAllLoop, TickStep,
                        TaskMutexFree, TaskDelState, ExitStep
  <2>5. UNCHANGED kcall
    BY <2>2, <2>3, <2>4 DEF PriChangeStep, DelStep, WakeAllLoop
  <2> QED BY <2>3, <2>5
<1> QED BY <1>3, <1>4

\* No step takes the processor from a task that has locked the scheduler.
LEMMA LockedKeepsTask ==
    ASSUME IInv, [Next]_vars
    PROVE  [g_sched_lock > 0 => g_active_task' = g_active_task]_vars
<1> SUFFICES ASSUME Next, g_sched_lock > 0
             PROVE  g_active_task' = g_active_task
  BY DEF vars, cpuVars
<1>1. CASE PendSV
  BY <1>1 DEF PendSV, IInv, RunInv
<1>2. CASE SchedDisable \/ SchedEnable \/ CoreSched \/ IntrptEnter \/ IntrptExit
  BY <1>2 DEF SchedDisable, SchedEnable, CoreSched, IntrptEnter, IntrptExit
<1> QED BY <1>1, <1>2, CpuSame DEF CpuStep, cpuVars

-----------------------------------------------------------------------------
(* The ready queue r, with the highest priority h, of tasks in the states   *)
(* st with the priorities pr.                                               *)

ReadyOf(r, st, pr) == \A p \in Pri :
    /\ NoDup(r[p])
    /\ \A t \in Tasks : Contains(r[p], t) <=> st[t] = "K_RDY" /\ pr[t] = p

HighestOf(r, h) == r[h] # <<>> /\ \A p \in Pri : p < h => r[p] = <<>>

\* The other tasks keep their states and priorities.
SameElsewhere(st, pr, st2, pr2, t) == \A u \in Tasks \ {t} : st2[u] = st[u] /\ pr2[u] = pr[u]

\* A task that was not ready becomes the first or the last of its list.
LEMMA ReadyOfAdd ==
    ASSUME NEW r \in [Pri -> Seq(Tasks)], NEW st, NEW pr, ReadyOf(r, st, pr),
           NEW t \in Tasks, NEW p \in Pri, st[t] # "K_RDY",
           NEW st2, NEW pr2, st2[t] = "K_RDY", pr2[t] = p,
           SameElsewhere(st, pr, st2, pr2, t)
    PROVE  /\ ReadyOf(ReadyListAddHead(r, t, p), st2, pr2)
           /\ ReadyOf(ReadyListAddTail(r, t, p), st2, pr2)
<1>1. ASSUME NEW r2, r2 = ReadyListAddHead(r, t, p) \/ r2 = ReadyListAddTail(r, t, p)
      PROVE  r2 \in [Pri -> Seq(Tasks)] /\ r2[p] # <<>> /\ ReadyOf(r2, st2, pr2)
  <2> DEFINE l == r2[p]
  <2>1. ~Contains(r[p], t) /\ NoDup(r[p]) /\ r[p] \in Seq(Tasks)
    BY DEF ReadyOf
  <2>2. /\ l \in Seq(Tasks) /\ l # <<>> /\ NoDup(l)
        /\ \A x : Contains(l, x) <=> Contains(r[p], x) \/ x = t
    <3>1. CASE r2 = ReadyListAddHead(r, t, p)
      <4>1. l = <<t>> \o r[p]
        BY <3>1 DEF ReadyListAddHead
      <4> QED BY <4>1, <2>1, ConsMembers, SMTT(60)
    <3>2. CASE r2 = ReadyListAddTail(r, t, p)
      <4>1. l = Append(r[p], t)
        BY <3>2 DEF ReadyListAddTail
      <4> QED BY <4>1, <2>1, AppendMembers, SMTT(60)
    <3> QED BY <1>1, <3>1, <3>2
  <2>3. r2 = [r EXCEPT ![p] = l]
    BY <1>1 DEF ReadyListAddHead, ReadyListAddTail
  <2> HIDE DEF l
  <2>4. r2 \in [Pri -> Seq(Tasks)] /\ r2[p] = l /\ \A q \in Pri \ {p} : r2[q] = r[q]
    BY <2>2, <2>3
  <2>5. ASSUME NEW q \in Pri
        PROVE  /\ NoDup(r2[q])
               /\ \A u \in Tasks : Contains(r2[q], u) <=> st2[u] = "K_RDY" /\ pr2[u] = q
    <3>1. NoDup(r[q]) /\ \A u \in Tasks : Contains(r[q], u) <=> st[u] = "K_RDY" /\ pr[u] = q
      BY DEF ReadyOf
    <3>2. CASE q = p
      BY <2>2, <2>4, <3>1, <3>2 DEF SameElsewhere
    <3>3. CASE q # p
      BY <2>4, <3>1, <3>3 DEF SameElsewhere
    <3> QED BY <3>2, <3>3
  <2> QED BY <2>2, <2>4, <2>5 DEF ReadyOf
<1> QED BY <1>1

\* ready_list_add keeps the ready lists lists of tasks.
LEMMA ReadyAddType ==
    ASSUME NEW r \in [Pri -> Seq(Tasks)], NEW t \in Tasks, NEW p \in Pri
    PROVE  /\ ReadyListAddHead(r, t, p) \in [Pri -> Seq(Tasks)]
           /\ ReadyListAddTail(r, t, p) \in [Pri -> Seq(Tasks)]
BY SMTT(60) DEF ReadyListAddHead, ReadyListAddTail

\* A task leaves its list when it is not ready any more.
LEMMA ReadyOfRm ==
    ASSUME NatLeast, NEW r \in [Pri -> Seq(Tasks)], NEW st, NEW pr, ReadyOf(r, st, pr),
           NEW t \in Tasks, NEW p \in Pri, st[t] = "K_RDY", pr[t] = p,
           NEW st2, NEW pr2, st2[t] # "K_RDY",
           SameElsewhere(st, pr, st2, pr2, t)
    PROVE  ReadyOf(ReadyListRm(r, t, p), st2, pr2)
<1> DEFINE l == KlistRm(r[p], t)
           r2 == ReadyListRm(r, t, p)
<1>1. Contains(r[p], t) /\ NoDup(r[p]) /\ r[p] \in Seq(Tasks)
  BY DEF ReadyOf
<1>2. /\ l \in Seq(Tasks) /\ NoDup(l)
      /\ \A x : Contains(l, x) <=> Contains(r[p], x) /\ x # t
  BY <1>1, KlistRmMembers
<1>3. r2 = [r EXCEPT ![p] = l]
  BY DEF ReadyListRm
<1> HIDE DEF l, r2
<1>4. r2 \in [Pri -> Seq(Tasks)] /\ r2[p] = l /\ \A q \in Pri \ {p} : r2[q] = r[q]
  BY <1>2, <1>3
<1>5. ASSUME NEW q \in Pri
      PROVE  /\ NoDup(r2[q])
             /\ \A u \in Tasks : Contains(r2[q], u) <=> st2[u] = "K_RDY" /\ pr2[u] = q
  <2>1. NoDup(r[q]) /\ \A u \in Tasks : Contains(r[q], u) <=> st[u] = "K_RDY" /\ pr[u] = q
    BY DEF ReadyOf
  <2>2. CASE q = p
    BY <1>2, <1>4, <2>1, <2>2 DEF SameElsewhere
  <2>3. CASE q # p
    BY <1>4, <2>1, <2>3 DEF SameElsewhere
  <2> QED BY <2>2, <2>3
<1> QED BY <1>5 DEF ReadyOf, r2

\* ready_list_rm keeps the ready lists lists of tasks.
LEMMA ReadyRmType ==
    ASSUME NatLeast, NEW r \in [Pri -> Seq(Tasks)], NEW t \in Tasks, NEW p \in Pri, NoDup(r[p])
    PROVE  ReadyListRm(r, t, p) \in [Pri -> Seq(Tasks)]
<1>1. KlistRm(r[p], t) \in Seq(Tasks)
  BY KlistRmMembers
<1> QED BY <1>1 DEF ReadyListRm

\* ready_list_init: the cached priority after an insertion.
LEMMA HighestOfAdd ==
    ASSUME NEW r \in [Pri -> Seq(Tasks)], NEW h \in Pri, HighestOf(r, h), NEW p \in Pri,
           NEW r2 \in [Pri -> Seq(Tasks)], r2[p] # <<>>, \A q \in Pri \ {p} : r2[q] = r[q]
    PROVE  HighestAfterAdd(r, h, p) \in Pri /\ HighestOf(r2, HighestAfterAdd(r, h, p))
<1>1. \A x, y \in Pri : x \in Int /\ y \in Int
  BY BoundAssumption, SMTT(60) DEF Pri
<1>2. CASE r[p] = <<>> /\ p < h
  <2>1. HighestAfterAdd(r, h, p) = p
    BY <1>2 DEF HighestAfterAdd
  <2>2. ASSUME NEW x \in Pri, x < p PROVE r2[x] = <<>>
    BY <1>1, <1>2, <2>2, SMTT(60) DEF HighestOf
  <2> QED BY <2>1, <2>2 DEF HighestOf
<1>3. CASE ~(r[p] = <<>> /\ p < h)
  <2>1. HighestAfterAdd(r, h, p) = h
    BY <1>3 DEF HighestAfterAdd
  <2>2. ASSUME NEW x \in Pri, x < h PROVE r2[x] = <<>>
    BY <1>3, <2>2 DEF HighestOf
  <2> QED BY <2>1, <2>2 DEF HighestOf
<1> QED BY <1>2, <1>3

\* ready_list_rm: the cached priority after a removal that leaves some list
\* with a task in it.
LEMMA HighestOfRm ==
    ASSUME NatLeast, NEW r \in [Pri -> Seq(Tasks)], NEW h \in Pri, HighestOf(r, h),
           NEW p \in Pri, NEW t, Contains(r[p], t),
           NEW q \in Pri, q # p, r[q] # <<>>
    PROVE  /\ HighestAfterRm(r, h, p) \in Pri
           /\ HighestOf(ReadyListRm(r, t, p), HighestAfterRm(r, h, p))
<1> DEFINE r2 == ReadyListRm(r, t, p)
           L == {x \in Pri : r[x] # <<>> /\ x # p}
<1>1. r2[p] = <<>> <=> Len(r[p]) = 1
  BY KlistRmEmpties DEF ReadyListRm
<1>2. \A x \in Pri \ {p} : r2[x] = r[x]
  BY DEF ReadyListRm
<1>3. r[p] # <<>>
  BY NotEmpty
<1>4. L \subseteq Nat /\ q \in L
  BY BoundAssumption, SMTT(60) DEF Pri
<1>5. \A x : x \in L <=> x \in Pri /\ r[x] # <<>> /\ x # p
  OBVIOUS
<1> HIDE DEF r2, L
<1>6. CASE Len(r[p]) = 1 /\ p = h
  <2>1. HighestAfterRm(r, h, p) = Least(L)
    BY <1>6 DEF HighestAfterRm, L
  <2>2. Least(L) \in L /\ \A x \in L : Least(L) <= x
    BY <1>4, MinNat
  <2>3. ASSUME NEW x \in Pri, x < Least(L) PROVE r2[x] = <<>>
    <3>1. x \notin L
      <4>1. x \in Int
        BY BoundAssumption, SMTT(60) DEF Pri
      <4>2. Least(L) \in Nat
        BY <1>4, <2>2
      <4> QED BY <4>1, <4>2, <2>2, <2>3, SMTT(60)
    <3> QED BY <3>1, <1>1, <1>2, <1>5, <1>6
  <2> QED BY <2>1, <2>2, <2>3, <1>2, <1>5 DEF HighestOf, r2
<1>7. CASE ~(Len(r[p]) = 1 /\ p = h)
  <2>1. HighestAfterRm(r, h, p) = h
    BY <1>7 DEF HighestAfterRm
  <2>2. r2[h] # <<>>
    BY <1>1, <1>2, <1>7 DEF HighestOf
  <2>3. ASSUME NEW x \in Pri, x < h PROVE r2[x] = <<>>
    BY <1>2, <1>3, <2>3 DEF HighestOf
  <2> QED BY <2>1, <2>2, <2>3 DEF HighestOf, r2
<1> QED BY <1>6, <1>7

\* ReadyPart in terms of the values of the variables
LEMMA ReadyPartOf ==
    ReadyPart <=> /\ cur_list_item \in [Pri -> Seq(Tasks)] /\ highest_pri \in Pri
                  /\ ReadyOf(cur_list_item, task_state, prio) /\ HighestOf(cur_list_item, highest_pri)
BY DEF ReadyPart, ReadyLists, HighestPriIsFirst, ReadyOf, HighestOf

\* A task becomes ready at priority p.
LEMMA ReadyInsertPart ==
    ASSUME ReadyPart, NEW t \in Tasks, NEW p \in Pri, task_state[t] # "K_RDY",
           \/ cur_list_item' = ReadyListAddHead(cur_list_item, t, p)
           \/ cur_list_item' = ReadyListAddTail(cur_list_item, t, p),
           highest_pri' = HighestAfterAdd(cur_list_item, highest_pri, p),
           task_state'[t] = "K_RDY", prio'[t] = p,
           \A u \in Tasks \ {t} : task_state'[u] = task_state[u] /\ prio'[u] = prio[u]
    PROVE  ReadyPart'
<1> DEFINE r == cur_list_item'
           rh == ReadyListAddHead(cur_list_item, t, p)
           rt == ReadyListAddTail(cur_list_item, t, p)
<1>1. /\ ReadyOf(cur_list_item, task_state, prio) /\ HighestOf(cur_list_item, highest_pri)
      /\ cur_list_item \in [Pri -> Seq(Tasks)] /\ highest_pri \in Pri
  BY ReadyPartOf
<1>2. SameElsewhere(task_state, prio, task_state', prio', t)
  BY DEF SameElsewhere
<1>3. ReadyOf(rh, task_state', prio') /\ ReadyOf(rt, task_state', prio')
  BY <1>1, <1>2, ReadyOfAdd
<1>4. ReadyOf(r, task_state', prio')
  BY <1>3
<1>5. r \in [Pri -> Seq(Tasks)]
  BY <1>1, ReadyAddType, SMTT(60)
<1>6. r[p] # <<>>
  <2>1. Contains(r[p], t)
    BY <1>4 DEF ReadyOf
  <2> QED BY <1>5, <2>1, NotEmpty
<1>7. \A q \in Pri \ {p} : r[q] = cur_list_item[q]
  BY <1>1 DEF ReadyListAddHead, ReadyListAddTail
<1>8. highest_pri' \in Pri /\ HighestOf(r, highest_pri')
  BY <1>1, <1>5, <1>6, <1>7, HighestOfAdd
<1> QED BY <1>4, <1>5, <1>8 DEF ReadyPart, ReadyLists, HighestPriIsFirst, ReadyOf, HighestOf

\* ready_list_add
LEMMA ReadyAddPart ==
    ASSUME ReadyPart, prio \in [Tasks -> Pri], NEW t \in Tasks, task_state[t] # "K_RDY", ReadyAdd(t),
           task_state'[t] = "K_RDY", \A u \in Tasks \ {t} : task_state'[u] = task_state[u],
           prio' = prio
    PROVE  ReadyPart'
<1> DEFINE p == prio[t]
<1>1. p \in Pri
  OBVIOUS
<1>2. /\ \/ cur_list_item' = ReadyListAddHead(cur_list_item, t, p)
         \/ cur_list_item' = ReadyListAddTail(cur_list_item, t, p)
      /\ highest_pri' = HighestAfterAdd(cur_list_item, highest_pri, p)
  BY DEF ReadyAdd, ReadyListAdd
<1>3. prio'[t] = p /\ \A u \in Tasks \ {t} : task_state'[u] = task_state[u] /\ prio'[u] = prio[u]
  OBVIOUS
<1> HIDE DEF p
<1> QED BY <1>1, <1>2, <1>3, ReadyInsertPart

\* ready_list_head_to_tail rotates a list that is not empty.
LEMMA ReadyRotatePart ==
    ASSUME ReadyPart, NEW p \in Pri, cur_list_item[p] # <<>>,
           cur_list_item' = ReadyListHeadToTail(cur_list_item, p),
           UNCHANGED <<highest_pri, task_state, prio>>
    PROVE  ReadyPart'
<1> DEFINE s == cur_list_item[p]
           l == Append(Tail(s), Head(s))
<1>1. s \in Seq(Tasks) /\ s # <<>> /\ NoDup(s)
  BY DEF ReadyPart, ReadyLists
<1> HIDE DEF s
<1>2. Tail(s) \in Seq(Tasks) /\ NoDup(Tail(s)) /\ \A x : Contains(Tail(s), x) <=> Contains(s, x) /\ x # Head(s)
  BY <1>1, TailMembers
<1>3. Head(s) \in Tasks /\ Contains(s, Head(s)) /\ ~Contains(Tail(s), Head(s))
  <2>1. Head(s) \in Tasks /\ Len(s) > 0 /\ Head(s) = s[1]
    BY <1>1, SMTT(60)
  <2>2. Contains(s, Head(s))
    BY <1>1, <2>1, SMTT(60) DEF Contains
  <2> QED BY <1>2, <2>1, <2>2
<1>4. /\ l \in Seq(Tasks) /\ l # <<>> /\ NoDup(l)
      /\ \A x : Contains(l, x) <=> Contains(Tail(s), x) \/ x = Head(s)
  BY <1>2, <1>3, AppendMembers
<1>5. cur_list_item' = [cur_list_item EXCEPT ![p] = l]
  BY DEF ReadyListHeadToTail, s
<1> HIDE DEF l
<1>6. /\ cur_list_item' \in [Pri -> Seq(Tasks)] /\ cur_list_item'[p] = l
      /\ \A q \in Pri \ {p} : cur_list_item'[q] = cur_list_item[q]
  BY <1>4, <1>5 DEF ReadyPart
<1>7. \A x : Contains(l, x) <=> Contains(cur_list_item[p], x)
  BY <1>2, <1>3, <1>4 DEF s
<1>8. ReadyLists'
  <2>1. ASSUME NEW q \in Pri
        PROVE  /\ NoDup(cur_list_item'[q])
               /\ \A t \in Tasks : Contains(cur_list_item'[q], t) <=> task_state'[t] = "K_RDY" /\ prio'[t] = q
    <3>1. /\ NoDup(cur_list_item[q])
          /\ \A t \in Tasks : Contains(cur_list_item[q], t) <=> task_state[t] = "K_RDY" /\ prio[t] = q
      BY DEF ReadyPart, ReadyLists
    <3>2. CASE q = p
      BY <1>4, <1>6, <1>7, <3>1, <3>2
    <3>3. CASE q # p
      BY <1>6, <3>1, <3>3
    <3> QED BY <3>2, <3>3
  <2> QED BY <2>1 DEF ReadyLists
<1>9. HighestPriIsFirst'
  BY <1>1, <1>4, <1>6 DEF ReadyPart, HighestPriIsFirst, s
<1> QED BY <1>6, <1>8, <1>9 DEF ReadyPart

\* ready_list_rm of a task other than the idle task
LEMMA ReadyRmPart ==
    ASSUME NatLeast, ReadyPart, prio \in [Tasks -> Pri], IdleInv,
           NEW t \in Tasks \ {Idle}, task_state[t] = "K_RDY", ReadyRm(t),
           task_state'[t] # "K_RDY", \A u \in Tasks \ {t} : task_state'[u] = task_state[u],
           prio' = prio
    PROVE  ReadyPart'
<1> DEFINE r == cur_list_item'
           p == prio[t]
           q == RHINO_IDLE_PRI
<1>1. p \in Pri /\ q \in Pri /\ p # q
  BY BoundAssumption, SMTT(60) DEF IdleInv, Pri, RHINO_IDLE_PRI
<1>2. ReadyOf(cur_list_item, task_state, prio) /\ HighestOf(cur_list_item, highest_pri)
  BY ReadyPartOf
<1>3. r \in [Pri -> Seq(Tasks)] /\ ReadyOf(r, task_state', prio')
  <2>1. /\ cur_list_item \in [Pri -> Seq(Tasks)] /\ r = ReadyListRm(cur_list_item, t, p)
        /\ NoDup(cur_list_item[p])
    BY <1>1 DEF ReadyRm, ReadyPart, ReadyLists
  <2>2. SameElsewhere(task_state, prio, task_state', prio', t)
    BY DEF SameElsewhere
  <2>3. ReadyOf(ReadyListRm(cur_list_item, t, p), task_state', prio')
    BY <1>1, <1>2, <2>1, <2>2, ReadyOfRm
  <2>4. ReadyListRm(cur_list_item, t, p) \in [Pri -> Seq(Tasks)]
    BY <1>1, <2>1, ReadyRmType
  <2> QED BY <2>1, <2>3, <2>4
<1>4. Contains(cur_list_item[p], t) /\ Contains(cur_list_item[q], Idle)
  BY <1>1, <1>2, TaskAssumption DEF ReadyOf, IdleInv
<1>5. cur_list_item[q] # <<>>
  BY <1>1, <1>4, NotEmpty DEF ReadyPart
<1>6. highest_pri' \in Pri /\ HighestOf(r, highest_pri')
  BY <1>1, <1>2, <1>4, <1>5, HighestOfRm DEF ReadyRm, ReadyPart
<1> QED BY <1>3, <1>6 DEF ReadyPart, ReadyLists, HighestPriIsFirst, ReadyOf, HighestOf

\* A step that leaves the ready queue, the ready tasks and their priorities
\* alone
LEMMA ReadySamePart ==
    ASSUME ReadyPart, UNCHANGED readyVars,
           \A u \in Tasks : task_state'[u] = "K_RDY" <=> task_state[u] = "K_RDY",
           \A u \in Tasks : task_state[u] = "K_RDY" => prio'[u] = prio[u]
    PROVE  ReadyPart'
BY DEF ReadyPart, ReadyLists, HighestPriIsFirst, readyVars

\* pend_list_add in pend_to_blk_obj
LEMMA BlkAddPart ==
    ASSUME NatLeast, BlkPart, prio \in [Tasks -> Pri], task_state \in [Tasks -> TaskStates],
           NEW t \in Tasks, NEW o \in Objs, ~Pending(t),
           blk_list' = [blk_list EXCEPT ![o] = PendListAdd(@, t, prio)],
           blk_obj' = [blk_obj EXCEPT ![t] = o],
           task_state' = [task_state EXCEPT ![t] = "K_PEND"], prio' = prio
    PROVE  BlkPart'
<1> DEFINE l == PendListAdd(blk_list[o], t, prio)
<1>1. blk_list[o] \in Seq(Tasks) /\ NoDup(blk_list[o]) /\ ~Contains(blk_list[o], t)
  BY DEF BlkPart, BlkLists
<1>2. prio \in [Tasks -> Nat]
  BY PriNat
<1>3. SortedBy(blk_list[o], prio)
  BY DEF BlkPart, WaitersSorted, SortedBy
<1>4. /\ l \in Seq(Tasks) /\ NoDup(l) /\ SortedBy(l, prio)
      /\ \A x : Contains(l, x) <=> Contains(blk_list[o], x) \/ x = t
  BY <1>1, <1>2, <1>3, PendListAddMembers
<1>5. blk_list' = [blk_list EXCEPT ![o] = l]
  BY DEF BlkPart
<1> HIDE DEF l
<1>6. /\ blk_list' \in [Objs -> Seq(Tasks)] /\ blk_list'[o] = l
      /\ \A x \in Objs \ {o} : blk_list'[x] = blk_list[x]
  BY <1>4, <1>5 DEF BlkPart
<1>7. /\ Pending(t)' /\ blk_obj'[t] = o /\ blk_obj' \in [Tasks -> Objs \cup {NONE}]
      /\ \A u \in Tasks \ {t} : (Pending(u)' <=> Pending(u)) /\ blk_obj'[u] = blk_obj[u]
  BY DEF BlkPart, Pending
<1>8. ASSUME NEW x \in Objs
      PROVE  /\ NoDup(blk_list'[x]) /\ SortedBy(blk_list'[x], prio)
             /\ \A u \in Tasks : Contains(blk_list'[x], u) <=> Pending(u)' /\ blk_obj'[u] = x
  <2>1. /\ NoDup(blk_list[x]) /\ SortedBy(blk_list[x], prio)
        /\ \A u \in Tasks : Contains(blk_list[x], u) <=> Pending(u) /\ blk_obj[u] = x
    BY DEF BlkPart, BlkLists, WaitersSorted, SortedBy
  <2>2. CASE x = o
    BY <1>4, <1>6, <1>7, <2>1, <2>2
  <2>3. CASE x # o
    BY <1>6, <1>7, <2>1, <2>3
  <2> QED BY <2>2, <2>3
<1>9. WaitersSorted'
  BY <1>8 DEF WaitersSorted, SortedBy
<1> QED BY <1>6, <1>7, <1>8, <1>9, SMTT(60) DEF BlkPart, BlkLists

\* A waiter leaves the list of its object.
LEMMA BlkRmPart ==
    ASSUME NatLeast, BlkPart, NEW t \in Tasks, Pending(t), NEW o, o = blk_obj[t],
           blk_list' = [blk_list EXCEPT ![o] = KlistRm(@, t)],
           blk_obj' \in [Tasks -> Objs \cup {NONE}], ~Pending(t)',
           \A u \in Tasks \ {t} : task_state'[u] = task_state[u] /\ blk_obj'[u] = blk_obj[u],
           prio' = prio
    PROVE  BlkPart' /\ o \in Objs
<1> DEFINE l == KlistRm(blk_list[o], t)
<1>1. o \in Objs /\ blk_list[o] \in Seq(Tasks) /\ NoDup(blk_list[o])
  BY DEF BlkPart, BlkLists
<1>2. SortedBy(blk_list[o], prio)
  BY <1>1 DEF BlkPart, WaitersSorted, SortedBy
<1>3. /\ l \in Seq(Tasks) /\ NoDup(l) /\ SortedBy(l, prio)
      /\ \A x : Contains(l, x) <=> Contains(blk_list[o], x) /\ x # t
  BY <1>1, <1>2, KlistRmMembers
<1>4. blk_list' = [blk_list EXCEPT ![o] = l]
  BY <1>1 DEF BlkPart
<1> HIDE DEF l
<1>5. /\ blk_list' \in [Objs -> Seq(Tasks)] /\ blk_list'[o] = l
      /\ \A x \in Objs \ {o} : blk_list'[x] = blk_list[x]
  BY <1>1, <1>3, <1>4, SMTT(60) DEF BlkPart
<1>6. \A u \in Tasks \ {t} : Pending(u)' <=> Pending(u)
  BY DEF Pending
<1>7. ASSUME NEW x \in Objs
      PROVE  /\ NoDup(blk_list'[x]) /\ SortedBy(blk_list'[x], prio)
             /\ \A u \in Tasks : Contains(blk_list'[x], u) <=> Pending(u)' /\ blk_obj'[u] = x
  <2>1. /\ NoDup(blk_list[x]) /\ SortedBy(blk_list[x], prio)
        /\ \A u \in Tasks : Contains(blk_list[x], u) <=> Pending(u) /\ blk_obj[u] = x
    BY DEF BlkPart, BlkLists, WaitersSorted, SortedBy
  <2>2. CASE x = o
    BY <1>3, <1>5, <1>6, <2>1, <2>2
  <2>3. CASE x # o
    BY <1>5, <1>6, <2>1, <2>3
  <2> QED BY <2>2, <2>3
<1>8. WaitersSorted'
  BY <1>7 DEF WaitersSorted, SortedBy
<1> QED BY <1>1, <1>5, <1>6, <1>7, <1>8 DEF BlkPart, BlkLists

\* A step that leaves the waiting lists, the waiting tasks and their
\* priorities alone
LEMMA BlkSamePart ==
    ASSUME BlkPart, UNCHANGED blk_list, blk_obj' \in [Tasks -> Objs \cup {NONE}],
           \A u \in Tasks : Pending(u)' <=> Pending(u),
           \A u \in Tasks : Pending(u) => blk_obj'[u] = blk_obj[u] /\ prio'[u] = prio[u]
    PROVE  BlkPart'
<1>1. ASSUME NEW o \in Objs, NEW i \in 1..Len(blk_list[o]) PROVE prio'[blk_list[o][i]] = prio[blk_list[o][i]]
  <2>1. blk_list[o][i] \in Tasks /\ Contains(blk_list[o], blk_list[o][i])
    BY SMTT(60) DEF BlkPart, Contains
  <2> QED BY <2>1 DEF BlkPart, BlkLists
<1>2. WaitersSorted'
  BY <1>1, SMTT(60) DEF BlkPart, WaitersSorted
<1> QED BY <1>2 DEF BlkPart, BlkLists

\* tick_list_insert for a task that falls asleep or blocks
LEMMA TickAddPart ==
    ASSUME NatLeast, TickPart, g_tick_count \in Nat, NEW t \in Tasks, NEW time \in Nat, TickListInsert(t, time),
           task_state[t] = "K_RDY", Sleeping(t)' \/ Pending(t)',
           \A u \in Tasks \ {t} : task_state'[u] = task_state[u]
    PROVE  TickPart'
<1>1. ~Contains(tick_list, t)
  BY DEF TickPart, TickList, Sleeping, Pending
<1>2. /\ tick_list' \in Seq(Tasks) /\ NoDup(tick_list')
      /\ \A x : Contains(tick_list', x) <=> Contains(tick_list, x) \/ x = t
      /\ tick_match' \in [Tasks -> 0..(TICK_MODULUS - 1)]
  BY <1>1, TickListInsertMembers DEF TickPart, TickList
<1>3. \A u \in Tasks \ {t} : (Sleeping(u)' <=> Sleeping(u)) /\ (Pending(u)' <=> Pending(u))
  BY DEF Sleeping, Pending
<1> QED BY <1>2, <1>3 DEF TickPart, TickList

\* tick_list_rm for a task that neither sleeps nor waits any more
LEMMA TickRmPart ==
    ASSUME NatLeast, TickPart, NEW t \in Tasks, TickListRm(t), ~Sleeping(t)',
           \A u \in Tasks \ {t} : task_state'[u] = task_state[u]
    PROVE  TickPart'
<1>1. /\ tick_list' \in Seq(Tasks) /\ NoDup(tick_list')
      /\ \A x : Contains(tick_list', x) <=> Contains(tick_list, x) /\ x # t
  BY KlistRmMembers DEF TickPart, TickList, TickListRm
<1>2. tick_match' \in [Tasks -> 0..(TICK_MODULUS - 1)]
  BY BoundAssumption, SMTT(60) DEF TickPart, TickListRm
<1>3. \A u \in Tasks \ {t} : (Sleeping(u)' <=> Sleeping(u)) /\ (Pending(u)' <=> Pending(u))
  BY DEF Sleeping, Pending
<1> QED BY <1>1, <1>2, <1>3 DEF TickPart, TickList

\* A step that leaves the tick list alone and puts no task to sleep
LEMMA TickSamePart ==
    ASSUME TickPart, UNCHANGED tickVars,
           \A u \in Tasks : Sleeping(u)' <=> Sleeping(u),
           \A u \in Tasks : Pending(u) => Pending(u)' \/ ~Contains(tick_list, u)
    PROVE  TickPart'
BY DEF TickPart, TickList, tickVars

listVars == <<task_state, prio, readyVars, blk_list, blk_obj, tickVars>>

\* Nothing the lists depend on changes.
LEMMA ListSamePart ==
    ASSUME ListPart, UNCHANGED listVars
    PROVE  ListPart'
BY DEF ListPart, ReadyPart, BlkPart, TickPart, ReadyLists, HighestPriIsFirst, BlkLists, TickList,
       WaitersSorted, listVars, readyVars, tickVars, Pending, Sleeping

\* pend_to_blk_obj blocks a ready task.
LEMMA PendToBlkObjPart ==
    ASSUME NatLeast, ListPart, TaskPart, NEW o \in Objs, NEW t \in Tasks \ {Idle}, task_state[t] = "K_RDY",
           NEW timeout \in Nat, PendToBlkObj(o, t, timeout), prio' = prio
    PROVE  ListPart'
<1>1. task_state' = [task_state EXCEPT ![t] = "K_PEND"]
  BY DEF PendToBlkObj
<1>2. /\ task_state'[t] = "K_PEND" /\ Pending(t)' /\ ~Pending(t)
      /\ \A u \in Tasks \ {t} : task_state'[u] = task_state[u]
  BY <1>1 DEF TaskPart, Pending
<1>3. ReadyPart'
  BY <1>2, ReadyRmPart DEF PendToBlkObj, ListPart, TaskPart
<1>4. BlkPart'
  <2>1. /\ blk_list' = [blk_list EXCEPT ![o] = PendListAdd(@, t, prio)]
        /\ blk_obj' = [blk_obj EXCEPT ![t] = o]
    BY DEF PendToBlkObj
  <2> QED BY <1>1, <1>2, <2>1, BlkAddPart DEF ListPart, TaskPart
<1>5. TickPart'
  <2>1. CASE timeout # WAIT_FOREVER
    BY <2>1, <1>2, TickAddPart DEF PendToBlkObj, ListPart, TaskPart
  <2>2. CASE timeout = WAIT_FOREVER
    <3>1. UNCHANGED tickVars
      BY <2>2 DEF PendToBlkObj
    <3>2. \A u \in Tasks : (Sleeping(u)' <=> Sleeping(u)) /\ (Pending(u) => Pending(u)')
      BY <1>2 DEF Sleeping, Pending
    <3> QED BY <3>1, <3>2, TickSamePart DEF ListPart
  <2> QED BY <2>1, <2>2
<1> QED BY <1>3, <1>4, <1>5 DEF ListPart

\* pend_task_wakeup, pend_task_rm and a time-out end the wait of a task.
LEMMA PendTaskWakePart ==
    ASSUME NatLeast, ListPart, TaskPart, NEW t \in Tasks, Pending(t), NEW o, o = blk_obj[t],
           NEW why, PendTaskWake(o, t, why), prio' = prio
    PROVE  ListPart'
<1>1. /\ task_state'[t] \in {"K_RDY", "K_SUSPENDED"}
      /\ task_state[t] = "K_PEND" <=> task_state'[t] = "K_RDY"
      /\ \A u \in Tasks \ {t} : task_state'[u] = task_state[u]
  BY DEF TaskPart, PendTaskWake
<1>2. ~Pending(t)' /\ ~Sleeping(t)' /\ ~Sleeping(t)
  BY <1>1 DEF Pending, Sleeping
<1>3. ReadyPart'
  <2>1. CASE task_state[t] = "K_PEND"
    BY <2>1, <1>1, ReadyAddPart DEF PendTaskWake, ListPart, TaskPart
  <2>2. CASE task_state[t] # "K_PEND"
    <3>1. task_state[t] # "K_RDY"
      BY DEF Pending
    <3>2. UNCHANGED readyVars
      BY <2>2 DEF PendTaskWake
    <3> QED BY <1>1, <2>2, <3>1, <3>2, ReadySamePart DEF ListPart
  <2> QED BY <2>1, <2>2
<1>4. BlkPart'
  <2>1. /\ blk_list' = [blk_list EXCEPT ![o] = KlistRm(@, t)]
        /\ blk_obj' = [blk_obj EXCEPT ![t] = NONE]
    BY DEF PendTaskWake
  <2>2. /\ blk_obj' \in [Tasks -> Objs \cup {NONE}]
        /\ \A u \in Tasks \ {t} : task_state'[u] = task_state[u] /\ blk_obj'[u] = blk_obj[u]
    BY <1>1, <2>1 DEF ListPart, BlkPart
  <2> QED BY <1>2, <2>1, <2>2, BlkRmPart DEF ListPart
<1>5. TickPart'
  BY <1>1, <1>2, TickRmPart DEF PendTaskWake, ListPart
<1> QED BY <1>3, <1>4, <1>5 DEF ListPart

-----------------------------------------------------------------------------
(* One iteration of task_pri_change.                                        *)

\* A ready task moves from the list of its old priority to that of p.
LEMMA PriChangeReady ==
    ASSUME NatLeast, ReadyPart, TaskPart, NEW t \in Tasks \ {Idle}, task_state[t] = "K_RDY", NEW p \in Pri,
           cur_list_item' \in {ReadyListAddHead(ReadyListRm(cur_list_item, t, prio[t]), t, p),
                               ReadyListAddTail(ReadyListRm(cur_list_item, t, prio[t]), t, p)},
           highest_pri' = HighestAfterAdd(ReadyListRm(cur_list_item, t, prio[t]),
                              HighestAfterRm(cur_list_item, highest_pri, prio[t]), p),
           prio'[t] = p, \A u \in Tasks \ {t} : prio'[u] = prio[u],
           \A u \in Tasks : task_state'[u] = task_state[u]
    PROVE  ReadyPart'
<1> DEFINE r == ReadyListRm(cur_list_item, t, prio[t])
           h == HighestAfterRm(cur_list_item, highest_pri, prio[t])
           st == [task_state EXCEPT ![t] = "K_SEED"]
           r2 == cur_list_item'
           q == RHINO_IDLE_PRI
<1>1. prio[t] \in Pri /\ q \in Pri /\ prio[t] # q
  BY BoundAssumption, SMTT(60) DEF TaskPart, IdleInv, Pri, RHINO_IDLE_PRI
<1>2. /\ cur_list_item \in [Pri -> Seq(Tasks)] /\ highest_pri \in Pri
      /\ ReadyOf(cur_list_item, task_state, prio) /\ HighestOf(cur_list_item, highest_pri)
  BY ReadyPartOf
<1>3. st[t] # "K_RDY" /\ SameElsewhere(task_state, prio, st, prio, t)
  BY DEF TaskPart, SameElsewhere
<1>4. t \in Tasks /\ prio'[t] = p /\ \A u \in Tasks \ {t} : prio'[u] = prio[u]
  OBVIOUS
<1> HIDE DEF st
<1>5. r \in [Pri -> Seq(Tasks)] /\ ReadyOf(r, st, prio)
  <2>1. NoDup(cur_list_item[prio[t]])
    BY <1>1, <1>2 DEF ReadyOf
  <2> QED BY <1>1, <1>2, <1>3, <1>4, <2>1, ReadyOfRm, ReadyRmType
<1>6. Contains(cur_list_item[prio[t]], t) /\ Contains(cur_list_item[q], Idle)
  BY <1>1, <1>2, TaskAssumption DEF ReadyOf, TaskPart, IdleInv
<1>7. cur_list_item[q] # <<>>
  BY <1>1, <1>2, <1>6, NotEmpty
<1>8. h \in Pri /\ HighestOf(r, h)
  BY <1>1, <1>2, <1>6, <1>7, HighestOfRm
<1>9. r2 \in {ReadyListAddHead(r, t, p), ReadyListAddTail(r, t, p)} /\ highest_pri' = HighestAfterAdd(r, h, p)
  OBVIOUS
<1> HIDE DEF r, h, q
<1>10. task_state'[t] = "K_RDY" /\ SameElsewhere(st, prio, task_state', prio', t)
  BY <1>3, <1>4 DEF SameElsewhere
<1>11. /\ ReadyOf(ReadyListAddHead(r, t, p), task_state', prio')
       /\ ReadyOf(ReadyListAddTail(r, t, p), task_state', prio')
  BY <1>3, <1>4, <1>5, <1>10, ReadyOfAdd
<1>13. r2 \in [Pri -> Seq(Tasks)]
  <2>1. /\ ReadyListAddHead(r, t, p) \in [Pri -> Seq(Tasks)]
        /\ ReadyListAddTail(r, t, p) \in [Pri -> Seq(Tasks)]
    BY <1>4, <1>5, ReadyAddType
  <2> QED BY <1>9, <2>1
<1>14. ReadyOf(r2, task_state', prio')
  BY <1>9, <1>11
<1>15. r2[p] # <<>>
  <2>1. Contains(r2[p], t)
    BY <1>4, <1>10, <1>14 DEF ReadyOf
  <2> QED BY <1>13, <2>1, NotEmpty
<1>16. \A x \in Pri \ {p} : r2[x] = r[x]
  BY <1>5, <1>9 DEF ReadyListAddHead, ReadyListAddTail
<1>17. highest_pri' \in Pri /\ HighestOf(r2, highest_pri')
  <2> HIDE DEF r2
  <2>1. HighestAfterAdd(r, h, p) \in Pri /\ HighestOf(r2, HighestAfterAdd(r, h, p))
    BY <1>5, <1>8, <1>13, <1>15, <1>16, HighestOfAdd
  <2> QED BY <1>9, <2>1
<1> QED BY <1>13, <1>14, <1>17 DEF ReadyPart, ReadyLists, HighestPriIsFirst, ReadyOf, HighestOf

\* pend_list_reorder: a waiter moves to its new place among the waiters.
LEMMA PriChangeBlk ==
    ASSUME NatLeast, BlkPart, NEW t \in Tasks, Pending(t),
           prio' \in [Tasks -> Pri], \A u \in Tasks \ {t} : prio'[u] = prio[u],
           blk_list' = [blk_list EXCEPT ![blk_obj[t]] = PendListReorder(@, t, prio')],
           task_state' = task_state, blk_obj' = blk_obj
    PROVE  BlkPart'
<1> DEFINE o == blk_obj[t]
           l == KlistRm(blk_list[o], t)
           l2 == PendListAdd(l, t, prio')
<1>1. o \in Objs /\ blk_list[o] \in Seq(Tasks) /\ NoDup(blk_list[o]) /\ Contains(blk_list[o], t)
  BY DEF BlkPart, BlkLists
<1>2. SortedBy(blk_list[o], prio)
  BY <1>1 DEF BlkPart, WaitersSorted, SortedBy
<1>3. /\ l \in Seq(Tasks) /\ NoDup(l) /\ SortedBy(l, prio)
      /\ \A x : Contains(l, x) <=> Contains(blk_list[o], x) /\ x # t
  BY <1>1, <1>2, KlistRmMembers
<1>4. prio' \in [Tasks -> Nat] /\ \A u \in Tasks \ {t} : prio'[u] = prio[u]
  BY PriNat
<1>5. blk_list' = [blk_list EXCEPT ![o] = l2]
  BY <1>1 DEF BlkPart, PendListReorder
<1> HIDE DEF l
<1>6. ASSUME NEW i \in 1..Len(l) PROVE l[i] \in Tasks \ {t}
  <2>1. l[i] \in Tasks /\ Contains(l, l[i])
    BY <1>3, SMTT(60) DEF Contains
  <2> QED BY <1>3, <2>1
<1>7. SortedBy(l, prio')
  BY <1>3, <1>4, <1>6 DEF SortedBy
<1>8. /\ l2 \in Seq(Tasks) /\ NoDup(l2) /\ SortedBy(l2, prio')
      /\ \A x : Contains(l2, x) <=> Contains(l, x) \/ x = t
  BY <1>3, <1>4, <1>7, PendListAddMembers
<1> HIDE DEF l2
<1>9. /\ blk_list' \in [Objs -> Seq(Tasks)] /\ blk_list'[o] = l2
      /\ \A x \in Objs \ {o} : blk_list'[x] = blk_list[x]
  BY <1>1, <1>5, <1>8 DEF BlkPart
<1>10. \A u \in Tasks : Pending(u)' <=> Pending(u)
  BY DEF Pending
<1>11. ASSUME NEW x \in Objs
       PROVE  /\ NoDup(blk_list'[x]) /\ SortedBy(blk_list'[x], prio')
              /\ \A u \in Tasks : Contains(blk_list'[x], u) <=> Pending(u)' /\ blk_obj'[u] = x
  <2>1. /\ NoDup(blk_list[x]) /\ SortedBy(blk_list[x], prio) /\ blk_list[x] \in Seq(Tasks)
        /\ \A u \in Tasks : Contains(blk_list[x], u) <=> Pending(u) /\ blk_obj[u] = x
    BY DEF BlkPart, BlkLists, WaitersSorted, SortedBy
  <2>2. CASE x = o
    <3>1. NoDup(l2) /\ SortedBy(l2, prio') /\ blk_list'[x] = l2
      BY <1>8, <1>9, <2>2
    <3>2. ASSUME NEW u \in Tasks PROVE Contains(l2, u) <=> Contains(blk_list[x], u)
      BY <1>1, <1>3, <1>8, <2>2
    <3> QED BY <1>10, <2>1, <3>1, <3>2
  <2>3. CASE x # o
    <3>1. \A i \in 1..Len(blk_list[x]) : blk_list[x][i] \in Tasks \ {t}
      BY <2>1, <2>3, SMTT(60) DEF Contains
    <3>2. SortedBy(blk_list[x], prio')
      BY <2>1, <3>1, <1>4 DEF SortedBy
    <3> QED BY <1>9, <1>10, <2>1, <2>3, <3>2
  <2> QED BY <2>2, <2>3
<1>12. WaitersSorted'
  BY <1>11 DEF WaitersSorted, SortedBy
<1> QED BY <1>9, <1>10, <1>11, <1>12 DEF BlkPart, BlkLists

-----------------------------------------------------------------------------
(* The steps.                                                               *)

\* One iteration of task_pri_change for a live task
LEMMA PriChangePart ==
    ASSUME NatLeast, ListPart, TaskPart, chg.task \in Tasks \ {Idle}, chg.pri \in Pri, Alive(chg.task), PriChangeStep
    PROVE  ListPart'
<1> DEFINE t == chg.task
           p == chg.pri
<1>1. /\ prio' = [prio EXCEPT ![t] = p] /\ UNCHANGED <<task_state, blk_obj, tickVars>>
      /\ prio' \in [Tasks -> Pri] /\ prio'[t] = p /\ \A u \in Tasks \ {t} : prio'[u] = prio[u]
  BY DEF PriChangeStep, TaskPart
<1>2. \A u \in Tasks : (Pending(u)' <=> Pending(u)) /\ (Sleeping(u)' <=> Sleeping(u))
  BY <1>1 DEF Pending, Sleeping
<1>3. TickPart'
  BY <1>1, <1>2, TickSamePart DEF ListPart
<1>4. CASE prio[t] = p
  <2>1. prio' = prio
    BY <1>1, <1>4 DEF TaskPart
  <2>2. UNCHANGED readyVars /\ UNCHANGED blk_list
    BY <1>4 DEF PriChangeStep
  <2> QED BY <1>1, <2>1, <2>2, ListSamePart DEF listVars
<1>5. CASE prio[t] # p
  <2>1. ReadyPart'
    <3>1. CASE task_state[t] = "K_RDY"
      BY <1>1, <1>5, <3>1, PriChangeReady DEF PriChangeStep, ListPart
    <3>2. CASE task_state[t] # "K_RDY"
      BY <1>1, <3>2, ReadySamePart DEF PriChangeStep, ListPart
    <3> QED BY <3>1, <3>2
  <2>2. BlkPart'
    <3>1. CASE Pending(t)
      <4>1. blk_list' = [blk_list EXCEPT ![blk_obj[t]] = PendListReorder(@, t, prio')]
        BY <1>5, <3>1 DEF PriChangeStep
      <4> QED BY <1>1, <3>1, <4>1, PriChangeBlk DEF ListPart
    <3>2. CASE ~Pending(t)
      <4>1. UNCHANGED blk_list
        BY <3>2 DEF PriChangeStep
      <4> QED BY <1>1, <1>2, <3>2, <4>1, BlkSamePart DEF ListPart, BlkPart
    <3> QED BY <3>1, <3>2
  <2> QED BY <1>3, <2>1, <2>2 DEF ListPart
<1> QED BY <1>4, <1>5

\* The calls of k_sem.c: a waiter is added, woken, or the lists stay as they
\* are.
LEMMA SemLists ==
    ASSUME NatLeast, IInv, SemNext
    PROVE  ListPart'
<1>1. ListPart /\ TaskPart
  BY Parts
<1>2. PICK s \in Sems : \/ SemCreate(s) \/ SemGive(s) \/ SemGiveAll(s) \/ SemDel(s)
                        \/ \E w \in Waits : SemTake(s, w)
                        \/ \E n \in 0..SEM_MAX : SemCountSet(s, n)
  BY DEF SemNext
<1>3. s \in Objs
  BY DEF Objs
<1>4. CASE SemCreate(s) \/ SemGiveAll(s) \/ SemDel(s) \/ \E n \in 0..SEM_MAX : SemCountSet(s, n)
  BY <1>1, <1>4, ListSamePart
     DEF SemCreate, SemGiveAll, SemDel, SemCountSet, semUnchanged, listVars, pendVars
<1>5. CASE SemGive(s)
  <2>1. CASE blk_list[s] = <<>>
    BY <1>1, <1>5, <2>1, ListSamePart DEF SemGive, semUnchanged, listVars, pendVars
  <2>2. CASE blk_list[s] # <<>>
    <3>1. PendTaskWake(s, Head(blk_list[s]), "BLK_FINISH") /\ prio' = prio
      BY <1>5, <2>2 DEF SemGive, semUnchanged
    <3> QED BY <1>1, <1>3, <2>2, <3>1, FirstWaiter, PendTaskWakePart
  <2> QED BY <2>1, <2>2
<1>6. CASE \E w \in Waits : SemTake(s, w)
  <2>1. PICK w \in Waits : SemTake(s, w)
    BY <1>6
  <2>2. CASE count[s] > 0
    BY <1>1, <2>1, <2>2, ListSamePart, SMTT(60) DEF SemTake, semUnchanged, listVars, pendVars
  <2>3. CASE ~(count[s] > 0)
    <3>1. PendToBlkObj(s, g_active_task, w) /\ prio' = prio
      BY <2>1, <2>3 DEF SemTake, semUnchanged
    <3>2. w \in Nat
      BY WaitNat, BoundAssumption, SMTT(60)
    <3>3. g_active_task \in Tasks \ {Idle} /\ task_state[g_active_task] = "K_RDY"
      BY <2>1, Caller DEF SemTake
    <3> QED BY <1>1, <1>3, <3>1, <3>2, <3>3, PendToBlkObjPart
  <2> QED BY <2>2, <2>3
<1> QED BY <1>2, <1>4, <1>5, <1>6

\* No call of k_mutex.c touches a list before its loop or its wait.
LEMMA MutexLists ==
    ASSUME IInv, MutexNext
    PROVE  ListPart'
<1>1. UNCHANGED listVars
  BY DEF MutexNext, MutexCreate, MutexUnlock, MutexDel, MutexLock, listVars, pendVars
<1> QED BY <1>1, Parts, ListSamePart

\* k_sched.c reads the lists and changes none.
LEMMA SchedLists ==
    ASSUME IInv, SchedNext
    PROVE  ListPart'
<1>1. UNCHANGED listVars
  BY DEF SchedNext, SchedDisable, SchedEnable, CoreSched, PendSV, IntrptEnter, IntrptExit, PendReturn,
         Tick, schedUnchanged, listVars, pendVars
<1> QED BY <1>1, Parts, ListSamePart

\* The calls of k_task.c move a task between the lists its old and its new
\* state name.
LEMMA TaskLists ==
    ASSUME NatLeast, IInv, TaskNext
    PROVE  ListPart'
<1>1. ListPart /\ TaskPart
  BY Parts
<1>2. CASE TaskPriChange \/ \E t \in Tasks : TaskDel(t) \/ \E p \in Prios : TaskPriChangeCheck(t, p)
  BY <1>1, <1>2, ListSamePart DEF TaskPriChange, TaskDel, TaskPriChangeCheck, listVars, pendVars
<1>3. CASE TaskYield
  <2> DEFINE p == prio[g_active_task]
  <2>1. g_active_task \in Tasks /\ task_state[g_active_task] = "K_RDY" /\ p \in Pri
    BY <1>1, <1>3, Caller DEF TaskYield, TaskPart
  <2>2. cur_list_item[p] # <<>>
    BY <1>1, <2>1, NotEmpty, SMTT(60) DEF ListPart, ReadyPart, ReadyLists
  <2>3. /\ cur_list_item' = ReadyListHeadToTail(cur_list_item, p)
        /\ UNCHANGED <<highest_pri, task_state, prio, blk_list, blk_obj, tickVars>>
    BY <1>3 DEF TaskYield, pendVars
  <2>4. ReadyPart'
    BY <1>1, <2>1, <2>2, <2>3, ReadyRotatePart DEF ListPart
  <2>5. \A u \in Tasks : (Pending(u)' <=> Pending(u)) /\ (Sleeping(u)' <=> Sleeping(u))
    BY <2>3 DEF Pending, Sleeping
  <2>6. BlkPart' /\ TickPart'
    BY <1>1, <2>3, <2>5, BlkSamePart, TickSamePart DEF ListPart, BlkPart
  <2> QED BY <2>4, <2>6 DEF ListPart
<1>4. ASSUME NEW n \in Timeouts, TaskSleep(n) PROVE ListPart'
  <2>0. PICK t \in Tasks : t = g_active_task
    BY <1>4, Caller DEF TaskSleep
  <2>1. t \in Tasks \ {Idle} /\ task_state[t] = "K_RDY" /\ n \in Nat
    BY <1>4, <2>0, Caller, WaitNat, BoundAssumption, SMTT(60) DEF TaskSleep
  <2>2. /\ task_state' = [task_state EXCEPT ![t] = "K_SLEEP"]
        /\ TickListInsert(t, n) /\ ReadyRm(t) /\ UNCHANGED <<prio, blk_list, blk_obj>>
    BY <1>4, <2>0 DEF TaskSleep, pendVars
  <2>3. task_state'[t] = "K_SLEEP" /\ \A u \in Tasks \ {t} : task_state'[u] = task_state[u]
    BY <1>1, <2>1, <2>2 DEF TaskPart
  <2>4. Sleeping(t)' /\ \A u \in Tasks : Pending(u)' <=> Pending(u)
    BY <2>1, <2>3 DEF Pending, Sleeping
  <2>5. ReadyPart'
    BY <1>1, <2>1, <2>2, <2>3, ReadyRmPart DEF ListPart, TaskPart
  <2>6. BlkPart'
    BY <1>1, <2>2, <2>4, BlkSamePart DEF ListPart, BlkPart
  <2>7. TickPart'
    BY <1>1, <2>1, <2>2, <2>3, <2>4, TickAddPart DEF ListPart, TaskPart
  <2> QED BY <2>5, <2>6, <2>7 DEF ListPart
<1>5. ASSUME NEW t \in Tasks, TaskSuspend(t) PROVE ListPart'
  <2>1. UNCHANGED <<prio, blk_list, blk_obj, tickVars>> /\ t # Idle
    BY <1>1, <1>5 DEF TaskSuspend, pendVars, TaskPart, IdleInv
  <2>2. CASE /\ task_state[t] \in DOMAIN SuspendedFrom /\ task_state'[t] = SuspendedFrom[task_state[t]]
             /\ \A u \in Tasks \ {t} : task_state'[u] = task_state[u]
             /\ IF task_state[t] = "K_RDY" THEN ReadyRm(t) ELSE UNCHANGED readyVars
    <3>1. /\ task_state'[t] # "K_RDY"
          /\ \A u \in Tasks : (Pending(u)' <=> Pending(u)) /\ (Sleeping(u)' <=> Sleeping(u))
      BY <2>2, SMTT(60) DEF SuspendedFrom, Pending, Sleeping
    <3>2. ReadyPart'
      <4>1. CASE task_state[t] = "K_RDY"
        BY <1>1, <2>1, <2>2, <3>1, <4>1, ReadyRmPart DEF ListPart, TaskPart
      <4>2. CASE task_state[t] # "K_RDY"
        <5>1. UNCHANGED readyVars /\ \A u \in Tasks : task_state'[u] = "K_RDY" <=> task_state[u] = "K_RDY"
          BY <2>2, <3>1, <4>2
        <5> QED BY <1>1, <2>1, <5>1, ReadySamePart DEF ListPart
      <4> QED BY <4>1, <4>2
    <3>3. BlkPart' /\ TickPart'
      BY <1>1, <2>1, <3>1, BlkSamePart, TickSamePart DEF ListPart, BlkPart
    <3> QED BY <3>2, <3>3 DEF ListPart
  <2>3. CASE UNCHANGED <<task_state, readyVars>>
    BY <1>1, <2>1, <2>3, ListSamePart DEF listVars
  <2> QED BY <1>1, <1>5, <2>2, <2>3 DEF TaskSuspend, TaskPart
<1>6. ASSUME NEW t \in Tasks, TaskResume(t) PROVE ListPart'
  <2>1. UNCHANGED <<prio, blk_list, blk_obj, tickVars>>
    BY <1>6 DEF TaskResume, pendVars
  <2>2. CASE /\ task_state[t] \in DOMAIN ResumedTo /\ task_state'[t] = ResumedTo[task_state[t]]
             /\ \A u \in Tasks \ {t} : task_state'[u] = task_state[u]
             /\ IF task_state[t] = "K_SUSPENDED" THEN ReadyAdd(t) ELSE UNCHANGED readyVars
    <3>1. /\ task_state[t] # "K_RDY" /\ (task_state'[t] = "K_RDY" <=> task_state[t] = "K_SUSPENDED")
          /\ \A u \in Tasks : (Pending(u)' <=> Pending(u)) /\ (Sleeping(u)' <=> Sleeping(u))
      BY <2>2, SMTT(60) DEF ResumedTo, Pending, Sleeping
    <3>2. ReadyPart'
      <4>1. CASE task_state[t] = "K_SUSPENDED"
        BY <1>1, <2>1, <2>2, <3>1, <4>1, ReadyAddPart DEF ListPart, TaskPart
      <4>2. CASE task_state[t] # "K_SUSPENDED"
        <5>1. UNCHANGED readyVars /\ \A u \in Tasks : task_state'[u] = "K_RDY" <=> task_state[u] = "K_RDY"
          BY <2>2, <3>1, <4>2
        <5> QED BY <1>1, <2>1, <5>1, ReadySamePart DEF ListPart
      <4> QED BY <4>1, <4>2
    <3>3. BlkPart' /\ TickPart'
      BY <1>1, <2>1, <3>1, BlkSamePart, TickSamePart DEF ListPart, BlkPart
    <3> QED BY <3>2, <3>3 DEF ListPart
  <2>3. CASE UNCHANGED <<task_state, readyVars>>
    BY <1>1, <2>1, <2>3, ListSamePart DEF listVars
  <2> QED BY <1>1, <1>6, <2>2, <2>3 DEF TaskResume, TaskPart
<1>7. ASSUME NEW t \in Tasks, NEW autorun \in BOOLEAN, TaskCreate(t, autorun) PROVE ListPart'
  <2>1. /\ prio' = [prio EXCEPT ![t] = InitPrio[t]] /\ blk_obj' = [blk_obj EXCEPT ![t] = NONE]
        /\ UNCHANGED <<blk_list, tickVars>> /\ ~Alive(t)
    BY <1>7 DEF TaskCreate
  <2>2. /\ task_state'[t] = IF autorun THEN "K_RDY" ELSE "K_SUSPENDED"
        /\ \A u \in Tasks \ {t} : task_state'[u] = task_state[u]
        /\ autorun => /\ cur_list_item' = ReadyListAddTail(cur_list_item, t, InitPrio[t])
                      /\ highest_pri' = HighestAfterAdd(cur_list_item, highest_pri, InitPrio[t])
        /\ ~autorun => UNCHANGED readyVars
    BY <1>1, <1>7 DEF TaskCreate, TaskPart
  <2>3. /\ task_state[t] # "K_RDY"
        /\ \A u \in Tasks : (Pending(u)' <=> Pending(u)) /\ (Sleeping(u)' <=> Sleeping(u))
    BY <2>1, <2>2 DEF Alive, Pending, Sleeping
  <2>4. /\ prio'[t] = InitPrio[t] /\ InitPrio[t] \in Pri /\ blk_obj' \in [Tasks -> Objs \cup {NONE}]
        /\ \A u \in Tasks \ {t} : prio'[u] = prio[u] /\ blk_obj'[u] = blk_obj[u]
    BY <1>1, <2>1, ApplicationAssumption DEF TaskPart, ListPart, BlkPart
  <2>5. ~Pending(t)
    BY <2>1 DEF Pending, Alive
  <2>6. ReadyPart'
    <3>1. CASE autorun
      BY <1>1, <2>2, <2>3, <2>4, <3>1, ReadyInsertPart DEF ListPart
    <3>2. CASE ~autorun
      BY <1>1, <2>2, <2>3, <2>4, <3>2, ReadySamePart DEF ListPart
    <3> QED BY <3>1, <3>2
  <2>7. BlkPart' /\ TickPart'
    BY <1>1, <2>1, <2>3, <2>4, <2>5, BlkSamePart, TickSamePart DEF ListPart
  <2> QED BY <2>6, <2>7 DEF ListPart
<1> QED BY <1>2, <1>3, <1>4, <1>5, <1>6, <1>7 DEF TaskNext

\* An iteration of krhino_sem_give_all and of the deletion of an object
LEMMA WakeAllLists ==
    ASSUME NatLeast, IInv, SemGiveAllStep \/ DelStep
    PROVE  ListPart'
<1>1. ListPart /\ TaskPart
  BY Parts
<1>2. PICK o \in Objs : o = kcall.obj
  BY DEF SemGiveAllStep, DelStep, WakeAllLoop, IInv, LoopInv, Objs
<1>3. CASE blk_list[o] = <<>>
  BY <1>1, <1>2, <1>3, ListSamePart
     DEF SemGiveAllStep, DelStep, WakeAllLoop, semUnchanged, listVars, pendVars
<1>4. CASE blk_list[o] # <<>>
  <2>1. prio' = prio /\ \E why : PendTaskWake(o, Head(blk_list[o]), why)
    BY <1>2, <1>4 DEF SemGiveAllStep, DelStep, WakeAllLoop, semUnchanged
  <2> QED BY <1>1, <1>4, <2>1, FirstWaiter, PendTaskWakePart
<1> QED BY <1>3, <1>4

\* The end of krhino_mutex_lock: the caller blocks.
LEMMA LockLists ==
    ASSUME NatLeast, IInv, MutexLockPend
    PROVE  ListPart'
<1>1. ListPart /\ TaskPart
  BY Parts
<1>2. /\ kcall.obj \in Objs /\ g_active_task \in Tasks \ {Idle} /\ task_state[g_active_task] = "K_RDY"
  BY DEF MutexLockPend, IInv, TypeOK, LoopInv, Objs
<1>3. kcall.ticks \in Nat
  BY BoundAssumption, SMTT(60) DEF IInv, TypeOK
<1>4. PendToBlkObj(kcall.obj, g_active_task, kcall.ticks) /\ prio' = prio
  BY DEF MutexLockPend
<1> QED BY <1>1, <1>2, <1>3, <1>4, PendToBlkObjPart

\* The end of krhino_mutex_unlock: the first waiter wakes up.
LEMMA HandOverLists ==
    ASSUME NatLeast, IInv, MutexHandOver
    PROVE  ListPart'
<1>1. ListPart /\ TaskPart
  BY Parts
<1>2. PICK m \in Objs : m = kcall.obj
  BY DEF MutexHandOver, IInv, LoopInv, Objs
<1>3. CASE blk_list[m] = <<>>
  BY <1>1, <1>2, <1>3, ListSamePart DEF MutexHandOver, listVars, pendVars
<1>4. CASE blk_list[m] # <<>>
  <2>1. prio' = prio /\ PendTaskWake(m, Head(blk_list[m]), "BLK_FINISH")
    BY <1>2, <1>4 DEF MutexHandOver
  <2> QED BY <1>1, <1>4, <2>1, FirstWaiter, PendTaskWakePart
<1> QED BY <1>3, <1>4

\* An iteration of task_mutex_free wakes the first waiter of a mutex.
LEMMA FreeLists ==
    ASSUME NatLeast, IInv, TaskMutexFree
    PROVE  ListPart'
<1>1. ListPart /\ TaskPart
  BY Parts
<1>2. PICK t \in Tasks : t = kcall.task
  BY DEF TaskMutexFree, IInv, LoopInv
<1>3. PICK m \in Objs : m = Head(mutex_list[t])
  BY <1>2, FirstMutex DEF TaskMutexFree
<1>4. CASE blk_list[m] = <<>>
  BY <1>1, <1>2, <1>3, <1>4, ListSamePart DEF TaskMutexFree, listVars, pendVars
<1>5. CASE blk_list[m] # <<>>
  <2>1. prio' = prio /\ PendTaskWake(m, Head(blk_list[m]), "BLK_FINISH")
    BY <1>2, <1>3, <1>5 DEF TaskMutexFree
  <2> QED BY <1>1, <1>5, <2>1, FirstWaiter, PendTaskWakePart
<1> QED BY <1>4, <1>5

\* The end of krhino_task_del: the task leaves whatever list it is on.
LEMMA DelLists ==
    ASSUME NatLeast, IInv, TaskDelState
    PROVE  ListPart'
<1>1. ListPart /\ TaskPart
  BY Parts
<1>2. PICK t \in Tasks \ {Idle} : t = kcall.task
  BY DEF TaskDelState, IInv, LoopInv
<1>3. task_state' = [task_state EXCEPT ![t] = "K_DELETED"] /\ UNCHANGED <<prio, blk_obj>>
  BY <1>2 DEF TaskDelState
<1>4. /\ task_state'[t] = "K_DELETED" /\ ~Pending(t)' /\ ~Sleeping(t)'
      /\ \A u \in Tasks \ {t} : task_state'[u] = task_state[u]
      /\ \A u \in Tasks \ {t} : (Pending(u)' <=> Pending(u)) /\ (Sleeping(u)' <=> Sleeping(u))
  BY <1>1, <1>3 DEF TaskPart, Pending, Sleeping
<1>5. ReadyPart'
  <2>1. CASE task_state[t] = "K_RDY"
    BY <1>1, <1>2, <1>3, <1>4, <2>1, ReadyRmPart DEF TaskDelState, ListPart, TaskPart
  <2>2. CASE task_state[t] # "K_RDY"
    BY <1>1, <1>2, <1>3, <1>4, <2>2, ReadySamePart DEF TaskDelState, ListPart
  <2> QED BY <2>1, <2>2
<1>6. BlkPart'
  <2>1. CASE Pending(t)
    <3>1. /\ blk_list' = [blk_list EXCEPT ![blk_obj[t]] = KlistRm(@, t)]
          /\ blk_obj' \in [Tasks -> Objs \cup {NONE}]
          /\ \A u \in Tasks \ {t} : task_state'[u] = task_state[u] /\ blk_obj'[u] = blk_obj[u]
      BY <1>1, <1>2, <1>3, <1>4, <2>1 DEF TaskDelState, ListPart, BlkPart
    <3> QED BY <1>1, <1>3, <1>4, <2>1, <3>1, BlkRmPart DEF ListPart
  <2>2. CASE ~Pending(t)
    <3>1. UNCHANGED blk_list /\ blk_obj' \in [Tasks -> Objs \cup {NONE}]
      BY <1>1, <1>2, <1>3, <2>2 DEF TaskDelState, ListPart, BlkPart
    <3>2. \A u \in Tasks : Pending(u)' <=> Pending(u)
      BY <1>4, <2>2
    <3> QED BY <1>1, <1>3, <3>1, <3>2, BlkSamePart DEF ListPart
  <2> QED BY <2>1, <2>2
<1>7. TickPart'
  <2>1. CASE Pending(t) \/ Sleeping(t)
    BY <1>1, <1>2, <1>4, <2>1, TickRmPart DEF TaskDelState, ListPart
  <2>2. CASE ~(Pending(t) \/ Sleeping(t))
    <3>1. UNCHANGED tickVars
      BY <1>2, <2>2 DEF TaskDelState
    <3>2. \A u \in Tasks : (Pending(u)' <=> Pending(u)) /\ (Sleeping(u)' <=> Sleeping(u))
      BY <1>4, <2>2
    <3> QED BY <1>1, <3>1, <3>2, TickSamePart DEF ListPart
  <2> QED BY <2>1, <2>2
<1> QED BY <1>5, <1>6, <1>7 DEF ListPart

\* An iteration of tick_list_update wakes a task whose time has come.
LEMMA TickLists ==
    ASSUME NatLeast, IInv, TickStep
    PROVE  ListPart'
<1>1. ListPart /\ TaskPart
  BY Parts
<1>2. CASE ~TickDue
  BY <1>1, <1>2, ListSamePart DEF TickStep, listVars, pendVars
<1>3. CASE TickDue
  <2>1. PICK t \in Tasks : t = Head(tick_list)
    BY <1>1, <1>3, SMTT(60) DEF TickDue, ListPart, TickPart
  <2>2. CASE Pending(t)
    <3>1. prio' = prio /\ PendTaskWake(blk_obj[t], t, "BLK_TIMEOUT")
      BY <1>3, <2>1, <2>2 DEF TickStep, Pending, Sleeping
    <3> QED BY <1>1, <2>2, <3>1, PendTaskWakePart
  <2>3. CASE ~Pending(t)
    <3>1. /\ Sleeping(t) /\ TickListRm(t) /\ UNCHANGED <<prio, blk_list, blk_obj>>
          /\ IF task_state[t] = "K_SLEEP"
             THEN ReadyAdd(t) /\ task_state' = [task_state EXCEPT ![t] = "K_RDY"]
             ELSE UNCHANGED readyVars /\ task_state' = [task_state EXCEPT ![t] = "K_SUSPENDED"]
      BY <1>3, <2>1, <2>3 DEF TickStep, pendVars
    <3>2. /\ task_state[t] # "K_RDY" /\ task_state'[t] \in {"K_RDY", "K_SUSPENDED"}
          /\ task_state'[t] = "K_RDY" <=> task_state[t] = "K_SLEEP"
          /\ \A u \in Tasks \ {t} : task_state'[u] = task_state[u]
      BY <1>1, <3>1 DEF TaskPart, Sleeping
    <3>3. ~Sleeping(t)' /\ \A u \in Tasks : Pending(u)' <=> Pending(u)
      BY <2>3, <3>2 DEF Sleeping, Pending
    <3>4. ReadyPart'
      <4>1. CASE task_state[t] = "K_SLEEP"
        BY <1>1, <3>1, <3>2, <4>1, ReadyAddPart DEF ListPart, TaskPart
      <4>2. CASE task_state[t] # "K_SLEEP"
        <5>1. UNCHANGED readyVars /\ \A u \in Tasks : task_state'[u] = "K_RDY" <=> task_state[u] = "K_RDY"
          BY <3>1, <3>2, <4>2
        <5> QED BY <1>1, <3>1, <5>1, ReadySamePart DEF ListPart
      <4> QED BY <4>1, <4>2
    <3>5. BlkPart'
      BY <1>1, <3>1, <3>3, BlkSamePart DEF ListPart, BlkPart
    <3>6. TickPart'
      BY <1>1, <3>1, <3>2, <3>3, TickRmPart DEF ListPart
    <3> QED BY <3>4, <3>5, <3>6 DEF ListPart
  <2> QED BY <2>2, <2>3
<1> QED BY <1>2, <1>3

\* Every step of the kernel keeps the lists.
LEMMA ListStep ==
    ASSUME NatLeast, IInv, Next
    PROVE  ListPart'
<1>1. CASE PriChangeStep
  BY <1>1, Parts, ChgTask, PriChangePart DEF PriChangeStep
<1>2. CASE ExitStep
  BY <1>2, Parts, ListSamePart DEF ExitStep, listVars, pendVars
<1> QED BY <1>1, <1>2, SemLists, MutexLists, TaskLists, SchedLists, WakeAllLists, LockLists, HandOverLists, FreeLists, DelLists, TickLists
       DEF Next, KernelStep

-----------------------------------------------------------------------------
(* The first state, and steps of others.                                    *)

\* krhino_start finds every ready task on the list of its priority, and
\* highest_pri and g_preferred_ready_task computed from these lists.
LEMMA InitReadyPart ==
    ASSUME NatLeast, Init
    PROVE  ReadyPart /\ PreferredReadyTask \in Tasks /\ task_state[PreferredReadyTask] = "K_RDY"
<1> DEFINE S == {p \in Pri : InitReady[p] # <<>>}
<1>1. RHINO_IDLE_PRI \in Pri /\ Pri \subseteq Nat
  BY BoundAssumption, SMTT(60) DEF RHINO_IDLE_PRI, Pri
<1>2. InitReady \in [Pri -> Seq(Tasks)] /\ InitReady[RHINO_IDLE_PRI] # <<>>
  BY <1>1, NotEmpty, ApplicationAssumption
<1>3. highest_pri \in S /\ \A q \in S : highest_pri <= q
  <2>1. highest_pri = Least(S) /\ S \subseteq Nat /\ S # {}
    BY <1>1, <1>2 DEF Init
  <2> QED BY <2>1, MinNat
<1>4. cur_list_item = InitReady /\ prio = InitPrio
      /\ task_state = [t \in Tasks |-> IF t \in InitTasks THEN "K_RDY" ELSE "K_SEED"]
  BY DEF Init
<1>5. HighestPriIsFirst /\ highest_pri \in Pri
  <2>1. highest_pri \in Pri /\ InitReady[highest_pri] # <<>>
    BY <1>3
  <2>2. \A p \in Pri : p < highest_pri => InitReady[p] = <<>>
    BY <1>1, <1>3, SMTT(60)
  <2> QED BY <1>4, <2>1, <2>2 DEF HighestPriIsFirst
<1>6. ReadyLists
  <2> SUFFICES ASSUME NEW p \in Pri
               PROVE  /\ NoDup(InitReady[p])
                      /\ \A t \in Tasks : Contains(InitReady[p], t) <=> task_state[t] = "K_RDY" /\ prio[t] = p
    BY <1>4 DEF ReadyLists
  <2>1. \A t \in Tasks : task_state[t] = "K_RDY" <=> Contains(InitReady[InitPrio[t]], t)
    BY <1>4 DEF InitTasks
  <2> QED BY <1>4, <2>1, ApplicationAssumption
<1>7. ReadyPart
  BY <1>2, <1>4, <1>5, <1>6 DEF ReadyPart
<1>8. PreferredReadyTask \in Tasks /\ task_state[PreferredReadyTask] = "K_RDY"
  <2> DEFINE l == cur_list_item[highest_pri]
  <2>1. l \in Seq(Tasks) /\ l # <<>> /\ highest_pri \in Pri
    BY <1>2, <1>4, <1>5 DEF HighestPriIsFirst
  <2>2. Head(l) \in Tasks /\ Contains(l, Head(l))
    BY <2>1, SMTT(60) DEF Contains
  <2> QED BY <1>6, <2>1, <2>2 DEF ReadyLists, PreferredReadyTask
<1> QED BY <1>7, <1>8

\* The state krhino_start leaves satisfies the invariant.
LEMMA InitIInv ==
    ASSUME NatLeast, Init
    PROVE  IInv
<1>1. ReadyPart /\ PreferredReadyTask \in Tasks /\ task_state[PreferredReadyTask] = "K_RDY"
  BY InitReadyPart
<1>2. \A x : ~Contains(<<>>, x)
  BY SMTT(60) DEF Contains
<1>3. NoDup(<<>>) /\ \A S : <<>> \in Seq(S)
  BY SMTT(60) DEF NoDup
<1>4. /\ kcall.pc = "none" /\ kcall = [pc |-> "none", obj |-> NONE, task |-> NONE, ticks |-> 0]
  BY DEF Init, NoCall, KCall
<1>5. \A t \in Tasks : task_state[t] \in {"K_RDY", "K_SEED"}
  BY DEF Init
<1>6. TypeOK
  <2>1. /\ task_state \in [Tasks -> TaskStates] /\ blk_state \in [Tasks -> BlkStates]
        /\ call \in [Tasks -> Objs \cup {NONE}] /\ blk_obj \in [Tasks -> Objs \cup {NONE}]
    BY DEF Init, TaskStates, BlkStates
  <2>2. prio \in [Tasks -> Pri] /\ b_prio \in [Tasks -> Pri] /\ pri_req \in [Tasks -> Chg] /\ chg \in Chg
    BY ApplicationAssumption DEF Init, Chg
  <2>3. /\ suspend_count \in [Tasks -> 0..SUSPEND_MAX] /\ g_tick_count \in 0..(TICK_MODULUS - 1)
        /\ tick_match \in [Tasks -> 0..(TICK_MODULUS - 1)]
    BY BoundAssumption, SMTT(60) DEF Init
  <2>4. blk_list \in [Objs -> Seq(Tasks)] /\ tick_list \in Seq(Tasks) /\ mutex_list \in [Tasks -> Seq(Mutexes)]
    BY <1>3 DEF Init
  <2>5. /\ obj_type \in [Objs -> BOOLEAN] /\ count \in [Sems -> 0..SEM_MAX]
        /\ mutex_task \in [Mutexes -> Tasks \cup {NONE}] /\ owner_nested \in [Mutexes -> 0..NESTED_MAX]
    BY BoundAssumption, ApplicationAssumption, SMTT(60) DEF Init
  <2>6. /\ g_active_task \in Tasks /\ g_preferred_ready_task \in Tasks
        /\ g_sched_lock \in 0..LOCK_MAX /\ g_intrpt_nested_level \in 0..INTRPT_MAX
        /\ pendsv \in BOOLEAN /\ resched \subseteq Tasks
    <3>1. g_active_task \in Tasks /\ g_preferred_ready_task \in Tasks
      BY <1>1 DEF Init
    <3>2. g_sched_lock \in 0..LOCK_MAX /\ g_intrpt_nested_level \in 0..INTRPT_MAX
      BY BoundAssumption, SMTT(60) DEF Init
    <3>3. pendsv \in BOOLEAN /\ resched \subseteq Tasks
      BY DEF Init
    <3> QED BY <3>1, <3>2, <3>3
  <2>7. KcallType(kcall)
    <3>1. 0 \in 0..(TICK_MODULUS - 1)
      BY BoundAssumption, SMTT(60)
    <3> QED BY <1>4, <3>1 DEF KcallType
  <2> QED BY <1>1, <2>1, <2>2, <2>3, <2>4, <2>5, <2>6, <2>7 DEF TypeOK, KcallType, ReadyPart
<1>7. ListInv
  <2>1. \A t \in Tasks : ~Pending(t) /\ ~Sleeping(t)
    BY <1>5 DEF Pending, Sleeping
  <2>2. tick_list = <<>> /\ \A o \in Objs : blk_list[o] = <<>> /\ obj_type[o]
    BY DEF Init
  <2>3. BlkLists /\ TickList
    BY <1>2, <1>3, <2>1, <2>2 DEF BlkLists, TickList
  <2>4. WaitersSorted
    <3>1. Len(<<>>) = 0 /\ 1..0 = {}
      BY SMTT(60)
    <3> QED BY <2>2, <3>1 DEF WaitersSorted
  <2> QED BY <1>1, <2>1, <2>2, <2>3, <2>4 DEF ListInv, ListsMatchState, ReadyPart
<1>8. IdleInv
  <2>1. task_state[Idle] = "K_RDY"
    BY TaskAssumption, ApplicationAssumption DEF Init, InitTasks
  <2> QED BY <2>1, ApplicationAssumption DEF IdleInv, Init
<1>9. SuspendInv
  BY <1>5 DEF SuspendInv, ResumedTo
<1>10. OwnerInv
  <2>1. /\ \A t \in Tasks : mutex_list[t] = <<>>
        /\ \A m \in Mutexes : mutex_task[m] = NONE
    BY DEF Init
  <2>2. \A m \in Mutexes : blk_list[m] = <<>>
    BY DEF Init, Objs
  <2> QED BY <1>2, <1>3, <2>1, <2>2, TaskAssumption DEF OwnerInv
<1>11. chg = NoChg /\ g_sched_lock = 0 /\ ~pendsv /\ g_active_task = PreferredReadyTask
  BY DEF Init
<1>12. LoopInv
  BY <1>4, <1>11 DEF LoopInv
<1>13. RunInv
  BY <1>1, <1>11 DEF RunInv
<1>14. NoWaiterWithCount
  BY DEF NoWaiterWithCount, Init, Objs
<1> QED BY <1>6, <1>7, <1>8, <1>9, <1>10, <1>12, <1>13, <1>14 DEF IInv

\* The invariant speaks of the variables of the kernel only.
LEMMA IInvStutter == IInv /\ UNCHANGED vars => IInv'
<1> SUFFICES ASSUME IInv, UNCHANGED vars PROVE IInv'
  OBVIOUS
<1>1. /\ UNCHANGED <<task_state, prio, b_prio, suspend_count, cur_list_item, highest_pri, blk_list, blk_obj,
                     blk_state, call, pri_req, g_tick_count, tick_list, tick_match>>
      /\ UNCHANGED <<obj_type, count, mutex_task, owner_nested, mutex_list, g_active_task,
                     g_preferred_ready_task, g_sched_lock, g_intrpt_nested_level, pendsv, resched, kcall, chg>>
  BY DEF vars, readyVars, pendVars, tickVars, objVars, cpuVars
<1>2. TypeOK'
  BY <1>1 DEF IInv, TypeOK
<1>3. ListInv'
  BY <1>1 DEF IInv, ListInv, ListsMatchState, ReadyLists, BlkLists, TickList, HighestPriIsFirst, WaitersSorted,
              Pending, Sleeping
<1>4. IdleInv' /\ SuspendInv' /\ NoWaiterWithCount'
  BY <1>1 DEF IInv, IdleInv, SuspendInv, NoWaiterWithCount
<1>5. OwnerInv'
  BY <1>1 DEF IInv, OwnerInv, Unlocking, Alive
<1>6. LoopInv' /\ RunInv'
  BY <1>1 DEF IInv, LoopInv, RunInv, InTask, Alive
<1> QED BY <1>2, <1>3, <1>4, <1>5, <1>6 DEF IInv
=============================================================================
