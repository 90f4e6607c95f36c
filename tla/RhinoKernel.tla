---------------------------- MODULE RhinoKernel -----------------------------
(***************************************************************************)
(* The Rhino kernel and an application whose tasks and interrupt handlers  *)
(* call it in any order.                                                   *)
(***************************************************************************)
EXTENDS RhinoTask, RhinoLists

InitTasks == {t \in Tasks : Contains(InitReady[InitPrio[t]], t)}

\* krhino_init, the creation of the first tasks and krhino_start
Init ==
    /\ task_state = [t \in Tasks |-> IF t \in InitTasks THEN "K_RDY" ELSE "K_SEED"]
    /\ prio = InitPrio /\ b_prio = InitPrio
    /\ suspend_count = [t \in Tasks |-> 0]
    /\ cur_list_item = InitReady
    /\ highest_pri = Least({p \in Pri : InitReady[p] # <<>>})
    /\ blk_list = [o \in Objs |-> <<>>]
    /\ blk_obj = [t \in Tasks |-> NONE]
    /\ blk_state = [t \in Tasks |-> "BLK_FINISH"]
    /\ call = [t \in Tasks |-> NONE]
    /\ pri_req = [t \in Tasks |-> NoChg]
    /\ g_tick_count = 0 /\ tick_list = <<>> /\ tick_match = [t \in Tasks |-> 0]
    /\ obj_type = [o \in Objs |-> TRUE]
    /\ count = [s \in Sems |-> InitCount]
    /\ mutex_task = [m \in Mutexes |-> NONE]
    /\ owner_nested = [m \in Mutexes |-> 0]
    /\ mutex_list = [t \in Tasks |-> <<>>]
    /\ g_preferred_ready_task = PreferredReadyTask
    /\ g_active_task = PreferredReadyTask
    /\ g_sched_lock = 0 /\ g_intrpt_nested_level = 0
    /\ pendsv = FALSE /\ resched = {}
    /\ kcall = NoCall /\ chg = NoChg

Waits == Timeouts \cup {WAIT_FOREVER}

SemNext == \E s \in Sems :
    \/ SemCreate(s) \/ SemGive(s) \/ SemGiveAll(s) \/ SemDel(s)
    \/ \E w \in Waits : SemTake(s, w)
    \/ \E n \in 0..SEM_MAX : SemCountSet(s, n)

MutexNext == \E m \in Mutexes :
    \/ MutexCreate(m) \/ MutexUnlock(m) \/ MutexDel(m)
    \/ \E w \in Waits : MutexLock(m, w)

TaskNext ==
    \/ TaskYield \/ TaskPriChange
    \/ \E n \in Timeouts : TaskSleep(n)
    \/ \E t \in Tasks :
        \/ TaskSuspend(t) \/ TaskResume(t) \/ TaskDel(t)
        \/ \E autorun \in BOOLEAN : TaskCreate(t, autorun)
        \/ \E p \in Prios : TaskPriChangeCheck(t, p)

SchedNext ==
    \/ SchedDisable \/ SchedEnable \/ CoreSched \/ PendSV
    \/ IntrptEnter \/ IntrptExit \/ PendReturn \/ Tick

\* The next iteration of the loop the kernel is in
KernelStep ==
    \/ PriChangeStep \/ MutexLockPend \/ MutexHandOver
    \/ SemGiveAllStep \/ DelStep \/ TickStep
    \/ TaskMutexFree \/ TaskDelState \/ ExitStep

Next == SemNext \/ MutexNext \/ TaskNext \/ SchedNext \/ KernelStep

Spec == Init /\ [][Next]_vars
-----------------------------------------------------------------------------
Chg == [task : Tasks, pri : Pri] \cup {NoChg}

TypeOK ==
    /\ task_state \in [Tasks -> TaskStates]
    /\ prio \in [Tasks -> Pri] /\ b_prio \in [Tasks -> Pri]
    /\ suspend_count \in [Tasks -> 0..SUSPEND_MAX]
    /\ cur_list_item \in [Pri -> Seq(Tasks)] /\ highest_pri \in Pri
    /\ blk_list \in [Objs -> Seq(Tasks)]
    /\ blk_obj \in [Tasks -> Objs \cup {NONE}]
    /\ blk_state \in [Tasks -> BlkStates]
    /\ call \in [Tasks -> Objs \cup {NONE}]
    /\ pri_req \in [Tasks -> Chg]
    /\ g_tick_count \in 0..(TICK_MODULUS - 1)
    /\ tick_list \in Seq(Tasks)
    /\ tick_match \in [Tasks -> 0..(TICK_MODULUS - 1)]
    /\ obj_type \in [Objs -> BOOLEAN]
    /\ count \in [Sems -> 0..SEM_MAX]
    /\ mutex_task \in [Mutexes -> Tasks \cup {NONE}]
    /\ owner_nested \in [Mutexes -> 0..NESTED_MAX]
    /\ mutex_list \in [Tasks -> Seq(Mutexes)]
    /\ g_active_task \in Tasks /\ g_preferred_ready_task \in Tasks
    /\ g_sched_lock \in 0..LOCK_MAX /\ g_intrpt_nested_level \in 0..INTRPT_MAX
    /\ pendsv \in BOOLEAN /\ resched \subseteq Tasks
    /\ kcall \in [pc : {"none", "give_all", "del", "lock", "unlock", "exit", "task_del", "tick"},
                  obj : Objs \cup {NONE}, task : Tasks \cup {NONE}, ticks : 0..(TICK_MODULUS - 1)]
    /\ chg \in Chg
-----------------------------------------------------------------------------
(* Safety.                                                                  *)

\* No task waits on a semaphore that has a count (sem_give, sem_take,
\* krhino_sem_count_set).
NoWaiterWithCount == \A s \in Sems : count[s] > 0 => blk_list[s] = <<>>
=============================================================================
