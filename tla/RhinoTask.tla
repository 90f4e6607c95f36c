----------------------------- MODULE RhinoTask ------------------------------
(***************************************************************************)
(* Tasks and time: k_task.c and tick_list_update of k_tick.c.              *)
(***************************************************************************)
EXTENDS RhinoMutex

\* task_create.  Its two critical sections are one action: no call names the
\* task before its creation has returned.
TaskCreate(t, autorun) ==
    /\ TaskCall("task_create") /\ ~Alive(t)
    /\ prio' = [prio EXCEPT ![t] = InitPrio[t]]
    /\ b_prio' = [b_prio EXCEPT ![t] = InitPrio[t]]
    /\ blk_obj' = [blk_obj EXCEPT ![t] = NONE]
    /\ IF autorun
       THEN /\ task_state' = [task_state EXCEPT ![t] = "K_RDY"]
            /\ suspend_count' = [suspend_count EXCEPT ![t] = 0]
            /\ cur_list_item' = ReadyListAddTail(cur_list_item, t, InitPrio[t])
            /\ highest_pri' = HighestAfterAdd(cur_list_item, highest_pri, InitPrio[t])
            /\ ExitSched
       ELSE /\ task_state' = [task_state EXCEPT ![t] = "K_SUSPENDED"]
            /\ suspend_count' = [suspend_count EXCEPT ![t] = 1]
            /\ UNCHANGED <<readyVars, resched>>
    /\ UNCHANGED <<blk_list, blk_state, call, pri_req, g_tick_count, tickVars, objVars,
                   cpuVars, kcall, chg>>

TaskSleep(ticks) ==
    /\ TaskCall("task_sleep") /\ g_sched_lock = 0
    /\ task_state' = [task_state EXCEPT ![g_active_task] = "K_SLEEP"]
    /\ TickListInsert(g_active_task, ticks)
    /\ ReadyRm(g_active_task)
    /\ ExitSched
    /\ UNCHANGED <<prio, b_prio, suspend_count, pendVars, pri_req, g_tick_count, objVars,
                   cpuVars, kcall, chg>>

TaskYield ==
    /\ TaskCall("task_yield")
    /\ cur_list_item' = ReadyListHeadToTail(cur_list_item, prio[g_active_task])
    /\ ExitSched
    /\ UNCHANGED <<task_state, prio, b_prio, suspend_count, highest_pri, pendVars, pri_req,
                   g_tick_count, tickVars, objVars, cpuVars, kcall, chg>>

SuspendedFrom == [K_RDY |-> "K_SUSPENDED", K_SLEEP |-> "K_SLEEP_SUSPENDED",
                  K_PEND |-> "K_PEND_SUSPENDED"]

ResumedTo == [K_SUSPENDED |-> "K_RDY", K_SLEEP_SUSPENDED |-> "K_SLEEP",
              K_PEND_SUSPENDED |-> "K_PEND"]

\* mutant: a task is suspended and not counted
TaskSuspendUncounted(t) ==
    /\ TaskCall("task_suspend") \/ IsrCall("task_suspend")
    /\ prio[t] # RHINO_IDLE_PRI
    /\ t = g_active_task => g_sched_lock = 0
    /\ task_state[t] \in DOMAIN SuspendedFrom
    /\ task_state' = [task_state EXCEPT ![t] = SuspendedFrom[@]]
    /\ IF task_state[t] = "K_RDY" THEN ReadyRm(t) ELSE UNCHANGED readyVars
    /\ ExitSched
    /\ UNCHANGED <<prio, b_prio, suspend_count, pendVars, pri_req, g_tick_count, tickVars, objVars,
                   cpuVars, kcall, chg>>

TaskSuspend(t) ==
    /\ TaskCall("task_suspend") \/ IsrCall("task_suspend")
    /\ prio[t] # RHINO_IDLE_PRI
    /\ t = g_active_task => g_sched_lock = 0
    /\ \/ /\ task_state[t] \in DOMAIN SuspendedFrom
          /\ suspend_count' = [suspend_count EXCEPT ![t] = 1]
          /\ task_state' = [task_state EXCEPT ![t] = SuspendedFrom[@]]
          /\ IF task_state[t] = "K_RDY" THEN ReadyRm(t) ELSE UNCHANGED readyVars
       \/ /\ task_state[t] \in DOMAIN ResumedTo
          /\ suspend_count[t] < SUSPEND_MAX
          /\ suspend_count' = [suspend_count EXCEPT ![t] = @ + 1]
          /\ UNCHANGED <<task_state, readyVars>>
    /\ ExitSched
    /\ UNCHANGED <<prio, b_prio, pendVars, pri_req, g_tick_count, tickVars, objVars,
                   cpuVars, kcall, chg>>

TaskResume(t) ==
    /\ TaskCall("task_resume") \/ IsrCall("task_resume")
    /\ task_state[t] \in DOMAIN ResumedTo
    /\ suspend_count' = [suspend_count EXCEPT ![t] = @ - 1]
    /\ IF suspend_count[t] = 1
       THEN /\ task_state' = [task_state EXCEPT ![t] = ResumedTo[@]]
            /\ IF task_state[t] = "K_SUSPENDED" THEN ReadyAdd(t) ELSE UNCHANGED readyVars
       ELSE UNCHANGED <<task_state, readyVars>>
    /\ ExitSched
    /\ UNCHANGED <<prio, b_prio, pendVars, pri_req, g_tick_count, tickVars, objVars,
                   cpuVars, kcall, chg>>
-----------------------------------------------------------------------------
\* krhino_task_pri_change checks its arguments before it disables interrupts,
TaskPriChangeCheck(t, p) ==
    /\ TaskCall("task_pri_change")
    /\ prio[t] < RHINO_IDLE_PRI /\ p < RHINO_IDLE_PRI
    /\ Alive(t)
    /\ pri_req' = [pri_req EXCEPT ![g_active_task] = ChgTo(t, p)]
    /\ UNCHANGED <<task_state, prio, b_prio, suspend_count, readyVars, pendVars, g_tick_count,
                   tickVars, objVars, cpuVars, resched, kcall, chg>>

\* ... and changes the priority afterwards.  A task that was deleted in
\* between is reported to k_err_proc.
TaskPriChange ==
    LET t == pri_req[g_active_task].task
        p == pri_req[g_active_task].pri
        limit == PriLook(p, mutex_list[t], blk_list, prio)
    IN
    /\ InTask
    /\ pri_req[g_active_task] # NoChg
    /\ pri_req' = [pri_req EXCEPT ![g_active_task] = NoChg]
    /\ b_prio' = [b_prio EXCEPT ![t] = p]
    /\ IF Alive(t)
       THEN kcall' = KCall("exit", NONE, NONE, 0) /\ chg' = ChgTo(t, limit)
       ELSE UNCHANGED <<kcall, chg>>
    /\ UNCHANGED <<task_state, prio, suspend_count, readyVars, pendVars, g_tick_count, tickVars,
                   objVars, cpuVars, resched>>

\* The end of a call that leaves through RHINO_CRITICAL_EXIT_SCHED
ExitStep ==
    /\ kcall.pc = "exit" /\ chg = NoChg
    /\ kcall' = NoCall
    /\ ExitSched
    /\ UNCHANGED <<task_state, prio, b_prio, suspend_count, readyVars, pendVars, pri_req,
                   g_tick_count, tickVars, objVars, cpuVars, chg>>
-----------------------------------------------------------------------------
TaskDel(t) ==
    /\ TaskCall("task_del")
    /\ Alive(t)
    /\ prio[t] # RHINO_IDLE_PRI
    /\ t = g_active_task => g_sched_lock = 0
    /\ kcall' = KCall("task_del", NONE, t, 0)
    /\ UNCHANGED <<task_state, prio, b_prio, suspend_count, readyVars, pendVars, pri_req,
                   g_tick_count, tickVars, objVars, cpuVars, resched, chg>>

\* mutant: the mutexes stay with the deleted task
TaskMutexFreeNot ==
    /\ kcall.pc = "task_del"
    /\ mutex_list[kcall.task] # <<>>
    /\ mutex_list' = [mutex_list EXCEPT ![kcall.task] = Tail(@)]
    /\ UNCHANGED <<task_state, prio, b_prio, suspend_count, readyVars, pendVars, pri_req,
                   g_tick_count, tickVars, obj_type, count, mutex_task, owner_nested,
                   cpuVars, resched, kcall, chg>>

\* One iteration of task_mutex_free: the first mutex of the task goes to its
\* first waiter.  The mutex_list of a deleted task is not read again.
TaskMutexFree ==
    LET t == kcall.task
        m == Head(mutex_list[t])
        n == Head(blk_list[m])
    IN
    /\ kcall.pc = "task_del"
    /\ mutex_list[t] # <<>>
    /\ \/ /\ blk_list[m] # <<>>
          /\ PendTaskWake(m, n, "BLK_FINISH")
          /\ mutex_task' = [mutex_task EXCEPT ![m] = n]
          /\ mutex_list' = [mutex_list EXCEPT ![t] = Tail(@), ![n] = <<m>> \o @]
       \/ /\ blk_list[m] = <<>>
          /\ mutex_task' = [mutex_task EXCEPT ![m] = NONE]
          /\ mutex_list' = [mutex_list EXCEPT ![t] = Tail(@)]
          /\ UNCHANGED <<task_state, readyVars, pendVars, tickVars>>
    /\ UNCHANGED <<prio, b_prio, suspend_count, pri_req, g_tick_count, obj_type, count,
                   owner_nested, cpuVars, resched, kcall, chg>>

\* The rest of krhino_task_del: the task leaves the list its state puts it on.
\* A deleted task runs no more, so what it was doing is forgotten.
TaskDelState ==
    LET t == kcall.task IN
    /\ kcall.pc = "task_del"
    /\ mutex_list[t] = <<>>
    /\ task_state' = [task_state EXCEPT ![t] = "K_DELETED"]
    /\ IF task_state[t] = "K_RDY" THEN ReadyRm(t) ELSE UNCHANGED readyVars
    /\ IF Pending(t) \/ Sleeping(t) THEN TickListRm(t) ELSE UNCHANGED tickVars
    /\ IF Pending(t)
       THEN /\ blk_list' = [blk_list EXCEPT ![blk_obj[t]] = KlistRm(@, t)]
            /\ chg' = PriReset(t, blk_obj[t])
       ELSE UNCHANGED <<blk_list, chg>>
    /\ blk_state' = [blk_state EXCEPT ![t] = "BLK_FINISH"]
    /\ call' = [call EXCEPT ![t] = NONE]
    /\ pri_req' = [pri_req EXCEPT ![t] = NoChg]
    /\ resched' = resched \ {t}
    /\ kcall' = KCall("exit", NONE, NONE, 0)
    /\ UNCHANGED <<prio, b_prio, suspend_count, blk_obj, g_tick_count, objVars, cpuVars>>
-----------------------------------------------------------------------------
\* krhino_tick_proc, called by the tick interrupt: its loop is TickStep
Tick ==
    /\ IsrCall("tick")
    /\ g_tick_count' = (g_tick_count + 1) % TICK_MODULUS
    /\ kcall' = KCall("tick", NONE, NONE, 0)
    /\ UNCHANGED <<task_state, prio, b_prio, suspend_count, readyVars, pendVars, pri_req,
                   tickVars, objVars, cpuVars, resched, chg>>

TickDue == tick_list # <<>> /\ tick_match[Head(tick_list)] = g_tick_count

TickStep ==
    LET t == Head(tick_list) IN
    /\ kcall.pc = "tick" /\ chg = NoChg
    /\ \/ /\ ~TickDue
          /\ kcall' = NoCall
          /\ UNCHANGED <<task_state, readyVars, pendVars, tickVars, chg>>
       \/ /\ TickDue /\ Pending(t)
          /\ PendTaskWake(blk_obj[t], t, "BLK_TIMEOUT")
          /\ chg' = PriReset(t, blk_obj[t])
          /\ UNCHANGED kcall
       \/ /\ TickDue /\ Sleeping(t)
          /\ TickListRm(t)
          /\ IF task_state[t] = "K_SLEEP"
             THEN ReadyAdd(t) /\ task_state' = [task_state EXCEPT ![t] = "K_RDY"]
             ELSE UNCHANGED readyVars /\ task_state' = [task_state EXCEPT ![t] = "K_SUSPENDED"]
          /\ UNCHANGED <<pendVars, kcall, chg>>
    /\ UNCHANGED <<prio, b_prio, suspend_count, pri_req, g_tick_count, objVars, cpuVars, resched>>
=============================================================================
