----------------------------- MODULE RhinoSched -----------------------------
(***************************************************************************)
(* Choosing and switching tasks: k_sched.c, the interrupt entry and exit   *)
(* of k_sys.c and the PendSV exception of the Cortex-M port, which makes   *)
(* the preferred task the active one when no handler is active any more.   *)
(***************************************************************************)
EXTENDS RhinoState

schedUnchanged == UNCHANGED <<task_state, prio, b_prio, suspend_count, readyVars, pendVars,
                              pri_req, g_tick_count, tickVars, objVars, kcall, chg>>

SchedDisable ==
    /\ TaskCall("sched_disable")
    /\ g_sched_lock < LOCK_MAX
    /\ g_sched_lock' = g_sched_lock + 1
    /\ UNCHANGED <<g_active_task, g_preferred_ready_task, g_intrpt_nested_level, pendsv, resched>>
    /\ schedUnchanged

SchedEnable ==
    /\ TaskCall("sched_disable")
    /\ g_sched_lock > 0
    /\ g_sched_lock' = g_sched_lock - 1
    /\ IF g_sched_lock = 1 THEN ExitSched ELSE UNCHANGED resched
    /\ UNCHANGED <<g_active_task, g_preferred_ready_task, g_intrpt_nested_level, pendsv>>
    /\ schedUnchanged

\* mutant: switches although the scheduler is locked
ChooseTaskUnlocked ==
    /\ g_preferred_ready_task' = PreferredReadyTask
    /\ pendsv' = (pendsv \/ PreferredReadyTask # g_active_task)

\* The choice core_sched and krhino_intrpt_exit share: nothing while the
\* scheduler is locked, else the preferred task, and a switch if it is not
\* the active one.
ChooseTask ==
    IF g_sched_lock > 0
    THEN UNCHANGED <<g_preferred_ready_task, pendsv>>
    ELSE /\ g_preferred_ready_task' = PreferredReadyTask
         /\ pendsv' = (pendsv \/ PreferredReadyTask # g_active_task)

CoreSched ==
    /\ g_intrpt_nested_level = 0 /\ ~pendsv /\ kcall.pc = "none"
    /\ g_active_task \in resched
    /\ resched' = resched \ {g_active_task}
    /\ ChooseTask
    /\ UNCHANGED <<g_active_task, g_sched_lock, g_intrpt_nested_level>>
    /\ schedUnchanged

\* PendSV_Handler: it has the lowest exception priority
PendSV ==
    /\ pendsv /\ g_intrpt_nested_level = 0 /\ kcall.pc = "none"
    /\ g_active_task' = g_preferred_ready_task
    /\ pendsv' = FALSE
    /\ UNCHANGED <<g_preferred_ready_task, g_sched_lock, g_intrpt_nested_level, resched>>
    /\ schedUnchanged

IntrptEnter ==
    /\ kcall.pc = "none"
    /\ g_intrpt_nested_level < INTRPT_MAX
    /\ g_intrpt_nested_level' = g_intrpt_nested_level + 1
    /\ UNCHANGED <<g_active_task, g_preferred_ready_task, g_sched_lock, pendsv, resched>>
    /\ schedUnchanged

IntrptExit ==
    /\ kcall.pc = "none"
    /\ g_intrpt_nested_level > 0
    /\ g_intrpt_nested_level' = g_intrpt_nested_level - 1
    /\ IF g_intrpt_nested_level > 1
       THEN UNCHANGED <<g_preferred_ready_task, pendsv>>
       ELSE ChooseTask
    /\ UNCHANGED <<g_active_task, g_sched_lock, resched>>
    /\ schedUnchanged

\* pend_state_end_proc: a task that runs again after it blocked reads why and
\* returns from the call.  blk_state is not read again before the next wake-up
\* writes it, and the model leaves it at BLK_FINISH.
PendReturn ==
    /\ InTask
    /\ call[g_active_task] # NONE
    /\ call' = [call EXCEPT ![g_active_task] = NONE]
    /\ blk_state' = [blk_state EXCEPT ![g_active_task] = "BLK_FINISH"]
    /\ UNCHANGED <<task_state, prio, b_prio, suspend_count, readyVars, blk_list, blk_obj,
                   pri_req, g_tick_count, tickVars, objVars, cpuVars, resched, kcall, chg>>
=============================================================================
