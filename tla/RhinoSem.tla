------------------------------ MODULE RhinoSem ------------------------------
(***************************************************************************)
(* Counting semaphores: k_sem.c.  The calls that return an error change    *)
(* nothing and are not actions.                                            *)
(***************************************************************************)
EXTENDS RhinoSched

semUnchanged == UNCHANGED <<prio, b_prio, suspend_count, pri_req, g_tick_count,
                            mutex_task, owner_nested, mutex_list, cpuVars, chg>>

SemCreate(s) ==
    /\ TaskCall("sem_create") /\ ~obj_type[s]
    /\ obj_type' = [obj_type EXCEPT ![s] = TRUE]
    /\ count' = [count EXCEPT ![s] = InitCount]
    /\ UNCHANGED <<task_state, readyVars, pendVars, tickVars, resched, kcall>>
    /\ semUnchanged

SemTake(s, ticks) ==
    /\ TaskCall("sem_take") /\ obj_type[s]
    /\ \/ /\ count[s] > 0
          /\ count' = [count EXCEPT ![s] = @ - 1]
          /\ UNCHANGED <<task_state, readyVars, pendVars, tickVars, resched>>
       \/ /\ count[s] = 0 /\ g_sched_lock = 0
          /\ PendToBlkObj(s, g_active_task, ticks)
          /\ ExitSched
          /\ UNCHANGED count
    /\ UNCHANGED <<obj_type, kcall>>
    /\ semUnchanged

\* sem_give with WAKE_ONE_SEM, from a task or from a handler
SemGive(s) ==
    /\ TaskCall("sem_give") \/ IsrCall("sem_give")
    /\ obj_type[s]
    /\ \/ /\ blk_list[s] = <<>> /\ count[s] < SEM_MAX
          /\ count' = [count EXCEPT ![s] = @ + 1]
          /\ UNCHANGED <<task_state, readyVars, pendVars, tickVars, resched>>
       \/ /\ blk_list[s] # <<>>
          /\ PendTaskWake(s, Head(blk_list[s]), "BLK_FINISH")
          /\ ExitSched
          /\ UNCHANGED count
    /\ UNCHANGED <<obj_type, kcall>>
    /\ semUnchanged

\* sem_give with WAKE_ALL_SEM: its loop is SemGiveAllStep
SemGiveAll(s) ==
    /\ TaskCall("sem_give_all") \/ IsrCall("sem_give_all")
    /\ obj_type[s]
    /\ \/ /\ blk_list[s] = <<>> /\ count[s] < SEM_MAX
          /\ count' = [count EXCEPT ![s] = @ + 1]
          /\ UNCHANGED kcall
       \/ /\ blk_list[s] # <<>>
          /\ kcall' = KCall("give_all", s, NONE, 0)
          /\ UNCHANGED count
    /\ UNCHANGED <<obj_type, task_state, readyVars, pendVars, tickVars, resched>>
    /\ semUnchanged

\* krhino_sem_del invalidates the object; its loop is DelStep
SemDel(s) ==
    /\ TaskCall("sem_del") /\ obj_type[s]
    /\ obj_type' = [obj_type EXCEPT ![s] = FALSE]
    /\ kcall' = KCall("del", s, NONE, 0)
    /\ UNCHANGED <<count, task_state, readyVars, pendVars, tickVars, resched>>
    /\ semUnchanged

\* mutant: sets the count under the waiters
SemCountSetAlways(s, n) ==
    /\ TaskCall("sem_count_set") /\ obj_type[s]
    /\ count' = [count EXCEPT ![s] = n]
    /\ UNCHANGED <<obj_type, kcall, task_state, readyVars, pendVars, tickVars, resched>>
    /\ semUnchanged

SemCountSet(s, n) ==
    /\ TaskCall("sem_count_set") /\ obj_type[s]
    /\ count[s] > 0 \/ blk_list[s] = <<>>
    /\ count' = [count EXCEPT ![s] = n]
    /\ UNCHANGED <<obj_type, kcall, task_state, readyVars, pendVars, tickVars, resched>>
    /\ semUnchanged

\* One iteration of a loop that wakes every waiter of the object, or its end
WakeAllLoop(pc, why) ==
    LET o == kcall.obj IN
    /\ kcall.pc = pc /\ chg = NoChg
    /\ \/ /\ blk_list[o] # <<>>
          /\ PendTaskWake(o, Head(blk_list[o]), why)
          /\ UNCHANGED <<kcall, resched>>
       \/ /\ blk_list[o] = <<>>
          /\ kcall' = NoCall /\ ExitSched
          /\ UNCHANGED <<task_state, readyVars, pendVars, tickVars>>
    /\ UNCHANGED <<obj_type, count>>
    /\ semUnchanged

SemGiveAllStep == WakeAllLoop("give_all", "BLK_FINISH")
DelStep == WakeAllLoop("del", "BLK_DEL")
=============================================================================
