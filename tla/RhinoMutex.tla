----------------------------- MODULE RhinoMutex -----------------------------
(***************************************************************************)
(* Mutexes with priority inheritance: k_mutex.c, and task_pri_change of    *)
(* k_task.c, whose loop follows the chain of mutex owners.                 *)
(***************************************************************************)
EXTENDS RhinoSem

mutexUnchanged == UNCHANGED <<suspend_count, pri_req, g_tick_count, count, cpuVars>>

\* mutex_pri_look and mutex_pri_limit: the highest of a base priority and of
\* the first waiters of the mutexes ms
PriLook(base, ms, blk, pr) ==
    Least({base} \cup {pr[Head(blk[m])] : m \in {x \in ToSet(ms) : blk[x] # <<>>}})

\* mutex_release(t, rel) after rel has left mutex_list: the task_pri_change it
\* starts, if any
Release(t, ml, blk) ==
    LET new_pri == PriLook(b_prio[t], ml, blk, prio)
    IN IF new_pri # prio[t] THEN ChgTo(t, new_pri) ELSE NoChg

\* mutant: the owner keeps what it inherited from a waiter that gave up
PriResetNot(t, o) == NoChg

\* mutex_task_pri_reset(t) for a task that leaves the list of o: the
\* task_pri_change of the owner it starts, if any
PriReset(t, o) ==
    IF o \in Mutexes /\ obj_type[o] /\ prio[mutex_task[o]] = prio[t]
    THEN Release(mutex_task[o], mutex_list[mutex_task[o]],
                 [blk_list EXCEPT ![o] = KlistRm(@, t)])
    ELSE NoChg

\* The owner task_pri_change goes on with after t, blocked on m, went from its
\* old priority to p
ChgOwner(t, p) ==
    LET m == blk_obj[t]
        o == mutex_task[m]
        pr == [prio EXCEPT ![t] = p]
        new_pri == PriLook(b_prio[o], mutex_list[o], blk_list', pr)
    IN IF m \notin Mutexes \/ ~obj_type[m] THEN NoChg
       ELSE IF pr[o] > p THEN ChgTo(o, p)
       ELSE IF pr[o] = prio[t] /\ new_pri # pr[o] THEN ChgTo(o, new_pri)
       ELSE NoChg

\* mutant: does not stop at a task that has the priority already
ChgNextAgain(t, p) ==
    IF prio[t] = p THEN chg ELSE IF Pending(t) THEN ChgOwner(t, p) ELSE NoChg

\* The task the loop of task_pri_change goes on with, if any
ChgNext(t, p) == IF Pending(t) /\ prio[t] # p THEN ChgOwner(t, p) ELSE NoChg

\* One iteration of the loop of task_pri_change.  A task in no state of its
\* switch is reported to k_err_proc and keeps its priority.
PriChangeStep ==
    LET t == chg.task
        p == chg.pri
        r == ReadyListRm(cur_list_item, t, prio[t])
        h == HighestAfterRm(cur_list_item, highest_pri, prio[t])
    IN
    /\ chg # NoChg
    /\ prio' = IF Alive(t) THEN [prio EXCEPT ![t] = p] ELSE prio
    /\ IF task_state[t] = "K_RDY" /\ prio[t] # p
       THEN /\ cur_list_item' = IF t = g_active_task THEN ReadyListAddHead(r, t, p)
                                                     ELSE ReadyListAddTail(r, t, p)
            /\ highest_pri' = HighestAfterAdd(r, h, p)
       ELSE UNCHANGED readyVars
    /\ IF Pending(t) /\ prio[t] # p
       THEN blk_list' = [blk_list EXCEPT ![blk_obj[t]] = PendListReorder(@, t, prio')]
       ELSE UNCHANGED blk_list
    /\ chg' = ChgNext(t, p)
    /\ UNCHANGED <<task_state, b_prio, blk_obj, blk_state, call, tickVars, obj_type,
                   mutex_task, owner_nested, mutex_list, resched, kcall>>
    /\ mutexUnchanged
-----------------------------------------------------------------------------
MutexCreate(m) ==
    /\ TaskCall("mutex_create") /\ ~obj_type[m]
    /\ obj_type' = [obj_type EXCEPT ![m] = TRUE]
    /\ mutex_task' = [mutex_task EXCEPT ![m] = NONE]
    /\ UNCHANGED <<task_state, prio, b_prio, readyVars, pendVars, tickVars,
                   owner_nested, mutex_list, resched, kcall, chg>>
    /\ mutexUnchanged

GiveMutex(m, t) ==
    /\ mutex_task' = [mutex_task EXCEPT ![m] = t]
    /\ mutex_list' = [mutex_list EXCEPT ![t] = <<m>> \o @]
    /\ owner_nested' = [owner_nested EXCEPT ![m] = 1]

\* krhino_mutex_lock.  Nesting stops at the fatal error of NESTED_MAX.
MutexLock(m, ticks) ==
    LET t == g_active_task IN
    /\ TaskCall("mutex_lock") /\ obj_type[m]
    /\ \/ /\ mutex_task[m] = t /\ owner_nested[m] < NESTED_MAX
          /\ owner_nested' = [owner_nested EXCEPT ![m] = @ + 1]
          /\ UNCHANGED <<mutex_task, mutex_list, kcall, chg>>
       \/ /\ mutex_task[m] = NONE
          /\ GiveMutex(m, t)
          /\ UNCHANGED <<kcall, chg>>
       \/ /\ mutex_task[m] \notin {t, NONE} /\ g_sched_lock = 0
          /\ kcall' = KCall("lock", m, NONE, ticks)
          /\ chg' = IF prio[t] < prio[mutex_task[m]] THEN ChgTo(mutex_task[m], prio[t]) ELSE NoChg
          /\ UNCHANGED <<mutex_task, mutex_list, owner_nested>>
    /\ UNCHANGED <<task_state, prio, b_prio, readyVars, pendVars, tickVars, obj_type, resched>>
    /\ mutexUnchanged

\* ... and, once the owner has inherited the priority, the task blocks
MutexLockPend ==
    /\ kcall.pc = "lock" /\ chg = NoChg
    /\ PendToBlkObj(kcall.obj, g_active_task, kcall.ticks)
    /\ ExitSched
    /\ kcall' = NoCall
    /\ UNCHANGED <<prio, b_prio, obj_type, mutex_task, owner_nested, mutex_list, chg>>
    /\ mutexUnchanged

MutexUnlock(m) ==
    LET t == g_active_task
        ml == KlistRm(mutex_list[t], m)
    IN
    /\ TaskCall("mutex_unlock") /\ obj_type[m]
    /\ mutex_task[m] = t
    /\ owner_nested' = [owner_nested EXCEPT ![m] = @ - 1]
    /\ IF owner_nested[m] > 1
       THEN UNCHANGED <<mutex_list, kcall, chg>>
       ELSE /\ mutex_list' = [mutex_list EXCEPT ![t] = ml]
            /\ chg' = Release(t, ml, blk_list)
            /\ kcall' = KCall("unlock", m, NONE, 0)
    /\ UNCHANGED <<task_state, prio, b_prio, readyVars, pendVars, tickVars, obj_type,
                   mutex_task, resched>>
    /\ mutexUnchanged

\* ... and, once the old owner has its own priority again, the mutex goes to
\* its first waiter
MutexHandOver ==
    LET m == kcall.obj
        t == Head(blk_list[m])
    IN
    /\ kcall.pc = "unlock" /\ chg = NoChg
    /\ \/ /\ blk_list[m] = <<>>
          /\ mutex_task' = [mutex_task EXCEPT ![m] = NONE]
          /\ UNCHANGED <<task_state, readyVars, pendVars, tickVars, owner_nested, mutex_list, resched>>
       \/ /\ blk_list[m] # <<>>
          /\ PendTaskWake(m, t, "BLK_FINISH")
          /\ GiveMutex(m, t)
          /\ ExitSched
    /\ kcall' = NoCall
    /\ UNCHANGED <<prio, b_prio, obj_type, chg>>
    /\ mutexUnchanged

\* krhino_mutex_del invalidates the object and takes it from its owner; its
\* loop is DelStep
MutexDel(m) ==
    LET t == mutex_task[m]
        ml == KlistRm(mutex_list[t], m)
    IN
    /\ TaskCall("mutex_del") /\ obj_type[m]
    /\ obj_type' = [obj_type EXCEPT ![m] = FALSE]
    /\ kcall' = KCall("del", m, NONE, 0)
    /\ IF t = NONE
       THEN UNCHANGED <<mutex_list, chg>>
       ELSE /\ mutex_list' = [mutex_list EXCEPT ![t] = ml]
            /\ chg' = Release(t, ml, blk_list)
    /\ UNCHANGED <<task_state, prio, b_prio, readyVars, pendVars, tickVars,
                   mutex_task, owner_nested, resched>>
    /\ mutexUnchanged
=============================================================================
