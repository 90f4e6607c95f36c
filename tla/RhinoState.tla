----------------------------- MODULE RhinoState -----------------------------
(***************************************************************************)
(* The data of the Rhino kernel (src/kernel/rhino/core) on one CPU: tasks, *)
(* the ready queue, the lists of tasks blocked on an object, the tick list *)
(* and the mutexes each task holds, with the list operations of k_sched.c, *)
(* k_pend.c and k_tick.c.  Every circular list is the sequence read from   *)
(* its head.                                                               *)
(*                                                                         *)
(* The kernel runs with interrupts disabled between RHINO_CRITICAL_ENTER   *)
(* and RHINO_CRITICAL_EXIT.  A call that runs no loop there is one action. *)
(* A loop is one action per iteration: `kcall' says which loop is running  *)
(* and `chg' is the argument of a running task_pri_change; while kcall.pc  *)
(* is not "none" interrupts are disabled, and no action but the next       *)
(* iteration is enabled.                                                   *)
(***************************************************************************)
EXTENDS RhinoList

CONSTANTS
    Tasks,          \* the ktask_t objects, the idle task among them
    Idle,           \* g_idle_task
    Sems, Mutexes,  \* the ksem_t and kmutex_t objects
    NONE,           \* NULL
    PRI_MAX,        \* RHINO_CONFIG_PRI_MAX
    TICK_MODULUS,   \* 2^32: tick_t is a uint32_t
    SEM_MAX,        \* (sem_count_t)-1
    NESTED_MAX,     \* (mutex_nested_t)-1
    SUSPEND_MAX,    \* (suspend_nested_t)-1
    LOCK_MAX,       \* SCHED_MAX_LOCK_COUNT
    INTRPT_MAX,     \* RHINO_CONFIG_INTRPT_MAX_NESTED_LEVEL
    InitReady,      \* the ready lists krhino_start finds: the tasks created
                    \* before it, in order
    InitPrio,       \* the priority each task is created with
    InitCount,      \* the count a semaphore is created with
    Timeouts,       \* the finite waits the application asks for, in ticks
    Prios,          \* the priorities it asks krhino_task_pri_change for
    Calls,          \* the kernel calls its tasks make
    IsrCalls        \* the kernel calls its interrupt handlers make

Objs == Sems \cup Mutexes
Pri == 0..(PRI_MAX - 1)
RHINO_IDLE_PRI == PRI_MAX - 1

ASSUME TaskAssumption ==
    /\ Idle \in Tasks
    /\ NONE \notin Tasks \cup Objs
    /\ Sems \cap Mutexes = {}

ASSUME BoundAssumption ==
    /\ PRI_MAX \in Nat /\ PRI_MAX > 1
    /\ TICK_MODULUS \in Nat /\ TICK_MODULUS > 1
    /\ SEM_MAX \in Nat \ {0} /\ NESTED_MAX \in Nat \ {0} /\ SUSPEND_MAX \in Nat \ {0}
    /\ LOCK_MAX \in Nat /\ INTRPT_MAX \in Nat

ASSUME ApplicationAssumption ==
    /\ InitPrio \in [Tasks -> Pri]
    /\ \A t \in Tasks : InitPrio[t] = RHINO_IDLE_PRI <=> t = Idle
    /\ InitReady \in [Pri -> Seq(Tasks)]
    /\ \A p \in Pri : NoDup(InitReady[p]) /\ \A t \in Tasks : Contains(InitReady[p], t) => InitPrio[t] = p
    /\ Contains(InitReady[RHINO_IDLE_PRI], Idle)
    /\ InitCount \in 0..SEM_MAX
    /\ Timeouts \subseteq 1..(TICK_MODULUS - 2)
    /\ Prios \subseteq 0..(PRI_MAX - 2)

VARIABLES
    task_state, prio, b_prio, suspend_count,    \* ktask_t
    cur_list_item, highest_pri,                 \* runqueue_t g_ready_queue
    blk_list, blk_obj, blk_state,               \* blk_obj_t.blk_list, ktask_t
    call,           \* the object whose blocking call a task has not returned from
    pri_req,        \* the call of krhino_task_pri_change whose checks passed
    g_tick_count, tick_list, tick_match,        \* g_tick_head, ktask_t
    obj_type,       \* TRUE while blk_obj_t.obj_type is the object's type
    count,          \* ksem_t.count
    mutex_task, owner_nested,                   \* kmutex_t
    mutex_list,     \* the mutexes linked from ktask_t.mutex_list, in order
    g_active_task, g_preferred_ready_task, g_sched_lock, g_intrpt_nested_level,
    pendsv,         \* the PendSV exception that switches tasks is pending
    resched,        \* tasks between RHINO_CPU_INTRPT_ENABLE and core_sched
    kcall, chg

readyVars == <<cur_list_item, highest_pri>>
pendVars  == <<blk_list, blk_obj, blk_state, call>>
tickVars  == <<tick_list, tick_match>>
objVars   == <<obj_type, count, mutex_task, owner_nested, mutex_list>>
cpuVars   == <<g_active_task, g_preferred_ready_task, g_sched_lock,
               g_intrpt_nested_level, pendsv>>
vars == <<task_state, prio, b_prio, suspend_count, readyVars, pendVars, pri_req,
          g_tick_count, tickVars, objVars, cpuVars, resched, kcall, chg>>

TaskStates == {"K_SEED", "K_RDY", "K_PEND", "K_SUSPENDED", "K_PEND_SUSPENDED",
               "K_SLEEP", "K_SLEEP_SUSPENDED", "K_DELETED"}
Pending(t)   == task_state[t] \in {"K_PEND", "K_PEND_SUSPENDED"}
Sleeping(t)  == task_state[t] \in {"K_SLEEP", "K_SLEEP_SUSPENDED"}
Alive(t)     == task_state[t] \notin {"K_SEED", "K_DELETED"}
BlkStates == {"BLK_FINISH", "BLK_TIMEOUT", "BLK_DEL"}

KCall(pc, o, t, ticks) == [pc |-> pc, obj |-> o, task |-> t, ticks |-> ticks]
NoCall == KCall("none", NONE, NONE, 0)
ChgTo(t, p) == [task |-> t, pri |-> p]
NoChg == ChgTo(NONE, 0)
WAIT_FOREVER == TICK_MODULUS - 1    \* RHINO_WAIT_FOREVER

-----------------------------------------------------------------------------
(* The ready queue.  An empty list is the NULL of cur_list_item and a clear *)
(* bit of task_bit_map.                                                     *)

ReadyListAddHead(r, t, p) == [r EXCEPT ![p] = <<t>> \o @]
ReadyListAddTail(r, t, p) == [r EXCEPT ![p] = Append(@, t)]

\* ready_list_add: behind the tasks of the running task's priority, before
\* those of any other
ReadyListAdd(r, t, p, active_pri) ==
    IF p = active_pri THEN ReadyListAddTail(r, t, p) ELSE ReadyListAddHead(r, t, p)

ReadyListRm(r, t, p) == [r EXCEPT ![p] = KlistRm(@, t)]

ReadyListHeadToTail(r, p) == [r EXCEPT ![p] = Append(Tail(@), Head(@))]

\* ready_list_init raises highest_pri when the first task of a list arrives
HighestAfterAdd(r, h, p) == IF r[p] = <<>> /\ p < h THEN p ELSE h

\* mutant: the cached highest priority outlives its list
HighestAfterRmStale(r, h, p) == h

\* ready_list_rm searches task_bit_map when the last task of the highest
\* list leaves
HighestAfterRm(r, h, p) ==
    IF Len(r[p]) = 1 /\ p = h
    THEN Least({q \in Pri : r[q] # <<>> /\ q # p})
    ELSE h

ReadyAdd(t) ==
    /\ cur_list_item' = ReadyListAdd(cur_list_item, t, prio[t], prio[g_active_task])
    /\ highest_pri' = HighestAfterAdd(cur_list_item, highest_pri, prio[t])

ReadyRm(t) ==
    /\ cur_list_item' = ReadyListRm(cur_list_item, t, prio[t])
    /\ highest_pri' = HighestAfterRm(cur_list_item, highest_pri, prio[t])

PreferredReadyTask == Head(cur_list_item[highest_pri])
-----------------------------------------------------------------------------
(* Lists sorted by insertion: before the first element that is larger.      *)

\* mutant: a waiter keeps its place when its priority changes
PendListReorderNot(l, t, pr) == l

PendListReorder(l, t, pr) == PendListAdd(KlistRm(l, t), t, pr)

\* the unsigned difference tick_match - g_tick_count
Remaining(t) == (tick_match[t] - g_tick_count) % TICK_MODULUS

\* mutant: compares absolute ticks, which wrap
TickListInsertAbsolute(t, time) ==
    LET match == (g_tick_count + time) % TICK_MODULUS IN
    /\ tick_match' = [tick_match EXCEPT ![t] = match]
    /\ tick_list' = KlistInsert(tick_list, FirstOr(tick_list, LAMBDA u : tick_match[u] > match), t)

\* mutant: tick_match does not wrap
TickListInsertWide(t, time) ==
    /\ tick_match' = [tick_match EXCEPT ![t] = g_tick_count + time]
    /\ tick_list' = KlistInsert(tick_list, FirstOr(tick_list, LAMBDA u : Remaining(u) > time), t)

TickListInsert(t, time) ==
    /\ tick_match' = [tick_match EXCEPT ![t] = (g_tick_count + time) % TICK_MODULUS]
    /\ tick_list' = KlistInsert(tick_list, FirstOr(tick_list, LAMBDA u : Remaining(u) > time), t)

\* mutant: a task woken before its deadline stays on the tick list
TickListRmNot(t) == UNCHANGED tickVars

\* A task that is not on the tick list has tick_head NULL.  No code reads its
\* tick_match, which the model leaves at 0.
TickListRm(t) ==
    /\ tick_list' = KlistRm(tick_list, t)
    /\ tick_match' = [tick_match EXCEPT ![t] = 0]
-----------------------------------------------------------------------------
(* Blocking on an object and waking up.                                     *)

\* pend_to_blk_obj
PendToBlkObj(o, t, timeout) ==
    /\ blk_obj' = [blk_obj EXCEPT ![t] = o]
    /\ IF timeout # WAIT_FOREVER THEN TickListInsert(t, timeout) ELSE UNCHANGED tickVars
    /\ task_state' = [task_state EXCEPT ![t] = "K_PEND"]
    /\ ReadyRm(t)
    /\ blk_list' = [blk_list EXCEPT ![o] = PendListAdd(@, t, prio)]
    /\ call' = [call EXCEPT ![t] = o]
    /\ UNCHANGED blk_state

\* mutant: a task does not learn that its wait failed
PendTaskWakeFinish(o, t, why) ==
    /\ IF task_state[t] = "K_PEND"
       THEN ReadyAdd(t) /\ task_state' = [task_state EXCEPT ![t] = "K_RDY"]
       ELSE UNCHANGED readyVars /\ task_state' = [task_state EXCEPT ![t] = "K_SUSPENDED"]
    /\ blk_list' = [blk_list EXCEPT ![o] = KlistRm(@, t)]
    /\ TickListRm(t)
    /\ blk_state' = [blk_state EXCEPT ![t] = "BLK_FINISH"]
    /\ blk_obj' = [blk_obj EXCEPT ![t] = NONE]
    /\ UNCHANGED call

\* pend_task_wakeup (why is BLK_FINISH), pend_task_rm (BLK_DEL) and the
\* pending cases of tick_list_update (BLK_TIMEOUT)
PendTaskWake(o, t, why) ==
    /\ IF task_state[t] = "K_PEND"
       THEN ReadyAdd(t) /\ task_state' = [task_state EXCEPT ![t] = "K_RDY"]
       ELSE UNCHANGED readyVars /\ task_state' = [task_state EXCEPT ![t] = "K_SUSPENDED"]
    /\ blk_list' = [blk_list EXCEPT ![o] = KlistRm(@, t)]
    /\ TickListRm(t)
    /\ blk_state' = [blk_state EXCEPT ![t] = why]
    /\ blk_obj' = [blk_obj EXCEPT ![t] = NONE]
    /\ UNCHANGED call
-----------------------------------------------------------------------------
(* Who may run.  A task runs while no handler is active, no switch is        *)
(* pending, the kernel is in no loop and its last call has returned.         *)

InTask == /\ g_intrpt_nested_level = 0 /\ ~pendsv /\ kcall.pc = "none"
          /\ g_active_task \notin resched

TaskCall(c) == /\ c \in Calls /\ InTask /\ g_active_task # Idle
               /\ call[g_active_task] = NONE /\ pri_req[g_active_task] = NoChg

IsrCall(c) == c \in IsrCalls /\ g_intrpt_nested_level > 0 /\ kcall.pc = "none"

\* mutant: RHINO_CRITICAL_EXIT, which does not reschedule
ExitNoSched == UNCHANGED resched

\* RHINO_CRITICAL_EXIT_SCHED enables interrupts and calls core_sched, which
\* returns at once in an interrupt handler
ExitSched == resched' = IF g_intrpt_nested_level = 0
                        THEN resched \cup {g_active_task} ELSE resched
=============================================================================
