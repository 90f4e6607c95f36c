-------------------------- MODULE RhinoProperties ---------------------------
(***************************************************************************)
(* Properties of the kernel: safety, what a step may not do, liveness.     *)
(***************************************************************************)
EXTENDS RhinoKernel

\* When a task executes with the scheduler unlocked it is the first task of
\* the highest priority: no wake-up by a handler between
\* RHINO_CPU_INTRPT_ENABLE and core_sched is lost, and every call that readies
\* a task or changes a priority ends in a rescheduling.
RunsHighest ==
    /\ InTask /\ g_sched_lock = 0 => g_active_task = PreferredReadyTask
    /\ pendsv /\ g_intrpt_nested_level = 0 /\ kcall.pc = "none" =>
           g_preferred_ready_task = PreferredReadyTask

\* The tick list is sorted by remaining time across the wrap of g_tick_count,
\* and no entry is ever overdue: what is left of a wait is at most what was
\* asked for, and nothing is left only during tick_list_update.
DeadlinesKept ==
    /\ \A i, j \in 1..Len(tick_list) : i < j => Remaining(tick_list[i]) <= Remaining(tick_list[j])
    /\ \A i \in 1..Len(tick_list) :
        /\ \E n \in Timeouts : Remaining(tick_list[i]) <= n
        /\ kcall.pc # "tick" => Remaining(tick_list[i]) > 0

\* mutex_list of a live task holds exactly the mutexes it owns, a mutex with
\* waiters has an owner, and the owner is alive and does not wait for it.  So
\* task_pri_change, which follows owners, never meets a deleted task, for which
\* it would call k_err_proc.
OwnersConsistent ==
    /\ chg # NoChg => Alive(chg.task)
    /\ kcall.pc = "none" =>
        /\ \A t \in Tasks : Alive(t) =>
            /\ NoDup(mutex_list[t])
            /\ \A m \in Mutexes :
                Contains(mutex_list[t], m) <=> obj_type[m] /\ mutex_task[m] = t
        /\ \A m \in Mutexes :
            /\ blk_list[m] # <<>> => mutex_task[m] # NONE
            /\ obj_type[m] /\ mutex_task[m] # NONE =>
                Alive(mutex_task[m]) /\ ~Contains(blk_list[m], mutex_task[m]) /\ owner_nested[m] > 0

\* The tasks that wait for a mutex of t
WaitersOf(t) == {u \in Tasks : Pending(u) /\ blk_obj[u] \in ToSet(mutex_list[t])}

\* Priority inheritance: outside the kernel every task runs at the highest of
\* its base priority and those of all the tasks that wait for a mutex it owns,
\* through chains of owners and after every time-out, deletion, unlock and
\* change of a base priority.
PriorityInherited == kcall.pc = "none" =>
    \A t \in Tasks : Alive(t) => prio[t] = Least({b_prio[t]} \cup {prio[u] : u \in WaitersOf(t)})

\* krhino_mutex_lock reports success to exactly the tasks that own the mutex:
\* blk_state is still true of the mutex when the task gets to read it.
LockResult == \A t \in Tasks : \A m \in Mutexes :
    call[t] = m /\ ~Pending(t) /\ obj_type[m] /\ kcall.pc = "none" =>
        (blk_state[t] = "BLK_FINISH" <=> mutex_task[m] = t)
-----------------------------------------------------------------------------
(* Action properties.                                                       *)

\* The active task never changes while it holds the scheduler locked.
SchedLockKeepsTask == [][g_sched_lock > 0 => g_active_task' = g_active_task]_vars

\* A task that becomes the owner of a mutex owns it once: "if the same task
\* get the same mutex again, it causes mutex owner nested".
NewOwnerNotNested == [][\A m \in Mutexes :
    mutex_task'[m] \notin {mutex_task[m], NONE} => owner_nested'[m] = 1]_vars

-----------------------------------------------------------------------------
(* Liveness.  The processor executes the kernel's loops, the tick interrupt *)
(* keeps coming and is served whenever interrupts are enabled again, its    *)
(* handler returns, and a task that may run does.  Interrupts are enabled   *)
(* and disabled over and over, so what waits for them needs strong          *)
(* fairness: an interrupt or a PendSV that is pending is taken.             *)

Fairness ==
    /\ WF_vars(KernelStep)
    /\ SF_vars(IntrptEnter) /\ SF_vars(Tick) /\ SF_vars(IntrptExit)
    /\ SF_vars(CoreSched) /\ SF_vars(PendSV) /\ SF_vars(PendReturn)
FairSpec == Spec /\ Fairness

\* Every loop the kernel runs with interrupts disabled ends: task_pri_change
\* terminates on chains of owners, also when tasks block each other in a cycle.
KernelLoopsEnd == kcall.pc # "none" ~> kcall.pc = "none"

\* A task above all others that blocks with a time-out runs again and returns
\* from its call, whatever the other tasks and the handlers do, unless a change
\* of priorities overtakes it: also when the time-out finds a lower task running
\* at the priority it inherited.
AboveAll(t) == \A u \in Tasks \ {t} : b_prio[t] < b_prio[u]
HighestReturns == \A t \in Tasks :
    Contains(tick_list, t) /\ call[t] # NONE /\ AboveAll(t) ~> call[t] = NONE \/ ~AboveAll(t)
=============================================================================
