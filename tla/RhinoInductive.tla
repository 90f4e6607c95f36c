--------------------------- MODULE RhinoInductive ---------------------------
(***************************************************************************)
(* What holds between any two steps of the kernel besides IInv, loops      *)
(* included: the priorities tasks inherit, the task that runs, the tick    *)
(* list and the results of krhino_mutex_lock.  Each part is inductive      *)
(* together with IInv and the parts before it.                             *)
(***************************************************************************)
EXTENDS RhinoInvariant, RhinoProperties

\* The priority t has once a running task_pri_change has reached it
Target(t) == IF chg.task = t THEN chg.pri ELSE prio[t]

\* u waits for m, or is in krhino_mutex_lock and about to
Claims(u, m) == \/ Contains(blk_list[m], u)
                \/ kcall.pc = "lock" /\ kcall.obj = m /\ u = g_active_task
WaitsFor(u, t) == \E m \in Mutexes : Contains(mutex_list[t], m) /\ Claims(u, m)

\* p is the highest of the base priority of t and of those of the tasks that
\* wait for t
IsInherited(p, t) ==
    /\ p <= b_prio[t]
    /\ \A u \in Tasks : WaitsFor(u, t) => p <= prio[u]
    /\ p = b_prio[t] \/ \E u \in Tasks : WaitsFor(u, t) /\ p = prio[u]

\* krhino_task_del takes its mutexes from t
Dying(t) == kcall.pc = "task_del" /\ kcall.task = t

\* At every step of a chain of task_pri_change only the task it is about to
\* reach has not the priority it inherits.
Inherited == \A t \in Tasks : Alive(t) /\ ~Dying(t) => IsInherited(Target(t), t)

\* A task that unlocks a mutex changes itself only; one that locks a mutex
\* raises others to its own priority.
ChgLimits ==
    /\ chg # NoChg /\ kcall.pc = "unlock" => chg.task = g_active_task
    /\ chg # NoChg /\ kcall.pc = "lock" => chg.pri = prio[g_active_task] /\ chg.pri < prio[chg.task]

PriorityInv == Inherited /\ ChgLimits

\* RunsHighest, and why krhino_mutex_unlock may return without rescheduling
\* when nobody waits: the priority of its task does not change then.
HighestInv ==
    /\ RunsHighest
    /\ kcall.pc = "unlock" /\ chg # NoChg => blk_list[kcall.obj] # <<>>
    /\ kcall.pc = "unlock" /\ blk_list[kcall.obj] = <<>> /\ g_sched_lock = 0 =>
           g_active_task = PreferredReadyTask

\* DeadlinesKept, and krhino_mutex_lock still has the wait it was asked for
DeadlineInv == DeadlinesKept /\ (kcall.pc = "lock" => kcall.ticks \in Waits)

\* The result of every wait for a mutex, from the end of the wait on.  A mutex
\* that is created anew is a new mutex for the tasks that waited for the old one.
LockInv == "mutex_create" \notin Calls =>
    /\ \A t \in Tasks : Pending(t) => call[t] = blk_obj[t]
    /\ \A t \in Tasks : \A m \in Mutexes :
        call[t] = m /\ ~Pending(t) /\ obj_type[m] /\ ~Dying(t) =>
            (blk_state[t] = "BLK_FINISH" <=> mutex_task[m] = t)
    /\ kcall.pc = "unlock" => call[g_active_task] = NONE

\* Between any two steps of the kernel, those of its loops included, its data
\* fit together (IInv), every task has the priority it inherits or is the one
\* task_pri_change is about to reach, the right task runs, the tick list is
\* sorted and nobody is overdue, and a task that waited for a mutex owns it
\* exactly if blk_state says so.
KInv == IInv /\ PriorityInv /\ HighestInv /\ DeadlineInv /\ LockInv
=============================================================================
