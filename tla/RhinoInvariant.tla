--------------------------- MODULE RhinoInvariant ---------------------------
(***************************************************************************)
(* The inductive invariant of the kernel: what holds between any two steps *)
(* of it, loops included, and is strong enough to be preserved by each.    *)
(***************************************************************************)
EXTENDS RhinoKernel

\* The lists and what they are a list of.  A deleted object has no waiters
\* once the loop that wakes them has ended.
ListInv ==
    /\ ListsMatchState /\ HighestPriIsFirst /\ WaitersSorted
    /\ \A t \in Tasks : Pending(t) => blk_obj[t] \in Objs
    /\ \A o \in Objs : ~obj_type[o] /\ blk_list[o] # <<>> => kcall.pc = "del" /\ kcall.obj = o

SuspendInv == \A t \in Tasks : task_state[t] \in DOMAIN ResumedTo => suspend_count[t] > 0

\* m has left the list of its owner and has no new owner yet
Unlocking(m) == kcall.pc = "unlock" /\ kcall.obj = m

OwnerInv ==
    /\ \A t \in Tasks :
        /\ NoDup(mutex_list[t])
        /\ \A m \in Mutexes :
            Contains(mutex_list[t], m) <=> obj_type[m] /\ mutex_task[m] = t /\ ~Unlocking(m)
    /\ \A m \in Mutexes : obj_type[m] =>
        /\ blk_list[m] # <<>> => mutex_task[m] # NONE
        /\ mutex_task[m] # NONE =>
            /\ Alive(mutex_task[m]) /\ mutex_task[m] # Idle
            /\ ~Contains(blk_list[m], mutex_task[m])
            /\ owner_nested[m] > 0 \/ Unlocking(m)

\* What a loop of the kernel works on
LoopInv ==
    /\ chg # NoChg =>
        /\ kcall.pc \in {"lock", "unlock", "del", "exit", "tick"}
        /\ Alive(chg.task) /\ chg.task # Idle /\ chg.pri # RHINO_IDLE_PRI
    /\ kcall.pc = "give_all" => kcall.obj \in Sems
    /\ kcall.pc = "del" => kcall.obj \in Objs /\ ~obj_type[kcall.obj]
    /\ kcall.pc = "lock" =>
        /\ kcall.obj \in Mutexes /\ obj_type[kcall.obj]
        /\ mutex_task[kcall.obj] \notin {g_active_task, NONE}
        /\ g_sched_lock = 0
    /\ kcall.pc = "unlock" =>
        /\ kcall.obj \in Mutexes /\ obj_type[kcall.obj]
        /\ mutex_task[kcall.obj] = g_active_task
    /\ kcall.pc \in {"lock", "unlock"} =>
        /\ g_intrpt_nested_level = 0
        /\ task_state[g_active_task] = "K_RDY" /\ g_active_task # Idle
    /\ kcall.pc = "task_del" =>
        /\ kcall.task \in Tasks \ {Idle} /\ Alive(kcall.task)
        /\ kcall.task = g_active_task => g_sched_lock = 0
    /\ kcall.pc = "tick" => g_intrpt_nested_level > 0

\* The task that executes is ready, and so is the one a switch leads to.
RunInv ==
    /\ g_sched_lock > 0 => ~pendsv /\ task_state[g_active_task] = "K_RDY"
    /\ InTask => task_state[g_active_task] = "K_RDY"
    /\ pendsv /\ g_intrpt_nested_level = 0 =>
        kcall.pc = "none" /\ task_state[g_preferred_ready_task] = "K_RDY"

\* Whatever loop the kernel is in, its lists, its owners of mutexes, its
\* suspension counts and the task it runs fit together: no step of a call needs
\* more than this of the steps before it.
IInv == /\ TypeOK /\ ListInv /\ IdleInv /\ SuspendInv /\ OwnerInv /\ LoopInv /\ RunInv
        /\ NoWaiterWithCount
=============================================================================
