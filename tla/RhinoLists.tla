----------------------------- MODULE RhinoLists -----------------------------
(***************************************************************************)
(* What the lists of the kernel hold: the tasks whose states name them.    *)
(***************************************************************************)
EXTENDS RhinoState

\* A task is on the ready list of its current priority exactly while it is
\* K_RDY (task_pri_change, pend_task_wakeup, task_suspend move it).
ReadyLists == \A p \in Pri :
    /\ NoDup(cur_list_item[p])
    /\ \A t \in Tasks : Contains(cur_list_item[p], t) <=> task_state[t] = "K_RDY" /\ prio[t] = p

\* A task is on the list of the object it is blocked on exactly while it is
\* K_PEND or K_PEND_SUSPENDED.
BlkLists == \A o \in Objs :
    /\ NoDup(blk_list[o])
    /\ \A t \in Tasks : Contains(blk_list[o], t) <=> Pending(t) /\ blk_obj[t] = o

\* Every sleeping task is on the tick list, and only sleeping and blocked ones.
TickList ==
    /\ NoDup(tick_list)
    /\ \A t \in Tasks : Sleeping(t) => Contains(tick_list, t)
    /\ \A t \in Tasks : Contains(tick_list, t) => Sleeping(t) \/ Pending(t)

\* After any interleaving of calls, handlers, time-outs, suspensions and
\* priority changes each task is on exactly the lists its task_state names.
ListsMatchState == ReadyLists /\ BlkLists /\ TickList

\* The cached g_ready_queue.highest_pri is the highest priority with a ready
\* task, after every ready_list_add, ready_list_rm and priority change.
HighestPriIsFirst ==
    /\ cur_list_item[highest_pri] # <<>>
    /\ \A p \in Pri : p < highest_pri => cur_list_item[p] = <<>>

\* The waiters of an object stay sorted by current priority when inherited
\* priorities change under them (pend_list_reorder in task_pri_change).
WaitersSorted == \A o \in Objs : \A i, j \in 1..Len(blk_list[o]) :
    i < j => prio[blk_list[o][i]] <= prio[blk_list[o][j]]

\* The idle task is always ready, has its priority for itself and makes no
\* call: ready_list_rm always finds a task.
IdleInv ==
    /\ task_state[Idle] = "K_RDY"
    /\ \A t \in Tasks : prio[t] = RHINO_IDLE_PRI <=> t = Idle
    /\ \A t \in Tasks : b_prio[t] = RHINO_IDLE_PRI <=> t = Idle
    /\ \A t \in Tasks : pri_req[t] # NoChg => pri_req[t].task # Idle /\ pri_req[t].pri # RHINO_IDLE_PRI
-----------------------------------------------------------------------------
(* The same with the types, as the proofs use it.                           *)

\* The ready queue and its types
ReadyPart == /\ cur_list_item \in [Pri -> Seq(Tasks)] /\ highest_pri \in Pri
             /\ ReadyLists /\ HighestPriIsFirst

\* The waiting lists
BlkPart == /\ blk_list \in [Objs -> Seq(Tasks)] /\ blk_obj \in [Tasks -> Objs \cup {NONE}]
           /\ BlkLists /\ WaitersSorted
           /\ \A t \in Tasks : Pending(t) => blk_obj[t] \in Objs

\* The tick list
TickPart == /\ tick_list \in Seq(Tasks) /\ tick_match \in [Tasks -> 0..(TICK_MODULUS - 1)]
            /\ TickList

ListPart == ReadyPart /\ BlkPart /\ TickPart

TaskPart == /\ prio \in [Tasks -> Pri] /\ task_state \in [Tasks -> TaskStates]
            /\ g_tick_count \in Nat /\ IdleInv
=============================================================================
