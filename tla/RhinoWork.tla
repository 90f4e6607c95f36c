----------------------------- MODULE RhinoWork ------------------------------
(***************************************************************************)
(* The work queues of k_workqueue.c: callers put works on the list of a    *)
(* queue, at once or through the timer of the work, and the worker of the  *)
(* queue takes them off and runs them.  A call is split where it leaves    *)
(* its critical section.  The timer task is the one of RhinoTimer, seen    *)
(* from here: commands that it takes in order, and a timer that fires at   *)
(* any time once it is armed.                                              *)
(***************************************************************************)
EXTENDS Integers, RhinoList, Sequences, FiniteSets

CONSTANTS Works, Queues, Callers, NONE,
          Delayed,   \* the works initialised with a delay, which run through their timer
          Calls,     \* the calls that each caller makes
          MSG_NUM    \* RHINO_CONFIG_TIMER_MSG_NUM: commands that the timer task holds

ASSUME WorkAssumption ==
    /\ Delayed \subseteq Works /\ MSG_NUM \in Nat \ {0} /\ IsFiniteSet(Callers)
    /\ Calls \in [Callers -> SUBSET {"run", "cancel", "del"}] /\ NONE \notin Works \cup Queues \cup Nat

VARIABLES
    g_workqueue_list,  \* the queues that exist
    work_list,         \* per queue: the works to run
    work_current,      \* per queue: the work that runs
    sem,               \* per queue: the count of its semaphore, NONE when it is deleted
    worker,            \* per queue: where its task is, "new" before and "none" after its life
    wq,                \* per work: the queue it was put on last
    work_exit,         \* per work: whether it is pending
    armed,             \* per work: the queue that its timer is armed for
    commands,          \* what the timer task is told and has not done yet
    callback,          \* the queue whose semaphore work_timer_cb has still to give
    caller             \* per caller: where it is, its queue and its work, and its last result

queues == <<g_workqueue_list, sem, worker>>
works == <<work_list, work_current, wq, work_exit>>
timers == <<armed, commands, callback>>
vars == <<queues, works, timers, caller>>

Idle(ret) == [pc |-> "idle", q |-> NONE, w |-> NONE, ret |-> ret]
At(p, q, w) == [pc |-> p, q |-> q, w |-> w, ret |-> NONE]
Return(c, ret) == caller' = [caller EXCEPT ![c] = Idle(ret)]
Goto(c, p) == caller' = [caller EXCEPT ![c].pc = p]

\* Mutant: the semaphore is not given
SemGiveNothing(q) == UNCHANGED sem

\* krhino_sem_give, refused when the semaphore is deleted
SemGive(q) == sem' = IF sem[q] = NONE THEN sem ELSE [sem EXCEPT ![q] = @ + 1]

\* The critical section that puts a work on a list: klist_rm_init and klist_insert
Put(w, q) ==
    /\ work_list' = [x \in Queues |-> IF x = q THEN Append(KlistRm(work_list[x], w), w) ELSE KlistRm(work_list[x], w)]
    /\ wq' = [wq EXCEPT ![w] = q] /\ work_exit' = [work_exit EXCEPT ![w] = TRUE]
    /\ UNCHANGED work_current

-----------------------------------------------------------------------------
(* The worker of a queue.                                                   *)

\* Mutant: the worker does not wait for its semaphore
WorkerTakeAlways(q) ==
    /\ worker[q] = "take" /\ sem[q] # NONE
    /\ sem' = [sem EXCEPT ![q] = @ - 1] /\ worker' = [worker EXCEPT ![q] = "taken"]
    /\ UNCHANGED <<g_workqueue_list, works, timers, caller>>

WorkerTake(q) ==
    /\ worker[q] = "take" /\ sem[q] # NONE /\ sem[q] > 0
    /\ sem' = [sem EXCEPT ![q] = @ - 1] /\ worker' = [worker EXCEPT ![q] = "taken"]
    /\ UNCHANGED <<g_workqueue_list, works, timers, caller>>

\* Mutant: work_exit is not cleared
WorkerPickKeepsExit(q) ==
    /\ worker[q] = "taken" /\ worker' = [worker EXCEPT ![q] = "handle"]
    /\ work_list' = [work_list EXCEPT ![q] = Tail(@)]
    /\ work_current' = [work_current EXCEPT ![q] = Head(work_list[q])]
    /\ UNCHANGED <<g_workqueue_list, sem, wq, work_exit, timers, caller>>

\* The first entry of the list, which the code does not test to be there
WorkerPick(q) ==
    LET work == Head(work_list[q])
    IN
    /\ worker[q] = "taken" /\ worker' = [worker EXCEPT ![q] = "handle"]
    /\ work_list' = [work_list EXCEPT ![q] = Tail(@)]
    /\ work_current' = [work_current EXCEPT ![q] = work]
    /\ work_exit' = [work_exit EXCEPT ![work] = FALSE]
    /\ UNCHANGED <<g_workqueue_list, sem, wq, timers, caller>>

WorkerDone(q) ==
    /\ worker[q] = "handle" /\ worker' = [worker EXCEPT ![q] = "take"]
    /\ work_current' = [work_current EXCEPT ![q] = NONE]
    /\ UNCHANGED <<g_workqueue_list, sem, work_list, wq, work_exit, timers, caller>>

-----------------------------------------------------------------------------
(* krhino_workqueue_create and krhino_workqueue_del.                        *)

\* Nobody uses a queue before its creation has returned.
WorkqueueCreate(q) ==
    /\ worker[q] = "new" /\ worker' = [worker EXCEPT ![q] = "take"]
    /\ sem' = [sem EXCEPT ![q] = 0] /\ g_workqueue_list' = g_workqueue_list \cup {q}
    /\ UNCHANGED <<works, timers, caller>>

\* workqueue_is_exist, and BUSY for a queue with works; one caller at a time deletes
\* a queue.
WorkqueueDel(c) ==
    /\ "del" \in Calls[c] /\ caller[c].pc = "idle"
    /\ \E q \in g_workqueue_list :
          /\ \A x \in Callers : caller[x].q = q => caller[x].pc \notin {"task_del", "sem_del", "remove"}
          /\ IF work_list[q] # <<>> \/ work_current[q] # NONE
             THEN Return(c, "BUSY") ELSE caller' = [caller EXCEPT ![c] = At("task_del", q, NONE)]
    /\ UNCHANGED <<queues, works, timers>>

DelTask(c) ==
    /\ caller[c].pc = "task_del" /\ Goto(c, "sem_del")
    /\ worker' = [worker EXCEPT ![caller[c].q] = "none"]
    /\ UNCHANGED <<g_workqueue_list, sem, works, timers>>

DelSem(c) ==
    /\ caller[c].pc = "sem_del" /\ Goto(c, "remove")
    /\ sem' = [sem EXCEPT ![caller[c].q] = NONE]
    /\ UNCHANGED <<g_workqueue_list, worker, works, timers>>

DelRemove(c) ==
    /\ caller[c].pc = "remove" /\ Return(c, "SUCCESS")
    /\ g_workqueue_list' = g_workqueue_list \ {caller[c].q}
    /\ UNCHANGED <<sem, worker, works, timers>>

-----------------------------------------------------------------------------
(* krhino_work_run and krhino_work_cancel.                                  *)

\* A command for the timer of a work: refused when the timer task has no block left
Tell(cmd, w, q) ==
    commands' = IF Len(commands) < MSG_NUM THEN Append(commands, [cmd |-> cmd, w |-> w, q |-> q]) ELSE commands

\* Mutant: a work that is pending is put on the list again
WorkRunAgain(c) ==
    /\ "run" \in Calls[c] /\ caller[c].pc = "idle"
    /\ \E w \in Works \ Delayed, q \in g_workqueue_list :
          work_current[q] # w /\ Put(w, q) /\ caller' = [caller EXCEPT ![c] = At("give", q, w)]
    /\ UNCHANGED <<queues, timers>>

\* krhino_work_run of a work without a delay; the semaphore is given after the
\* critical section
WorkRun(c) ==
    /\ "run" \in Calls[c] /\ caller[c].pc = "idle"
    /\ \E w \in Works \ Delayed, q \in g_workqueue_list :
          \/ work_current[q] = w /\ Return(c, "RUNNING") /\ UNCHANGED works
          \/ work_current[q] # w /\ work_exit[w] /\ Return(c, "EXIST") /\ UNCHANGED works
          \/ /\ work_current[q] # w /\ ~work_exit[w]
             /\ Put(w, q) /\ caller' = [caller EXCEPT ![c] = At("give", q, w)]
    /\ UNCHANGED <<queues, timers>>

WorkGive(c) ==
    LET q == caller[c].q
    IN
    /\ caller[c].pc = "give" /\ SemGive(q)
    /\ caller' = [caller EXCEPT ![c].pc = "idle", ![c].ret = IF sem[q] = NONE THEN "ERROR" ELSE "SUCCESS"]
    /\ UNCHANGED <<g_workqueue_list, worker, works, timers>>

\* krhino_work_run of a work with a delay
WorkRunDelayed(c) ==
    /\ "run" \in Calls[c] /\ caller[c].pc = "idle"
    /\ \E w \in Delayed, q \in g_workqueue_list :
          Tell("AUTO", w, q) /\ Return(c, IF Len(commands) < MSG_NUM THEN "SUCCESS" ELSE "ERROR")
    /\ UNCHANGED <<queues, works, armed, callback>>

\* krhino_work_cancel reads wq before its critical section
WorkCancel(c) ==
    /\ "cancel" \in Calls[c] /\ caller[c].pc = "idle"
    /\ \E w \in Works :
          \/ /\ wq[w] = NONE /\ Return(c, "SUCCESS")
             /\ IF w \in Delayed THEN Tell("STOP", w, NONE) ELSE UNCHANGED commands
          \/ /\ wq[w] # NONE /\ caller' = [caller EXCEPT ![c] = At("cancel", wq[w], w)]
             /\ UNCHANGED commands
    /\ UNCHANGED <<queues, works, armed, callback>>

CancelWork(c) ==
    LET w == caller[c].w
        q == caller[c].q
    IN
    /\ caller[c].pc = "cancel"
    /\ \/ work_current[q] = w /\ Return(c, "RUNNING") /\ UNCHANGED <<work_list, wq>>
       \/ work_current[q] # w /\ work_exit[w] /\ Return(c, "EXIST") /\ UNCHANGED <<work_list, wq>>
       \/ /\ work_current[q] # w /\ ~work_exit[w] /\ Return(c, "SUCCESS")
          /\ work_list' = [x \in Queues |-> KlistRm(work_list[x], w)] /\ wq' = [wq EXCEPT ![w] = NONE]
    /\ UNCHANGED <<queues, work_current, work_exit, timers>>

-----------------------------------------------------------------------------
(* The timer task.                                                          *)

\* The command STOP, and STOP followed by START with the queue as the argument
TimerCommand ==
    LET m == Head(commands)
    IN
    /\ callback = NONE /\ commands # <<>> /\ commands' = Tail(commands)
    /\ armed' = [armed EXCEPT ![m.w] = m.q]
    /\ UNCHANGED <<callback, queues, works, caller>>

\* Mutant: the timer does not look whether the work is running
TimerFireAnyway(w) ==
    /\ callback = NONE /\ armed[w] # NONE /\ armed' = [armed EXCEPT ![w] = NONE]
    /\ \/ work_exit[w] /\ UNCHANGED <<works, callback>>
       \/ ~work_exit[w] /\ Put(w, armed[w]) /\ callback' = armed[w]
    /\ UNCHANGED <<commands, queues, caller>>

\* work_timer_cb up to the end of its critical section
TimerFire(w) ==
    LET q == armed[w]
    IN
    /\ callback = NONE /\ q # NONE /\ armed' = [armed EXCEPT ![w] = NONE]
    /\ \/ (work_current[q] = w \/ work_exit[w]) /\ UNCHANGED <<works, callback>>
       \/ work_current[q] # w /\ ~work_exit[w] /\ Put(w, q) /\ callback' = q
    /\ UNCHANGED <<commands, queues, caller>>

TimerGive ==
    /\ callback # NONE /\ SemGive(callback) /\ callback' = NONE
    /\ UNCHANGED <<g_workqueue_list, worker, armed, commands, works, caller>>

-----------------------------------------------------------------------------
\* krhino_work_init of every work; the queues are created by and by
Init ==
    /\ g_workqueue_list = {} /\ work_list = [q \in Queues |-> <<>>]
    /\ work_current = [q \in Queues |-> NONE] /\ sem = [q \in Queues |-> NONE]
    /\ worker = [q \in Queues |-> "new"] /\ wq = [w \in Works |-> NONE]
    /\ work_exit = [w \in Works |-> FALSE] /\ armed = [w \in Works |-> NONE]
    /\ commands = <<>> /\ callback = NONE /\ caller = [c \in Callers |-> Idle(NONE)]

Worker(q) == WorkerTake(q) \/ WorkerPick(q) \/ WorkerDone(q)
Continue(c) == DelTask(c) \/ DelSem(c) \/ DelRemove(c) \/ WorkGive(c) \/ CancelWork(c)
Call(c) == WorkqueueDel(c) \/ WorkRun(c) \/ WorkRunDelayed(c) \/ WorkCancel(c)
Timer == TimerCommand \/ TimerGive \/ \E w \in Works : TimerFire(w)

Next ==
    \/ \E q \in Queues : WorkqueueCreate(q) \/ Worker(q)
    \/ \E c \in Callers : Call(c) \/ Continue(c)
    \/ Timer

Spec == Init /\ [][Next]_vars

\* Workers, the timer task and the callers go on with what they have begun; nobody
\* has to make a call.
LiveSpec ==
    /\ Spec /\ WF_vars(Timer)
    /\ \A q \in Queues : WF_vars(Worker(q))
    /\ \A c \in Callers : WF_vars(Continue(c))

-----------------------------------------------------------------------------
\* The type invariant of the work queues
Command == [cmd : {"AUTO", "STOP"}, w : Delayed, q : Queues \cup {NONE}]
Locals == [pc : {"idle", "give", "cancel", "task_del", "sem_del", "remove"}, q : Queues \cup {NONE},
           w : Works \cup {NONE}, ret : {NONE, "SUCCESS", "BUSY", "RUNNING", "EXIST", "ERROR"}]
TypeOK ==
    /\ g_workqueue_list \subseteq Queues /\ work_list \in [Queues -> Seq(Works)]
    /\ work_current \in [Queues -> Works \cup {NONE}] /\ sem \in [Queues -> Nat \cup {NONE}]
    /\ worker \in [Queues -> {"new", "take", "taken", "handle", "none"}]
    /\ wq \in [Works -> Queues \cup {NONE}] /\ work_exit \in [Works -> BOOLEAN]
    /\ armed \in [Works -> Queues \cup {NONE}] /\ callback \in Queues \cup {NONE}
    /\ commands \in Seq(Command) /\ Len(commands) <= MSG_NUM
    /\ caller \in [Callers -> Locals]

\* work_exit says whether a work is on a list: on one only, and once, whichever of
\* run, cancel, the timer and the worker cross.
OnOneList ==
    /\ \A q \in Queues : NoDup(work_list[q])
    /\ \A w \in Works : LET on == {q \in Queues : Contains(work_list[q], w)}
                        IN  Cardinality(on) = IF work_exit[w] THEN 1 ELSE 0

\* A work on a list is on that of the queue its wq names, where krhino_work_cancel
\* looks for it, and that queue does not run it: so a queue never runs a work again
\* that was put there while it ran.  Another queue may run it meanwhile, since
\* krhino_work_run and work_timer_cb look only at the queue they put it on.
WaitsOnItsQueue ==
    \A q \in Queues, w \in Works : Contains(work_list[q], w) => wq[w] = q /\ work_current[q] # w

\* Those that have put a work on the list of q and not given its semaphore yet
Givers(q) == {c \in Callers : caller[c].pc = "give" /\ caller[c].q = q}

\* The semaphore of a queue whose worker lives counts the works on its list, with
\* those that are still to be given and the one that the worker has taken: so the
\* worker, which does not look, finds a work on the list whenever it has taken the
\* semaphore.
PendingCounted ==
    \A q \in Queues : worker[q] \in {"take", "taken", "handle"} /\ sem[q] # NONE =>
        Len(work_list[q]) = sem[q] + Cardinality(Givers(q)) + (IF callback = q THEN 1 ELSE 0)
                            + (IF worker[q] = "taken" THEN 1 ELSE 0)

\* The invariant that these rest on.  A work is on a list, and on one only, while
\* work_exit is set; what the callers, the timers and their commands name are queues
\* that have been created, and a worker lives only as long as its semaphore.
Placed ==
    /\ \A q \in Queues : NoDup(work_list[q])
    /\ \A w \in Works, q, r \in Queues : Contains(work_list[q], w) /\ Contains(work_list[r], w) => q = r
    /\ \A w \in Works : work_exit[w] <=> \E q \in Queues : Contains(work_list[q], w)
Created(q) == q \in Queues /\ worker[q] # "new"
Named ==
    /\ \A q \in Queues : worker[q] = "new" => work_list[q] = <<>>
    /\ \A q \in g_workqueue_list : Created(q)
    /\ \A w \in Works : (armed[w] # NONE => Created(armed[w])) /\ (wq[w] # NONE => Created(wq[w]))
    /\ \A i \in 1..Len(commands) : commands[i].q # NONE => Created(commands[i].q)
    /\ callback # NONE => Created(callback)
    /\ \A c \in Callers : caller[c].pc # "idle" => Created(caller[c].q)
Lives ==
    /\ \A q \in Queues : worker[q] \in {"take", "taken", "handle"} => sem[q] # NONE
    /\ \A c \in Callers : /\ caller[c].pc \in {"sem_del", "remove"} => worker[caller[c].q] = "none"
                          /\ caller[c].pc = "cancel" => caller[c].w \in Works

\* What holds after every step of krhino_work_run, krhino_work_cancel, the worker and
\* the timer, also with calls and commands half done: each is in its type, works are
\* placed as work_exit and wq say, none is queued where it runs, semaphores count them.
WorkInv == TypeOK /\ Placed /\ WaitsOnItsQueue /\ PendingCounted /\ Named /\ Lives

\* A work that krhino_work_run or work_timer_cb has put on a list is taken by the worker
\* or cancelled, unless the worker of that list has been deleted, which
\* krhino_workqueue_del may do after a test that did not see the work.
PendingRuns == \A w \in Works :
    work_exit[w] ~> ~work_exit[w] \/ \E q \in Queues : worker[q] = "none" /\ Contains(work_list[q], w)
=============================================================================
