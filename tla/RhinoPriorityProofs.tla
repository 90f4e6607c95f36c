------------------------ MODULE RhinoPriorityProofs -------------------------
(***************************************************************************)
(* Every step of the kernel preserves the priorities that tasks inherit    *)
(* (PriorityInv); that the task that runs is the first one of the highest  *)
(* priority (HighestInv); what IInv says of mutexes and their owners; what *)
(* krhino_mutex_lock reports (LockInv); and that the tick list is sorted   *)
(* and nobody on it is overdue (DeadlineInv).                              *)
(***************************************************************************)
EXTENDS RhinoInductive, RhinoFacts

USE ZenonT(60)

-----------------------------------------------------------------------------
(* mutex_pri_look.                                                          *)

\* u is in one of the lists blk of the mutexes ms.
Among(u, ms, blk) == \E m \in Mutexes : Contains(ms, m) /\ Contains(blk[m], u)

\* p is the highest of base and of the priorities pr of these.
Looked(p, base, ms, blk, pr) ==
    /\ p \in Pri /\ p <= base
    /\ \A u \in Tasks : Among(u, ms, blk) => p <= pr[u]
    /\ p = base \/ \E u \in Tasks : Among(u, ms, blk) /\ p = pr[u]

\* The first task of a sorted list has the highest priority of the list.
LEMMA HeadLeast ==
    ASSUME NEW l \in Seq(Tasks), l # <<>>, NEW pr \in [Tasks -> Pri], SortedBy(l, pr)
    PROVE  /\ Head(l) \in Tasks /\ Contains(l, Head(l))
           /\ \A u \in Tasks : Contains(l, u) => pr[Head(l)] <= pr[u]
<1>1. Len(l) \in Nat /\ Len(l) > 0 /\ Head(l) = l[1] /\ \A i \in 1..Len(l) : l[i] \in Tasks
  BY SMTT(60)
<1>2. Head(l) \in Tasks /\ Contains(l, Head(l))
  BY <1>1, SMTT(60) DEF Contains
<1>3. ASSUME NEW u \in Tasks, NEW i \in 1..Len(l), l[i] = u PROVE pr[Head(l)] <= pr[u]
  <2>1. CASE i = 1
    BY <1>1, <1>3, <2>1, BoundAssumption, SMTT(60) DEF Pri
  <2>2. CASE i # 1
    <3>1. 1 \in 1..Len(l) /\ 1 < i
      BY <1>1, <2>2, SMTT(60)
    <3> QED BY <1>1, <1>3, <3>1 DEF SortedBy
  <2> QED BY <2>1, <2>2
<1> QED BY <1>2, <1>3 DEF Contains

\* mutex_pri_look and mutex_pri_limit read the first waiters only, which is
\* enough since the lists are sorted.
LEMMA PriLookIs ==
    ASSUME NatLeast, NEW base \in Pri, NEW ms \in Seq(Mutexes), NEW blk \in [Objs -> Seq(Tasks)],
           NEW pr \in [Tasks -> Pri], \A m \in Mutexes : SortedBy(blk[m], pr)
    PROVE  Looked(PriLook(base, ms, blk, pr), base, ms, blk, pr)
<1> DEFINE M == {x \in ToSet(ms) : blk[x] # <<>>}
           S == {base} \cup {pr[Head(blk[m])] : m \in M}
           p == Least(S)
<1>1. \A m : m \in ToSet(ms) <=> Contains(ms, m)
  BY DEF ToSet, Contains
<1>2. \A m \in M : m \in Mutexes /\ Contains(ms, m) /\ blk[m] # <<>>
  BY <1>1, NotEmpty
<1>3. ASSUME NEW m \in Mutexes, blk[m] # <<>>
      PROVE  /\ Head(blk[m]) \in Tasks /\ Contains(blk[m], Head(blk[m]))
             /\ \A u \in Tasks : Contains(blk[m], u) => pr[Head(blk[m])] <= pr[u]
  <2>1. blk[m] \in Seq(Tasks)
    BY DEF Objs
  <2> QED BY <1>3, <2>1, HeadLeast
<1>4. S \subseteq Pri /\ base \in S
  BY <1>2, <1>3
<1>5. S \subseteq Nat
  BY <1>4, BoundAssumption, SMTT(60) DEF Pri
<1>6. p \in S /\ \A x \in S : p <= x
  BY <1>4, <1>5, MinNat
<1>7. PriLook(base, ms, blk, pr) = p
  BY DEF PriLook
<1>8. p \in Pri /\ p <= base
  BY <1>4, <1>6
<1>9. ASSUME NEW u \in Tasks, Among(u, ms, blk) PROVE p <= pr[u]
  <2>1. PICK m \in Mutexes : Contains(ms, m) /\ Contains(blk[m], u)
    BY <1>9 DEF Among
  <2>2. blk[m] # <<>>
    <3>1. blk[m] \in Seq(Tasks)
      BY DEF Objs
    <3> QED BY <2>1, <3>1, NotEmpty
  <2>3. pr[Head(blk[m])] \in S
    BY <1>1, <2>1, <2>2
  <2>4. p <= pr[Head(blk[m])] /\ pr[Head(blk[m])] <= pr[u]
    BY <1>3, <1>6, <2>1, <2>2, <2>3
  <2>5. p \in Nat /\ pr[Head(blk[m])] \in Nat /\ pr[u] \in Nat
    <3>1. pr[u] \in Nat
      BY BoundAssumption, SMTT(60) DEF Pri
    <3> QED BY <1>5, <1>6, <2>3, <3>1
  <2> HIDE DEF p
  <2> QED BY <2>4, <2>5, SMTT(60)
<1>10. p = base \/ \E u \in Tasks : Among(u, ms, blk) /\ p = pr[u]
  <2>1. CASE p # base
    <3>1. PICK m \in M : p = pr[Head(blk[m])]
      BY <1>6, <2>1
    <3> QED BY <1>2, <1>3, <3>1 DEF Among
  <2> QED BY <2>1
<1> HIDE DEF p
<1> QED BY <1>7, <1>8, <1>9, <1>10 DEF Looked

-----------------------------------------------------------------------------
(* A step and the tasks it does not concern.                                *)

\* The fields of a task_pri_change
LEMMA ChgFields ==
    /\ \A t, p : ChgTo(t, p).task = t /\ ChgTo(t, p).pri = p
    /\ NoChg.task = NONE /\ \A t \in Tasks : NoChg.task # t
BY TaskAssumption DEF ChgTo, NoChg

\* Priorities are natural numbers.
LEMMA PriOrder ==
    \A a, b, c \in Pri : /\ a <= a /\ (a < b \/ b <= a)
                        /\ (a <= b /\ b <= c => a <= c) /\ (a < b => a <= b /\ ~(b <= a))
                        /\ (a > b <=> b < a) /\ (a <= b /\ a # b => a < b)
                        /\ (a <= b /\ b <= a => a = b)
BY BoundAssumption, SMTT(60) DEF Pri

\* The lists and priorities after a step
LEMMA PriorityAfter ==
    ASSUME IInv'
    PROVE  /\ prio' \in [Tasks -> Pri] /\ b_prio' \in [Tasks -> Pri]
           /\ blk_list' \in [Objs -> Seq(Tasks)] /\ mutex_list' \in [Tasks -> Seq(Mutexes)]
           /\ \A m \in Mutexes : SortedBy(blk_list'[m], prio')
BY DEF IInv, TypeOK, ListInv, ListsMatchState, BlkLists, WaitersSorted, SortedBy, Objs

\* ... and before it
LEMMA PriorityBefore ==
    ASSUME IInv
    PROVE  /\ prio \in [Tasks -> Pri] /\ b_prio \in [Tasks -> Pri] /\ task_state \in [Tasks -> TaskStates]
           /\ blk_list \in [Objs -> Seq(Tasks)] /\ mutex_list \in [Tasks -> Seq(Mutexes)]
           /\ \A m \in Mutexes : m \in Objs /\ NoDup(blk_list[m]) /\ SortedBy(blk_list[m], prio)
           /\ \A t \in Tasks : NoDup(mutex_list[t])
BY DEF IInv, TypeOK, ListInv, ListsMatchState, BlkLists, WaitersSorted, SortedBy, OwnerInv, Objs

\* A mutex is linked from its owner only, which does not wait for it.
LEMMA OnlyOwner ==
    ASSUME IInv, NEW t \in Tasks, NEW m \in Mutexes, Contains(mutex_list[t], m)
    PROVE  obj_type[m] /\ mutex_task[m] = t /\ ~Unlocking(m) /\ ~Claims(t, m)
<1>1. obj_type[m] /\ mutex_task[m] = t /\ ~Unlocking(m) /\ t # NONE
  BY TaskAssumption DEF IInv, OwnerInv
<1>2. ~Contains(blk_list[m], t)
  BY <1>1 DEF IInv, OwnerInv
<1> QED BY <1>1, <1>2 DEF Claims, IInv, LoopInv

\* A task keeps what it inherits if its claims and their priorities stay.
LEMMA InheritSame ==
    ASSUME NEW t \in Tasks, NEW p, IsInherited(p, t), b_prio'[t] = b_prio[t],
           \A u \in Tasks : WaitsFor(u, t)' <=> WaitsFor(u, t),
           \A u \in Tasks : WaitsFor(u, t) => prio'[u] = prio[u]
    PROVE  IsInherited(p, t)'
BY DEF IsInherited

\* Waiting depends on the mutexes of the owner and on the claims to them.
LEMMA WaitsSame ==
    ASSUME NEW t \in Tasks,
           \A m \in Mutexes : Contains(mutex_list'[t], m) <=> Contains(mutex_list[t], m),
           \A m \in Mutexes, u \in Tasks : Contains(mutex_list[t], m) => (Claims(u, m)' <=> Claims(u, m))
    PROVE  \A u \in Tasks : WaitsFor(u, t)' <=> WaitsFor(u, t)
BY DEF WaitsFor

\* Outside krhino_mutex_lock what a task inherits is what mutex_pri_look finds.
LEMMA LookedInherits ==
    ASSUME NEW t \in Tasks, NEW p, kcall'.pc # "lock",
           Looked(p, b_prio'[t], mutex_list'[t], blk_list', prio')
    PROVE  IsInherited(p, t)'
<1>1. \A u \in Tasks : WaitsFor(u, t)' <=> Among(u, mutex_list'[t], blk_list')
  BY DEF WaitsFor, Claims, Among
<1> QED BY <1>1 DEF IsInherited, Looked

\* In a loop of the kernel tasks live on, but for krhino_task_del.
LEMMA AliveInLoop ==
    ASSUME NatLeast, IInv, Next, kcall.pc # "none", NEW t \in Tasks, TaskDelState => t # kcall.task
    PROVE  Alive(t)' <=> Alive(t)
BY AliveSame DEF TaskCreate, TaskCall, InTask

\* A task that no task_pri_change is about to reach
LEMMA OtherTask ==
    ASSUME IInv, Inherited, NEW t \in Tasks, Alive(t), ~Dying(t), chg.task # t,
           prio'[t] = prio[t], b_prio'[t] = b_prio[t], chg'.task # t,
           \A u \in Tasks : WaitsFor(u, t)' <=> WaitsFor(u, t),
           \A u \in Tasks : WaitsFor(u, t) => prio'[u] = prio[u]
    PROVE  IsInherited(Target(t), t)'
<1>1. IsInherited(prio[t], t)
  BY DEF Inherited, Target
<1>2. IsInherited(prio[t], t)'
  BY <1>1, InheritSame
<1>3. prio[t] = Target(t)'
  BY DEF Target
<1> QED BY <1>2, <1>3

-----------------------------------------------------------------------------
(* The steps that change no priority and no claim.                          *)

PrioritySteps ==
    \/ PriChangeStep \/ MutexLockPend \/ MutexHandOver \/ TaskMutexFree \/ TaskDelState \/ TickStep
    \/ TaskPriChange \/ \E t \in Tasks : \E autorun \in BOOLEAN : TaskCreate(t, autorun)
    \/ \E m \in Mutexes : MutexUnlock(m) \/ MutexDel(m) \/ \E w \in Waits : MutexLock(m, w)

\* The other steps leave the waiters of every mutex alone.
LEMMA QuietBlk ==
    ASSUME IInv, Next, ~PrioritySteps, NEW m \in Mutexes, obj_type[m]
    PROVE  blk_list'[m] = blk_list[m]
<1>1. m \notin Sems /\ m \in Objs /\ blk_list \in [Objs -> Seq(Tasks)]
  BY TaskAssumption DEF Objs, IInv, TypeOK
<1>2. ASSUME NEW s \in Sems, SemGive(s) PROVE blk_list'[m] = blk_list[m]
  BY <1>1, <1>2 DEF SemGive, PendTaskWake, pendVars
<1>3. ASSUME NEW s \in Sems, NEW w \in Waits, SemTake(s, w) PROVE blk_list'[m] = blk_list[m]
  BY <1>1, <1>3 DEF SemTake, PendToBlkObj, pendVars
<1>4. CASE SemGiveAllStep \/ DelStep
  <2>1. kcall.obj # m
    BY <1>1, <1>4 DEF SemGiveAllStep, DelStep, WakeAllLoop, IInv, LoopInv
  <2> QED BY <1>1, <1>4, <2>1 DEF SemGiveAllStep, DelStep, WakeAllLoop, PendTaskWake, pendVars
<1> QED BY <1>2, <1>3, <1>4, BlkSame DEF PrioritySteps, WakeStep

\* They happen outside task_pri_change and the loops that move mutexes.
LEMMA QuietSteps ==
    ASSUME IInv, Next, ~PrioritySteps
    PROVE  /\ UNCHANGED <<prio, b_prio, mutex_list, chg>> /\ chg = NoChg
           /\ kcall.pc \notin {"lock", "task_del"} /\ kcall'.pc \notin {"lock", "unlock"}
<1>0. \A pc, o, t, n : KCall(pc, o, t, n).pc = pc /\ NoCall.pc = "none"
  BY DEF NoCall, KCall
<1>1. CASE SemNext
  <2>1. kcall.pc = "none" /\ UNCHANGED <<prio, b_prio, mutex_list, chg>>
    BY <1>1 DEF SemNext, SemCreate, SemGive, SemGiveAll, SemDel, SemTake, SemCountSet, semUnchanged,
                TaskCall, IsrCall, InTask
  <2>2. kcall' = kcall \/ \E s \in Sems : kcall' \in {KCall("give_all", s, NONE, 0), KCall("del", s, NONE, 0)}
    BY <1>1 DEF SemNext, SemCreate, SemGive, SemGiveAll, SemDel, SemTake, SemCountSet
  <2>3. chg = NoChg
    BY <2>1 DEF IInv, LoopInv
  <2>4. kcall'.pc \in {"none", "give_all", "del", "task_del"}
    BY <2>1, <2>2, SMTT(60) DEF KCall
  <2> QED BY <2>1, <2>3, <2>4
<1>2. CASE MutexNext
  BY <1>2, Caller DEF MutexNext, MutexCreate, PrioritySteps
<1>3. CASE TaskNext
  <2>1. kcall.pc = "none" /\ UNCHANGED <<prio, b_prio, mutex_list, chg>>
    BY <1>3 DEF TaskNext, TaskYield, TaskSleep, TaskSuspend, TaskResume, TaskDel, TaskPriChangeCheck,
                objVars, PrioritySteps, TaskCall, IsrCall, InTask
  <2>2. kcall' = kcall \/ \E t \in Tasks : kcall' = KCall("task_del", NONE, t, 0)
    BY <1>3 DEF TaskNext, TaskYield, TaskSleep, TaskSuspend, TaskResume, TaskDel, TaskPriChangeCheck,
                PrioritySteps
  <2>3. chg = NoChg
    BY <2>1 DEF IInv, LoopInv
  <2>4. kcall'.pc \in {"none", "give_all", "del", "task_del"}
    BY <2>1, <2>2, SMTT(60) DEF KCall
  <2> QED BY <2>1, <2>3, <2>4
<1>4. CASE SchedNext
  <2>1. kcall.pc = "none"
    BY <1>4 DEF SchedNext, SchedDisable, SchedEnable, CoreSched, PendSV, IntrptEnter, IntrptExit,
                PendReturn, Tick, TaskCall, InTask, IsrCall
  <2>2. chg = NoChg
    BY <2>1 DEF IInv, LoopInv
  <2>3. UNCHANGED <<prio, b_prio, mutex_list, chg>>
    BY <1>4 DEF SchedNext, SchedDisable, SchedEnable, CoreSched, PendSV, IntrptEnter, IntrptExit,
                PendReturn, Tick, schedUnchanged, objVars
  <2>4. kcall' = kcall \/ kcall' = KCall("tick", NONE, NONE, 0)
    BY <1>4 DEF SchedNext, SchedDisable, SchedEnable, CoreSched, PendSV, IntrptEnter, IntrptExit,
                PendReturn, Tick, schedUnchanged
  <2>5. kcall'.pc \in {"none", "tick"}
    BY <2>1, <2>4, SMTT(60) DEF KCall
  <2> QED BY <2>1, <2>2, <2>3, <2>5
<1>5. CASE KernelStep
  BY <1>0, <1>5 DEF KernelStep, SemGiveAllStep, DelStep, WakeAllLoop, ExitStep, semUnchanged, objVars, PrioritySteps
<1> QED BY <1>1, <1>2, <1>3, <1>4, <1>5 DEF Next

\* So they preserve PriorityInv.
LEMMA QuietPriority ==
    ASSUME NatLeast, IInv, PriorityInv, Next, ~PrioritySteps
    PROVE  PriorityInv'
<1>1. /\ UNCHANGED <<prio, b_prio, mutex_list, chg>> /\ chg = NoChg
      /\ kcall.pc \notin {"lock", "task_del"} /\ kcall'.pc \notin {"lock", "unlock"}
  BY QuietSteps
<1>2. ASSUME NEW t \in Tasks, Alive(t)' PROVE IsInherited(Target(t), t)'
  <2>1. Alive(t) /\ ~Dying(t) /\ chg.task # t
    BY <1>1, <1>2, AliveSame, ChgFields DEF PrioritySteps, Dying
  <2>2. ASSUME NEW m \in Mutexes, NEW u \in Tasks, Contains(mutex_list[t], m)
        PROVE  Claims(u, m)' <=> Claims(u, m)
    BY <1>1, <2>2, OnlyOwner, QuietBlk DEF Claims
  <2>3. \A u \in Tasks : WaitsFor(u, t)' <=> WaitsFor(u, t)
    BY <1>1, <2>2, WaitsSame
  <2> QED BY <1>1, <2>1, <2>3, OtherTask DEF PriorityInv
<1> QED BY <1>1, <1>2 DEF PriorityInv, Inherited, ChgLimits

-----------------------------------------------------------------------------
(* krhino_mutex_lock.                                                       *)

\* When the task blocks, its claim becomes a wait.
LEMMA LockPendPriority ==
    ASSUME NatLeast, IInv, IInv', PriorityInv, Next, MutexLockPend
    PROVE  PriorityInv'
<1>1. /\ kcall.pc = "lock" /\ chg = NoChg /\ kcall' = NoCall /\ UNCHANGED <<prio, b_prio, mutex_list, chg>>
      /\ task_state' = [task_state EXCEPT ![g_active_task] = "K_PEND"]
      /\ blk_obj' = [blk_obj EXCEPT ![g_active_task] = kcall.obj]
  BY DEF MutexLockPend, PendToBlkObj
<1>2. kcall.obj \in Mutexes /\ task_state[g_active_task] = "K_RDY" /\ g_active_task \in Tasks
  BY <1>1 DEF IInv, LoopInv, TypeOK
<1>3. kcall'.pc = "none"
  BY <1>1 DEF NoCall, KCall
<1>4. ASSUME NEW m \in Mutexes, NEW u \in Tasks PROVE Claims(u, m)' <=> Claims(u, m)
  <2>1. m \in Objs
    BY DEF Objs
  <2>2. task_state \in [Tasks -> TaskStates] /\ blk_obj \in [Tasks -> Objs \cup {NONE}]
    BY DEF IInv, TypeOK
  <2>3. Pending(u)' /\ blk_obj'[u] = m <=> (Pending(u) /\ blk_obj[u] = m) \/ (kcall.obj = m /\ u = g_active_task)
    BY <1>1, <1>2, <2>2 DEF Pending
  <2> QED BY <1>1, <1>3, <2>1, <2>3, BlkMember DEF Claims
<1>5. ASSUME NEW t \in Tasks, Alive(t)' PROVE IsInherited(Target(t), t)'
  <2>1. Alive(t) /\ ~Dying(t) /\ chg.task # t
    BY <1>1, <1>5, AliveInLoop, ChgFields DEF Dying, TaskDelState
  <2>2. \A u \in Tasks : WaitsFor(u, t)' <=> WaitsFor(u, t)
    BY <1>1, <1>4, WaitsSame
  <2> QED BY <1>1, <2>1, <2>2, OtherTask DEF PriorityInv
<1> QED BY <1>1, <1>3, <1>5 DEF PriorityInv, Inherited, ChgLimits

\* A new claim of a task a to a mutex of q
LEMMA JoinInherits ==
    ASSUME NEW q \in Tasks, NEW a \in Tasks, NEW p \in Pri, NEW r \in Pri, IsInherited(p, q), a # q,
           prio \in [Tasks -> Pri], b_prio \in [Tasks -> Pri], UNCHANGED <<prio, b_prio>>,
           r \in {p, prio[a]}, r <= p, r <= prio[a],
           \A u \in Tasks : WaitsFor(u, q)' <=> WaitsFor(u, q) \/ u = a
    PROVE  IsInherited(r, q)'
<1>2. r <= b_prio[q] /\ \A u \in Tasks : WaitsFor(u, q)' => r <= prio[u]
  BY PriOrder DEF IsInherited
<1> QED BY <1>2 DEF IsInherited

\* A lock that nobody disputes, and the start of a wait
LEMMA LockPriority ==
    ASSUME NatLeast, IInv, IInv', PriorityInv, Next, NEW m \in Mutexes, NEW w \in Waits, MutexLock(m, w)
    PROVE  PriorityInv'
<1>0. PICK a \in Tasks : a = g_active_task
  BY DEF IInv, TypeOK
<1> PICK q \in Tasks \cup {NONE} : q = mutex_task[m]
  BY DEF IInv, TypeOK
<1>1. /\ kcall.pc = "none" /\ chg = NoChg /\ UNCHANGED <<prio, b_prio, blk_list, g_active_task>>
      /\ obj_type[m]
  BY Caller DEF MutexLock, IInv, TypeOK, pendVars, mutexUnchanged, cpuVars
<1>2. ASSUME NEW t \in Tasks, Alive(t)' PROVE Alive(t) /\ ~Dying(t) /\ chg.task # t
  BY <1>1, <1>2, AliveSame, ChgFields DEF Dying, TaskDelState, TaskCreate, MutexLock, Alive
<1>3. /\ prio \in [Tasks -> Pri] /\ b_prio \in [Tasks -> Pri] /\ mutex_list \in [Tasks -> Seq(Mutexes)]
      /\ blk_list[m] \in Seq(Tasks) /\ \A t \in Tasks : NoDup(mutex_list[t])
  BY PriorityBefore
<1>4. CASE UNCHANGED <<mutex_list, kcall, chg>>
  <2>1. ASSUME NEW t \in Tasks, Alive(t)' PROVE IsInherited(Target(t), t)'
    <3>1. \A u \in Tasks : WaitsFor(u, t)' <=> WaitsFor(u, t)
      BY <1>1, <1>4 DEF WaitsFor, Claims
    <3> QED BY <1>1, <1>2, <1>4, <2>1, <3>1, OtherTask DEF PriorityInv
  <2> QED BY <1>1, <1>4, <2>1 DEF PriorityInv, Inherited, ChgLimits
<1>5. CASE q = NONE /\ GiveMutex(m, a) /\ UNCHANGED <<kcall, chg>>
  <2>0. blk_list[m] = <<>>
    BY <1>1, <1>5 DEF IInv, OwnerInv
  <2>1. \A u \in Tasks : ~Contains(blk_list[m], u)
    BY <1>3, <2>0, NotEmpty
  <2>2. \A t \in Tasks : ~Contains(mutex_list[t], m)
    BY <1>5, OnlyOwner, TaskAssumption
  <2>3. ASSUME NEW t \in Tasks, NEW x \in Mutexes
        PROVE  Contains(mutex_list'[t], x) <=> Contains(mutex_list[t], x) \/ (t = a /\ x = m)
    <3>1. CASE t # a
      BY <1>3, <1>5, <3>1 DEF GiveMutex
    <3>2. CASE t = a
      <4>1. mutex_list'[t] = <<m>> \o mutex_list[t]
        BY <1>3, <1>5, <3>2 DEF GiveMutex
      <4>2. \A y : Contains(<<m>> \o mutex_list[t], y) <=> Contains(mutex_list[t], y) \/ y = m
        BY <1>3, <2>2, ConsMembers
      <4> QED BY <3>2, <4>1, <4>2
    <3> QED BY <3>1, <3>2
  <2>4. ASSUME NEW t \in Tasks, Alive(t)' PROVE IsInherited(Target(t), t)'
    <3>1. \A u \in Tasks, x \in Mutexes : (Claims(u, x)' <=> Claims(u, x)) /\ ~Claims(u, m)
      BY <1>1, <1>5, <2>1 DEF Claims
    <3>2. \A u \in Tasks : WaitsFor(u, t)' <=> WaitsFor(u, t)
      BY <2>3, <3>1 DEF WaitsFor
    <3> QED BY <1>1, <1>2, <1>5, <2>4, <3>2, OtherTask DEF PriorityInv
  <2> QED BY <1>1, <1>5, <2>4 DEF PriorityInv, Inherited, ChgLimits
<1>6. CASE /\ q \notin {a, NONE} /\ kcall' = KCall("lock", m, NONE, w) /\ UNCHANGED mutex_list
           /\ chg' = IF prio[a] < prio[q] THEN ChgTo(q, prio[a]) ELSE NoChg
  <2>1. kcall'.pc = "lock" /\ kcall'.obj = m /\ q \in Tasks /\ a # q
    BY <1>1, <1>6 DEF KCall
  <2>2. Contains(mutex_list[q], m)
    BY <1>1, <2>1 DEF IInv, OwnerInv, Unlocking
  <2>3. \A u \in Tasks, x \in Mutexes : Claims(u, x)' <=> Claims(u, x) \/ (x = m /\ u = a)
    BY <1>0, <1>1, <2>1 DEF Claims
  <2>4. ASSUME NEW t \in Tasks, Alive(t)', t # q PROVE IsInherited(Target(t), t)'
    <3>1. ~Contains(mutex_list[t], m)
      BY <2>4, OnlyOwner
    <3>2. \A u \in Tasks : WaitsFor(u, t)' <=> WaitsFor(u, t)
      BY <1>6, <2>3, <3>1 DEF WaitsFor
    <3>3. chg'.task # t
      BY <1>6, <2>4, ChgFields
    <3> QED BY <1>1, <1>2, <2>4, <3>2, <3>3, OtherTask DEF PriorityInv
  <2>5. ASSUME Alive(q)' PROVE IsInherited(Target(q), q)'
    <3>1. IsInherited(prio[q], q)
      BY <1>2, <2>1, <2>5 DEF PriorityInv, Inherited, Target
    <3>2. \A u \in Tasks : WaitsFor(u, q)' <=> WaitsFor(u, q) \/ u = a
      BY <1>6, <2>2, <2>3 DEF WaitsFor
    <3>3. CASE prio[a] < prio[q]
      <4>0. prio[a] \in Pri /\ prio[q] \in Pri /\ prio[a] <= prio[q] /\ prio[a] <= prio[a]
        BY <1>3, <2>1, <3>3, PriOrder
      <4>1. IsInherited(prio[a], q)'
        BY <1>1, <1>3, <2>1, <3>1, <3>2, <4>0, JoinInherits
      <4>2. chg'.task = q /\ chg'.pri = prio[a]
        BY <1>6, <3>3, ChgFields
      <4>3. (prio[a] = Target(q))'
        BY <1>1, <4>2 DEF Target
      <4> QED BY <4>1, <4>3
    <3>4. CASE ~(prio[a] < prio[q])
      <4>0. prio[q] \in Pri /\ prio[q] <= prio[a] /\ prio[q] <= prio[q]
        BY <1>3, <2>1, <3>4, PriOrder
      <4>1. IsInherited(prio[q], q)'
        BY <1>1, <1>3, <2>1, <3>1, <3>2, <4>0, JoinInherits
      <4>2. (prio[q] = Target(q))'
        BY <1>1, <1>6, <2>1, <3>4, ChgFields DEF Target
      <4> QED BY <4>1, <4>2
    <3> QED BY <3>3, <3>4
  <2>6. ChgLimits'
    <3>1. chg' # NoChg => chg'.task = q /\ chg'.pri = prio[a] /\ prio[a] < prio[q]
      BY <1>6, ChgFields
    <3> QED BY <1>0, <1>1, <2>1, <3>1 DEF ChgLimits
  <2> QED BY <2>4, <2>5, <2>6 DEF PriorityInv, Inherited
<1> QED BY <1>0, <1>4, <1>5, <1>6 DEF MutexLock

-----------------------------------------------------------------------------
(* krhino_mutex_unlock and krhino_mutex_del.                                *)

\* mutex_release sets out to give the old owner the priority it has without
\* the mutex.
LEMMA ReleaseInherits ==
    ASSUME NatLeast, IInv, IInv', PriorityInv, NEW q \in Tasks, NEW m, NEW ml, ml = KlistRm(mutex_list[q], m),
           mutex_list' = [mutex_list EXCEPT ![q] = ml], chg' = Release(q, ml, blk_list),
           chg = NoChg, kcall.pc = "none", kcall'.pc # "lock", UNCHANGED <<prio, b_prio, blk_list, task_state>>,
           NEW t \in Tasks, Alive(t)
    PROVE  IsInherited(Target(t), t)'
<1>1. PICK p \in Pri : Looked(p, b_prio[q], ml, blk_list, prio) /\ p = PriLook(b_prio[q], ml, blk_list, prio)
  <2>1. /\ b_prio[q] \in Pri /\ blk_list \in [Objs -> Seq(Tasks)] /\ prio \in [Tasks -> Pri]
        /\ mutex_list'[q] = ml /\ mutex_list'[q] \in Seq(Mutexes) /\ \A x \in Mutexes : SortedBy(blk_list[x], prio)
    BY PriorityBefore, PriorityAfter
  <2>2. Looked(PriLook(b_prio[q], ml, blk_list, prio), b_prio[q], ml, blk_list, prio)
    BY <2>1, PriLookIs
  <2> QED BY <2>2 DEF Looked
<1>2. chg' = IF p # prio[q] THEN ChgTo(q, p) ELSE NoChg
  BY <1>1 DEF Release
<1>3. CASE t = q
  <2>1. mutex_list'[q] = ml
    BY PriorityBefore
  <2>2. IsInherited(p, q)'
    BY <1>1, <2>1, LookedInherits
  <2>3. p = Target(q)'
    BY <1>2, ChgFields DEF Target
  <2> QED BY <1>3, <2>2, <2>3
<1>4. CASE t # q
  <2>1. mutex_list'[t] = mutex_list[t]
    BY <1>4, PriorityBefore
  <2>2. \A u \in Tasks : WaitsFor(u, t)' <=> WaitsFor(u, t)
    BY <2>1 DEF WaitsFor, Claims
  <2>3. chg.task # t /\ chg'.task # t /\ ~Dying(t)
    BY <1>2, <1>4, ChgFields DEF Dying
  <2> QED BY <2>2, <2>3, OtherTask DEF PriorityInv
<1> QED BY <1>3, <1>4

\* krhino_mutex_unlock up to the change of the caller's own priority
LEMMA UnlockPriority ==
    ASSUME NatLeast, IInv, IInv', PriorityInv, NEW m \in Mutexes, MutexUnlock(m)
    PROVE  PriorityInv'
<1>1. PICK a \in Tasks : a = g_active_task
  BY DEF IInv, TypeOK
<1>2. /\ kcall.pc = "none" /\ chg = NoChg /\ UNCHANGED <<prio, b_prio, blk_list, task_state, g_active_task>>
  BY Caller DEF MutexUnlock, pendVars, mutexUnchanged, cpuVars
<1>3. CASE UNCHANGED <<mutex_list, kcall, chg>>
  <2>1. ASSUME NEW t \in Tasks, Alive(t)' PROVE IsInherited(Target(t), t)'
    <3>1. \A u \in Tasks : WaitsFor(u, t)' <=> WaitsFor(u, t)
      BY <1>2, <1>3 DEF WaitsFor, Claims
    <3>2. Alive(t) /\ ~Dying(t) /\ chg.task # t
      BY <1>2, <2>1, ChgFields DEF Alive, Dying
    <3> QED BY <1>2, <1>3, <3>1, <3>2, OtherTask DEF PriorityInv
  <2> QED BY <1>2, <1>3, <2>1 DEF PriorityInv, Inherited, ChgLimits
<1>4. ASSUME NEW ml, ml = KlistRm(mutex_list[a], m), mutex_list' = [mutex_list EXCEPT ![a] = ml],
             chg' = Release(a, ml, blk_list), kcall' = KCall("unlock", m, NONE, 0)
      PROVE  PriorityInv'
  <2>1. kcall'.pc = "unlock"
    BY <1>4 DEF KCall
  <2>2. \A t \in Tasks : Alive(t)' => IsInherited(Target(t), t)'
    BY <1>2, <1>4, <2>1, ReleaseInherits DEF Alive
  <2>3. chg' # NoChg => chg'.task = a
    BY <1>4, ChgFields DEF Release
  <2> QED BY <1>1, <1>2, <2>1, <2>2, <2>3 DEF PriorityInv, Inherited, ChgLimits
<1> QED BY <1>1, <1>3, <1>4 DEF MutexUnlock

\* krhino_mutex_del up to the change of the owner's priority
LEMMA DelPriority ==
    ASSUME NatLeast, IInv, IInv', PriorityInv, NEW m \in Mutexes, MutexDel(m)
    PROVE  PriorityInv'
<1>1. PICK q \in Tasks \cup {NONE} : q = mutex_task[m]
  BY DEF IInv, TypeOK
<1>2. /\ kcall.pc = "none" /\ chg = NoChg /\ UNCHANGED <<prio, b_prio, blk_list, task_state>>
      /\ kcall' = KCall("del", m, NONE, 0)
  BY Caller DEF MutexDel, pendVars
<1>3. kcall'.pc = "del"
  BY <1>2 DEF KCall
<1>4. ASSUME NEW t \in Tasks, Alive(t)' PROVE IsInherited(Target(t), t)'
  <2>1. Alive(t) /\ ~Dying(t) /\ chg.task # t
    BY <1>2, <1>4, ChgFields DEF Alive, Dying
  <2>2. CASE UNCHANGED <<mutex_list, chg>>
    <3>1. \A u \in Tasks : WaitsFor(u, t)' <=> WaitsFor(u, t)
      BY <1>2, <1>3, <2>2 DEF WaitsFor, Claims
    <3> QED BY <1>2, <2>1, <2>2, <3>1, OtherTask DEF PriorityInv
  <2>3. ASSUME NEW ml, ml = KlistRm(mutex_list[q], m), mutex_list' = [mutex_list EXCEPT ![q] = ml],
               chg' = Release(q, ml, blk_list), q # NONE
        PROVE  IsInherited(Target(t), t)'
    BY <1>2, <1>3, <2>1, <2>3, ReleaseInherits
  <2> QED BY <1>1, <2>2, <2>3 DEF MutexDel
<1> QED BY <1>3, <1>4 DEF PriorityInv, Inherited, ChgLimits

-----------------------------------------------------------------------------
(* A mutex goes to its first waiter.                                        *)

\* The new owner has at least the priority of the other waiters already.
LEMMA GiveInherits ==
    ASSUME NatLeast, IInv, PriorityInv, NEW m \in Mutexes, blk_list[m] # <<>>, NEW n \in Tasks, n = Head(blk_list[m]),
           blk_list' = [blk_list EXCEPT ![m] = KlistRm(blk_list[m], n)], chg = NoChg, chg' = NoChg,
           kcall.pc # "lock", kcall'.pc # "lock", UNCHANGED <<prio, b_prio>>,
           NEW t \in Tasks, Alive(t), ~Dying(t), ~Contains(mutex_list[t], m),
           \A x \in Mutexes : Contains(mutex_list'[t], x) <=> Contains(mutex_list[t], x) \/ (t = n /\ x = m)
    PROVE  IsInherited(Target(t), t)'
<1>1. chg.task # t /\ chg'.task # t
  BY ChgFields
<1>2. /\ prio \in [Tasks -> Pri] /\ b_prio \in [Tasks -> Pri] /\ blk_list \in [Objs -> Seq(Tasks)]
      /\ m \in Objs /\ NoDup(blk_list[m]) /\ SortedBy(blk_list[m], prio)
  BY PriorityBefore
<1>3. \A x \in Mutexes \ {m} : blk_list'[x] = blk_list[x]
  BY <1>2 DEF Objs
<1>4. \A u \in Tasks : Contains(blk_list'[m], u) <=> Contains(blk_list[m], u) /\ u # n
  <2>1. blk_list'[m] = KlistRm(blk_list[m], n) /\ blk_list[m] \in Seq(Tasks)
    BY <1>2
  <2> QED BY <1>2, <2>1, KlistRmMembers
<1>5. \A u \in Tasks : WaitsFor(u, t) => WaitsFor(u, t)'
  BY <1>3 DEF WaitsFor, Claims
<1>6. CASE t # n
  <2>1. \A u \in Tasks : WaitsFor(u, t)' <=> WaitsFor(u, t)
    BY <1>3, <1>5, <1>6 DEF WaitsFor, Claims
  <2> QED BY <1>1, <2>1, OtherTask DEF PriorityInv
<1>7. CASE t = n
  <2>1. IsInherited(prio[t], t)
    BY <1>1 DEF PriorityInv, Inherited, Target
  <2>2. ASSUME NEW u \in Tasks, WaitsFor(u, t)' PROVE prio[t] <= prio[u]
    <3>1. CASE WaitsFor(u, t)
      BY <2>1, <3>1 DEF IsInherited
    <3>2. CASE Contains(blk_list[m], u)
      <4>1. blk_list[m] \in Seq(Tasks)
        BY <1>2
      <4> QED BY <1>2, <1>7, <3>2, <4>1, HeadLeast
    <3> QED BY <1>3, <1>4, <2>2, <3>1, <3>2 DEF WaitsFor, Claims
  <2>3. IsInherited(prio[t], t)'
    BY <1>5, <2>1, <2>2 DEF IsInherited
  <2>4. (prio[t] = Target(t))'
    BY <1>1 DEF Target
  <2> QED BY <2>3, <2>4
<1> QED BY <1>6, <1>7

\* krhino_mutex_unlock hands the mutex over.
LEMMA HandOverPriority ==
    ASSUME NatLeast, IInv, IInv', PriorityInv, Next, MutexHandOver
    PROVE  PriorityInv'
<1>1. PICK m \in Mutexes : m = kcall.obj
  BY DEF MutexHandOver, IInv, LoopInv
<1>2. kcall.pc = "unlock" /\ chg = NoChg /\ kcall' = NoCall /\ UNCHANGED <<prio, b_prio, chg>>
  BY DEF MutexHandOver
<1>3. kcall'.pc = "none"
  BY <1>2 DEF NoCall, KCall
<1>4. ASSUME NEW t \in Tasks, Alive(t)' PROVE IsInherited(Target(t), t)'
  <2>1. Alive(t) /\ ~Dying(t) /\ chg.task # t /\ ~Contains(mutex_list[t], m)
    BY <1>1, <1>2, <1>4, AliveInLoop, ChgFields, OnlyOwner DEF Dying, TaskDelState, Unlocking
  <2>2. CASE UNCHANGED <<blk_list, mutex_list>>
    <3>1. \A u \in Tasks : WaitsFor(u, t)' <=> WaitsFor(u, t)
      BY <1>2, <1>3, <2>2 DEF WaitsFor, Claims
    <3> QED BY <1>2, <2>1, <2>2, <3>1, OtherTask DEF PriorityInv
  <2>3. ASSUME NEW n, n = Head(blk_list[m]), blk_list[m] # <<>>, PendTaskWake(m, n, "BLK_FINISH"), GiveMutex(m, n)
        PROVE  IsInherited(Target(t), t)'
    <3>1. n \in Tasks /\ m \in Objs
      BY <2>3, Parts, FirstWaiter DEF Objs
    <3>2. \A x \in Mutexes : Contains(mutex_list'[t], x) <=> Contains(mutex_list[t], x) \/ (t = n /\ x = m)
      <4>1. mutex_list[t] \in Seq(Mutexes) /\ NoDup(mutex_list[t]) /\ mutex_list \in [Tasks -> Seq(Mutexes)]
        BY PriorityBefore
      <4>2. \A y : Contains(<<m>> \o mutex_list[t], y) <=> Contains(mutex_list[t], y) \/ y = m
        BY <2>1, <4>1, ConsMembers
      <4>3. mutex_list'[t] = IF t = n THEN <<m>> \o mutex_list[t] ELSE mutex_list[t]
        BY <2>3, <4>1 DEF GiveMutex
      <4> QED BY <4>2, <4>3
    <3>3. blk_list' = [blk_list EXCEPT ![m] = KlistRm(blk_list[m], n)]
      BY <2>3 DEF PendTaskWake
    <3> QED BY <1>2, <1>3, <2>1, <2>3, <3>1, <3>2, <3>3, GiveInherits
  <2> QED BY <1>1, <2>2, <2>3 DEF MutexHandOver, pendVars
<1> QED BY <1>3, <1>4 DEF PriorityInv, Inherited, ChgLimits

\* krhino_task_del hands the mutexes of its task over.
LEMMA MutexFreePriority ==
    ASSUME NatLeast, IInv, IInv', PriorityInv, Next, TaskMutexFree
    PROVE  PriorityInv'
<1>1. PICK d \in Tasks : d = kcall.task /\ mutex_list[d] # <<>>
  BY DEF TaskMutexFree, IInv, LoopInv
<1>2. PICK m \in Mutexes : m = Head(mutex_list[d]) /\ Contains(mutex_list[d], m)
  BY <1>1, FirstMutex
<1>3. kcall.pc = "task_del" /\ chg = NoChg /\ UNCHANGED <<prio, b_prio, chg, kcall>>
  BY DEF TaskMutexFree, IInv, LoopInv
<1>4. mutex_list \in [Tasks -> Seq(Mutexes)] /\ \A t \in Tasks : NoDup(mutex_list[t])
  BY PriorityBefore
<1>5. ASSUME NEW t \in Tasks, Alive(t)', ~Dying(t)' PROVE IsInherited(Target(t), t)'
  <2>1. Alive(t) /\ ~Dying(t) /\ chg.task # t /\ t # d /\ ~Contains(mutex_list[t], m)
    <3>1. t # d /\ ~Dying(t)
      BY <1>1, <1>3, <1>5 DEF Dying
    <3>2. Alive(t)
      BY <1>1, <1>3, <1>5, <3>1, AliveInLoop
    <3> QED BY <1>1, <1>2, <1>3, <3>1, <3>2, ChgFields, OnlyOwner
  <2>2. CASE UNCHANGED blk_list /\ mutex_list' = [mutex_list EXCEPT ![d] = Tail(@)]
    <3>1. mutex_list'[t] = mutex_list[t]
      BY <1>4, <2>1, <2>2
    <3>2. \A u \in Tasks : WaitsFor(u, t)' <=> WaitsFor(u, t)
      BY <1>3, <2>2, <3>1 DEF WaitsFor, Claims
    <3> QED BY <1>3, <2>1, <3>2, OtherTask DEF PriorityInv
  <2>3. ASSUME NEW n, n = Head(blk_list[m]), blk_list[m] # <<>>, PendTaskWake(m, n, "BLK_FINISH"),
               mutex_list' = [mutex_list EXCEPT ![d] = Tail(@), ![n] = <<m>> \o @]
        PROVE  IsInherited(Target(t), t)'
    <3>1. n \in Tasks /\ m \in Objs
      BY <2>3, Parts, FirstWaiter DEF Objs
    <3>2. \A x \in Mutexes : Contains(mutex_list'[t], x) <=> Contains(mutex_list[t], x) \/ (t = n /\ x = m)
      <4>2. \A y : Contains(<<m>> \o mutex_list[t], y) <=> Contains(mutex_list[t], y) \/ y = m
        BY <1>4, <2>1, ConsMembers
      <4>3. mutex_list'[t] = IF t = n THEN <<m>> \o mutex_list[t] ELSE mutex_list[t]
        BY <1>4, <2>1, <2>3, SMTT(60)
      <4> QED BY <4>2, <4>3
    <3>3. blk_list' = [blk_list EXCEPT ![m] = KlistRm(blk_list[m], n)]
      BY <2>3 DEF PendTaskWake
    <3> QED BY <1>3, <2>1, <2>3, <3>1, <3>2, <3>3, GiveInherits
  <2> QED BY <1>1, <1>2, <2>2, <2>3 DEF TaskMutexFree, pendVars
<1> QED BY <1>3, <1>5 DEF PriorityInv, Inherited, ChgLimits

-----------------------------------------------------------------------------
(* A waiter leaves.                                                         *)

\* mutex_task_pri_reset sets out to change the owner when it may have had its
\* priority from the task that leaves.
LEMMA ResetInherits ==
    ASSUME NatLeast, IInv, IInv', PriorityInv, NEW v \in Tasks, Pending(v), NEW o, o = blk_obj[v],
           blk_list' = [blk_list EXCEPT ![o] = KlistRm(blk_list[o], v)], chg = NoChg, chg' = PriReset(v, o),
           kcall.pc # "lock", kcall'.pc # "lock", UNCHANGED <<prio, b_prio, mutex_list>>,
           NEW t \in Tasks, Alive(t), ~Dying(t), kcall.pc # "unlock"
    PROVE  IsInherited(Target(t), t)'
<1>1. /\ prio \in [Tasks -> Pri] /\ b_prio \in [Tasks -> Pri] /\ blk_list \in [Objs -> Seq(Tasks)]
      /\ \A m \in Mutexes : m \in Objs /\ NoDup(blk_list[m])
  BY PriorityBefore
<1>2. o \in Objs /\ \A x \in Objs \ {o} : blk_list'[x] = blk_list[x]
  BY <1>1 DEF IInv, ListInv
<1>3. o \in Mutexes => \A u \in Tasks : Contains(blk_list'[o], u) <=> Contains(blk_list[o], u) /\ u # v
  <2>1. blk_list'[o] = KlistRm(blk_list[o], v) /\ blk_list[o] \in Seq(Tasks)
    BY <1>1, <1>2
  <2> QED BY <1>1, <2>1, KlistRmMembers
<1>4. chg.task # t
  BY ChgFields
<1>5. CASE ~Contains(mutex_list[t], o)
  <2>1. \A u \in Tasks : WaitsFor(u, t)' <=> WaitsFor(u, t)
    BY <1>1, <1>2, <1>5 DEF WaitsFor, Claims
  <2>2. chg'.task # t
    <3>1. CASE o \in Mutexes /\ obj_type[o]
      <4>1. mutex_task[o] # t
        BY <1>5, <3>1 DEF IInv, OwnerInv, Unlocking
      <4>2. chg' = NoChg \/ chg'.task = mutex_task[o]
        BY ChgFields DEF PriReset, Release
      <4> QED BY <4>1, <4>2, ChgFields
    <3> QED BY <3>1, ChgFields DEF PriReset
  <2> QED BY <1>4, <2>1, <2>2, OtherTask DEF PriorityInv
<1>6. CASE Contains(mutex_list[t], o)
  <2>1. o \in Mutexes /\ obj_type[o] /\ mutex_task[o] = t
    <3>1. mutex_list[t] \in Seq(Mutexes)
      BY PriorityBefore
    <3>2. o \in Mutexes
      BY <1>6, <3>1, NotEmpty
    <3> QED BY <1>6, <3>2, OnlyOwner
  <2>2. CASE prio[t] = prio[v]
    <3>1. chg' = Release(t, mutex_list[t], blk_list')
      BY <2>1, <2>2 DEF PriReset
    <3>2. Looked(PriLook(b_prio[t], mutex_list[t], blk_list', prio), b_prio[t], mutex_list[t], blk_list', prio)
      <4>1. /\ mutex_list[t] \in Seq(Mutexes) /\ b_prio[t] \in Pri
            /\ blk_list' \in [Objs -> Seq(Tasks)] /\ \A m \in Mutexes : SortedBy(blk_list'[m], prio)
        BY PriorityBefore, PriorityAfter
      <4> QED BY <1>1, <4>1, PriLookIs
    <3>3. PICK p : p = PriLook(b_prio[t], mutex_list[t], blk_list', prio)
      OBVIOUS
    <3>4. IsInherited(p, t)'
      BY <3>2, <3>3, LookedInherits
    <3>5. chg' = IF p # prio[t] THEN ChgTo(t, p) ELSE NoChg
      BY <3>1, <3>3 DEF Release
    <3>6. p = Target(t)'
      BY <3>5, ChgFields DEF Target
    <3> QED BY <3>4, <3>6
  <2>3. CASE prio[t] # prio[v]
    <3>1. chg' = NoChg
      BY <2>1, <2>3 DEF PriReset
    <3>2. \A u \in Tasks : WaitsFor(u, t)' <=> WaitsFor(u, t) /\ u # v
      <4>1. \A m \in Mutexes, u \in Tasks : Contains(blk_list'[m], u) <=> Contains(blk_list[m], u) /\ u # v
        BY <1>1, <1>2, <1>3, BlkMember
      <4> QED BY <4>1 DEF WaitsFor, Claims
    <3>3. IsInherited(prio[t], t)
      BY <1>4 DEF PriorityInv, Inherited, Target
    <3>4. IsInherited(prio[t], t)'
      BY <2>3, <3>2, <3>3 DEF IsInherited
    <3>5. (prio[t] = Target(t))'
      BY <3>1, ChgFields DEF Target
    <3> QED BY <3>4, <3>5
  <2> QED BY <2>2, <2>3
<1> QED BY <1>5, <1>6

\* A wait times out.
LEMMA TickPriority ==
    ASSUME NatLeast, IInv, IInv', PriorityInv, Next, TickStep
    PROVE  PriorityInv'
<1>1. /\ kcall.pc = "tick" /\ chg = NoChg /\ kcall' \in {kcall, NoCall} /\ UNCHANGED <<prio, b_prio, mutex_list>>
      /\ \/ UNCHANGED <<blk_list, chg>>
         \/ TickDue /\ \E v : v = Head(tick_list) /\ Pending(v) /\ PendTaskWake(blk_obj[v], v, "BLK_TIMEOUT")
                              /\ chg' = PriReset(v, blk_obj[v])
  BY DEF TickStep, objVars, pendVars
<1>2. kcall'.pc \in {"tick", "none"}
  BY <1>1, SMTT(60) DEF NoCall, KCall
<1>3. ASSUME NEW t \in Tasks, Alive(t)' PROVE IsInherited(Target(t), t)'
  <2>1. Alive(t) /\ ~Dying(t) /\ chg.task # t
    BY <1>1, <1>3, AliveInLoop, ChgFields DEF Dying, TaskDelState
  <2>2. CASE UNCHANGED <<blk_list, chg>>
    <3>1. \A u \in Tasks : WaitsFor(u, t)' <=> WaitsFor(u, t)
      BY <1>1, <1>2, <2>2 DEF WaitsFor, Claims
    <3> QED BY <1>1, <2>1, <2>2, <3>1, OtherTask DEF PriorityInv
  <2>3. ASSUME TickDue, NEW v, v = Head(tick_list), Pending(v), PendTaskWake(blk_obj[v], v, "BLK_TIMEOUT"),
               chg' = PriReset(v, blk_obj[v])
        PROVE  IsInherited(Target(t), t)'
    <3>1. v \in Tasks
      <4>1. tick_list \in Seq(Tasks) /\ tick_list # <<>>
        BY <2>3 DEF TickDue, IInv, TypeOK
      <4> QED BY <2>3, <4>1, SMTT(60)
    <3>2. blk_list' = [blk_list EXCEPT ![blk_obj[v]] = KlistRm(blk_list[blk_obj[v]], v)]
      BY <2>3 DEF PendTaskWake
    <3> QED BY <1>1, <1>2, <2>1, <2>3, <3>1, <3>2, ResetInherits
  <2> QED BY <1>1, <2>2, <2>3
<1> QED BY <1>2, <1>3 DEF PriorityInv, Inherited, ChgLimits

\* A task that waits is deleted.
LEMMA DelStatePriority ==
    ASSUME NatLeast, IInv, IInv', PriorityInv, Next, TaskDelState
    PROVE  PriorityInv'
<1>1. PICK d \in Tasks : d = kcall.task
  BY DEF TaskDelState, IInv, LoopInv
<1>2. /\ kcall.pc = "task_del" /\ kcall' = KCall("exit", NONE, NONE, 0) /\ UNCHANGED <<prio, b_prio, mutex_list>>
      /\ \/ UNCHANGED <<blk_list, chg>>
         \/ /\ Pending(d) /\ chg' = PriReset(d, blk_obj[d])
            /\ blk_list' = [blk_list EXCEPT ![blk_obj[d]] = KlistRm(blk_list[blk_obj[d]], d)]
      /\ task_state' = [task_state EXCEPT ![d] = "K_DELETED"]
  BY <1>1 DEF TaskDelState, objVars
<1>3. kcall'.pc = "exit" /\ chg = NoChg
  BY <1>2 DEF KCall, IInv, LoopInv
<1>4. ASSUME NEW t \in Tasks, Alive(t)' PROVE IsInherited(Target(t), t)'
  <2>1. Alive(t) /\ ~Dying(t) /\ chg.task # t
    <3>1. t # d
      BY <1>2, <1>4 DEF Alive, IInv, TypeOK
    <3> QED BY <1>1, <1>2, <1>3, <1>4, <3>1, AliveInLoop, ChgFields DEF Dying
  <2>2. CASE UNCHANGED <<blk_list, chg>>
    <3>1. \A u \in Tasks : WaitsFor(u, t)' <=> WaitsFor(u, t)
      BY <1>2, <1>3, <2>2 DEF WaitsFor, Claims
    <3> QED BY <1>2, <2>1, <2>2, <3>1, OtherTask DEF PriorityInv
  <2> QED BY <1>2, <1>3, <2>1, <2>2, ResetInherits
<1> QED BY <1>3, <1>4 DEF PriorityInv, Inherited, ChgLimits

-----------------------------------------------------------------------------
(* Base priorities and new tasks.                                           *)

\* krhino_task_pri_change sets out to give its task the priority it inherits
\* with the new base priority.
LEMMA PriChangePriority ==
    ASSUME NatLeast, IInv, IInv', PriorityInv, TaskPriChange
    PROVE  PriorityInv'
<1>1. kcall.pc = "none" /\ chg = NoChg /\ UNCHANGED <<prio, mutex_list, blk_list, task_state>>
  BY DEF TaskPriChange, InTask, IInv, LoopInv, objVars, pendVars
<1>2. PICK d \in Tasks, p \in Pri : d = pri_req[g_active_task].task /\ p = pri_req[g_active_task].pri
  <2>1. pri_req[g_active_task] \in Chg /\ pri_req[g_active_task] # NoChg
    BY DEF TaskPriChange, IInv, TypeOK
  <2> QED BY <2>1 DEF Chg
<1>3. PICK n : n = PriLook(p, mutex_list[d], blk_list, prio)
  OBVIOUS
<1>4. /\ b_prio' = [b_prio EXCEPT ![d] = p]
      /\ Alive(d) => kcall' = KCall("exit", NONE, NONE, 0) /\ chg' = ChgTo(d, n)
      /\ ~Alive(d) => UNCHANGED <<kcall, chg>>
  BY <1>2, <1>3 DEF TaskPriChange
<1>5. kcall'.pc \in {"none", "exit"}
  BY <1>1, <1>4, SMTT(60) DEF KCall
<1>6. ASSUME NEW t \in Tasks, Alive(t)' PROVE IsInherited(Target(t), t)'
  <2>1. Alive(t) /\ ~Dying(t) /\ chg.task # t
    BY <1>1, <1>6, ChgFields DEF Alive, Dying
  <2>2. CASE t # d
    <3>0. chg'.task # t
      BY <1>4, <2>1, <2>2, ChgFields
    <3>1. b_prio'[t] = b_prio[t]
      BY <1>4, <2>2, PriorityBefore
    <3>2. \A u \in Tasks : WaitsFor(u, t)' <=> WaitsFor(u, t)
      BY <1>1, <1>5 DEF WaitsFor, Claims
    <3> QED BY <1>1, <2>1, <3>0, <3>1, <3>2, OtherTask DEF PriorityInv
  <2>3. CASE t = d
    <3>0. b_prio'[t] = p
      BY <1>4, <2>3, PriorityBefore
    <3>1. n = Target(t)'
      BY <1>4, <2>1, <2>3, ChgFields DEF Target
    <3>2. Looked(n, p, mutex_list[t], blk_list, prio)
      <4>1. /\ blk_list \in [Objs -> Seq(Tasks)] /\ prio \in [Tasks -> Pri] /\ mutex_list[t] \in Seq(Mutexes)
            /\ \A x \in Mutexes : SortedBy(blk_list[x], prio)
        BY PriorityBefore
      <4> QED BY <1>3, <2>3, <4>1, PriLookIs
    <3>3. IsInherited(n, t)'
      BY <1>1, <1>5, <3>0, <3>2, LookedInherits
    <3> QED BY <3>1, <3>3
  <2> QED BY <2>2, <2>3
<1> QED BY <1>5, <1>6 DEF PriorityInv, Inherited, ChgLimits

\* A new task owns no mutex, and nobody waited with its old priority.
LEMMA CreatePriority ==
    ASSUME NatLeast, IInv, IInv', PriorityInv, Next, NEW d \in Tasks, NEW autorun \in BOOLEAN, TaskCreate(d, autorun)
    PROVE  PriorityInv'
<1>1. /\ kcall.pc = "none" /\ chg = NoChg /\ UNCHANGED <<mutex_list, blk_list, kcall, chg>> /\ ~Alive(d)
      /\ prio' = [prio EXCEPT ![d] = InitPrio[d]] /\ b_prio' = [b_prio EXCEPT ![d] = InitPrio[d]]
  BY Caller DEF TaskCreate, objVars
<1>2. ASSUME NEW u \in Tasks, NEW t \in Tasks, WaitsFor(u, t) PROVE t # d /\ u # d
  <2>1. PICK m \in Mutexes : Contains(mutex_list[t], m) /\ Contains(blk_list[m], u)
    BY <1>1, <1>2 DEF WaitsFor, Claims
  <2>2. Alive(t)
    <3>1. obj_type[m] /\ mutex_task[m] = t /\ t # NONE
      BY <2>1, OnlyOwner, TaskAssumption
    <3> QED BY <3>1 DEF IInv, OwnerInv
  <2>3. Pending(u)
    BY <2>1, BlkMember DEF Objs
  <2> QED BY <1>1, <2>2, <2>3 DEF Pending, Alive
<1>3. \A u \in Tasks, t \in Tasks : WaitsFor(u, t)' <=> WaitsFor(u, t)
  BY <1>1 DEF WaitsFor, Claims
<1>4. ASSUME NEW t \in Tasks, Alive(t)' PROVE IsInherited(Target(t), t)'
  <2>1. chg.task # t /\ ~Dying(t) /\ chg'.task # t
    BY <1>1, ChgFields DEF Dying
  <2>2. CASE t # d
    <3>1. Alive(t)
      <4>1. task_state \in [Tasks -> TaskStates]
        BY PriorityBefore
      <4>2. task_state'[t] = task_state[t]
        BY <1>1, <2>2, <4>1 DEF TaskCreate
      <4> QED BY <1>4, <4>2 DEF Alive
    <3>2. prio'[t] = prio[t] /\ b_prio'[t] = b_prio[t] /\ \A u \in Tasks : WaitsFor(u, t) => prio'[u] = prio[u]
      BY <1>1, <1>2, <2>2, PriorityBefore
    <3> QED BY <1>3, <2>1, <3>1, <3>2, OtherTask DEF PriorityInv
  <2>3. CASE t = d
    <3>1. prio'[t] = b_prio'[t] /\ prio'[t] \in Pri
      BY <1>1, <2>3, PriorityBefore, ApplicationAssumption
    <3>2. prio'[t] <= b_prio'[t]
      BY <3>1, PriOrder
    <3> QED BY <1>2, <1>3, <2>1, <2>3, <3>1, <3>2 DEF IsInherited, Target
  <2> QED BY <2>2, <2>3
<1> QED BY <1>1, <1>4 DEF PriorityInv, Inherited, ChgLimits

-----------------------------------------------------------------------------
(* task_pri_change.                                                         *)

\* The lists keep their members when task_pri_change sorts them.
LEMMA ChgWaits ==
    ASSUME IInv, IInv', PriChangeStep, NEW u \in Tasks, NEW t \in Tasks
    PROVE  WaitsFor(u, t)' <=> WaitsFor(u, t)
<1>1. UNCHANGED <<task_state, blk_obj, mutex_list, kcall, g_active_task>>
  BY DEF PriChangeStep, mutexUnchanged, cpuVars
<1>2. \A m \in Mutexes : Claims(u, m)' <=> Claims(u, m)
  BY <1>1, BlkMember DEF Claims, Pending, Objs
<1> QED BY <1>1, <1>2 DEF WaitsFor

\* The task it works on, and the one it goes on with, whose mutex that waits for
LEMMA ChgTasks ==
    ASSUME IInv, PriorityInv, PriChangeStep, NEW t, t = chg.task
    PROVE  /\ t \in Tasks /\ chg.pri \in Pri /\ Alive(t) /\ prio' = [prio EXCEPT ![t] = chg.pri]
           /\ kcall.pc \in {"lock", "unlock"} => task_state[g_active_task] = "K_RDY"
           /\ kcall.pc = "unlock" => chg' = NoChg
           /\ kcall.pc = "lock" => t # g_active_task /\ chg.pri = prio[g_active_task] /\ chg.pri < prio[t]
           /\ chg' = NoChg \/ \E o \in Tasks :
                 /\ Pending(t) /\ prio[t] # chg.pri /\ blk_obj[t] \in Mutexes /\ obj_type[blk_obj[t]]
                 /\ mutex_task[blk_obj[t]] = o /\ chg'.task = o /\ Contains(mutex_list[o], blk_obj[t])
                 /\ Contains(blk_list[blk_obj[t]], t)
<1>1. /\ t \in Tasks /\ chg.pri \in Pri /\ Alive(t) /\ prio' = [prio EXCEPT ![t] = chg.pri] /\ chg # NoChg
      /\ chg' = ChgNext(t, chg.pri)
  BY ChgTask DEF PriChangeStep
<1>2. kcall.pc \in {"lock", "unlock"} => task_state[g_active_task] = "K_RDY"
  BY DEF IInv, LoopInv
<1>3. kcall.pc = "unlock" => ~Pending(t)
  BY <1>1, <1>2 DEF PriorityInv, ChgLimits, Pending
<1>4. kcall.pc = "lock" => t # g_active_task /\ chg.pri = prio[g_active_task] /\ chg.pri < prio[t]
  <2>1. kcall.pc = "lock" => chg.pri = prio[g_active_task] /\ chg.pri < prio[t]
    BY <1>1 DEF PriorityInv, ChgLimits
  <2> QED BY <1>1, <2>1, PriOrder
<1>5. ASSUME chg' # NoChg
      PROVE  \E o \in Tasks :
                 /\ Pending(t) /\ prio[t] # chg.pri /\ blk_obj[t] \in Mutexes /\ obj_type[blk_obj[t]]
                 /\ mutex_task[blk_obj[t]] = o /\ chg'.task = o /\ Contains(mutex_list[o], blk_obj[t])
                 /\ Contains(blk_list[blk_obj[t]], t)
  <2>1. Pending(t) /\ prio[t] # chg.pri /\ chg' = ChgOwner(t, chg.pri)
    BY <1>1, <1>5 DEF ChgNext
  <2>2. blk_obj[t] \in Mutexes /\ obj_type[blk_obj[t]] /\ chg'.task = mutex_task[blk_obj[t]]
    BY <1>5, <2>1, ChgFields DEF ChgOwner
  <2>3. PICK m \in Mutexes : m = blk_obj[t]
    BY <2>2
  <2>4. Contains(blk_list[m], t)
    BY <1>1, <2>1, <2>3, BlkMember DEF Objs
  <2>5. PICK o \in Tasks : o = mutex_task[m]
    <3>1. blk_list[m] # <<>>
      BY <2>4, NotEmpty, PriorityBefore
    <3>2. mutex_task[m] # NONE
      BY <2>2, <2>3, <3>1 DEF IInv, OwnerInv
    <3> QED BY <3>2 DEF IInv, TypeOK
  <2>6. Contains(mutex_list[o], m)
    BY <1>3, <2>1, <2>2, <2>3, <2>5 DEF IInv, OwnerInv, Unlocking
  <2> QED BY <2>1, <2>2, <2>3, <2>4, <2>5, <2>6
<1>6. kcall.pc = "unlock" => chg' = NoChg
  BY <1>1, <1>3 DEF ChgNext
<1> QED BY <1>1, <1>2, <1>4, <1>5, <1>6

\* What the owner of the mutex a task waits for inherits once the priority of
\* that task has changed
LEMMA ChgInherits ==
    ASSUME NatLeast, IInv, IInv', PriorityInv, PriChangeStep, NEW t \in Tasks, t = chg.task, NEW p \in Pri, p = chg.pri,
           NEW o \in Tasks, o # t, WaitsFor(t, o), IsInherited(prio[o], o)
    PROVE  /\ IsInherited(Target(o), o)'
           /\ kcall.pc = "lock" /\ chg'.task = o => chg'.pri = p /\ p < prio[o]
<1>1. /\ prio' = [prio EXCEPT ![t] = p] /\ kcall' = kcall /\ UNCHANGED <<b_prio, mutex_list>>
      /\ kcall.pc = "unlock" => chg' = NoChg
      /\ kcall.pc = "lock" => t # g_active_task /\ p < prio[t] /\ chg' = ChgNext(t, p)
  BY ChgTasks DEF PriChangeStep
<1>2. prio \in [Tasks -> Pri] /\ b_prio \in [Tasks -> Pri] /\ mutex_list \in [Tasks -> Seq(Mutexes)]
  BY PriorityBefore
<1>3. prio'[t] = p /\ \A u \in Tasks \ {t} : prio'[u] = prio[u]
  BY <1>1, <1>2
<1>4. PICK m \in Mutexes : Contains(mutex_list[o], m) /\ Contains(blk_list[m], t)
  BY <1>1 DEF WaitsFor, Claims
<1>5. Pending(t) /\ blk_obj[t] = m /\ obj_type[m] /\ mutex_task[m] = o
  BY <1>4, BlkMember, OnlyOwner DEF Objs
<1>6. prio[o] <= prio[t] /\ prio[o] <= b_prio[o] /\ prio[o] \in Pri /\ prio[t] \in Pri /\ b_prio[o] \in Pri
  BY <1>2 DEF IsInherited
<1>7. \A u \in Tasks : WaitsFor(u, o)' <=> WaitsFor(u, o)
  BY ChgWaits
<1>8. CASE prio[t] = p
  <2>1. chg' = NoChg
    BY <1>8 DEF PriChangeStep, ChgNext
  <2>2. IsInherited(prio[o], o)'
    BY <1>1, <1>3, <1>7, <1>8, InheritSame
  <2>3. (prio[o] = Target(o))'
    BY <2>1, ChgFields DEF Target
  <2> QED BY <2>1, <2>2, <2>3, ChgFields
<1>9. CASE prio[t] # p
  <2>1. PICK n : n = PriLook(b_prio[o], mutex_list[o], blk_list', prio')
    OBVIOUS
  <2>2. chg' = IF prio[o] > p THEN ChgTo(o, p)
               ELSE IF prio[o] = prio[t] /\ n # prio[o] THEN ChgTo(o, n) ELSE NoChg
    <3>1. chg' = ChgOwner(t, p)
      BY <1>5, <1>9 DEF PriChangeStep, ChgNext
    <3>2. [prio EXCEPT ![t] = p] = prio' /\ prio'[o] = prio[o]
      BY <1>1, <1>3
    <3> QED BY <1>5, <2>1, <3>1, <3>2 DEF ChgOwner
  <2>3. CASE prio[o] > p
    <3>1. chg'.task = o /\ chg'.pri = p /\ p < prio[o] /\ p <= prio[o]
      BY <1>6, <2>2, <2>3, ChgFields, PriOrder
    <3>2. p <= b_prio[o] /\ \A u \in Tasks : WaitsFor(u, o) => p <= prio'[u]
      <4>1. p <= b_prio[o]
        BY <1>6, <3>1, PriOrder
      <4>2. ASSUME NEW u \in Tasks, WaitsFor(u, o), u # t PROVE p <= prio'[u]
        <5>1. prio[o] <= prio[u] /\ prio[u] \in Pri
          BY <1>2, <4>2 DEF IsInherited
        <5> QED BY <1>3, <1>6, <3>1, <4>2, <5>1, PriOrder
      <4>3. p <= prio'[t]
        BY <1>3, PriOrder
      <4> QED BY <4>1, <4>2, <4>3
    <3>3. IsInherited(p, o)'
      BY <1>1, <1>3, <1>7, <3>2 DEF IsInherited
    <3>4. p = Target(o)'
      BY <3>1 DEF Target
    <3> QED BY <3>1, <3>3, <3>4
  <2>4. CASE ~(prio[o] > p) /\ prio[o] = prio[t]
    <3>1. kcall.pc # "lock"
      BY <1>1, <1>6, <2>4, PriOrder
    <3>2. Looked(n, b_prio[o], mutex_list[o], blk_list', prio')
      <4>1. /\ mutex_list[o] \in Seq(Mutexes) /\ prio' \in [Tasks -> Pri]
            /\ blk_list' \in [Objs -> Seq(Tasks)] /\ \A x \in Mutexes : SortedBy(blk_list'[x], prio')
        BY <1>2, PriorityAfter
      <4> QED BY <1>6, <2>1, <4>1, PriLookIs
    <3>3. IsInherited(n, o)'
      BY <1>1, <3>1, <3>2, LookedInherits
    <3>4. n = Target(o)'
      <4>1. chg' = IF n # prio[o] THEN ChgTo(o, n) ELSE NoChg
        BY <2>2, <2>4
      <4> QED BY <1>3, <4>1, ChgFields DEF Target
    <3> QED BY <3>1, <3>3, <3>4
  <2>5. CASE ~(prio[o] > p) /\ prio[o] # prio[t]
    <3>1. chg' = NoChg /\ prio[o] <= p
      BY <1>6, <2>2, <2>5, PriOrder
    <3>2. IsInherited(prio[o], o)'
      BY <1>1, <1>3, <1>7, <2>5, <3>1 DEF IsInherited
    <3>3. (prio[o] = Target(o))'
      BY <3>1, ChgFields DEF Target
    <3> QED BY <3>1, <3>2, <3>3, ChgFields
  <2> QED BY <2>3, <2>4, <2>5
<1> QED BY <1>8, <1>9

\* One step of a chain of task_pri_change
LEMMA ChgPriority ==
    ASSUME NatLeast, IInv, IInv', PriorityInv, Next, PriChangeStep
    PROVE  PriorityInv'
<1>1. PICK c \in Tasks, p \in Pri : c = chg.task /\ p = chg.pri /\ Alive(c) /\ prio' = [prio EXCEPT ![c] = p]
  BY ChgTasks
<1>2. kcall' = kcall /\ kcall.pc \notin {"none", "task_del"} /\ UNCHANGED <<b_prio, g_active_task, task_state>>
  BY DEF PriChangeStep, IInv, LoopInv, mutexUnchanged, cpuVars
<1>3. prio'[c] = p /\ \A u \in Tasks \ {c} : prio'[u] = prio[u]
  BY <1>1, PriorityBefore
<1>4. chg' # NoChg => WaitsFor(c, chg'.task)
  <2>1. ASSUME chg' # NoChg PROVE WaitsFor(c, chg'.task)
    <3>1. PICK o \in Tasks : /\ blk_obj[c] \in Mutexes /\ chg'.task = o /\ Contains(mutex_list[o], blk_obj[c])
                             /\ Contains(blk_list[blk_obj[c]], c)
      BY <1>1, <2>1, ChgTasks
    <3> QED BY <3>1 DEF WaitsFor, Claims
  <2> QED BY <2>1
<1>5. \A t \in Tasks : ~WaitsFor(t, t)
  BY OnlyOwner DEF WaitsFor
<1>6. ASSUME NEW t \in Tasks, Alive(t)' PROVE IsInherited(Target(t), t)'
  <2>0. Alive(t) /\ ~Dying(t) /\ IsInherited(Target(t), t)
    BY <1>2, <1>6 DEF Alive, Dying, PriorityInv, Inherited
  <2>1. \A u \in Tasks : WaitsFor(u, t)' <=> WaitsFor(u, t)
    BY ChgWaits
  <2>2. CASE WaitsFor(c, t)
    <3>1. t # c /\ IsInherited(prio[t], t)
      BY <1>1, <1>5, <2>0, <2>2 DEF Target
    <3> QED BY <1>1, <2>2, <3>1, ChgInherits
  <2>3. CASE ~WaitsFor(c, t)
    <3>1. chg'.task # t
      BY <1>4, <2>3, ChgFields
    <3>2. CASE t = c
      <4>1. IsInherited(p, t)
        BY <1>1, <2>0, <3>2 DEF Target
      <4>2. IsInherited(p, t)'
        BY <1>2, <1>3, <2>1, <2>3, <4>1, InheritSame
      <4>3. p = Target(t)'
        BY <1>3, <3>1, <3>2 DEF Target
      <4> QED BY <4>2, <4>3
    <3>3. CASE t # c
      BY <1>1, <1>2, <1>3, <2>0, <2>1, <2>3, <3>1, <3>3, OtherTask DEF PriorityInv
    <3> QED BY <3>2, <3>3
  <2> QED BY <2>2, <2>3
<1>7. ChgLimits'
  <2>1. kcall.pc = "unlock" => chg' = NoChg
    BY ChgTasks
  <2>2. ASSUME kcall.pc = "lock", chg' # NoChg PROVE chg'.pri = prio'[g_active_task] /\ chg'.pri < prio'[chg'.task]
    <3>1. c # g_active_task /\ p = prio[g_active_task] /\ g_active_task \in Tasks
      BY <1>1, <2>2, ChgTasks DEF IInv, TypeOK
    <3>2. PICK o \in Tasks : o = chg'.task /\ mutex_task[blk_obj[c]] = o
      BY <1>1, <2>2, ChgTasks
    <3>3. WaitsFor(c, o) /\ o # c
      BY <1>4, <1>5, <2>2, <3>2
    <3>4. IsInherited(prio[o], o)
      <4>1. Alive(o)
        <5>1. PICK m \in Mutexes : m = blk_obj[c] /\ obj_type[m]
          BY <1>1, <2>2, ChgTasks
        <5>2. mutex_task[m] = o /\ o # NONE
          BY <3>2, <5>1, TaskAssumption
        <5> QED BY <5>1, <5>2 DEF IInv, OwnerInv
      <4> QED BY <1>1, <1>2, <3>3, <4>1 DEF PriorityInv, Inherited, Target, Dying
    <3>5. chg'.pri = p /\ p < prio[o]
      BY <1>1, <2>2, <3>2, <3>3, <3>4, ChgInherits
    <3> QED BY <1>3, <3>1, <3>2, <3>3, <3>5
  <2> QED BY <1>2, <2>1, <2>2 DEF ChgLimits
<1> QED BY <1>6, <1>7 DEF PriorityInv, Inherited

-----------------------------------------------------------------------------
(* The invariant.                                                           *)

\* At first every task has its base priority and nobody owns a mutex.
LEMMA PriorityInit == Init => PriorityInv
<1> SUFFICES ASSUME Init PROVE PriorityInv
  OBVIOUS
<1>1. /\ prio = InitPrio /\ b_prio = InitPrio /\ mutex_list = [t \in Tasks |-> <<>>] /\ chg = NoChg
  BY DEF Init
<1>2. \A x : ~Contains(<<>>, x)
  BY SMTT(60) DEF Contains
<1>3. ASSUME NEW t \in Tasks PROVE IsInherited(Target(t), t)
  <2>1. \A u \in Tasks : ~WaitsFor(u, t)
    BY <1>1, <1>2 DEF WaitsFor
  <2>2. InitPrio[t] \in Pri /\ Target(t) = InitPrio[t] /\ b_prio[t] = InitPrio[t]
    BY <1>1, ApplicationAssumption, ChgFields DEF Target
  <2> QED BY <2>1, <2>2, PriOrder DEF IsInherited
<1> QED BY <1>1, <1>3 DEF PriorityInv, Inherited, ChgLimits

\* Every step keeps each task at the priority it inherits, or about to get it:
\* the steps of mutex_release, mutex_task_pri_reset, task_pri_change and of the
\* calls that start them.
LEMMA PriorityStep ==
    ASSUME NatLeast, IInv, IInv', PriorityInv, [Next]_vars
    PROVE  PriorityInv'
<1>1. CASE UNCHANGED vars
  <2>1. UNCHANGED <<task_state, prio, b_prio, blk_list, mutex_list, g_active_task, kcall, chg>>
    BY <1>1 DEF vars, pendVars, objVars, cpuVars
  <2>2. \A t \in Tasks : /\ Target(t)' = Target(t) /\ (Dying(t)' <=> Dying(t)) /\ (Alive(t)' <=> Alive(t))
                         /\ \A u \in Tasks : WaitsFor(u, t)' <=> WaitsFor(u, t)
    BY <2>1 DEF WaitsFor, Claims, Target, Dying, Alive
  <2>3. Inherited'
    BY <2>1, <2>2 DEF PriorityInv, Inherited, IsInherited
  <2> QED BY <2>1, <2>3 DEF PriorityInv, ChgLimits
<1>2. CASE Next /\ PrioritySteps
  BY <1>2, ChgPriority, LockPendPriority, HandOverPriority, MutexFreePriority, DelStatePriority, TickPriority,
     PriChangePriority, CreatePriority, UnlockPriority, DelPriority, LockPriority DEF PrioritySteps
<1>3. CASE Next /\ ~PrioritySteps
  BY <1>3, QuietPriority
<1> QED BY <1>1, <1>2, <1>3

\* Outside the loops of the kernel this is priority inheritance.
LEMMA PriorityImplied ==
    ASSUME NatLeast, IInv, PriorityInv
    PROVE  PriorityInherited
<1> SUFFICES ASSUME kcall.pc = "none", NEW t \in Tasks, Alive(t)
             PROVE  prio[t] = Least({b_prio[t]} \cup {prio[u] : u \in WaitersOf(t)})
  BY DEF PriorityInherited
<1>1. IsInherited(prio[t], t)
  <2>1. chg.task # t /\ ~Dying(t)
    BY ChgFields DEF IInv, LoopInv, Dying
  <2> QED BY <2>1 DEF PriorityInv, Inherited, Target
<1>2. \A u \in Tasks : WaitsFor(u, t) <=> u \in WaitersOf(t)
  <2>1. \A m : m \in ToSet(mutex_list[t]) <=> Contains(mutex_list[t], m)
    BY DEF ToSet, Contains
  <2>2. \A m : Contains(mutex_list[t], m) => m \in Mutexes
    BY PriorityBefore, NotEmpty
  <2>3. \A u \in Tasks, m \in Mutexes : Claims(u, m) <=> Pending(u) /\ blk_obj[u] = m
    BY BlkMember DEF Claims, Objs
  <2> QED BY <2>1, <2>2, <2>3 DEF WaitsFor, WaitersOf
<1> DEFINE S == {b_prio[t]} \cup {prio[u] : u \in WaitersOf(t)}
<1>3. S \subseteq Pri /\ S # {} /\ prio[t] \in Pri
  BY PriorityBefore DEF WaitersOf
<1>4. prio[t] \in S /\ \A x \in S : prio[t] <= x
  <2>1. \A u \in WaitersOf(t) : u \in Tasks
    BY DEF WaitersOf
  <2> QED BY <1>1, <1>2, <2>1 DEF IsInherited
<1>5. S \subseteq Nat
  BY <1>3, BoundAssumption, SMTT(60) DEF Pri
<1>6. Least(S) \in S /\ \A x \in S : Least(S) <= x
  BY <1>3, <1>5, MinNat
<1>7. Least(S) \in Pri /\ prio[t] <= Least(S) /\ Least(S) <= prio[t]
  BY <1>3, <1>4, <1>6
<1>8. prio[t] = Least(S)
  <2> HIDE DEF S
  <2> QED BY <1>3, <1>7, PriOrder
<1> QED BY <1>8

-----------------------------------------------------------------------------
(* The task that runs.                                                      *)

\* The first ready task changes only in a call that ends in core_sched.
LEMMA ReadySame ==
    ASSUME IInv, Next, ~CpuStep, kcall.pc = "none", g_intrpt_nested_level = 0, g_active_task \notin resched'
    PROVE  UNCHANGED readyVars
<1>0. ~ExitSched
  BY DEF ExitSched
<1>1. CASE SemNext
  BY <1>0, <1>1 DEF SemNext, SemCreate, SemGive, SemGiveAll, SemDel, SemTake, SemCountSet
<1>2. CASE MutexNext
  BY <1>2 DEF MutexNext, MutexCreate, MutexUnlock, MutexDel, MutexLock
<1>3. CASE TaskNext
  BY <1>0, <1>3 DEF TaskNext, TaskYield, TaskPriChange, TaskSleep, TaskSuspend, TaskResume, TaskDel,
              TaskCreate, TaskPriChangeCheck
<1>4. CASE SchedNext
  BY <1>4 DEF SchedNext, PendReturn, Tick, CpuStep
<1>5. ~KernelStep
  BY DEF KernelStep, PriChangeStep, MutexLockPend, MutexHandOver, SemGiveAllStep, DelStep, WakeAllLoop,
         TickStep, TaskMutexFree, TaskDelState, ExitStep, IInv, LoopInv
<1> QED BY <1>1, <1>2, <1>3, <1>4, <1>5 DEF Next

\* A loop that ends without core_sched has left the ready queue alone since a
\* task unlocked a mutex nobody waits for.
LEMMA LoopEndsHighest ==
    ASSUME IInv, HighestInv, Next, kcall.pc # "none", kcall'.pc = "none", g_intrpt_nested_level = 0,
           g_active_task \notin resched', g_sched_lock = 0
    PROVE  g_active_task = PreferredReadyTask /\ UNCHANGED readyVars
<1>0. ~ExitSched
  BY DEF ExitSched
<1>1. KernelStep
  BY InLoop
<1>2. ~TickStep
  BY SMTT(60) DEF TickStep, IInv, LoopInv
<1>3. ~PriChangeStep /\ ~TaskMutexFree
  BY DEF PriChangeStep, TaskMutexFree
<1>4. ~TaskDelState
  <2>1. KCall("exit", NONE, NONE, 0).pc # "none"
    BY DEF KCall
  <2> QED BY <2>1 DEF TaskDelState
<1>5. ~SemGiveAllStep /\ ~DelStep /\ ~MutexLockPend /\ ~ExitStep
  BY <1>0 DEF SemGiveAllStep, DelStep, WakeAllLoop, MutexLockPend, ExitStep
<1>6. CASE MutexHandOver
  BY <1>0, <1>6 DEF MutexHandOver, HighestInv
<1> QED BY <1>1, <1>2, <1>3, <1>4, <1>5, <1>6 DEF KernelStep

\* The steps that run another task or unlock the scheduler
LEMMA CpuHighest ==
    ASSUME IInv, HighestInv, CpuStep
    PROVE  RunsHighest'
<1>1. g_sched_lock \in Nat /\ g_intrpt_nested_level \in Nat /\ pendsv \in BOOLEAN
  BY BoundAssumption, SMTT(60) DEF IInv, TypeOK
<1>2. UNCHANGED <<cur_list_item, highest_pri, kcall>>
  BY DEF CpuStep, SchedDisable, SchedEnable, CoreSched, PendSV, IntrptEnter, IntrptExit, schedUnchanged, readyVars
<1>3. PreferredReadyTask' = PreferredReadyTask
  BY <1>2 DEF PreferredReadyTask
<1>4. CASE SchedDisable \/ SchedEnable
  <2>0. UNCHANGED pendsv /\ InTask
    BY <1>4 DEF SchedDisable, SchedEnable, TaskCall
  <2>1. ~pendsv' /\ g_intrpt_nested_level = 0
    BY <2>0 DEF InTask
  <2>2. g_sched_lock' # 0 \/ (ExitSched /\ UNCHANGED g_active_task)
    <3>1. CASE SchedDisable
      BY <1>1, <3>1, SMTT(60) DEF SchedDisable
    <3>2. CASE SchedEnable
      BY <1>1, <3>2, SMTT(60) DEF SchedEnable
    <3> QED BY <1>4, <3>1, <3>2
  <2> QED BY <2>1, <2>2 DEF RunsHighest, InTask, ExitSched
<1>5. CASE CoreSched \/ IntrptExit
  <2>1. UNCHANGED <<g_active_task, g_sched_lock>>
    BY <1>5 DEF CoreSched, IntrptExit
  <2>2. CASE g_intrpt_nested_level' # 0
    BY <2>2 DEF RunsHighest, InTask
  <2>3. CASE g_intrpt_nested_level' = 0
    <3>1. ChooseTask
      BY <1>1, <1>5, <2>3, SMTT(60) DEF CoreSched, IntrptExit
    <3>2. CASE g_sched_lock > 0
      <4>1. ~pendsv' /\ g_sched_lock # 0
        BY <1>1, <3>1, <3>2, SMTT(60) DEF ChooseTask, IInv, RunInv
      <4> QED BY <2>1, <4>1 DEF RunsHighest
    <3>3. CASE ~(g_sched_lock > 0)
      <4>1. g_preferred_ready_task' = PreferredReadyTask /\ (~pendsv' => PreferredReadyTask = g_active_task)
        BY <3>1, <3>3 DEF ChooseTask
      <4> QED BY <1>3, <2>1, <4>1 DEF RunsHighest, InTask
    <3> QED BY <3>2, <3>3
  <2> QED BY <2>2, <2>3
<1>6. CASE PendSV
  <2>1. /\ g_active_task' = g_preferred_ready_task /\ ~pendsv'
        /\ g_preferred_ready_task = PreferredReadyTask
    BY <1>6 DEF PendSV, HighestInv, RunsHighest
  <2> QED BY <1>3, <2>1 DEF RunsHighest
<1>7. CASE IntrptEnter
  <2>1. g_intrpt_nested_level' # 0
    BY <1>1, <1>7, SMTT(60) DEF IntrptEnter
  <2> QED BY <2>1 DEF RunsHighest, InTask
<1> QED BY <1>4, <1>5, <1>6, <1>7 DEF CpuStep

\* Every step preserves RunsHighest.
LEMMA RunsHighestStep ==
    ASSUME IInv, HighestInv, Next
    PROVE  RunsHighest'
<1>1. CASE CpuStep
  BY <1>1, CpuHighest
<1>2. CASE ~CpuStep
  <2>1. UNCHANGED cpuVars
    BY <1>2, CpuSame
  <2>2. ~(pendsv /\ g_intrpt_nested_level = 0)
    <3> SUFFICES ASSUME pendsv, g_intrpt_nested_level = 0 PROVE FALSE
      OBVIOUS
    <3>1. kcall.pc = "none" /\ chg = NoChg
      BY DEF IInv, RunInv, LoopInv
    <3> QED BY <1>2, <3>1, CpuContext, SMTT(60) DEF InTask, PriChangeStep
  <2>3. ASSUME InTask', g_sched_lock = 0 PROVE g_active_task = PreferredReadyTask'
    <3>1. g_intrpt_nested_level = 0 /\ ~pendsv /\ kcall'.pc = "none" /\ g_active_task \notin resched'
      BY <2>1, <2>3 DEF InTask, cpuVars
    <3>2. g_active_task = PreferredReadyTask /\ UNCHANGED readyVars
      <4>1. CASE kcall.pc = "none"
        <5>1. g_active_task \notin resched
          BY <1>2, <3>1, <4>1, ReschedStep DEF CpuStep, TaskDelState
        <5>2. g_active_task = PreferredReadyTask
          BY <2>3, <3>1, <4>1, <5>1 DEF HighestInv, RunsHighest, InTask
        <5> QED BY <1>2, <3>1, <4>1, <5>2, ReadySame
      <4>2. CASE kcall.pc # "none"
        BY <2>3, <3>1, <4>2, LoopEndsHighest
      <4> QED BY <4>1, <4>2
    <3> QED BY <3>2 DEF PreferredReadyTask, readyVars
  <2> QED BY <2>1, <2>2, <2>3 DEF RunsHighest, cpuVars
<1> QED BY <1>1, <1>2

\* The owner of a mutex nobody waits for has its priority without the mutex.
LEMMA UnlockKeepsPriority ==
    ASSUME NatLeast, IInv, IInv', PriorityInv, NEW m \in Mutexes, MutexUnlock(m), kcall'.pc = "unlock", blk_list[m] = <<>>
    PROVE  chg' = NoChg
<1>1. PICK a \in Tasks : a = g_active_task
  BY DEF IInv, TypeOK
<1>2. PICK ml : ml = KlistRm(mutex_list[a], m)
  OBVIOUS
<1>3. kcall.pc = "none" /\ chg = NoChg /\ Alive(a) /\ chg.task # a
  BY <1>1, Caller, ChgFields DEF MutexUnlock, Alive
<1>4. mutex_list' = [mutex_list EXCEPT ![a] = ml] /\ chg' = Release(a, ml, blk_list)
  BY <1>1, <1>2, <1>3 DEF MutexUnlock
<1>5. /\ b_prio[a] \in Pri /\ prio[a] \in Pri /\ blk_list \in [Objs -> Seq(Tasks)] /\ prio \in [Tasks -> Pri]
      /\ mutex_list[a] \in Seq(Mutexes) /\ NoDup(mutex_list[a]) /\ mutex_list'[a] = ml /\ mutex_list'[a] \in Seq(Mutexes)
      /\ \A x \in Mutexes : SortedBy(blk_list[x], prio)
  BY <1>4, PriorityBefore, PriorityAfter
<1>6. PICK n : n = PriLook(b_prio[a], ml, blk_list, prio)
  OBVIOUS
<1>7. Looked(n, b_prio[a], ml, blk_list, prio)
  BY <1>5, <1>6, PriLookIs
<1>8. \A u \in Tasks : WaitsFor(u, a) <=> Among(u, ml, blk_list)
  <2>1. \A x : Contains(ml, x) <=> Contains(mutex_list[a], x) /\ x # m
    <3>1. \A x : Contains(KlistRm(mutex_list[a], m), x) <=> Contains(mutex_list[a], x) /\ x # m
      BY <1>5, KlistRmMembers
    <3> QED BY <1>2, <3>1
  <2>2. \A u : ~Contains(blk_list[m], u)
    BY SMTT(60) DEF Contains
  <2> QED BY <1>3, <2>1, <2>2 DEF WaitsFor, Claims, Among
<1>9. IsInherited(prio[a], a)
  BY <1>3 DEF PriorityInv, Inherited, Target, Dying
<1>10. n \in Pri /\ n <= prio[a] /\ prio[a] <= n
  BY <1>5, <1>7, <1>8, <1>9, PriOrder DEF IsInherited, Looked
<1>11. n = prio[a]
  BY <1>5, <1>10, PriOrder
<1> QED BY <1>4, <1>6, <1>11 DEF Release

\* Only krhino_mutex_unlock starts its loop, which task_pri_change keeps.
LEMMA UnlockSteps ==
    ASSUME IInv, Next, kcall'.pc = "unlock"
    PROVE  PriChangeStep \/ \E m \in Mutexes : MutexUnlock(m) /\ kcall.pc = "none"
<1>3. CASE PrioritySteps
  <2>0. kcall' # NoCall /\ kcall' # KCall("exit", NONE, NONE, 0)
    BY SMTT(60) DEF NoCall, KCall
  <2>1. ~MutexLockPend /\ ~MutexHandOver /\ ~TaskDelState /\ ~TaskMutexFree
    BY <2>0 DEF MutexLockPend, MutexHandOver, TaskDelState, TaskMutexFree
  <2>2. ~TickStep
    BY <2>0 DEF TickStep
  <2>3. ~TaskPriChange
    BY <2>0 DEF TaskPriChange, InTask
  <2>4. \A t \in Tasks : \A autorun \in BOOLEAN : ~TaskCreate(t, autorun)
    BY Caller DEF TaskCreate
  <2>5. \A m \in Mutexes : ~MutexDel(m)
    BY SMTT(60) DEF MutexDel, KCall
  <2>6. \A m \in Mutexes : \A w \in Waits : ~MutexLock(m, w)
    BY SMTT(60) DEF MutexLock, TaskCall, InTask, KCall
  <2>7. \A m \in Mutexes : MutexUnlock(m) => kcall.pc = "none"
    BY Caller DEF MutexUnlock
  <2> QED BY <1>3, <2>1, <2>2, <2>3, <2>4, <2>5, <2>6, <2>7 DEF PrioritySteps
<1> QED BY <1>3, QuietSteps

\* Every step preserves HighestInv.
LEMMA HighestStep ==
    ASSUME NatLeast, IInv, IInv', PriorityInv, HighestInv, [Next]_vars
    PROVE  HighestInv'
<1>1. CASE UNCHANGED vars
  BY <1>1 DEF vars, readyVars, pendVars, cpuVars, HighestInv, RunsHighest, InTask, PreferredReadyTask
<1>2. CASE Next /\ kcall'.pc # "unlock"
  BY <1>2, RunsHighestStep DEF HighestInv
<1>3. ASSUME Next, kcall'.pc = "unlock", PriChangeStep PROVE HighestInv'
  <2>1. UNCHANGED <<kcall, task_state, blk_obj>> /\ chg # NoChg
    BY <1>3 DEF PriChangeStep
  <2>2. PICK m \in Mutexes : m = kcall.obj /\ m \in Objs
    BY <1>3, <2>1 DEF IInv, LoopInv, Objs
  <2>3. blk_list[m] # <<>> /\ blk_list[m] \in Seq(Tasks) /\ blk_list'[m] \in Seq(Tasks)
    BY <1>3, <2>1, <2>2, PriorityBefore, PriorityAfter DEF HighestInv
  <2>4. PICK u \in Tasks : Contains(blk_list[m], u)
    BY <2>3, NotEmpty
  <2>5. Contains(blk_list'[m], u)
    BY <2>1, <2>2, <2>4, BlkMember DEF Pending
  <2>6. blk_list'[m] # <<>>
    BY <2>3, <2>5, NotEmpty
  <2> QED BY <1>3, <2>1, <2>2, <2>6, RunsHighestStep DEF HighestInv
<1>4. ASSUME Next, kcall'.pc = "unlock", NEW m \in Mutexes, MutexUnlock(m), kcall.pc = "none" PROVE HighestInv'
  <2>1. /\ kcall' = KCall("unlock", m, NONE, 0) /\ InTask
        /\ UNCHANGED <<cur_list_item, highest_pri, blk_list, g_active_task, g_sched_lock>>
    BY <1>4 DEF MutexUnlock, TaskCall, readyVars, pendVars, mutexUnchanged, cpuVars
  <2>2. kcall'.obj = m
    BY <2>1 DEF KCall
  <2>3. chg' # NoChg => blk_list[m] # <<>>
    BY <1>4, UnlockKeepsPriority
  <2>4. g_sched_lock = 0 => g_active_task = PreferredReadyTask
    BY <2>1 DEF HighestInv, RunsHighest
  <2>5. PreferredReadyTask' = PreferredReadyTask
    BY <2>1 DEF PreferredReadyTask
  <2> QED BY <1>4, <2>1, <2>2, <2>3, <2>4, <2>5, RunsHighestStep DEF HighestInv
<1> QED BY <1>1, <1>2, <1>3, <1>4, UnlockSteps

\* krhino_start runs the first ready task.
LEMMA HighestInit == Init => HighestInv
BY DEF Init, HighestInv, RunsHighest, NoCall, KCall

-----------------------------------------------------------------------------
(* Mutexes and their owners.                                               *)

ownerVars == <<mutex_list, mutex_task, owner_nested>>

\* The steps that write the owner of a mutex
OwnerStep ==
    \/ \E m \in Mutexes : MutexCreate(m) \/ MutexUnlock(m) \/ MutexDel(m) \/ \E w \in Waits : MutexLock(m, w)
    \/ MutexHandOver \/ TaskMutexFree

\* The other steps write nothing about mutexes.
LEMMA OwnerSame ==
    ASSUME IInv, Next, ~OwnerStep
    PROVE  UNCHANGED ownerVars /\ \A m \in Mutexes : obj_type'[m] = obj_type[m]
<1>1. CASE SemNext
  <2>1. UNCHANGED ownerVars
    BY <1>1 DEF SemNext, SemCreate, SemGive, SemGiveAll, SemDel, SemTake, SemCountSet, semUnchanged, ownerVars
  <2>2. \A m \in Mutexes : m \notin Sems /\ m \in Objs
    BY TaskAssumption DEF Objs
  <2>3. obj_type \in [Objs -> BOOLEAN]
    BY DEF IInv, TypeOK
  <2>4. \A m \in Mutexes : obj_type'[m] = obj_type[m]
    BY <1>1, <2>2, <2>3 DEF SemNext, SemCreate, SemGive, SemGiveAll, SemDel, SemTake, SemCountSet
  <2> QED BY <2>1, <2>4
<1>2. CASE MutexNext
  BY <1>2 DEF MutexNext, OwnerStep
<1>3. CASE TaskNext
  BY <1>3 DEF TaskNext, TaskYield, TaskSleep, TaskSuspend, TaskResume, TaskDel, TaskCreate,
              TaskPriChange, TaskPriChangeCheck, objVars, ownerVars
<1>4. CASE SchedNext
  BY <1>4 DEF SchedNext, SchedDisable, SchedEnable, CoreSched, PendSV, IntrptEnter, IntrptExit,
              PendReturn, Tick, schedUnchanged, objVars, ownerVars
<1>5. CASE KernelStep
  BY <1>5 DEF KernelStep, PriChangeStep, MutexLockPend, SemGiveAllStep, DelStep, WakeAllLoop,
              TickStep, TaskDelState, ExitStep, semUnchanged, objVars, ownerVars, OwnerStep
<1> QED BY <1>1, <1>2, <1>3, <1>4, <1>5 DEF Next

\* Only krhino_mutex_unlock leaves a mutex between two owners.
LEMMA UnlockingSame ==
    ASSUME IInv, Next, ~MutexHandOver, \A m \in Mutexes : ~MutexUnlock(m), NEW x
    PROVE  (kcall'.pc = "unlock" /\ kcall'.obj = x) <=> Unlocking(x)
<1>1. CASE kcall.pc = "unlock"
  <2>1. PriChangeStep
    BY <1>1, InLoop DEF KernelStep, MutexLockPend, SemGiveAllStep, DelStep, WakeAllLoop, TickStep,
                        TaskMutexFree, TaskDelState, ExitStep
  <2> QED BY <2>1 DEF PriChangeStep, Unlocking
<1>2. CASE kcall.pc # "unlock"
  <2>1. NoCall.pc # "unlock" /\ \A pc, o, t, n : KCall(pc, o, t, n).pc = pc
    BY DEF NoCall, KCall
  <2>2. CASE KcallSet
    <3>1. kcall' = kcall \/ kcall'.pc # "unlock"
      <4>1. CASE \E s \in Sems : SemGiveAll(s) \/ SemDel(s)
        BY <2>1, <4>1, SMTT(60) DEF SemGiveAll, SemDel
      <4>2. CASE \E m \in Mutexes : MutexDel(m)
        BY <2>1, <4>2, SMTT(60) DEF MutexDel
      <4>3. CASE \E m \in Mutexes : \E w \in Waits : MutexLock(m, w)
        BY <2>1, <4>3, SMTT(60) DEF MutexLock
      <4>4. CASE TaskPriChange
        BY <2>1, <4>4, SMTT(60) DEF TaskPriChange
      <4>5. CASE Tick \/ TaskDelState \/ \E t \in Tasks : TaskDel(t)
        BY <2>1, <4>5, SMTT(60) DEF Tick, TaskDelState, TaskDel
      <4> QED BY <2>2, <4>1, <4>2, <4>3, <4>4, <4>5 DEF KcallSet
    <3> QED BY <1>2, <3>1 DEF Unlocking
  <2> QED BY <1>2, <2>1, <2>2, KcallSteps DEF KcallOther, Unlocking
<1> QED BY <1>1, <1>2

\* A step that does not touch the owner of a mutex m keeps it alive and away
\* from the waiters of m.
LEMMA OwnerKept ==
    ASSUME NatLeast, IInv, Next, ListPart', NEW m \in Mutexes, obj_type[m], mutex_task'[m] = mutex_task[m],
           mutex_task[m] # NONE
    PROVE  LET o == mutex_task[m] IN
           o # Idle /\ task_state'[o] \notin {"K_SEED", "K_DELETED"} /\ ~Contains(blk_list'[m], o)
<1>1. PICK o \in Tasks : o = mutex_task[m]
  BY DEF IInv, TypeOK
<1>2. Alive(o) /\ o # Idle /\ ~Contains(blk_list[m], o)
  BY <1>1 DEF IInv, OwnerInv
<1>3. TaskDelState => o # kcall.task
  <2> SUFFICES ASSUME TaskDelState, o = kcall.task PROVE FALSE
    OBVIOUS
  <2>1. mutex_list[o] = <<>> /\ ~Unlocking(m)
    BY DEF TaskDelState, Unlocking
  <2>2. Contains(mutex_list[o], m)
    BY <1>1, <2>1 DEF IInv, OwnerInv
  <2>3. mutex_list[o] \in Seq(Mutexes)
    BY DEF IInv, TypeOK
  <2> QED BY <2>1, <2>2, <2>3, NotEmpty
<1>4. Alive(o)'
  BY <1>2, <1>3, AliveStep
<1>5. ~Contains(blk_list'[m], o)
  <2> SUFFICES ASSUME Contains(blk_list'[m], o) PROVE FALSE
    OBVIOUS
  <2>1. m \in Objs /\ m \notin Sems
    BY TaskAssumption DEF Objs
  <2>2. o = g_active_task /\ Blocking(m)
    BY <1>2, <2>1, NewWaiter
  <2> QED BY <1>1, <2>1, <2>2 DEF Blocking, MutexLockPend, IInv, LoopInv
<1> QED BY <1>1, <1>2, <1>4, <1>5 DEF Alive

\* A mutex with waiters keeps an owner in a step that does not touch it.
LEMMA WaitersKept ==
    ASSUME NatLeast, IInv, Next, ListPart', NEW m \in Mutexes, obj_type[m], mutex_task'[m] = mutex_task[m], blk_list'[m] # <<>>
    PROVE  mutex_task'[m] # NONE
<1>1. m \in Objs /\ m \notin Sems
  BY TaskAssumption DEF Objs
<1>2. CASE blk_list[m] # <<>>
  BY <1>2 DEF IInv, OwnerInv
<1>3. CASE Blocking(m)
  BY <1>1, <1>3 DEF Blocking, MutexLockPend, IInv, LoopInv
<1> QED BY <1>1, <1>2, <1>3, OldWaiters

\* The part of OwnerInv about the mutex m
OwnerOf(m) ==
    /\ \A t \in Tasks : Contains(mutex_list[t], m) <=> obj_type[m] /\ mutex_task[m] = t /\ ~Unlocking(m)
    /\ obj_type[m] =>
        /\ blk_list[m] # <<>> => mutex_task[m] # NONE
        /\ mutex_task[m] # NONE =>
            /\ Alive(mutex_task[m]) /\ mutex_task[m] # Idle
            /\ ~Contains(blk_list[m], mutex_task[m])
            /\ owner_nested[m] > 0 \/ Unlocking(m)

\* OwnerInv, mutex by mutex
LEMMA OwnerInvOf ==
    OwnerInv <=> (\A t \in Tasks : NoDup(mutex_list[t])) /\ (\A m \in Mutexes : OwnerOf(m))
BY DEF OwnerInv, OwnerOf

\* A step that does not touch m
LEMMA OwnerOfSame ==
    ASSUME NatLeast, IInv, Next, ListPart', NEW m \in Mutexes, obj_type'[m] = obj_type[m], mutex_task'[m] = mutex_task[m],
           owner_nested'[m] = owner_nested[m],
           \A t \in Tasks : Contains(mutex_list'[t], m) <=> Contains(mutex_list[t], m),
           Unlocking(m)' <=> Unlocking(m)
    PROVE  OwnerOf(m)'
<1>1. OwnerOf(m)
  BY OwnerInvOf DEF IInv
<1>2. \A t \in Tasks : Contains(mutex_list'[t], m) <=> obj_type'[m] /\ mutex_task'[m] = t /\ ~Unlocking(m)'
  BY <1>1 DEF OwnerOf
<1>3. ASSUME obj_type[m], blk_list'[m] # <<>> PROVE mutex_task'[m] # NONE
  BY <1>3, WaitersKept
<1>4. ASSUME obj_type[m], mutex_task[m] # NONE
      PROVE  /\ mutex_task[m] # Idle /\ task_state'[mutex_task[m]] \notin {"K_SEED", "K_DELETED"}
             /\ ~Contains(blk_list'[m], mutex_task[m])
             /\ owner_nested'[m] > 0 \/ Unlocking(m)'
  <2>1. owner_nested'[m] > 0 \/ Unlocking(m)'
    BY <1>1, <1>4 DEF OwnerOf
  <2> QED BY <1>4, <2>1, OwnerKept
<1> QED BY <1>2, <1>3, <1>4 DEF OwnerOf, Alive

\* The lists of mutexes ml, linked from the tasks
MutexLinks(ml) == ml \in [Tasks -> Seq(Mutexes)] /\ \A t \in Tasks : NoDup(ml[t])

\* From ml to ml2, the mutex m is linked to t, unlinked from t, or the first
\* one of t is unlinked.
Linked(ml, ml2, t, m) == ml2 = [ml EXCEPT ![t] = <<m>> \o @]

Unlinked(ml, ml2, t, m) == ml2 = [ml EXCEPT ![t] = KlistRm(@, m)]

FirstUnlinked(ml, ml2, t) == ml2 = [ml EXCEPT ![t] = Tail(@)]

\* Linking a mutex that no task has linked adds it to the list of one task.
LEMMA MutexLink ==
    ASSUME NEW ml, MutexLinks(ml), NEW t \in Tasks, NEW m \in Mutexes, ~Contains(ml[t], m),
           NEW ml2, Linked(ml, ml2, t, m)
    PROVE  /\ MutexLinks(ml2)
           /\ \A u \in Tasks : \A x : Contains(ml2[u], x) <=> Contains(ml[u], x) \/ (u = t /\ x = m)
<1> DEFINE l == <<m>> \o ml[t]
<1>1. ml \in [Tasks -> Seq(Mutexes)] /\ ml[t] \in Seq(Mutexes) /\ NoDup(ml[t])
  BY DEF MutexLinks
<1>2. l \in Seq(Mutexes) /\ NoDup(l) /\ \A x : Contains(l, x) <=> Contains(ml[t], x) \/ x = m
  BY <1>1, ConsMembers
<1>3. ml2 = [ml EXCEPT ![t] = l]
  BY <1>1 DEF Linked, Unlinked, FirstUnlinked
<1> HIDE DEF l
<1>4. ml2 \in [Tasks -> Seq(Mutexes)] /\ ml2[t] = l /\ \A u \in Tasks \ {t} : ml2[u] = ml[u]
  BY <1>1, <1>2, <1>3
<1> QED BY <1>2, <1>4 DEF MutexLinks

\* Unlinking a mutex takes it from the list of one task.
LEMMA MutexUnlink ==
    ASSUME NatLeast, NEW ml, MutexLinks(ml), NEW t \in Tasks, NEW m,
           NEW ml2, Unlinked(ml, ml2, t, m)
    PROVE  /\ MutexLinks(ml2)
           /\ \A u \in Tasks : \A x : Contains(ml2[u], x) <=> Contains(ml[u], x) /\ ~(u = t /\ x = m)
<1> DEFINE l == KlistRm(ml[t], m)
<1>1. ml \in [Tasks -> Seq(Mutexes)] /\ ml[t] \in Seq(Mutexes) /\ NoDup(ml[t])
  BY DEF MutexLinks
<1>2. l \in Seq(Mutexes) /\ NoDup(l) /\ \A x : Contains(l, x) <=> Contains(ml[t], x) /\ x # m
  BY <1>1, KlistRmMembers
<1>3. ml2 = [ml EXCEPT ![t] = l]
  BY <1>1 DEF Linked, Unlinked, FirstUnlinked
<1> HIDE DEF l
<1>4. ml2 \in [Tasks -> Seq(Mutexes)] /\ ml2[t] = l /\ \A u \in Tasks \ {t} : ml2[u] = ml[u]
  BY <1>1, <1>2, <1>3
<1> QED BY <1>2, <1>4 DEF MutexLinks

\* So does unlinking the first mutex of a list.
LEMMA MutexUnlinkFirst ==
    ASSUME NEW ml, MutexLinks(ml), NEW t \in Tasks, ml[t] # <<>>, NEW m, m = Head(ml[t]),
           NEW ml2, FirstUnlinked(ml, ml2, t)
    PROVE  /\ MutexLinks(ml2) /\ m \in Mutexes
           /\ \A u \in Tasks : \A x : Contains(ml2[u], x) <=> Contains(ml[u], x) /\ ~(u = t /\ x = m)
<1> DEFINE l == Tail(ml[t])
<1>1. ml \in [Tasks -> Seq(Mutexes)] /\ ml[t] \in Seq(Mutexes) /\ NoDup(ml[t])
  BY DEF MutexLinks
<1>2. l \in Seq(Mutexes) /\ NoDup(l) /\ m \in Mutexes /\ \A x : Contains(l, x) <=> Contains(ml[t], x) /\ x # m
  BY <1>1, TailMembers
<1>3. ml2 = [ml EXCEPT ![t] = l]
  BY <1>1 DEF Linked, Unlinked, FirstUnlinked
<1> HIDE DEF l
<1>4. ml2 \in [Tasks -> Seq(Mutexes)] /\ ml2[t] = l /\ \A u \in Tasks \ {t} : ml2[u] = ml[u]
  BY <1>1, <1>2, <1>3
<1> QED BY <1>2, <1>4 DEF MutexLinks

OwnerTypes == /\ mutex_task \in [Mutexes -> Tasks \cup {NONE}]
              /\ owner_nested \in [Mutexes -> 0..NESTED_MAX]
              /\ obj_type \in [Objs -> BOOLEAN]

\* What OwnerInv and the types say before a step
LEMMA OwnerBefore ==
    ASSUME IInv
    PROVE  OwnerTypes /\ MutexLinks(mutex_list) /\ Mutexes \subseteq Objs
           /\ \A m \in Mutexes : OwnerOf(m)
BY OwnerInvOf DEF IInv, TypeOK, OwnerTypes, OwnerInv, MutexLinks, Objs

\* krhino_mutex_create
LEMMA CreateOwner ==
    ASSUME NatLeast, IInv, Next, ListPart', NEW m \in Mutexes, MutexCreate(m)
    PROVE  OwnerTypes' /\ MutexLinks(mutex_list') /\ OwnerInv'
<1>1. OwnerTypes /\ MutexLinks(mutex_list) /\ OwnerOf(m) /\ m \in Objs
  BY OwnerBefore
<1>2. /\ obj_type' = [obj_type EXCEPT ![m] = TRUE] /\ mutex_task' = [mutex_task EXCEPT ![m] = NONE]
      /\ UNCHANGED <<owner_nested, mutex_list, kcall, blk_list>> /\ ~obj_type[m] /\ kcall.pc = "none"
  BY Caller DEF MutexCreate, pendVars
<1>3. OwnerTypes'
  BY <1>1, <1>2 DEF OwnerTypes
<1>4. blk_list[m] = <<>>
  BY <1>1, <1>2 DEF IInv, ListInv
<1>5. OwnerOf(m)'
  BY <1>1, <1>2, <1>3, <1>4, TaskAssumption DEF OwnerOf, OwnerTypes
<1>6. ASSUME NEW x \in Mutexes \ {m} PROVE OwnerOf(x)'
  <2>1. /\ obj_type'[x] = obj_type[x] /\ mutex_task'[x] = mutex_task[x] /\ owner_nested'[x] = owner_nested[x]
        /\ mutex_list' = mutex_list /\ (Unlocking(x)' <=> Unlocking(x))
    BY <1>1, <1>2 DEF OwnerTypes, Objs, Unlocking
  <2> QED BY <2>1, OwnerOfSame
<1>7. \A t \in Tasks : NoDup(mutex_list'[t])
  BY <1>1, <1>2 DEF MutexLinks
<1>8. MutexLinks(mutex_list')
  BY <1>1, <1>2
<1> QED BY <1>3, <1>5, <1>6, <1>7, <1>8 DEF OwnerInv, OwnerOf

\* A step that touches the mutex m and no other one
LEMMA OwnerOnly ==
    ASSUME NatLeast, IInv, Next, ListPart', NEW m \in Mutexes, OwnerOf(m)', \A t \in Tasks : NoDup(mutex_list'[t]),
           \A x \in Mutexes \ {m} :
              /\ obj_type'[x] = obj_type[x] /\ mutex_task'[x] = mutex_task[x] /\ owner_nested'[x] = owner_nested[x]
              /\ \A t \in Tasks : Contains(mutex_list'[t], x) <=> Contains(mutex_list[t], x)
              /\ Unlocking(x)' <=> Unlocking(x)
    PROVE  OwnerInv'
<1>1. ASSUME NEW x \in Mutexes \ {m} PROVE OwnerOf(x)'
  BY <1>1, OwnerOfSame
<1> QED BY <1>1, SMTT(60) DEF OwnerInv, OwnerOf

\* krhino_mutex_lock: nesting, a free mutex, or the start of a wait
LEMMA LockOwner ==
    ASSUME NatLeast, IInv, Next, ListPart', NEW m \in Mutexes, NEW w \in Waits, MutexLock(m, w)
    PROVE  OwnerTypes' /\ MutexLinks(mutex_list') /\ OwnerInv'
<1>1. OwnerTypes /\ MutexLinks(mutex_list) /\ OwnerOf(m) /\ m \in Objs
  BY OwnerBefore
<1>2. PICK t \in Tasks : t = g_active_task
  BY DEF IInv, TypeOK
<1>3. /\ t # Idle /\ task_state[t] = "K_RDY" /\ kcall.pc = "none"
      /\ UNCHANGED <<task_state, blk_list, obj_type>> /\ obj_type[m]
  BY <1>2, Caller DEF MutexLock, pendVars
<1>4. ~Unlocking(m) /\ ~Unlocking(m)' /\ \A x : Unlocking(x)' <=> Unlocking(x)
  <2>1. KCall("lock", m, NONE, w).pc = "lock"
    BY DEF KCall
  <2> QED BY <1>3, <2>1 DEF MutexLock, Unlocking
<1>5. CASE owner_nested[m] < NESTED_MAX /\ mutex_task[m] = t
           /\ owner_nested' = [owner_nested EXCEPT ![m] = @ + 1] /\ UNCHANGED <<mutex_task, mutex_list>>
  <2>1. OwnerTypes'
    BY <1>1, <1>3, <1>5, BoundAssumption, SMTT(60) DEF OwnerTypes
  <2>2. /\ owner_nested'[m] = owner_nested[m] + 1 /\ owner_nested[m] \in Nat
        /\ \A x \in Mutexes \ {m} : owner_nested'[x] = owner_nested[x]
    BY <1>1, <1>5, BoundAssumption, SMTT(60) DEF OwnerTypes
  <2>3. OwnerOf(m)'
    BY <1>1, <1>3, <1>4, <1>5, <2>2, SMTT(60) DEF OwnerOf, Alive
  <2>4. MutexLinks(mutex_list')
    BY <1>1, <1>5
  <2> QED BY <1>3, <1>4, <1>5, <2>1, <2>2, <2>3, <2>4, OwnerOnly DEF MutexLinks
<1>6. CASE mutex_task[m] = NONE /\ GiveMutex(m, t)
  <2>1. OwnerTypes'
    BY <1>1, <1>3, <1>6, BoundAssumption, SMTT(60) DEF OwnerTypes, GiveMutex
  <2>2. /\ owner_nested'[m] = 1 /\ mutex_task'[m] = t
        /\ \A x \in Mutexes \ {m} : owner_nested'[x] = owner_nested[x] /\ mutex_task'[x] = mutex_task[x]
    BY <1>1, <1>6 DEF OwnerTypes, GiveMutex
  <2>3. \A u \in Tasks : ~Contains(mutex_list[u], m)
    BY <1>1, <1>6, TaskAssumption DEF OwnerOf
  <2>4. /\ MutexLinks(mutex_list')
        /\ \A u \in Tasks : \A x : Contains(mutex_list'[u], x) <=> Contains(mutex_list[u], x) \/ (u = t /\ x = m)
    <3>1. Linked(mutex_list, mutex_list', t, m)
      BY <1>6 DEF GiveMutex, Linked
    <3> QED BY <1>1, <2>3, <3>1, MutexLink, SMTT(60)
  <2>5. blk_list[m] = <<>> /\ ~Contains(<<>>, t)
    BY <1>1, <1>3, <1>6, SMTT(60) DEF OwnerOf, Contains
  <2>6. OwnerOf(m)'
    <3>1. \A u \in Tasks : Contains(mutex_list'[u], m) <=> obj_type'[m] /\ mutex_task'[m] = u /\ ~Unlocking(m)'
      BY <1>3, <1>4, <2>2, <2>3, <2>4
    <3>2. /\ blk_list'[m] # <<>> => mutex_task'[m] # NONE
          /\ task_state'[t] \notin {"K_SEED", "K_DELETED"} /\ t # Idle
          /\ ~Contains(blk_list'[m], t) /\ owner_nested'[m] > 0
      BY <1>3, <2>2, <2>5, SMTT(60)
    <3> QED BY <2>2, <3>1, <3>2 DEF OwnerOf, Alive
  <2>7. \A u \in Tasks : NoDup(mutex_list'[u])
    BY <2>4 DEF MutexLinks
  <2>8. \A x \in Mutexes \ {m} : \A u \in Tasks : Contains(mutex_list'[u], x) <=> Contains(mutex_list[u], x)
    BY <2>4
  <2> QED BY <1>3, <1>4, <2>1, <2>2, <2>4, <2>6, <2>7, <2>8, OwnerOnly
<1>7. CASE UNCHANGED <<mutex_task, mutex_list, owner_nested>>
  <2>1. OwnerTypes' /\ MutexLinks(mutex_list') /\ \A u \in Tasks : NoDup(mutex_list'[u])
    BY <1>1, <1>3, <1>7 DEF OwnerTypes, MutexLinks
  <2>2. OwnerOf(m)'
    BY <1>3, <1>4, <1>7, OwnerOfSame
  <2> QED BY <1>3, <1>4, <1>7, <2>1, <2>2, OwnerOnly
<1> QED BY <1>2, <1>5, <1>6, <1>7 DEF MutexLock

\* krhino_mutex_unlock: one level less, or the mutex leaves its owner's list
LEMMA UnlockOwner ==
    ASSUME NatLeast, IInv, Next, ListPart', NEW m \in Mutexes, MutexUnlock(m)
    PROVE  OwnerTypes' /\ MutexLinks(mutex_list') /\ OwnerInv'
<1>1. OwnerTypes /\ MutexLinks(mutex_list) /\ OwnerOf(m) /\ m \in Objs
  BY OwnerBefore
<1>2. PICK t \in Tasks : t = g_active_task
  BY DEF IInv, TypeOK
<1>3. /\ kcall.pc = "none" /\ mutex_task[m] = t /\ t # NONE
      /\ UNCHANGED <<task_state, blk_list, obj_type, mutex_task>> /\ obj_type[m]
      /\ owner_nested' = [owner_nested EXCEPT ![m] = @ - 1]
  BY <1>2, Caller, TaskAssumption DEF MutexUnlock, pendVars
<1>4. owner_nested[m] \in 1..NESTED_MAX
  BY <1>1, <1>3, BoundAssumption, SMTT(60) DEF OwnerOf, OwnerTypes, Unlocking
<1>5. OwnerTypes' /\ owner_nested'[m] = owner_nested[m] - 1
      /\ \A x \in Mutexes \ {m} : owner_nested'[x] = owner_nested[x]
  BY <1>1, <1>3, <1>4, BoundAssumption, SMTT(60) DEF OwnerTypes
<1>6. CASE owner_nested[m] > 1
  <2>1. UNCHANGED <<mutex_list, kcall>>
    BY <1>6 DEF MutexUnlock
  <2>2. MutexLinks(mutex_list') /\ \A u \in Tasks : NoDup(mutex_list'[u])
    BY <1>1, <2>1 DEF MutexLinks
  <2>3. \A x : Unlocking(x)' <=> Unlocking(x)
    BY <2>1 DEF Unlocking
  <2>4. owner_nested'[m] > 0
    BY <1>4, <1>5, <1>6, BoundAssumption, SMTT(60)
  <2>5. OwnerOf(m)'
    BY <1>1, <1>3, <2>1, <2>3, <2>4 DEF OwnerOf, Alive
  <2> QED BY <1>3, <1>5, <2>1, <2>2, <2>3, <2>5, OwnerOnly
<1>7. CASE ~(owner_nested[m] > 1)
  <2>1. /\ mutex_list' = [mutex_list EXCEPT ![t] = KlistRm(mutex_list[t], m)]
        /\ kcall' = KCall("unlock", m, NONE, 0)
    BY <1>2, <1>7 DEF MutexUnlock
  <2>2. Unlinked(mutex_list, mutex_list', t, m)
    BY <1>1, <2>1 DEF MutexLinks, Unlinked
  <2>3. /\ MutexLinks(mutex_list')
        /\ \A u \in Tasks : \A x : Contains(mutex_list'[u], x) <=> Contains(mutex_list[u], x) /\ ~(u = t /\ x = m)
    BY <1>1, <2>2, MutexUnlink
  <2>4. kcall'.pc = "unlock" /\ kcall'.obj = m
    BY <2>1 DEF KCall
  <2>5. \A x \in Mutexes \ {m} : Unlocking(x)' <=> Unlocking(x)
    BY <1>3, <2>4 DEF Unlocking
  <2>6. \A u \in Tasks : ~Contains(mutex_list'[u], m)
    BY <1>1, <1>3, <2>3 DEF OwnerOf
  <2>7. OwnerOf(m)'
    BY <1>1, <1>3, <2>4, <2>6 DEF OwnerOf, Alive, Unlocking
  <2>8. \A u \in Tasks : NoDup(mutex_list'[u])
    BY <2>3 DEF MutexLinks
  <2>9. \A x \in Mutexes \ {m} : \A u \in Tasks : Contains(mutex_list'[u], x) <=> Contains(mutex_list[u], x)
    BY <2>3
  <2> QED BY <1>3, <1>5, <2>3, <2>5, <2>7, <2>8, <2>9, OwnerOnly
<1> QED BY <1>6, <1>7

\* The end of krhino_mutex_unlock: no owner, or the first waiter
LEMMA HandOverOwner ==
    ASSUME NatLeast, IInv, Next, ListPart', MutexHandOver
    PROVE  OwnerTypes' /\ MutexLinks(mutex_list') /\ OwnerInv'
<1>1. PICK m \in Mutexes : m = kcall.obj
  BY DEF MutexHandOver, IInv, LoopInv
<1>2. OwnerTypes /\ MutexLinks(mutex_list) /\ OwnerOf(m) /\ m \in Objs
  BY OwnerBefore
<1>3. Unlocking(m) /\ UNCHANGED obj_type /\ obj_type[m]
  BY <1>1 DEF MutexHandOver, Unlocking, IInv, LoopInv
<1>4. \A x : ~Unlocking(x)' /\ (Unlocking(x) <=> x = m)
  <2>1. kcall' = NoCall /\ kcall.pc = "unlock"
    BY DEF MutexHandOver
  <2>2. NoCall.pc = "none"
    BY DEF NoCall, KCall
  <2> QED BY <1>1, <2>1, <2>2 DEF Unlocking
<1>5. \A u \in Tasks : ~Contains(mutex_list[u], m)
  BY <1>2, <1>3 DEF OwnerOf
<1>6. CASE blk_list[m] = <<>>
  <2>1. /\ mutex_task' = [mutex_task EXCEPT ![m] = NONE]
        /\ UNCHANGED <<blk_list, owner_nested, mutex_list>>
    BY <1>1, <1>6 DEF MutexHandOver, pendVars
  <2>2. OwnerTypes' /\ MutexLinks(mutex_list') /\ mutex_task'[m] = NONE
        /\ \A x \in Mutexes \ {m} : mutex_task'[x] = mutex_task[x]
    BY <1>2, <1>3, <2>1 DEF OwnerTypes
  <2>3. OwnerOf(m)'
    BY <1>5, <1>6, <2>1, <2>2, TaskAssumption DEF OwnerOf
  <2>4. \A u \in Tasks : NoDup(mutex_list'[u])
    BY <2>2 DEF MutexLinks
  <2> QED BY <1>3, <1>4, <2>1, <2>2, <2>3, <2>4, OwnerOnly
<1>7. CASE blk_list[m] # <<>>
  <2>1. ListPart /\ TaskPart
    BY Parts
  <2>2. PICK t \in Tasks : t = Head(blk_list[m]) /\ Pending(t) /\ blk_obj[t] = m
    BY <1>2, <1>7, <2>1, FirstWaiter
  <2>3. PendTaskWake(m, t, "BLK_FINISH") /\ GiveMutex(m, t)
    BY <1>1, <1>7, <2>2 DEF MutexHandOver
  <2>4. t # Idle /\ Alive(t)' /\ ~Contains(blk_list'[m], t)
    <3>1. Alive(t)
      BY <2>2 DEF Pending, Alive
    <3> QED BY <2>1, <2>2, <2>3, <3>1, PendTaskWakeEffect
  <2>5. OwnerTypes'
    BY <1>2, <1>3, <2>3, BoundAssumption, SMTT(60) DEF OwnerTypes, GiveMutex
  <2>6. /\ owner_nested'[m] = 1 /\ mutex_task'[m] = t
        /\ \A x \in Mutexes \ {m} : owner_nested'[x] = owner_nested[x] /\ mutex_task'[x] = mutex_task[x]
    BY <1>2, <2>3 DEF OwnerTypes, GiveMutex
  <2>7. /\ MutexLinks(mutex_list')
        /\ \A u \in Tasks : \A x : Contains(mutex_list'[u], x) <=> Contains(mutex_list[u], x) \/ (u = t /\ x = m)
    <3>1. Linked(mutex_list, mutex_list', t, m)
      BY <2>3 DEF GiveMutex, Linked
    <3> QED BY <1>2, <1>5, <3>1, MutexLink, SMTT(60)
  <2>8. OwnerOf(m)'
    <3>1. \A u \in Tasks : Contains(mutex_list'[u], m) <=> obj_type'[m] /\ mutex_task'[m] = u /\ ~Unlocking(m)'
      BY <1>3, <1>4, <1>5, <2>6, <2>7
    <3>2. t # NONE /\ owner_nested'[m] > 0
      BY <2>6, TaskAssumption, SMTT(60)
    <3> QED BY <2>4, <2>6, <3>1, <3>2 DEF OwnerOf, Alive
  <2>9. \A u \in Tasks : NoDup(mutex_list'[u])
    BY <2>7 DEF MutexLinks
  <2>10. \A x \in Mutexes \ {m} : \A u \in Tasks : Contains(mutex_list'[u], x) <=> Contains(mutex_list[u], x)
    BY <2>7
  <2> QED BY <1>3, <1>4, <2>5, <2>6, <2>7, <2>8, <2>9, <2>10, OwnerOnly
<1> QED BY <1>6, <1>7

\* krhino_mutex_del: the mutex leaves the list of its owner
LEMMA DelOwner ==
    ASSUME NatLeast, IInv, Next, ListPart', NEW m \in Mutexes, MutexDel(m)
    PROVE  OwnerTypes' /\ MutexLinks(mutex_list') /\ OwnerInv'
<1>1. OwnerTypes /\ MutexLinks(mutex_list) /\ OwnerOf(m) /\ m \in Objs
  BY OwnerBefore
<1>2. /\ kcall.pc = "none" /\ obj_type' = [obj_type EXCEPT ![m] = FALSE]
      /\ UNCHANGED <<owner_nested, mutex_task>> /\ obj_type[m]
      /\ kcall' = KCall("del", m, NONE, 0)
  BY Caller DEF MutexDel
<1>3. OwnerTypes' /\ ~obj_type'[m] /\ \A x \in Mutexes \ {m} : obj_type'[x] = obj_type[x]
  BY <1>1, <1>2 DEF OwnerTypes, Objs
<1>4. \A x : ~Unlocking(x) /\ ~Unlocking(x)'
  <2>1. KCall("del", m, NONE, 0).pc = "del"
    BY DEF KCall
  <2> QED BY <1>2, <2>1 DEF Unlocking
<1>5. /\ MutexLinks(mutex_list')
      /\ \A u \in Tasks : ~Contains(mutex_list'[u], m)
      /\ \A x \in Mutexes \ {m} : \A u \in Tasks : Contains(mutex_list'[u], x) <=> Contains(mutex_list[u], x)
  <2>1. CASE mutex_task[m] = NONE
    <3>1. UNCHANGED mutex_list
      BY <2>1 DEF MutexDel
    <3>2. \A u \in Tasks : ~Contains(mutex_list[u], m)
      BY <1>1, <2>1, TaskAssumption DEF OwnerOf
    <3> QED BY <1>1, <3>1, <3>2
  <2>2. CASE mutex_task[m] # NONE
    <3>1. PICK t \in Tasks : t = mutex_task[m]
      BY <1>1, <2>2 DEF OwnerTypes
    <3>2. mutex_list' = [mutex_list EXCEPT ![t] = KlistRm(mutex_list[t], m)]
      BY <2>2, <3>1 DEF MutexDel
    <3>3. Unlinked(mutex_list, mutex_list', t, m)
      BY <1>1, <3>2 DEF MutexLinks, Unlinked
    <3>4. /\ MutexLinks(mutex_list')
          /\ \A u \in Tasks : \A x : Contains(mutex_list'[u], x) <=> Contains(mutex_list[u], x) /\ ~(u = t /\ x = m)
      BY <1>1, <3>3, MutexUnlink
    <3>5. \A u \in Tasks : Contains(mutex_list[u], m) => u = t
      BY <1>1, <3>1 DEF OwnerOf
    <3> QED BY <3>4, <3>5
  <2> QED BY <2>1, <2>2
<1>6. OwnerOf(m)'
  BY <1>3, <1>5 DEF OwnerOf
<1>7. \A u \in Tasks : NoDup(mutex_list'[u])
  BY <1>5 DEF MutexLinks
<1> QED BY <1>2, <1>3, <1>4, <1>5, <1>6, <1>7, OwnerOnly

\* An iteration of task_mutex_free: the first mutex of the deleted task
LEMMA FreeOwner ==
    ASSUME NatLeast, IInv, Next, ListPart', TaskMutexFree
    PROVE  OwnerTypes' /\ MutexLinks(mutex_list') /\ OwnerInv'
<1>1. PICK t \in Tasks : t = kcall.task
  BY DEF TaskMutexFree, IInv, LoopInv
<1>2. PICK m \in Mutexes : m = Head(mutex_list[t]) /\ Contains(mutex_list[t], m)
  BY <1>1, FirstMutex DEF TaskMutexFree
<1>3. OwnerTypes /\ MutexLinks(mutex_list) /\ OwnerOf(m) /\ m \in Objs
  BY OwnerBefore
<1>4. UNCHANGED <<obj_type, owner_nested, kcall>> /\ kcall.pc = "task_del"
  BY DEF TaskMutexFree
<1>5. \A x : ~Unlocking(x) /\ ~Unlocking(x)'
  BY <1>4 DEF Unlocking
<1>6. obj_type[m] /\ mutex_task[m] = t /\ owner_nested[m] > 0 /\ ~Contains(blk_list[m], t)
      /\ \A u \in Tasks : Contains(mutex_list[u], m) => u = t
  BY <1>2, <1>3, <1>5, TaskAssumption DEF OwnerOf
<1> DEFINE ml1 == [mutex_list EXCEPT ![t] = Tail(@)]
<1>7. /\ MutexLinks(ml1) /\ \A u \in Tasks : ~Contains(ml1[u], m)
      /\ \A x \in Mutexes \ {m} : \A u \in Tasks : Contains(ml1[u], x) <=> Contains(mutex_list[u], x)
  <2>1. mutex_list[t] # <<>> /\ FirstUnlinked(mutex_list, ml1, t)
    BY <1>1 DEF TaskMutexFree, FirstUnlinked
  <2> HIDE DEF ml1
  <2>2. /\ MutexLinks(ml1)
        /\ \A u \in Tasks : \A x : Contains(ml1[u], x) <=> Contains(mutex_list[u], x) /\ ~(u = t /\ x = m)
    BY <1>2, <1>3, <2>1, MutexUnlinkFirst
  <2> QED BY <1>6, <2>2
<1>8. CASE blk_list[m] = <<>>
  <2>1. mutex_task' = [mutex_task EXCEPT ![m] = NONE] /\ mutex_list' = ml1 /\ UNCHANGED blk_list
    BY <1>1, <1>2, <1>8 DEF TaskMutexFree, pendVars
  <2> HIDE DEF ml1
  <2>2. OwnerTypes' /\ MutexLinks(mutex_list') /\ mutex_task'[m] = NONE
        /\ \A x \in Mutexes \ {m} : mutex_task'[x] = mutex_task[x]
    BY <1>3, <1>4, <1>7, <2>1 DEF OwnerTypes
  <2>3. OwnerOf(m)'
    BY <1>7, <1>8, <2>1, <2>2, TaskAssumption DEF OwnerOf
  <2>4. \A u \in Tasks : NoDup(mutex_list'[u])
    BY <2>2 DEF MutexLinks
  <2> QED BY <1>4, <1>5, <1>7, <2>1, <2>2, <2>3, <2>4, OwnerOnly
<1>9. CASE blk_list[m] # <<>>
  <2>1. ListPart /\ TaskPart
    BY Parts
  <2>2. PICK n \in Tasks : n = Head(blk_list[m]) /\ Pending(n) /\ blk_obj[n] = m /\ Contains(blk_list[m], n)
    BY <1>3, <1>9, <2>1, FirstWaiter
  <2>3. /\ PendTaskWake(m, n, "BLK_FINISH") /\ mutex_task' = [mutex_task EXCEPT ![m] = n]
        /\ mutex_list' = [mutex_list EXCEPT ![t] = Tail(@), ![n] = <<m>> \o @]
    BY <1>1, <1>2, <1>9, <2>2 DEF TaskMutexFree
  <2>4. n # Idle /\ Alive(n)' /\ ~Contains(blk_list'[m], n)
    <3>1. Alive(n)
      BY <2>2 DEF Pending, Alive
    <3> QED BY <2>1, <2>2, <2>3, <3>1, PendTaskWakeEffect
  <2>5. OwnerTypes' /\ mutex_task'[m] = n /\ \A x \in Mutexes \ {m} : mutex_task'[x] = mutex_task[x]
    BY <1>3, <1>4, <2>3 DEF OwnerTypes
  <2>6. Linked(ml1, mutex_list', n, m)
    <3>1. mutex_list \in [Tasks -> Seq(Mutexes)]
      BY <1>3 DEF MutexLinks
    <3>2. ml1 \in [Tasks -> Seq(Mutexes)]
      BY <1>7 DEF MutexLinks
    <3>3. CASE n = t
      BY <2>3, <3>1, <3>2, <3>3, SMTT(60) DEF Linked
    <3>4. CASE n # t
      BY <2>3, <3>1, <3>2, <3>4 DEF Linked
    <3> QED BY <3>3, <3>4
  <2> HIDE DEF ml1
  <2>7. /\ MutexLinks(mutex_list')
        /\ \A u \in Tasks : \A x : Contains(mutex_list'[u], x) <=> Contains(ml1[u], x) \/ (u = n /\ x = m)
    BY <1>7, <2>6, MutexLink, SMTT(60)
  <2>8. OwnerOf(m)'
    <3>1. \A u \in Tasks : Contains(mutex_list'[u], m) <=> obj_type'[m] /\ mutex_task'[m] = u /\ ~Unlocking(m)'
      BY <1>4, <1>5, <1>6, <1>7, <2>5, <2>7
    <3>2. n # NONE /\ owner_nested'[m] > 0
      BY <1>4, <1>6, TaskAssumption
    <3> QED BY <2>4, <2>5, <3>1, <3>2 DEF OwnerOf, Alive
  <2>9. \A u \in Tasks : NoDup(mutex_list'[u])
    BY <2>7 DEF MutexLinks
  <2>10. \A x \in Mutexes \ {m} : \A u \in Tasks : Contains(mutex_list'[u], x) <=> Contains(mutex_list[u], x)
    BY <1>7, <2>7
  <2> QED BY <1>4, <1>5, <2>5, <2>7, <2>8, <2>9, <2>10, OwnerOnly
<1> QED BY <1>8, <1>9

\* Every step preserves OwnerInv.
LEMMA OwnerInvStep ==
    ASSUME NatLeast, IInv, Next, ListPart'
    PROVE  OwnerTypes' /\ MutexLinks(mutex_list') /\ OwnerInv'
<1>1. CASE OwnerStep
  BY <1>1, CreateOwner, LockOwner, UnlockOwner, HandOverOwner, DelOwner, FreeOwner DEF OwnerStep
<1>2. CASE ~OwnerStep
  <2>1. UNCHANGED <<mutex_list, mutex_task, owner_nested>> /\ \A m \in Mutexes : obj_type'[m] = obj_type[m]
    BY <1>2, OwnerSame DEF ownerVars
  <2>2. OwnerTypes /\ MutexLinks(mutex_list)
    BY OwnerBefore
  <2>3. MutexLinks(mutex_list') /\ \A t \in Tasks : NoDup(mutex_list'[t])
    BY <2>1, <2>2 DEF MutexLinks
  <2>4. ASSUME NEW m \in Mutexes PROVE OwnerOf(m)'
    <3>1. Unlocking(m)' <=> Unlocking(m)
      BY <1>2, UnlockingSame DEF OwnerStep, Unlocking
    <3> QED BY <2>1, <3>1, OwnerOfSame
  <2>5. OwnerInv'
    BY <2>3, <2>4 DEF OwnerInv, OwnerOf
  <2>6. obj_type' \in [Objs -> BOOLEAN]
    <3>1. obj_type \in [Objs -> BOOLEAN]
      BY <2>2 DEF OwnerTypes
    <3>2. CASE SemNext
      BY <3>1, <3>2 DEF SemNext, SemCreate, SemGive, SemGiveAll, SemDel, SemTake, SemCountSet, Objs
    <3>3. CASE UNCHANGED obj_type
      BY <3>1, <3>3
    <3>4. SemNext \/ UNCHANGED obj_type
      <4>1. CASE MutexNext
        BY <1>2, <4>1 DEF MutexNext, OwnerStep
      <4>2. CASE TaskNext
        BY <4>2 DEF TaskNext, TaskYield, TaskSleep, TaskSuspend, TaskResume, TaskDel, TaskCreate,
                    TaskPriChange, TaskPriChangeCheck, objVars
      <4>3. CASE SchedNext
        BY <4>3 DEF SchedNext, SchedDisable, SchedEnable, CoreSched, PendSV, IntrptEnter, IntrptExit,
                    PendReturn, Tick, schedUnchanged, objVars
      <4>4. CASE KernelStep
        BY <1>2, <4>4 DEF KernelStep, PriChangeStep, MutexLockPend, SemGiveAllStep, DelStep, WakeAllLoop,
                    TickStep, TaskDelState, ExitStep, semUnchanged, objVars, OwnerStep
      <4> QED BY <4>1, <4>2, <4>3, <4>4 DEF Next
    <3> QED BY <3>2, <3>3, <3>4
  <2> QED BY <2>1, <2>2, <2>3, <2>5, <2>6 DEF OwnerTypes
<1> QED BY <1>1, <1>2

-----------------------------------------------------------------------------
(* The results of krhino_mutex_lock.                                        *)

\* The steps that block or wake a task or let it return from its call
CallSteps ==
    \/ WakeStep \/ TickStep \/ MutexLockPend \/ PendReturn \/ TaskDelState
    \/ \E s \in Sems : \E w \in Waits : SemTake(s, w)

\* The other steps leave blocking calls and their results alone.
LEMMA CallSame ==
    ASSUME Next, ~CallSteps
    PROVE  UNCHANGED <<call, blk_state>>
<1>1. CASE SemNext
  BY <1>1 DEF SemNext, SemCreate, SemGiveAll, SemDel, SemCountSet, pendVars, CallSteps, WakeStep
<1>2. CASE MutexNext
  BY <1>2 DEF MutexNext, MutexCreate, MutexUnlock, MutexDel, MutexLock, pendVars
<1>3. CASE TaskNext
  BY <1>3 DEF TaskNext, TaskYield, TaskPriChange, TaskSleep, TaskSuspend, TaskResume, TaskDel,
              TaskCreate, TaskPriChangeCheck, pendVars
<1>4. CASE SchedNext
  BY <1>4 DEF SchedNext, SchedDisable, SchedEnable, CoreSched, PendSV, IntrptEnter, IntrptExit, Tick,
              schedUnchanged, pendVars, CallSteps
<1>5. CASE KernelStep
  BY <1>5 DEF KernelStep, PriChangeStep, ExitStep, pendVars, CallSteps, WakeStep
<1> QED BY <1>1, <1>2, <1>3, <1>4, <1>5 DEF Next

\* They leave the waiters of every object alone, too.
LEMMA PendingSame ==
    ASSUME IInv, IInv', Next, ~CallSteps, NEW t \in Tasks
    PROVE  (Pending(t)' <=> Pending(t)) /\ (Pending(t) => blk_obj'[t] = blk_obj[t])
<1>1. CASE PriChangeStep
  BY <1>1 DEF PriChangeStep, Pending
<1>2. CASE ~PriChangeStep
  <2>1. blk_list' = blk_list
    BY <1>2, BlkSame DEF CallSteps
  <2>2. Pending(t) => blk_obj[t] \in Objs
    BY DEF IInv, ListInv
  <2>3. Pending(t)' => blk_obj'[t] \in Objs
    BY DEF IInv, ListInv
  <2> QED BY <2>1, <2>2, <2>3, BlkMember
<1> QED BY <1>1, <1>2

\* The result of the wait of t for m
Result(t, m) == call[t] = m /\ ~Pending(t) /\ obj_type[m] /\ ~Dying(t) =>
                    (blk_state[t] = "BLK_FINISH" <=> mutex_task[m] = t)

\* t waits for the object of its call
Waited(t) == Pending(t) => call[t] = blk_obj[t]

\* LockInv says that of every task, before and after a step.
LEMMA LockInvOf ==
    /\ LockInv <=> ("mutex_create" \notin Calls =>
           /\ \A t \in Tasks : Waited(t)
           /\ \A t \in Tasks : \A m \in Mutexes : Result(t, m)
           /\ kcall.pc = "unlock" => call[g_active_task] = NONE)
    /\ LockInv' <=> ("mutex_create" \notin Calls =>
           /\ \A t \in Tasks : Waited(t)'
           /\ \A t \in Tasks : \A m \in Mutexes : Result(t, m)'
           /\ kcall'.pc = "unlock" => call'[g_active_task'] = NONE)
BY DEF LockInv, Waited, Result

\* A task stays what it is to krhino_task_del until it is deleted.
LEMMA DyingStays ==
    ASSUME IInv, Next, ~TaskDelState, NEW t \in Tasks, Dying(t)
    PROVE  Dying(t)'
<1>1. KernelStep /\ kcall.pc = "task_del" /\ kcall.task = t
  BY InLoop DEF Dying
<1>2. kcall' = kcall
  BY <1>1 DEF KernelStep, PriChangeStep, MutexLockPend, MutexHandOver, SemGiveAllStep, DelStep, WakeAllLoop,
              TickStep, TaskMutexFree, ExitStep
<1> QED BY <1>1, <1>2 DEF Dying

\* A result stays when neither the call of the task nor the mutex changes.
LEMMA ResultSame ==
    ASSUME IInv, Next, NEW t \in Tasks, NEW m \in Mutexes, Result(t, m), ~TaskDelState,
           call'[t] = call[t], Pending(t)' <=> Pending(t), blk_state'[t] = blk_state[t],
           obj_type'[m] => obj_type[m], mutex_task'[m] = t <=> mutex_task[m] = t
    PROVE  Result(t, m)'
<1>1. ~Dying(t)' => ~Dying(t)
  BY DyingStays
<1> QED BY <1>1 DEF Result

\* A mutex is linked from its owner, which does not wait for it.
LEMMA OwnerIs ==
    ASSUME IInv, NEW t \in Tasks, NEW m \in Mutexes
    PROVE  /\ Contains(mutex_list[t], m) => mutex_task[m] = t
           /\ obj_type[m] /\ Contains(blk_list[m], t) => mutex_task[m] # t
<1>1. Contains(mutex_list[t], m) => mutex_task[m] = t
  BY DEF IInv, OwnerInv
<1>2. obj_type[m] /\ mutex_task[m] # NONE => ~Contains(blk_list[m], mutex_task[m])
  BY DEF IInv, OwnerInv
<1> QED BY <1>1, <1>2, TaskAssumption

\* What is known before a step
LEMMA LockBefore ==
    ASSUME "mutex_create" \notin Calls, IInv, LockInv
    PROVE  /\ \A t \in Tasks : Waited(t)
           /\ \A t \in Tasks : \A m \in Mutexes : Result(t, m)
           /\ kcall.pc = "unlock" => call[g_active_task] = NONE
           /\ call \in [Tasks -> Objs \cup {NONE}] /\ blk_state \in [Tasks -> BlkStates]
           /\ task_state \in [Tasks -> TaskStates] /\ blk_obj \in [Tasks -> Objs \cup {NONE}]
           /\ obj_type \in [Objs -> BOOLEAN] /\ mutex_task \in [Mutexes -> Tasks \cup {NONE}]
           /\ Mutexes \subseteq Objs /\ NONE \notin Mutexes /\ NONE \notin Tasks
           /\ \A m \in Mutexes : m \notin Sems
BY LockInvOf, TaskAssumption DEF IInv, TypeOK, Objs

\* A step that neither blocks nor wakes a task
LEMMA LockQuiet ==
    ASSUME "mutex_create" \notin Calls, IInv, IInv', LockInv, Next, ~CallSteps, NEW t \in Tasks
    PROVE  Waited(t)' /\ \A m \in Mutexes : Result(t, m)'
<1>1. UNCHANGED <<call, blk_state>> /\ (Pending(t)' <=> Pending(t)) /\ (Pending(t) => blk_obj'[t] = blk_obj[t])
  BY CallSame, PendingSame
<1>2. Waited(t)'
  BY <1>1, LockBefore DEF Waited
<1>3. ASSUME NEW m \in Mutexes PROVE Result(t, m)'
  <2>1. Result(t, m) /\ ~TaskDelState
    BY LockBefore DEF CallSteps
  <2>2. ASSUME obj_type'[m] => obj_type[m], mutex_task'[m] = t <=> mutex_task[m] = t PROVE Result(t, m)'
    BY <1>1, <2>1, <2>2, ResultSame
  <2>3. CASE ~OwnerStep
    BY <2>2, <2>3, OwnerSame DEF ownerVars
  <2>4. ASSUME NEW x \in Mutexes, MutexUnlock(x) PROVE Result(t, m)'
    BY <2>2, <2>4 DEF MutexUnlock
  <2>5. ASSUME NEW x \in Mutexes, MutexDel(x) PROVE Result(t, m)'
    BY <2>2, <2>5, LockBefore DEF MutexDel
  <2>6. ASSUME NEW x \in Mutexes, NEW w \in Waits, MutexLock(x, w) PROVE Result(t, m)'
    <3>1. CASE t = g_active_task
      <4>1. call[t] = NONE
        BY <2>6, <3>1 DEF MutexLock, TaskCall
      <4> QED BY <1>1, <4>1, LockBefore DEF Result
    <3>2. CASE t # g_active_task
      <4>1. obj_type' = obj_type
        BY <2>6 DEF MutexLock
      <4>2. mutex_task' = mutex_task \/ (mutex_task[x] = NONE /\ mutex_task' = [mutex_task EXCEPT ![x] = g_active_task])
        BY <2>6 DEF MutexLock, GiveMutex
      <4>3. mutex_task'[m] = t <=> mutex_task[m] = t
        BY <3>2, <4>2, LockBefore
      <4> QED BY <2>2, <4>1, <4>3
    <3> QED BY <3>1, <3>2
  <2>7. \A x \in Mutexes : ~MutexCreate(x)
    BY DEF MutexCreate, TaskCall
  <2> QED BY <2>3, <2>4, <2>5, <2>6, <2>7 DEF OwnerStep, CallSteps, WakeStep
<1> QED BY <1>2, <1>3

\* A task that blocks waits for the object of its call.
LEMMA LockBlocks ==
    ASSUME "mutex_create" \notin Calls, IInv, LockInv, Next, ~TaskDelState, NEW o, NEW a \in Tasks, NEW w, PendToBlkObj(o, a, w),
           UNCHANGED <<obj_type, mutex_task>>, NEW t \in Tasks
    PROVE  Waited(t)' /\ \A m \in Mutexes : Result(t, m)'
<1>1. /\ task_state' = [task_state EXCEPT ![a] = "K_PEND"] /\ call' = [call EXCEPT ![a] = o]
      /\ blk_obj' = [blk_obj EXCEPT ![a] = o] /\ blk_state' = blk_state
  BY DEF PendToBlkObj
<1>2. CASE t = a
  <2>1. task_state'[t] = "K_PEND" /\ call'[t] = o /\ blk_obj'[t] = o
    BY <1>1, <1>2, LockBefore
  <2> QED BY <2>1 DEF Waited, Result, Pending
<1>3. CASE t # a
  <2>1. task_state'[t] = task_state[t] /\ call'[t] = call[t] /\ blk_obj'[t] = blk_obj[t] /\ blk_state'[t] = blk_state[t]
    BY <1>1, <1>3, LockBefore
  <2>2. Waited(t)'
    BY <2>1, LockBefore DEF Waited, Pending
  <2>3. Pending(t)' <=> Pending(t)
    BY <2>1 DEF Pending
  <2> QED BY <2>1, <2>2, <2>3, LockBefore, ResultSame
<1> QED BY <1>2, <1>3

\* A task that is woken: the others keep their results if the mutexes they
\* waited for keep their owners.
LEMMA LockWakes ==
    ASSUME "mutex_create" \notin Calls, IInv, LockInv, Next, ~TaskDelState, NEW o, NEW u \in Tasks, NEW why \in BlkStates,
           Pending(u), o = blk_obj[u], PendTaskWake(o, u, why), obj_type' = obj_type,
           o \in Mutexes /\ obj_type[o] => (why = "BLK_FINISH" <=> mutex_task'[o] = u),
           NEW t \in Tasks,
           t # u => \A m \in Mutexes : Result(t, m)' \/ (mutex_task'[m] = t <=> mutex_task[m] = t)
    PROVE  Waited(t)' /\ \A m \in Mutexes : Result(t, m)'
<1>1. /\ task_state' \in {[task_state EXCEPT ![u] = "K_RDY"], [task_state EXCEPT ![u] = "K_SUSPENDED"]} /\ call' = call
      /\ blk_obj' = [blk_obj EXCEPT ![u] = NONE] /\ blk_state' = [blk_state EXCEPT ![u] = why]
  BY DEF PendTaskWake
<1>2. CASE t = u
  <2>1. task_state'[t] \in {"K_RDY", "K_SUSPENDED"} /\ call'[t] = o /\ blk_state'[t] = why
    BY <1>1, <1>2, LockBefore DEF Waited
  <2>2. ~Pending(t)'
    BY <2>1 DEF Pending
  <2> QED BY <1>2, <2>1, <2>2 DEF Waited, Result
<1>3. CASE t # u
  <2>1. task_state'[t] = task_state[t] /\ call'[t] = call[t] /\ blk_obj'[t] = blk_obj[t] /\ blk_state'[t] = blk_state[t]
    BY <1>1, <1>3, LockBefore
  <2>2. Waited(t)'
    BY <2>1, LockBefore DEF Waited, Pending
  <2>3. Pending(t)' <=> Pending(t)
    BY <2>1 DEF Pending
  <2> QED BY <1>3, <2>1, <2>2, <2>3, LockBefore, ResultSame
<1> QED BY <1>2, <1>3

\* Nobody is blocked or woken, and the mutexes t waited for keep their owners.
LEMMA LockNobody ==
    ASSUME "mutex_create" \notin Calls, IInv, LockInv, Next, ~TaskDelState, NEW t \in Tasks,
           UNCHANGED <<task_state, pendVars, obj_type>>,
           \A m \in Mutexes : Result(t, m)' \/ (mutex_task'[m] = t <=> mutex_task[m] = t)
    PROVE  Waited(t)' /\ \A m \in Mutexes : Result(t, m)'
<1>1. UNCHANGED <<call, blk_state, blk_obj>> /\ (Pending(t)' <=> Pending(t))
  BY DEF pendVars, Pending
<1>2. Waited(t)'
  BY <1>1, LockBefore DEF Waited
<1> QED BY <1>1, <1>2, LockBefore, ResultSame

\* Semaphores: a task that waited for one waits for no mutex.
LEMMA LockSems ==
    ASSUME "mutex_create" \notin Calls, IInv, IInv', LockInv, Next, NEW t \in Tasks,
           \/ SemGiveAllStep \/ DelStep
           \/ \E s \in Sems : SemGive(s) \/ \E w \in Waits : SemTake(s, w)
    PROVE  Waited(t)' /\ \A m \in Mutexes : Result(t, m)'
<1>0. ListPart /\ TaskPart
  BY Parts
<1>1. UNCHANGED <<obj_type, mutex_task>>
  BY DEF SemGiveAllStep, DelStep, WakeAllLoop, SemGive, SemTake, semUnchanged
<1>2. ~TaskDelState
  <2>1. CASE SemGiveAllStep \/ DelStep
    BY <2>1 DEF SemGiveAllStep, DelStep, WakeAllLoop, TaskDelState
  <2>2. CASE \E s \in Sems : SemGive(s) \/ \E w \in Waits : SemTake(s, w)
    BY <2>2, Caller, Handler DEF SemGive, SemTake, TaskDelState
  <2> QED BY <2>1, <2>2
<1>3. CASE UNCHANGED <<task_state, pendVars>>
  BY <1>1, <1>2, <1>3, LockNobody
<1>4. ASSUME NEW o \in Objs, NEW why \in BlkStates, blk_list[o] # <<>>, PendTaskWake(o, Head(blk_list[o]), why),
             o \in Sems \/ ~obj_type[o]
      PROVE  Waited(t)' /\ \A m \in Mutexes : Result(t, m)'
  <2>1. PICK u \in Tasks : u = Head(blk_list[o]) /\ Pending(u) /\ blk_obj[u] = o
    BY <1>0, <1>4, FirstWaiter
  <2>2. ~(o \in Mutexes /\ obj_type[o])
    BY <1>4, LockBefore
  <2> QED BY <1>1, <1>2, <1>4, <2>1, <2>2, LockWakes
<1>5. ASSUME NEW s \in Sems, NEW w \in Waits, SemTake(s, w), PendToBlkObj(s, g_active_task, w)
      PROVE  Waited(t)' /\ \A m \in Mutexes : Result(t, m)'
  <2>1. g_active_task \in Tasks
    BY DEF IInv, TypeOK
  <2> QED BY <1>1, <1>2, <1>5, <2>1, LockBlocks
<1>6. CASE \E s \in Sems : \E w \in Waits : SemTake(s, w)
  BY <1>3, <1>5, <1>6 DEF SemTake
<1>7. CASE \E s \in Sems : SemGive(s)
  <2>1. \A s \in Sems : s \in Objs
    BY DEF Objs
  <2> QED BY <1>3, <1>4, <1>7, <2>1 DEF SemGive, BlkStates
<1>8. CASE SemGiveAllStep
  <2>1. kcall.obj \in Sems /\ kcall.obj \in Objs
    BY <1>8 DEF SemGiveAllStep, WakeAllLoop, IInv, LoopInv, Objs
  <2> QED BY <1>3, <1>4, <1>8, <2>1 DEF SemGiveAllStep, WakeAllLoop, BlkStates
<1>9. CASE DelStep
  <2>1. kcall.obj \in Objs /\ ~obj_type[kcall.obj]
    BY <1>9 DEF DelStep, WakeAllLoop, IInv, LoopInv
  <2> QED BY <1>3, <1>4, <1>9, <2>1 DEF DelStep, WakeAllLoop, BlkStates
<1> QED BY <1>6, <1>7, <1>8, <1>9

\* The new owner of a mutex is the task whose wait for it ends, and the old
\* one waits for nothing or is being deleted.
LEMMA LockGives ==
    ASSUME "mutex_create" \notin Calls, IInv, IInv', LockInv, Next, NEW t \in Tasks, MutexHandOver \/ TaskMutexFree
    PROVE  Waited(t)' /\ \A m \in Mutexes : Result(t, m)'
<1>0. ListPart /\ TaskPart
  BY Parts
<1>1. PICK x \in Mutexes :
         /\ UNCHANGED obj_type
         /\ \/ /\ blk_list[x] = <<>> /\ mutex_task' = [mutex_task EXCEPT ![x] = NONE]
               /\ UNCHANGED <<task_state, pendVars>>
            \/ /\ blk_list[x] # <<>> /\ mutex_task' = [mutex_task EXCEPT ![x] = Head(blk_list[x])]
               /\ PendTaskWake(x, Head(blk_list[x]), "BLK_FINISH")
         /\ mutex_task[x] = t => call'[t] = NONE \/ Dying(t)'
  <2>1. CASE MutexHandOver
    <3>1. kcall.pc = "unlock" /\ kcall.obj \in Mutexes /\ mutex_task[kcall.obj] = g_active_task /\ call[g_active_task] = NONE
      BY <2>1, LockBefore DEF MutexHandOver, IInv, LoopInv
    <3>2. call' = call
      BY <2>1 DEF MutexHandOver, PendTaskWake, pendVars
    <3> QED BY <2>1, <3>1, <3>2 DEF MutexHandOver, GiveMutex
  <2>2. CASE TaskMutexFree
    <3>1. kcall.task \in Tasks /\ kcall.pc = "task_del" /\ mutex_list[kcall.task] # <<>> /\ kcall' = kcall
      BY <2>2 DEF TaskMutexFree, IInv, LoopInv
    <3>2. PICK x \in Mutexes : x = Head(mutex_list[kcall.task]) /\ Contains(mutex_list[kcall.task], x)
      BY <3>1, FirstMutex
    <3>3. mutex_task[x] = kcall.task
      BY <3>1, <3>2, OwnerIs
    <3>4. mutex_task[x] = t => Dying(t)'
      BY <3>1, <3>3 DEF Dying
    <3> QED BY <2>2, <3>2, <3>4 DEF TaskMutexFree
  <2> QED BY <2>1, <2>2
<1>2. ~TaskDelState
  BY DEF MutexHandOver, TaskMutexFree, TaskDelState
<1>3. mutex_task[x] = t => \A m \in Mutexes : Result(t, m)'
  BY <1>1, LockBefore DEF Result
<1>4. CASE blk_list[x] = <<>>
  <2>1. \A m \in Mutexes : mutex_task[x] # t => (mutex_task'[m] = t <=> mutex_task[m] = t)
    BY <1>1, <1>4, LockBefore
  <2> QED BY <1>1, <1>2, <1>3, <1>4, <2>1, LockNobody
<1>5. CASE blk_list[x] # <<>>
  <2>1. PICK u \in Tasks : u = Head(blk_list[x]) /\ Pending(u) /\ blk_obj[u] = x
    BY <1>0, <1>5, FirstWaiter, LockBefore
  <2>2. mutex_task' = [mutex_task EXCEPT ![x] = u] /\ PendTaskWake(x, u, "BLK_FINISH")
    BY <1>1, <1>5, <2>1
  <2>3. mutex_task'[x] = u
    BY <2>2, LockBefore
  <2>4. t # u => \A m \in Mutexes : mutex_task[x] # t => (mutex_task'[m] = t <=> mutex_task[m] = t)
    BY <2>2, LockBefore
  <2>5. t # u => \A m \in Mutexes : Result(t, m)' \/ (mutex_task'[m] = t <=> mutex_task[m] = t)
    BY <1>3, <2>4
  <2> QED BY <1>1, <1>2, <2>1, <2>2, <2>3, <2>5, LockWakes DEF BlkStates
<1> QED BY <1>4, <1>5

\* A task whose wait for a mutex times out does not own it.
LEMMA LockTick ==
    ASSUME "mutex_create" \notin Calls, IInv, IInv', LockInv, Next, NEW t \in Tasks, TickStep
    PROVE  Waited(t)' /\ \A m \in Mutexes : Result(t, m)'
<1>0. ListPart /\ TaskPart
  BY Parts
<1>1. UNCHANGED <<obj_type, mutex_task>> /\ ~TaskDelState
  BY DEF TickStep, objVars, TaskDelState
<1>2. CASE UNCHANGED <<task_state, pendVars>>
  BY <1>1, <1>2, LockNobody
<1>3. PICK u : u = Head(tick_list)
  OBVIOUS
<1>4. TickDue => u \in Tasks
  BY <1>0, <1>3, TailMembers DEF TickDue, ListPart, TickPart, TickList
<1>5. CASE TickDue /\ Pending(u) /\ PendTaskWake(blk_obj[u], u, "BLK_TIMEOUT")
  <2>1. PICK o \in Objs : o = blk_obj[u]
    BY <1>4, <1>5 DEF IInv, ListInv
  <2>2. Contains(blk_list[o], u)
    BY <1>4, <1>5, <2>1, BlkMember
  <2>3. o \in Mutexes /\ obj_type[o] => mutex_task[o] # u
    BY <1>4, <1>5, <2>2, OwnerIs
  <2> QED BY <1>1, <1>4, <1>5, <2>1, <2>3, LockWakes DEF BlkStates
<1>6. CASE TickDue /\ Sleeping(u) /\ UNCHANGED pendVars
  <2>1. UNCHANGED <<call, blk_state, blk_obj>>
    BY <1>6 DEF pendVars
  <2>2. Pending(t)' <=> Pending(t)
    <3>1. CASE t = u
      <4>1. task_state'[u] \in {"K_RDY", "K_SUSPENDED"}
        BY <1>3, <1>4, <1>6, LockBefore DEF TickStep, Pending, Sleeping
      <4> QED BY <1>6, <3>1, <4>1 DEF Pending, Sleeping
    <3>2. CASE t # u
      <4>1. task_state'[t] = task_state[t]
        BY <1>3, <1>4, <1>6, <3>2, LockBefore DEF TickStep, Pending, Sleeping
      <4> QED BY <4>1 DEF Pending
    <3> QED BY <3>1, <3>2
  <2>3. Waited(t)'
    BY <2>1, <2>2, LockBefore DEF Waited
  <2> QED BY <1>1, <2>1, <2>2, <2>3, LockBefore, ResultSame
<1> QED BY <1>2, <1>3, <1>5, <1>6 DEF TickStep

\* Every step preserves LockInv.
LEMMA LockStep ==
    ASSUME NatLeast, IInv, IInv', LockInv, [Next]_vars
    PROVE  LockInv'
<1>0. CASE UNCHANGED vars
  BY <1>0 DEF vars, pendVars, objVars, cpuVars, LockInv, Pending, Dying
<1> SUFFICES ASSUME Next, "mutex_create" \notin Calls
             PROVE  /\ \A t \in Tasks : Waited(t)' /\ \A m \in Mutexes : Result(t, m)'
                    /\ kcall'.pc = "unlock" => call'[g_active_task'] = NONE
  BY <1>0, LockInvOf
<1>1. ASSUME NEW t \in Tasks PROVE Waited(t)' /\ \A m \in Mutexes : Result(t, m)'
  <2>1. CASE ~CallSteps
    BY <2>1, LockQuiet
  <2>2. CASE SemGiveAllStep \/ DelStep \/ \E s \in Sems : SemGive(s) \/ \E w \in Waits : SemTake(s, w)
    BY <2>2, LockSems
  <2>3. CASE MutexHandOver \/ TaskMutexFree
    BY <2>3, LockGives
  <2>4. CASE TickStep
    BY <2>4, LockTick
  <2>5. CASE MutexLockPend
    <3>1. /\ PendToBlkObj(kcall.obj, g_active_task, kcall.ticks) /\ g_active_task \in Tasks
          /\ UNCHANGED <<obj_type, mutex_task>> /\ ~TaskDelState
      BY <2>5 DEF MutexLockPend, TaskDelState, IInv, TypeOK
    <3> QED BY <3>1, LockBlocks
  <2>6. CASE PendReturn
    <3>1. /\ call' = [call EXCEPT ![g_active_task] = NONE] /\ UNCHANGED <<task_state, blk_obj, obj_type, mutex_task, kcall>>
          /\ blk_state' = [blk_state EXCEPT ![g_active_task] = "BLK_FINISH"]
          /\ task_state[g_active_task] = "K_RDY" /\ g_active_task \in Tasks
      BY <2>6 DEF PendReturn, objVars, IInv, RunInv, TypeOK
    <3>2. CASE t = g_active_task
      <4>1. call'[t] = NONE /\ ~Pending(t)'
        BY <3>1, <3>2, LockBefore DEF Pending
      <4> QED BY <4>1, LockBefore DEF Waited, Result
    <3>3. CASE t # g_active_task
      <4>1. call'[t] = call[t] /\ blk_state'[t] = blk_state[t] /\ task_state'[t] = task_state[t]
        BY <3>1, <3>3, LockBefore
      <4> QED BY <3>1, <4>1, LockBefore DEF Waited, Result, Pending, Dying
    <3> QED BY <3>2, <3>3
  <2>7. CASE TaskDelState
    <3>1. PICK d \in Tasks : d = kcall.task /\ kcall.pc = "task_del"
      BY <2>7 DEF TaskDelState, IInv, LoopInv
    <3>2. /\ call' = [call EXCEPT ![d] = NONE] /\ UNCHANGED <<blk_obj, obj_type, mutex_task>>
          /\ blk_state' = [blk_state EXCEPT ![d] = "BLK_FINISH"] /\ task_state' = [task_state EXCEPT ![d] = "K_DELETED"]
      BY <2>7, <3>1 DEF TaskDelState, objVars
    <3>3. CASE t = d
      <4>1. call'[t] = NONE /\ ~Pending(t)'
        BY <3>2, <3>3, LockBefore DEF Pending
      <4> QED BY <4>1, LockBefore DEF Waited, Result
    <3>4. CASE t # d
      <4>1. call'[t] = call[t] /\ blk_state'[t] = blk_state[t] /\ task_state'[t] = task_state[t] /\ ~Dying(t)
        BY <3>1, <3>2, <3>4, LockBefore DEF Dying
      <4> QED BY <3>2, <4>1, LockBefore DEF Waited, Result, Pending
    <3> QED BY <3>3, <3>4
  <2> QED BY <2>1, <2>2, <2>3, <2>4, <2>5, <2>6, <2>7 DEF CallSteps, WakeStep
<1>2. ASSUME kcall'.pc = "unlock" PROVE call'[g_active_task'] = NONE
  <2>1. CASE \E m \in Mutexes : MutexUnlock(m)
    <3>1. call[g_active_task] = NONE /\ UNCHANGED <<call, g_active_task>>
      BY <2>1 DEF MutexUnlock, TaskCall, pendVars, mutexUnchanged, cpuVars
    <3> QED BY <3>1
  <2>2. CASE ~MutexHandOver /\ \A m \in Mutexes : ~MutexUnlock(m)
    <3>1. kcall.pc = "unlock"
      BY <1>2, <2>2, UnlockingSame DEF Unlocking
    <3>2. PriChangeStep
      BY <2>2, <3>1, InLoop DEF KernelStep, MutexLockPend, SemGiveAllStep, DelStep, WakeAllLoop,
              TickStep, TaskMutexFree, TaskDelState, ExitStep
    <3>3. UNCHANGED <<call, g_active_task>>
      BY <3>2 DEF PriChangeStep, mutexUnchanged, cpuVars
    <3> QED BY <3>1, <3>3, LockBefore
  <2>3. ~MutexHandOver
    <3>1. kcall' # NoCall
      BY <1>2, SMTT(60) DEF NoCall, KCall
    <3> QED BY <3>1 DEF MutexHandOver
  <2> QED BY <2>1, <2>2, <2>3
<1> QED BY <1>1, <1>2

\* Nobody waits for anything at first.
LEMMA LockInit == Init => LockInv
<1>1. NoCall.pc = "none"
  BY SMTT(60) DEF NoCall, KCall
<1>2. Init => \A t \in Tasks : ~Pending(t) /\ call[t] = NONE
  BY DEF Init, Pending
<1>3. Init => kcall.pc # "unlock"
  BY <1>1 DEF Init
<1>4. NONE \notin Mutexes
  BY TaskAssumption DEF Objs
<1> QED BY <1>2, <1>3, <1>4 DEF LockInv

-----------------------------------------------------------------------------
(* What the invariant says of owners outside the kernel.                    *)

\* Outside the kernel no mutex is between two owners.
LEMMA OwnersImplied ==
    ASSUME IInv
    PROVE  OwnersConsistent
<1>1. chg # NoChg => Alive(chg.task)
  BY DEF IInv, LoopInv
<1>2. ASSUME kcall.pc = "none", NEW m \in Mutexes, blk_list[m] # <<>> PROVE mutex_task[m] # NONE
  <2>1. obj_type[m]
    BY <1>2 DEF IInv, ListInv, Objs
  <2> QED BY <1>2, <2>1 DEF IInv, OwnerInv
<1>3. kcall.pc = "none" => \A m : ~Unlocking(m)
  BY DEF Unlocking
<1> QED BY <1>1, <1>2, <1>3 DEF IInv, OwnerInv, OwnersConsistent

-----------------------------------------------------------------------------
(* Deadlines.                                                               *)

\* The tick counter and tick_match wrap at TICK_MODULUS: a difference of two
\* of them is the distance the first is ahead of the second.
LEMMA Wrapped ==
    ASSUME NEW a \in Int
    PROVE  /\ a >= 0 /\ a < TICK_MODULUS => a % TICK_MODULUS = a
           /\ a < 0 /\ a + TICK_MODULUS >= 0 => a % TICK_MODULUS = a + TICK_MODULUS
           /\ a >= TICK_MODULUS /\ a - TICK_MODULUS < TICK_MODULUS => a % TICK_MODULUS = a - TICK_MODULUS
BY BoundAssumption, SMTT(60)

\* What remains of a wait, as a function of the task
Left == [u \in Tasks |-> Remaining(u)]

\* A sorted list whose entries are within the waits that were asked for
Kept(l, left) == SortedBy(l, left) /\ \A x \in Tasks : Contains(l, x) => \E n \in Timeouts : left[x] <= n

\* A list without an entry that is due
NoneDue(l, left) == \A x \in Tasks : Contains(l, x) => left[x] > 0

\* DeadlinesKept says that of the tick list.
LEMMA KeptIs ==
    ASSUME tick_list \in Seq(Tasks), tick_list' \in Seq(Tasks)
    PROVE  /\ DeadlinesKept <=> /\ Kept(tick_list, Left)
                                /\ kcall.pc # "tick" => NoneDue(tick_list, Left)
           /\ DeadlinesKept' <=> /\ Kept(tick_list', Left')
                                 /\ kcall'.pc # "tick" => NoneDue(tick_list', Left')
<1>1. ASSUME NEW l \in Seq(Tasks), NEW left, NEW tick \in BOOLEAN
      PROVE  /\ \A i, j \in 1..Len(l) : i < j => left[l[i]] <= left[l[j]]
             /\ \A i \in 1..Len(l) :
                  /\ \E n \in Timeouts : left[l[i]] <= n
                  /\ tick => left[l[i]] > 0
             <=> Kept(l, left) /\ (tick => NoneDue(l, left))
  <2>1. \A x : Contains(l, x) <=> \E i \in 1..Len(l) : l[i] = x
    BY DEF Contains
  <2>2. \A i \in 1..Len(l) : l[i] \in Tasks
    BY SMTT(60)
  <2> QED BY <2>1, <2>2 DEF Kept, NoneDue, SortedBy
<1>2. \A i \in 1..Len(tick_list) : Left[tick_list[i]] = Remaining(tick_list[i])
  <2>1. \A i \in 1..Len(tick_list) : tick_list[i] \in Tasks
    BY SMTT(60)
  <2> QED BY <2>1 DEF Left
<1>3. (\A i \in 1..Len(tick_list) : Left[tick_list[i]] = Remaining(tick_list[i]))'
  <2>1. \A i \in 1..Len(tick_list') : tick_list'[i] \in Tasks
    BY SMTT(60)
  <2> QED BY <2>1 DEF Left
<1>4. /\ \A i, j \in 1..Len(tick_list) : i < j => Left[tick_list[i]] <= Left[tick_list[j]]
      /\ \A i \in 1..Len(tick_list) :
           /\ \E n \in Timeouts : Left[tick_list[i]] <= n
           /\ kcall.pc # "tick" => Left[tick_list[i]] > 0
      <=> Kept(tick_list, Left) /\ (kcall.pc # "tick" => NoneDue(tick_list, Left))
  BY <1>1
<1>5. /\ \A i, j \in 1..Len(tick_list') : i < j => Left'[tick_list'[i]] <= Left'[tick_list'[j]]
      /\ \A i \in 1..Len(tick_list') :
           /\ \E n \in Timeouts : Left'[tick_list'[i]] <= n
           /\ kcall'.pc # "tick" => Left'[tick_list'[i]] > 0
      <=> Kept(tick_list', Left') /\ (kcall'.pc # "tick" => NoneDue(tick_list', Left'))
  BY <1>1
<1>6. DeadlinesKept <=> Kept(tick_list, Left) /\ (kcall.pc # "tick" => NoneDue(tick_list, Left))
  BY <1>2, <1>4 DEF DeadlinesKept
<1>7. DeadlinesKept' <=> Kept(tick_list', Left') /\ (kcall'.pc # "tick" => NoneDue(tick_list', Left'))
  BY <1>3, <1>5 DEF DeadlinesKept
<1> QED BY <1>6, <1>7

\* The types the arithmetic needs
TickTypes == /\ tick_list \in Seq(Tasks) /\ NoDup(tick_list)
             /\ g_tick_count \in 0..(TICK_MODULUS - 1)
             /\ tick_match \in [Tasks -> 0..(TICK_MODULUS - 1)]

\* What remains is less than the modulus.
LEMMA LeftRange ==
    ASSUME TickTypes, NEW u \in Tasks
    PROVE  /\ Left[u] = Remaining(u) /\ Remaining(u) \in 0..(TICK_MODULUS - 1)
           /\ Remaining(u) = IF tick_match[u] >= g_tick_count THEN tick_match[u] - g_tick_count
                             ELSE tick_match[u] - g_tick_count + TICK_MODULUS
<1>1. tick_match[u] \in 0..(TICK_MODULUS - 1)
  BY DEF TickTypes
<1>2. Remaining(u) = IF tick_match[u] >= g_tick_count THEN tick_match[u] - g_tick_count
                     ELSE tick_match[u] - g_tick_count + TICK_MODULUS
  BY <1>1, Wrapped, BoundAssumption, SMTT(60) DEF TickTypes, Remaining
<1>3. Remaining(u) \in 0..(TICK_MODULUS - 1)
  BY <1>1, <1>2, BoundAssumption, SMTT(60) DEF TickTypes
<1> QED BY <1>2, <1>3 DEF Left

\* tick_list_insert keeps the list sorted, and the new entry is due after
\* the wait that was asked for.
LEMMA InsertKept ==
    ASSUME NatLeast, TickTypes, tick_list' \in Seq(Tasks), DeadlinesKept, kcall.pc # "tick", NEW t \in Tasks, NEW time \in Timeouts,
           TickListInsert(t, time), ~Contains(tick_list, t), g_tick_count' = g_tick_count
    PROVE  DeadlinesKept'
<1> DEFINE left == [u \in Tasks |-> IF u = t THEN time ELSE Remaining(u)]
<1>1. Kept(tick_list, Left) /\ NoneDue(tick_list, Left)
  BY KeptIs DEF TickTypes
<1>2. time \in Nat /\ time > 0 /\ time < TICK_MODULUS
  BY ApplicationAssumption, BoundAssumption, SMTT(60)
<1>3. /\ \A x : Contains(tick_list', x) <=> Contains(tick_list, x) \/ x = t
      /\ SortedBy(tick_list, left) => SortedBy(tick_list', left)
  <2>1. g_tick_count \in Nat
    BY BoundAssumption, SMTT(60) DEF TickTypes
  <2> QED BY <2>1, <1>2, TickListInsertMembers DEF TickTypes
<1>4. Left' = left
  <2>1. ASSUME NEW u \in Tasks \ {t}
        PROVE  Remaining(u)' = left[u]
    <3>1. tick_match'[u] = tick_match[u]
      BY DEF TickListInsert, TickTypes
    <3> QED BY <3>1 DEF Remaining
  <2>2. Remaining(t)' = time
    <3>1. tick_match'[t] = (g_tick_count + time) % TICK_MODULUS
      BY DEF TickListInsert, TickTypes
    <3>2. tick_match'[t] = IF g_tick_count + time < TICK_MODULUS THEN g_tick_count + time
                           ELSE g_tick_count + time - TICK_MODULUS
      <4>1. PICK n \in Int : n = g_tick_count + time /\ n >= 0 /\ n - TICK_MODULUS < TICK_MODULUS
        BY <1>2, BoundAssumption, SMTT(60) DEF TickTypes
      <4>2. /\ n < TICK_MODULUS => n % TICK_MODULUS = n
            /\ n >= TICK_MODULUS => n % TICK_MODULUS = n - TICK_MODULUS
        BY <4>1, Wrapped
      <4>3. n < TICK_MODULUS \/ n >= TICK_MODULUS
        BY BoundAssumption, SMTT(60)
      <4>4. tick_match'[t] = n % TICK_MODULUS
        BY <3>1, <4>1
      <4>5. tick_match'[t] = IF n < TICK_MODULUS THEN n ELSE n - TICK_MODULUS
        BY <4>2, <4>3, <4>4
      <4> QED BY <1>2, <4>1, <4>5, BoundAssumption, SMTT(60) DEF TickTypes
    <3>3. (tick_match'[t] - g_tick_count) % TICK_MODULUS = time
      <4> DEFINE d == tick_match'[t] - g_tick_count
      <4>1. d \in Int /\ (d = time \/ d = time - TICK_MODULUS)
        BY <1>2, <3>2, BoundAssumption, SMTT(60) DEF TickTypes
      <4>2. d % TICK_MODULUS = time
        <5> HIDE DEF d
        <5>1. CASE d = time
          BY <1>2, <4>1, <5>1, Wrapped, SMTT(60)
        <5>2. CASE d = time - TICK_MODULUS
          <6>1. d < 0 /\ d + TICK_MODULUS >= 0 /\ d + TICK_MODULUS = time
            BY <1>2, <5>2, BoundAssumption, SMTT(60)
          <6> QED BY <4>1, <6>1, Wrapped
        <5> QED BY <4>1, <5>1, <5>2
      <4> QED BY <4>2
    <3> QED BY <3>3 DEF Remaining
  <2>3. \A u \in Tasks : Remaining(u)' = left[u]
    BY <2>1, <2>2
  <2> QED BY <2>3 DEF Left
<1>5. SortedBy(tick_list, left)
  <2>1. ASSUME NEW x, Contains(tick_list, x)
        PROVE  left[x] = Left[x]
    <3>1. x \in Tasks /\ x # t
      BY <2>1, NotEmpty DEF TickTypes
    <3> QED BY <3>1 DEF Left
  <2>2. \A i \in 1..Len(tick_list) : left[tick_list[i]] = Left[tick_list[i]]
    BY <2>1 DEF Contains
  <2> HIDE DEF left
  <2> QED BY <1>1, <2>2 DEF Kept, SortedBy
<1>6. ASSUME NEW x \in Tasks, Contains(tick_list', x)
      PROVE  (\E n \in Timeouts : left[x] <= n) /\ left[x] > 0
  <2>1. CASE x = t
    BY <1>2, <2>1, SMTT(60)
  <2>2. CASE x # t
    <3>1. Contains(tick_list, x) /\ left[x] = Left[x]
      BY <1>3, <1>6, <2>2 DEF Left
    <3> QED BY <1>1, <3>1 DEF Kept, NoneDue
  <2> QED BY <2>1, <2>2
<1>7. Kept(tick_list', Left') /\ NoneDue(tick_list', Left')
  BY <1>3, <1>4, <1>5, <1>6 DEF Kept, NoneDue
<1> QED BY <1>7, KeptIs DEF TickTypes

\* An entry leaves the list.
LEMMA RemoveKept ==
    ASSUME NatLeast, TickTypes, tick_list' \in Seq(Tasks), DeadlinesKept, NEW t \in Tasks, TickListRm(t),
           g_tick_count' = g_tick_count, kcall.pc # "tick" \/ kcall'.pc = "tick"
    PROVE  DeadlinesKept'
<1>1. /\ \A x : Contains(tick_list', x) <=> Contains(tick_list, x) /\ x # t
      /\ SortedBy(tick_list, Left) => SortedBy(tick_list', Left)
  BY KlistRmMembers DEF TickTypes, TickListRm
<1>2. ASSUME NEW u \in Tasks, u # t
      PROVE  Left'[u] = Left[u]
  <2>1. tick_match'[u] = tick_match[u]
    BY <1>2 DEF TickListRm, TickTypes
  <2> QED BY <2>1 DEF Left, Remaining
<1>3. ASSUME NEW x, Contains(tick_list', x)
      PROVE  Left'[x] = Left[x] /\ Contains(tick_list, x)
  <2>1. x \in Tasks /\ x # t /\ Contains(tick_list, x)
    BY <1>1, <1>3, NotEmpty
  <2> QED BY <1>2, <2>1
<1>4. \A i \in 1..Len(tick_list') : Left'[tick_list'[i]] = Left[tick_list'[i]]
  BY <1>3 DEF Contains
<1>5. Kept(tick_list, Left) /\ (kcall.pc # "tick" => NoneDue(tick_list, Left))
  BY KeptIs DEF TickTypes
<1>6. SortedBy(tick_list', Left')
  BY <1>1, <1>4, <1>5 DEF Kept, SortedBy
<1>7. Kept(tick_list', Left') /\ (kcall'.pc # "tick" => NoneDue(tick_list', Left'))
  BY <1>3, <1>5, <1>6 DEF Kept, NoneDue
<1> QED BY <1>7, KeptIs DEF TickTypes

\* A tick takes one from what remains of every wait, and nobody was due before.
LEMMA TickKept ==
    ASSUME TickTypes, TickTypes', DeadlinesKept, Tick
    PROVE  DeadlinesKept'
<1>1. /\ kcall.pc # "tick" /\ kcall'.pc = "tick" /\ UNCHANGED <<tick_list, tick_match>>
      /\ g_tick_count' = (g_tick_count + 1) % TICK_MODULUS
  <2>1. kcall.pc = "none" /\ kcall' = KCall("tick", NONE, NONE, 0)
    BY DEF Tick, IsrCall
  <2>2. kcall'.pc = "tick"
    BY <2>1 DEF KCall
  <2> QED BY <2>1, <2>2 DEF Tick, tickVars
<1>2. Kept(tick_list, Left) /\ NoneDue(tick_list, Left)
  BY <1>1, KeptIs DEF TickTypes
<1>3. g_tick_count' = IF g_tick_count + 1 < TICK_MODULUS THEN g_tick_count + 1 ELSE 0
  BY <1>1, Wrapped, BoundAssumption, SMTT(60) DEF TickTypes
<1>4. ASSUME NEW u \in Tasks, Contains(tick_list, u)
      PROVE  Left[u] \in Int /\ Left'[u] = Left[u] - 1
  <2>1. Left[u] > 0 /\ Left[u] = Remaining(u) /\ Left'[u] = Remaining(u)'
    BY <1>2, <1>4 DEF NoneDue, Left
  <2>2. Remaining(u) = IF tick_match[u] >= g_tick_count THEN tick_match[u] - g_tick_count
                       ELSE tick_match[u] - g_tick_count + TICK_MODULUS
    BY LeftRange
  <2>3. tick_match[u] \in 0..(TICK_MODULUS - 1) /\ tick_match'[u] = tick_match[u]
    BY <1>1 DEF TickTypes
  <2>4. PICK d \in Int : d = tick_match[u] - g_tick_count'
    BY <2>3, BoundAssumption, SMTT(60) DEF TickTypes
  <2>5. Remaining(u)' = d % TICK_MODULUS
    BY <2>3, <2>4 DEF Remaining
  <2>6. d % TICK_MODULUS = IF d >= 0 THEN d ELSE d + TICK_MODULUS
    BY <2>3, <2>4, Wrapped, BoundAssumption, SMTT(60) DEF TickTypes
  <2>7. g_tick_count \in 0..(TICK_MODULUS - 1) /\ TICK_MODULUS \in Nat /\ TICK_MODULUS > 1
    BY BoundAssumption DEF TickTypes
  <2>8. PICK r \in Int : r = Remaining(u)
    BY <2>2, <2>3, <2>7, SMTT(60)
  <2>9. r > 0 /\ r = IF tick_match[u] >= g_tick_count THEN tick_match[u] - g_tick_count
                     ELSE tick_match[u] - g_tick_count + TICK_MODULUS
    BY <2>1, <2>2, <2>8
  <2>10. (IF d >= 0 THEN d ELSE d + TICK_MODULUS) = r - 1
    BY <1>3, <2>3, <2>4, <2>7, <2>9, SMTT(60)
  <2> QED BY <2>1, <2>5, <2>6, <2>8, <2>10
<1>5. \A i \in 1..Len(tick_list) : Contains(tick_list, tick_list[i]) /\ tick_list[i] \in Tasks
  <2>1. \A i \in 1..Len(tick_list) : tick_list[i] \in Tasks
    BY SMTT(60) DEF TickTypes
  <2> QED BY <2>1 DEF Contains
<1>6. SortedBy(tick_list', Left')
  <2>1. SUFFICES ASSUME NEW i \in 1..Len(tick_list), NEW j \in 1..Len(tick_list), i < j
                 PROVE  Left'[tick_list[i]] <= Left'[tick_list[j]]
    BY <1>1 DEF SortedBy
  <2>2. Left[tick_list[i]] <= Left[tick_list[j]]
    BY <1>2, <2>1 DEF Kept, SortedBy
  <2>3. /\ Left[tick_list[i]] \in Int /\ Left'[tick_list[i]] = Left[tick_list[i]] - 1
        /\ Left[tick_list[j]] \in Int /\ Left'[tick_list[j]] = Left[tick_list[j]] - 1
    BY <1>4, <1>5
  <2> QED BY <2>2, <2>3, SMTT(60)
<1>7. ASSUME NEW x \in Tasks, Contains(tick_list', x)
      PROVE  \E n \in Timeouts : Left'[x] <= n
  <2>1. Contains(tick_list, x)
    BY <1>1, <1>7
  <2>2. PICK n \in Timeouts : Left[x] <= n
    BY <1>2, <2>1 DEF Kept
  <2>3. n \in Int
    BY ApplicationAssumption, BoundAssumption, SMTT(60)
  <2>4. Left'[x] <= n
    BY <1>4, <2>1, <2>2, <2>3, SMTT(60)
  <2> QED BY <2>4
<1> QED BY <1>1, <1>6, <1>7, KeptIs DEF Kept, TickTypes

\* tick_list_update ends when the first entry is not due: then none is.
LEMMA EndKept ==
    ASSUME TickTypes, tick_list' \in Seq(Tasks), DeadlinesKept, ~TickDue, UNCHANGED <<tick_list, tick_match, g_tick_count>>
    PROVE  DeadlinesKept'
<1>1. Kept(tick_list, Left)
  BY KeptIs DEF TickTypes
<1>2. Left' = Left
  BY DEF Left, Remaining
<1>3. ASSUME NEW x \in Tasks, Contains(tick_list, x)
      PROVE  Left[x] > 0
  <2>1. PICK i \in 1..Len(tick_list) : tick_list[i] = x
    BY <1>3 DEF Contains
  <2>2. tick_list # <<>> /\ Head(tick_list) = tick_list[1] /\ 1 \in 1..Len(tick_list) /\ tick_list[1] \in Tasks
    BY <2>1, SMTT(60) DEF TickTypes
  <2>3. PICK h \in Tasks : h = tick_list[1] /\ tick_match[h] # g_tick_count
    BY <2>2 DEF TickDue
  <2>4. Left[h] \in Int /\ Left[h] > 0
    <3>1. /\ Left[h] = Remaining(h)
          /\ Remaining(h) = IF tick_match[h] >= g_tick_count THEN tick_match[h] - g_tick_count
                            ELSE tick_match[h] - g_tick_count + TICK_MODULUS
      BY LeftRange
    <3>2. tick_match[h] \in 0..(TICK_MODULUS - 1)
      BY DEF TickTypes
    <3> QED BY <2>3, <3>1, <3>2, BoundAssumption, SMTT(60) DEF TickTypes
  <2>5. CASE i = 1
    BY <2>1, <2>3, <2>4, <2>5
  <2>6. CASE i # 1
    <3>1. 1 < i
      BY <2>1, <2>6, SMTT(60)
    <3>2. Left[h] <= Left[x]
      BY <1>1, <2>1, <2>2, <2>3, <3>1 DEF Kept, SortedBy
    <3>3. Left[x] \in Int
      <4>1. Left[x] \in 0..(TICK_MODULUS - 1)
        BY LeftRange
      <4> QED BY <4>1, SMTT(60)
    <3> QED BY <2>4, <3>2, <3>3, SMTT(60)
  <2> QED BY <2>5, <2>6
<1>4. Kept(tick_list', Left') /\ NoneDue(tick_list', Left')
  BY <1>1, <1>2, <1>3 DEF NoneDue
<1> QED BY <1>4, KeptIs DEF TickTypes

-----------------------------------------------------------------------------
(* The steps that write the tick list.                                      *)

\* A step that lets time stand still and leaves the tick list alone
TickQuiet == UNCHANGED <<tick_list, tick_match, g_tick_count>> /\ (kcall.pc # "tick" \/ kcall'.pc = "tick")

Inserts == \E t \in Tasks, time \in Timeouts :
    /\ TickListInsert(t, time) /\ g_tick_count' = g_tick_count
    /\ task_state[t] = "K_RDY" /\ kcall.pc # "tick"

Removes == \E t \in Tasks :
    TickListRm(t) /\ g_tick_count' = g_tick_count /\ (kcall.pc # "tick" \/ kcall'.pc = "tick")

\* Every step does one of these.
LEMMA TickSteps ==
    ASSUME IInv, DeadlineInv, Next
    PROVE  \/ TickQuiet \/ Inserts \/ Removes \/ Tick
           \/ ~TickDue /\ UNCHANGED <<tick_list, tick_match, g_tick_count>>
<1>0. ListPart /\ TaskPart
  BY Parts
<1>1. ASSUME NEW o, NEW t \in Tasks, NEW w \in Waits, PendToBlkObj(o, t, w), g_tick_count' = g_tick_count,
             task_state[t] = "K_RDY", kcall.pc # "tick"
      PROVE  TickQuiet \/ Inserts
  BY <1>1 DEF PendToBlkObj, TickQuiet, Inserts, Waits, tickVars
<1>2. CASE SemNext
  <2>1. ASSUME NEW s \in Sems, NEW w \in Waits, SemTake(s, w) PROVE TickQuiet \/ Inserts
    <3>1. /\ g_active_task \in Tasks /\ task_state[g_active_task] = "K_RDY" /\ kcall.pc = "none"
          /\ g_tick_count' = g_tick_count
      BY <2>1, Caller DEF SemTake, semUnchanged
    <3>2. CASE PendToBlkObj(s, g_active_task, w)
      BY <1>1, <3>1, <3>2
    <3>3. CASE UNCHANGED tickVars
      BY <3>1, <3>3 DEF TickQuiet, tickVars
    <3> QED BY <2>1, <3>2, <3>3 DEF SemTake
  <2>2. ASSUME NEW s \in Sems, SemGive(s) PROVE TickQuiet \/ Removes
    <3>1. kcall.pc = "none" /\ g_tick_count' = g_tick_count
      BY <2>2, Caller, Handler DEF SemGive, semUnchanged
    <3>2. CASE UNCHANGED tickVars
      BY <3>1, <3>2 DEF TickQuiet, tickVars
    <3>3. CASE blk_list[s] # <<>> /\ PendTaskWake(s, Head(blk_list[s]), "BLK_FINISH")
      <4>1. Head(blk_list[s]) \in Tasks
        BY <1>0, <3>3, FirstWaiter DEF Objs
      <4> QED BY <3>1, <3>3, <4>1 DEF PendTaskWake, Removes
    <3> QED BY <2>2, <3>2, <3>3 DEF SemGive
  <2>3. ASSUME NEW s \in Sems,
               SemCreate(s) \/ SemGiveAll(s) \/ SemDel(s) \/ \E n \in 0..SEM_MAX : SemCountSet(s, n)
        PROVE  TickQuiet
    <3>1. kcall.pc = "none"
      BY <2>3, Caller, Handler DEF SemCreate, SemGiveAll, SemDel, SemCountSet
    <3> QED BY <2>3, <3>1 DEF TickQuiet, tickVars, SemCreate, SemGiveAll, SemDel, SemCountSet, semUnchanged
  <2> QED BY <1>2, <2>1, <2>2, <2>3 DEF SemNext
<1>3. CASE MutexNext
  <2>1. kcall.pc = "none"
    BY <1>3, Caller DEF MutexNext, MutexCreate, MutexUnlock, MutexDel, MutexLock
  <2>2. UNCHANGED tickVars /\ g_tick_count' = g_tick_count
    BY <1>3 DEF MutexNext, MutexCreate, MutexUnlock, MutexDel, MutexLock, mutexUnchanged
  <2> QED BY <2>1, <2>2 DEF TickQuiet, tickVars
<1>4. CASE TaskNext
  <2>1. ASSUME NEW n \in Timeouts, TaskSleep(n) PROVE Inserts
    <3>1. g_active_task \in Tasks /\ task_state[g_active_task] = "K_RDY" /\ kcall.pc = "none"
      BY <2>1, Caller DEF TaskSleep
    <3> QED BY <2>1, <3>1 DEF TaskSleep, Inserts
  <2>2. ASSUME TaskNext, \A n \in Timeouts : ~TaskSleep(n) PROVE TickQuiet
    <3>1. kcall.pc = "none"
      BY <2>2, Caller, Handler DEF TaskNext, TaskYield, TaskPriChange, TaskSuspend, TaskResume, TaskDel,
            TaskCreate, TaskPriChangeCheck, InTask
    <3>2. UNCHANGED tickVars /\ g_tick_count' = g_tick_count
      BY <2>2 DEF TaskNext, TaskYield, TaskPriChange, TaskSuspend, TaskResume, TaskDel,
            TaskCreate, TaskPriChangeCheck
    <3> QED BY <3>1, <3>2 DEF TickQuiet, tickVars
  <2> QED BY <1>4, <2>1, <2>2
<1>5. CASE SchedNext /\ ~Tick
  BY <1>5 DEF SchedNext, SchedDisable, SchedEnable, CoreSched, PendSV, IntrptEnter, IntrptExit, PendReturn,
         schedUnchanged, TickQuiet, tickVars
<1>6. CASE MutexLockPend
  <2>1. /\ g_active_task \in Tasks /\ task_state[g_active_task] = "K_RDY" /\ kcall.pc # "tick"
        /\ g_tick_count' = g_tick_count /\ kcall.ticks \in Waits
    BY <1>6 DEF MutexLockPend, mutexUnchanged, IInv, LoopInv, TypeOK, DeadlineInv
  <2> QED BY <1>1, <1>6, <2>1 DEF MutexLockPend
<1>7. CASE KernelStep /\ ~MutexLockPend /\ ~TickStep /\ ~TaskDelState
  <2>1. UNCHANGED tickVars \/ \E t \in Tasks : TickListRm(t)
    <3>1. CASE WakeStep
      BY <3>1, WakeSteps DEF Waking, PendTaskWake
    <3>2. CASE PriChangeStep \/ ExitStep
      BY <3>2 DEF PriChangeStep, ExitStep
    <3> QED BY <1>7, <3>1, <3>2 DEF KernelStep, WakeStep
  <2>2. g_tick_count' = g_tick_count
    BY <1>7 DEF KernelStep, PriChangeStep, MutexHandOver, SemGiveAllStep, DelStep, WakeAllLoop,
         TaskMutexFree, ExitStep, semUnchanged, mutexUnchanged
  <2>3. kcall.pc # "tick" \/ kcall' = kcall
    BY <1>7 DEF KernelStep, PriChangeStep, MutexHandOver, SemGiveAllStep, DelStep, WakeAllLoop,
         TaskMutexFree, ExitStep
  <2> QED BY <2>1, <2>2, <2>3 DEF TickQuiet, Removes, tickVars
<1>8. CASE TaskDelState
  <2>1. kcall.task \in Tasks /\ kcall.pc # "tick" /\ g_tick_count' = g_tick_count
    BY <1>8 DEF TaskDelState, IInv, LoopInv
  <2> QED BY <1>8, <2>1 DEF TaskDelState, TickQuiet, Removes, tickVars
<1>9. CASE TickStep
  <2>1. g_tick_count' = g_tick_count
    BY <1>9 DEF TickStep
  <2>2. CASE ~TickDue /\ UNCHANGED tickVars
    BY <2>1, <2>2 DEF tickVars
  <2>3. CASE TickDue /\ TickListRm(Head(tick_list)) /\ kcall' = kcall
    <3>1. Head(tick_list) \in Tasks
      BY <1>0, <2>3, TailMembers DEF TickDue, ListPart, TickPart, TickList
    <3>2. kcall'.pc = "tick"
      BY <1>9, <2>3 DEF TickStep
    <3> QED BY <2>1, <2>3, <3>1, <3>2 DEF Removes
  <2> QED BY <1>9, <2>2, <2>3 DEF TickStep, PendTaskWake
<1> QED BY <1>2, <1>3, <1>4, <1>5, <1>6, <1>7, <1>8, <1>9 DEF Next, KernelStep

\* Every step preserves DeadlineInv.
LEMMA DeadlineStep ==
    ASSUME NatLeast, IInv, IInv', DeadlineInv, [Next]_vars
    PROVE  DeadlineInv'
<1>1. CASE UNCHANGED vars
  BY <1>1 DEF vars, tickVars, DeadlineInv, DeadlinesKept, Remaining
<1>2. ASSUME Next PROVE DeadlineInv'
  <2>1. TickTypes
    BY DEF IInv, TypeOK, ListInv, ListsMatchState, TickList, TickTypes
  <2>2. TickTypes'
    BY DEF IInv, TypeOK, ListInv, ListsMatchState, TickList, TickTypes
  <2>3. tick_list' \in Seq(Tasks)
    BY <2>2 DEF TickTypes
  <2>4. DeadlinesKept
    BY DEF DeadlineInv
  <2>10. DeadlinesKept'
    <3>5. CASE TickQuiet
      <4>1. Kept(tick_list, Left) /\ (kcall.pc # "tick" => NoneDue(tick_list, Left))
        BY <2>1, <2>3, <2>4, KeptIs DEF TickTypes
      <4>2. tick_list' = tick_list /\ Left' = Left
        BY <3>5 DEF TickQuiet, Left, Remaining
      <4> QED BY <2>1, <2>3, <3>5, <4>1, <4>2, KeptIs DEF TickTypes, TickQuiet
    <3>6. CASE Inserts
      <4>1. ASSUME NEW t \in Tasks, task_state[t] = "K_RDY" PROVE ~Contains(tick_list, t)
        BY <4>1 DEF IInv, ListInv, ListsMatchState, TickList, Pending, Sleeping
      <4> QED BY <2>1, <2>3, <2>4, <3>6, <4>1, InsertKept DEF Inserts
    <3>7. CASE Removes
      BY <2>1, <2>3, <2>4, <3>7, RemoveKept DEF Removes
    <3>8. CASE Tick
      BY <2>1, <2>2, <2>4, <3>8, TickKept
    <3>9. CASE ~TickDue /\ UNCHANGED <<tick_list, tick_match, g_tick_count>>
      BY <2>1, <2>3, <2>4, <3>9, EndKept
    <3> QED BY <1>2, <3>5, <3>6, <3>7, <3>8, <3>9, TickSteps
  <2>11. kcall'.pc = "lock" => kcall'.ticks \in Waits
    <3>1. CASE KcallOther
      <4>1. NoCall.pc # "lock"
        BY SMTT(60) DEF NoCall, KCall
      <4> QED BY <3>1, <4>1 DEF KcallOther, DeadlineInv
    <3>2. ASSUME NEW m \in Mutexes, NEW w \in Waits, MutexLock(m, w) PROVE kcall'.pc = "lock" => kcall'.ticks \in Waits
      <4>1. CASE kcall' = kcall
        BY <4>1 DEF DeadlineInv
      <4>2. CASE kcall' = KCall("lock", m, NONE, w)
        BY <4>2, SMTT(60) DEF KCall
      <4> QED BY <3>2, <4>1, <4>2 DEF MutexLock
    <3>3. CASE KcallSet /\ \A m \in Mutexes : \A w \in Waits : ~MutexLock(m, w)
      <4>1. \/ kcall' = kcall
            \/ \E pc \in {"give_all", "del", "unlock", "exit", "task_del", "tick"} : \E o, t, n : kcall' = KCall(pc, o, t, n)
        BY <3>3 DEF KcallSet, SemGiveAll, SemDel, MutexUnlock, MutexDel, TaskPriChange, TaskDel, Tick, TaskDelState
      <4>2. CASE kcall' = kcall
        BY <4>2 DEF DeadlineInv
      <4>3. ASSUME NEW pc \in {"give_all", "del", "unlock", "exit", "task_del", "tick"}, NEW o, NEW t, NEW n,
                   kcall' = KCall(pc, o, t, n)
            PROVE  kcall'.pc # "lock"
        BY <4>3, SMTT(60) DEF KCall
      <4> QED BY <4>1, <4>2, <4>3
    <3> QED BY <1>2, <3>1, <3>2, <3>3, KcallSteps DEF KcallSet
  <2> QED BY <2>10, <2>11 DEF DeadlineInv
<1> QED BY <1>1, <1>2

\* The tick list is empty at first.
LEMMA DeadlineInit == Init => DeadlineInv
<1>1. Init => tick_list = <<>> /\ kcall.pc = "none"
  <2>1. NoCall.pc = "none"
    BY SMTT(60) DEF NoCall, KCall
  <2> QED BY <2>1 DEF Init
<1>2. Len(<<>>) = 0 /\ \A i \in 1..0 : FALSE
  BY SMTT(60)
<1> QED BY <1>1, <1>2 DEF DeadlineInv, DeadlinesKept
=============================================================================
