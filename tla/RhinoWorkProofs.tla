-------------------------- MODULE RhinoWorkProofs ---------------------------
(***************************************************************************)
(* What holds of the work queues for every set of works, queues and        *)
(* callers: a work is on at most one list, and the worker finds a work     *)
(* whenever it has taken its semaphore.                                    *)
(***************************************************************************)
EXTENDS RhinoWork, FiniteSetTheorems, TLAPS

-----------------------------------------------------------------------------
(* Lists.                                                                   *)

\* The members of a list after an element joins it at the end or in front.
LEMMA AppendMembers ==
    ASSUME NEW S, NEW s \in Seq(S), NoDup(s), NEW e \in S, ~Contains(s, e)
    PROVE  /\ Append(s, e) \in Seq(S) /\ Append(s, e) # <<>>
           /\ NoDup(Append(s, e))
           /\ \A x : Contains(Append(s, e), x) <=> Contains(s, x) \/ x = e
<1> DEFINE r == Append(s, e)
<1>1. /\ r \in Seq(S) /\ r # <<>> /\ Len(r) = Len(s) + 1
      /\ \A i \in 1..(Len(s) + 1) : r[i] = IF i <= Len(s) THEN s[i] ELSE e
  OBVIOUS
<1> HIDE DEF r
<1>2. NoDup(r)
  BY <1>1 DEF NoDup, Contains
<1>3. ASSUME NEW x PROVE Contains(r, x) <=> Contains(s, x) \/ x = e
  <2>1. ASSUME Contains(r, x) PROVE Contains(s, x) \/ x = e
    BY <1>1, <2>1 DEF Contains
  <2>2. ASSUME Contains(s, x) PROVE Contains(r, x)
    BY <1>1, <2>2 DEF Contains
  <2>3. Contains(r, e)
    BY <1>1 DEF Contains
  <2> QED BY <2>1, <2>2, <2>3
<1> QED BY <1>1, <1>2, <1>3 DEF r

\* The head and the other members of a list that is not empty.
LEMMA TailMembers ==
    ASSUME NEW S, NEW s \in Seq(S), NoDup(s), s # <<>>
    PROVE  /\ Head(s) \in S /\ Contains(s, Head(s))
           /\ Tail(s) \in Seq(S) /\ NoDup(Tail(s))
           /\ \A x : Contains(Tail(s), x) <=> Contains(s, x) /\ x # Head(s)
<1> DEFINE r == Tail(s)
<1>1. /\ Len(s) \in Nat /\ Len(s) > 0 /\ Head(s) = s[1] /\ Head(s) \in S
      /\ r \in Seq(S) /\ Len(r) = Len(s) - 1
      /\ \A i \in 1..(Len(s) - 1) : r[i] = s[i + 1]
  OBVIOUS
<1> HIDE DEF r
<1>2. NoDup(r)
  BY <1>1 DEF NoDup
<1>3. ASSUME NEW x PROVE Contains(r, x) <=> Contains(s, x) /\ x # Head(s)
  <2>1. ASSUME Contains(r, x) PROVE Contains(s, x) /\ x # Head(s)
    BY <1>1, <2>1 DEF Contains, NoDup
  <2>2. ASSUME Contains(s, x), x # Head(s) PROVE Contains(r, x)
    <3>1. PICK i \in 1..Len(s) : s[i] = x
      BY <2>2 DEF Contains
    <3>2. i - 1 \in 1..Len(r) /\ r[i - 1] = x
      BY <1>1, <2>2, <3>1
    <3> QED BY <3>2 DEF Contains
  <2> QED BY <2>1, <2>2
<1>4. Contains(s, Head(s))
  BY <1>1 DEF Contains
<1> QED BY <1>1, <1>2, <1>3, <1>4 DEF r

-----------------------------------------------------------------------------
USE ZenonT(60)

-----------------------------------------------------------------------------
(* The callers.                                                             *)

\* The locals of a caller that changes its place or returns.
LEMMA LocalsOf ==
    ASSUME TypeOK, NEW c \in Callers
    PROVE  /\ \A ret \in {NONE, "SUCCESS", "BUSY", "RUNNING", "EXIST", "ERROR"} : Idle(ret) \in Locals
           /\ \A p \in {"give", "cancel", "task_del"}, q \in Queues, w \in Works \cup {NONE} : At(p, q, w) \in Locals
           /\ \A p \in {"sem_del", "remove"} : [caller[c] EXCEPT !.pc = p] \in Locals
           /\ \A ret \in {"SUCCESS", "ERROR"} : [caller[c] EXCEPT !.pc = "idle", !.ret = ret] \in Locals
<1>1. caller[c] \in Locals
  BY DEF TypeOK
<1> QED BY <1>1 DEF Locals, Idle, At

\* One caller changes.
LEMMA CallerChange ==
    ASSUME TypeOK, NEW c \in Callers, NEW l \in Locals, caller' = [caller EXCEPT ![c] = l]
    PROVE  /\ caller' \in [Callers -> Locals] /\ caller'[c] = l
           /\ \A x \in Callers : x # c => caller'[x] = caller[x]
  BY DEF TypeOK

\* Those that have still to give a semaphore, when a caller begins to, ends or neither.
LEMMA GiversChange ==
    ASSUME TypeOK, NEW c \in Callers, NEW l \in Locals, caller' = [caller EXCEPT ![c] = l], NEW q \in Queues
    PROVE  /\ Cardinality(Givers(q)) \in Nat /\ Cardinality(Givers(q)') \in Nat
           /\ (caller[c].pc = "give" /\ caller[c].q = q) <=> (l.pc = "give" /\ l.q = q)
                => Cardinality(Givers(q)') = Cardinality(Givers(q))
           /\ (l.pc = "give" /\ l.q = q) /\ ~(caller[c].pc = "give" /\ caller[c].q = q)
                => Cardinality(Givers(q)') = Cardinality(Givers(q)) + 1
           /\ (caller[c].pc = "give" /\ caller[c].q = q) /\ ~(l.pc = "give" /\ l.q = q)
                => Cardinality(Givers(q)) = Cardinality(Givers(q)') + 1
<1>1. caller'[c] = l /\ \A x \in Callers : x # c => caller'[x] = caller[x]
  BY CallerChange
<1>2. IsFiniteSet(Givers(q)) /\ IsFiniteSet(Givers(q)')
  BY WorkAssumption, FS_Subset DEF Givers
<1>3. Cardinality(Givers(q)) \in Nat /\ Cardinality(Givers(q)') \in Nat
  BY <1>2, FS_CardinalityType
<1>4. \A x \in Callers : x # c => (x \in Givers(q)' <=> x \in Givers(q))
  BY <1>1 DEF Givers
<1>5. /\ c \in Givers(q) <=> caller[c].pc = "give" /\ caller[c].q = q
      /\ c \in Givers(q)' <=> l.pc = "give" /\ l.q = q
  BY <1>1 DEF Givers
<1>6. Givers(q) \subseteq Callers /\ Givers(q)' \subseteq Callers
  BY DEF Givers
<1>7. ASSUME c \in Givers(q) <=> c \in Givers(q)' PROVE Givers(q)' = Givers(q)
  <2>1. \A x \in Callers : x \in Givers(q)' <=> x \in Givers(q)
    BY <1>4, <1>7
  <2> QED BY <1>6, <2>1
<1>8. ASSUME c \in Givers(q)', c \notin Givers(q) PROVE Cardinality(Givers(q)') = Cardinality(Givers(q)) + 1
  <2>1. Givers(q)' = Givers(q) \cup {c}
    BY <1>4, <1>6, <1>8
  <2> QED BY <1>2, <1>8, <2>1, FS_AddElement
<1>9. ASSUME c \in Givers(q), c \notin Givers(q)' PROVE Cardinality(Givers(q)) = Cardinality(Givers(q)') + 1
  <2>1. Givers(q) = Givers(q)' \cup {c}
    BY <1>4, <1>6, <1>9
  <2> QED BY <1>2, <1>9, <2>1, FS_AddElement
<1> QED BY <1>3, <1>5, <1>7, <1>8, <1>9

-----------------------------------------------------------------------------
(* The lists.                                                               *)

\* Putting a work that is not pending on the list of a queue that does not run it.
LEMMA PutStep ==
    ASSUME WorkInv, NEW w \in Works, NEW q \in Queues, Put(w, q), ~work_exit[w], work_current[q] # w
    PROVE  /\ Placed' /\ WaitsOnItsQueue' /\ work_list' \in [Queues -> Seq(Works)]
           /\ wq' \in [Works -> Queues \cup {NONE}] /\ work_exit' \in [Works -> BOOLEAN]
           /\ \A x \in Works : wq'[x] = IF x = w THEN q ELSE wq[x]
           /\ Len(work_list'[q]) = Len(work_list[q]) + 1
           /\ \A x \in Queues : x # q => work_list'[x] = work_list[x]
<1>1. \A x \in Queues : ~Contains(work_list[x], w)
  BY DEF WorkInv, Placed
<1>2. work_list' = [x \in Queues |-> IF x = q THEN Append(work_list[x], w) ELSE work_list[x]]
  BY <1>1 DEF Put, KlistRm
<1>3. \A x \in Queues : work_list[x] \in Seq(Works) /\ NoDup(work_list[x])
  BY DEF WorkInv, TypeOK, Placed
<1>4. work_list'[q] = Append(work_list[q], w) /\ \A x \in Queues : x # q => work_list'[x] = work_list[x]
  BY <1>2
<1>5. /\ work_list'[q] \in Seq(Works) /\ NoDup(work_list'[q])
      /\ \A x : Contains(work_list'[q], x) <=> Contains(work_list[q], x) \/ x = w
  <2>1. work_list[q] \in Seq(Works) /\ NoDup(work_list[q]) /\ ~Contains(work_list[q], w)
    BY <1>1, <1>3
  <2>2. /\ Append(work_list[q], w) \in Seq(Works) /\ NoDup(Append(work_list[q], w))
        /\ \A x : Contains(Append(work_list[q], w), x) <=> Contains(work_list[q], x) \/ x = w
    BY <2>1, AppendMembers
  <2> QED BY <1>4, <2>2
<1>6. Len(work_list'[q]) = Len(work_list[q]) + 1
  BY <1>3, <1>4, SMTT(60)
<1>7. work_list' \in [Queues -> Seq(Works)]
  <2>1. \A x \in Queues : (IF x = q THEN Append(work_list[x], w) ELSE work_list[x]) \in Seq(Works)
    BY <1>3, <1>4, <1>5
  <2> QED BY <1>2, <2>1
<1>8. /\ wq' \in [Works -> Queues \cup {NONE}] /\ work_exit' \in [Works -> BOOLEAN]
      /\ \A x \in Works : wq'[x] = IF x = w THEN q ELSE wq[x]
      /\ work_exit'[w] = TRUE /\ \A x \in Works : x # w => work_exit'[x] = work_exit[x]
  BY DEF Put, WorkInv, TypeOK
<1>9. \A x \in Works, r \in Queues : Contains(work_list'[r], x) <=> Contains(work_list[r], x) \/ (x = w /\ r = q)
  BY <1>4, <1>5
<1>10. Placed'
  <2>1. \A r \in Queues : NoDup(work_list'[r])
    BY <1>3, <1>4, <1>5
  <2>2. \A x \in Works, r, t \in Queues : Contains(work_list'[r], x) /\ Contains(work_list'[t], x) => r = t
    <3>1. \A x \in Works, r, t \in Queues : Contains(work_list[r], x) /\ Contains(work_list[t], x) => r = t
      BY DEF WorkInv, Placed
    <3>2. ASSUME NEW x \in Works, NEW r \in Queues, NEW t \in Queues,
                 Contains(work_list'[r], x), Contains(work_list'[t], x)
          PROVE  r = t
      <4>1. CASE x = w
        BY <1>1, <1>9, <3>2, <4>1
      <4>2. CASE x # w
        <5>1. Contains(work_list[r], x) /\ Contains(work_list[t], x)
          BY <1>9, <3>2, <4>2
        <5> QED BY <3>1, <5>1
      <4> QED BY <4>1, <4>2
    <3> QED BY <3>2
  <2>3. \A x \in Works : work_exit'[x] <=> \E r \in Queues : Contains(work_list'[r], x)
    BY <1>8, <1>9 DEF WorkInv, Placed
  <2> QED BY <2>1, <2>2, <2>3 DEF Placed
<1>11. WaitsOnItsQueue'
  <2>1. work_current' = work_current
    BY DEF Put
  <2>2. ASSUME NEW r \in Queues, NEW x \in Works, Contains(work_list'[r], x)
        PROVE  wq'[x] = r /\ work_current[r] # x
    <3>1. CASE x = w /\ r = q
      BY <1>8, <3>1
    <3>2. CASE ~(x = w /\ r = q)
      <4>1. Contains(work_list[r], x) /\ x # w
        BY <1>1, <1>9, <2>2, <3>2
      <4> QED BY <1>8, <4>1 DEF WorkInv, WaitsOnItsQueue
    <3> QED BY <3>1, <3>2
  <2> QED BY <2>1, <2>2 DEF WaitsOnItsQueue
<1> QED BY <1>4, <1>6, <1>7, <1>8, <1>10, <1>11

\* Steps that leave the lists alone, and wq of the works that are on one.
LEMMA ListsUnchanged ==
    ASSUME WorkInv, UNCHANGED <<work_list, work_current, work_exit>>,
           \A w \in Works : work_exit[w] => wq'[w] = wq[w]
    PROVE  Placed' /\ WaitsOnItsQueue'
<1>1. Placed'
  BY DEF WorkInv, Placed
<1>2. \A q \in Queues, w \in Works : Contains(work_list[q], w) => wq'[w] = wq[w]
  BY DEF WorkInv, Placed
<1> QED BY <1>1, <1>2 DEF WorkInv, WaitsOnItsQueue

\* Steps that leave what the semaphores count alone.
LEMMA CountsUnchanged ==
    ASSUME WorkInv, UNCHANGED <<work_list, sem, worker, callback>>,
           \A q \in Queues : Cardinality(Givers(q)') = Cardinality(Givers(q))
    PROVE  PendingCounted'
BY DEF WorkInv, PendingCounted

-----------------------------------------------------------------------------
(* The calls.                                                               *)

\* A step of a caller that neither puts a work on a list nor gives a semaphore.
LEMMA CallerStep ==
    ASSUME WorkInv, NEW c \in Callers, NEW l \in Locals, caller' = [caller EXCEPT ![c] = l],
           caller[c].pc # "give", l.pc # "give",
           UNCHANGED <<sem, worker, work_list, work_current, work_exit, armed, callback>>,
           g_workqueue_list' \subseteq g_workqueue_list,
           wq' \in [Works -> Queues \cup {NONE}], \A w \in Works : wq'[w] # NONE \/ work_exit[w] => wq'[w] = wq[w],
           commands' \in Seq(Command), Len(commands') <= MSG_NUM,
           \A i \in 1..Len(commands') : commands'[i].q # NONE => Created(commands'[i].q),
           l.pc # "idle" => Created(l.q), l.pc \in {"sem_del", "remove"} => worker[l.q] = "none",
           l.pc = "cancel" => l.w \in Works
    PROVE  WorkInv'
<1>1. /\ caller' \in [Callers -> Locals] /\ caller'[c] = l
      /\ \A x \in Callers : x # c => caller'[x] = caller[x]
  BY CallerChange DEF WorkInv
<1>2. TypeOK'
  BY <1>1 DEF WorkInv, TypeOK
<1>3. Placed' /\ WaitsOnItsQueue'
  BY ListsUnchanged
<1>4. PendingCounted'
  <2>1. \A q \in Queues : Cardinality(Givers(q)') = Cardinality(Givers(q))
    BY GiversChange DEF WorkInv
  <2> QED BY <2>1, CountsUnchanged
<1>5. \A q : Created(q)' <=> Created(q)
  BY DEF Created
<1>6. Named'
  BY <1>1, <1>5 DEF WorkInv, Named
<1>7. Lives'
  BY <1>1 DEF WorkInv, Lives
<1> QED BY <1>2, <1>3, <1>4, <1>6, <1>7 DEF WorkInv

\* The commands after one more, or when the pool is empty.
LEMMA TellCommands ==
    ASSUME WorkInv, NEW cmd \in {"AUTO", "STOP"}, NEW w \in Delayed, NEW q,
           q = NONE \/ Created(q), Tell(cmd, w, q)
    PROVE  /\ commands' \in Seq(Command) /\ Len(commands') <= MSG_NUM
           /\ \A i \in 1..Len(commands') : commands'[i].q # NONE => Created(commands'[i].q)
<1> DEFINE m == [cmd |-> cmd, w |-> w, q |-> q]
<1>1. /\ commands \in Seq(Command) /\ Len(commands) <= MSG_NUM /\ Len(commands) \in Nat /\ MSG_NUM \in Nat
      /\ \A i \in 1..Len(commands) : commands[i].q # NONE => Created(commands[i].q)
  BY WorkAssumption, SMTT(60) DEF WorkInv, TypeOK, Named
<1>2. m \in Command /\ m.q = q
  BY DEF Command, Created
<1>3. commands' = IF Len(commands) < MSG_NUM THEN Append(commands, m) ELSE commands
  BY DEF Tell
<1> HIDE DEF m
<1>4. CASE Len(commands) < MSG_NUM
  <2>1. /\ commands' \in Seq(Command) /\ Len(commands') = Len(commands) + 1
        /\ \A i \in 1..Len(commands') : IF i <= Len(commands) THEN commands'[i] = commands[i] ELSE commands'[i] = m
    BY <1>1, <1>2, <1>3, <1>4, SMTT(60)
  <2>2. Len(commands') <= MSG_NUM
    BY <1>1, <1>4, <2>1, SMTT(60)
  <2>3. \A i \in 1..Len(commands') : i <= Len(commands) => i \in 1..Len(commands)
    BY <1>1, <2>1, SMTT(60)
  <2> QED BY <1>1, <1>2, <2>1, <2>2, <2>3
<1>5. CASE ~(Len(commands) < MSG_NUM)
  BY <1>1, <1>3, <1>5
<1> QED BY <1>4, <1>5

\* The facts about commands and wq when they stay.
LEMMA NamesNow ==
    ASSUME WorkInv, commands' = commands
    PROVE  /\ commands' \in Seq(Command) /\ Len(commands') <= MSG_NUM
           /\ \A i \in 1..Len(commands') : commands'[i].q # NONE => Created(commands'[i].q)
BY DEF WorkInv, TypeOK, Named

\* krhino_workqueue_del tests for works that are pending or running.
LEMMA WorkqueueDelStep ==
    ASSUME WorkInv, NEW c \in Callers, WorkqueueDel(c)
    PROVE  WorkInv'
<1>1. PICK q \in g_workqueue_list : Return(c, "BUSY") \/ caller' = [caller EXCEPT ![c] = At("task_del", q, NONE)]
  BY DEF WorkqueueDel
<1>2. caller[c].pc = "idle" /\ UNCHANGED <<queues, works, timers>>
  BY DEF WorkqueueDel
<1>3. Created(q) /\ q \in Queues
  BY DEF WorkInv, Named, Created
<1>4. PICK l \in Locals : /\ caller' = [caller EXCEPT ![c] = l]
                          /\ (l.pc = "idle" \/ (l.pc = "task_del" /\ l.q = q))
  <2>1. CASE Return(c, "BUSY")
    <3>1. Idle("BUSY") \in Locals /\ Idle("BUSY").pc = "idle"
      BY LocalsOf DEF WorkInv, Idle
    <3> QED BY <2>1, <3>1 DEF Return
  <2>2. CASE caller' = [caller EXCEPT ![c] = At("task_del", q, NONE)]
    <3>1. At("task_del", q, NONE) \in Locals /\ At("task_del", q, NONE).pc = "task_del" /\ At("task_del", q, NONE).q = q
      BY <1>3, LocalsOf DEF WorkInv, At
    <3> QED BY <2>2, <3>1
  <2> QED BY <1>1, <2>1, <2>2
<1>5. /\ UNCHANGED <<sem, worker, work_list, work_current, work_exit, armed, callback, wq, commands, g_workqueue_list>>
      /\ wq \in [Works -> Queues \cup {NONE}]
  BY <1>2 DEF queues, works, timers, WorkInv, TypeOK
<1> QED BY <1>2, <1>3, <1>4, <1>5, NamesNow, CallerStep

\* krhino_task_del of the worker
LEMMA DelTaskStep ==
    ASSUME WorkInv, NEW c \in Callers, DelTask(c)
    PROVE  WorkInv'
<1> DEFINE q == caller[c].q
           l == [caller[c] EXCEPT !.pc = "sem_del"]
<1>1. /\ caller[c].pc = "task_del" /\ worker' = [worker EXCEPT ![q] = "none"]
      /\ UNCHANGED <<g_workqueue_list, sem, work_list, work_current, wq, work_exit, armed, commands, callback>>
  BY DEF DelTask, works, timers
<1>2. caller' = [caller EXCEPT ![c] = l]
  BY DEF DelTask, Goto
<1>3. Created(q) /\ q \in Queues
  BY <1>1 DEF WorkInv, Named, Created
<1>4. l \in Locals /\ l.pc = "sem_del" /\ l.q = q
  <2>1. caller[c] \in Locals
    BY DEF WorkInv, TypeOK
  <2>2. l.pc = "sem_del" /\ l.q = q
    BY <2>1, SMTT(60) DEF Locals
  <2> QED BY <2>2, LocalsOf DEF WorkInv
<1> HIDE DEF l, q
<1>5. /\ caller' \in [Callers -> Locals] /\ caller'[c] = l
      /\ \A x \in Callers : x # c => caller'[x] = caller[x]
  BY <1>2, <1>4, CallerChange DEF WorkInv
<1>6. /\ worker' \in [Queues -> {"new", "take", "taken", "handle", "none"}]
      /\ worker'[q] = "none" /\ \A x \in Queues : x # q => worker'[x] = worker[x]
  BY <1>1, <1>3 DEF WorkInv, TypeOK
<1>7. TypeOK'
  BY <1>1, <1>5, <1>6 DEF WorkInv, TypeOK
<1>8. Placed' /\ WaitsOnItsQueue'
  BY <1>1, ListsUnchanged
<1>9. PendingCounted'
  <2>1. \A x \in Queues : Cardinality(Givers(x)') = Cardinality(Givers(x))
    BY <1>1, <1>2, <1>4, GiversChange DEF WorkInv
  <2>2. ASSUME NEW x \in Queues, worker'[x] \in {"take", "taken", "handle"}, sem[x] # NONE
        PROVE  /\ x # q /\ worker'[x] = worker[x]
               /\ Len(work_list[x]) = sem[x] + Cardinality(Givers(x)) + (IF callback = x THEN 1 ELSE 0)
                                      + (IF worker[x] = "taken" THEN 1 ELSE 0)
    <3>1. x # q /\ worker'[x] = worker[x]
      BY <1>6, <2>2
    <3> QED BY <2>2, <3>1 DEF WorkInv, PendingCounted
  <2> QED BY <1>1, <2>1, <2>2 DEF PendingCounted
<1>10. \A x : Created(x) => Created(x)'
  BY <1>6 DEF Created
<1>11. \A x \in Queues : worker'[x] = "new" => worker[x] = "new"
  BY <1>6
<1>12. Named'
  BY <1>1, <1>3, <1>4, <1>5, <1>10, <1>11 DEF WorkInv, Named
<1>13. Lives'
  <2>1. \A x \in Queues : worker'[x] \in {"take", "taken", "handle"} => sem'[x] # NONE
    BY <1>1, <1>6 DEF WorkInv, Lives
  <2>2. ASSUME NEW x \in Callers
        PROVE  /\ caller'[x].pc \in {"sem_del", "remove"} => worker'[caller'[x].q] = "none"
               /\ caller'[x].pc = "cancel" => caller'[x].w \in Works
    <3>1. CASE x = c
      BY <1>4, <1>5, <1>6, <3>1
    <3>2. CASE x # c
      <4>1. ASSUME caller[x].pc \in {"sem_del", "remove"} PROVE worker'[caller[x].q] = "none"
        <5>1. worker[caller[x].q] = "none" /\ caller[x].q \in Queues
          BY <4>1 DEF WorkInv, Lives, Named, Created
        <5> QED BY <1>6, <5>1
      <4> QED BY <1>5, <3>2, <4>1 DEF WorkInv, Lives
    <3> QED BY <3>1, <3>2
  <2> QED BY <2>1, <2>2 DEF Lives
<1> QED BY <1>7, <1>8, <1>9, <1>12, <1>13 DEF WorkInv

\* krhino_sem_del, when the worker is gone
LEMMA DelSemStep ==
    ASSUME WorkInv, NEW c \in Callers, DelSem(c)
    PROVE  WorkInv'
<1> DEFINE q == caller[c].q
           l == [caller[c] EXCEPT !.pc = "remove"]
<1>1. /\ caller[c].pc = "sem_del" /\ sem' = [sem EXCEPT ![q] = NONE]
      /\ UNCHANGED <<g_workqueue_list, worker, work_list, work_current, wq, work_exit, armed, commands, callback>>
  BY DEF DelSem, works, timers
<1>2. caller' = [caller EXCEPT ![c] = l]
  BY DEF DelSem, Goto
<1>3. Created(q) /\ q \in Queues /\ worker[q] = "none"
  BY <1>1 DEF WorkInv, Named, Created, Lives
<1>4. l \in Locals /\ l.pc = "remove" /\ l.q = q
  <2>1. caller[c] \in Locals
    BY DEF WorkInv, TypeOK
  <2>2. l.pc = "remove" /\ l.q = q
    BY <2>1, SMTT(60) DEF Locals
  <2> QED BY <2>2, LocalsOf DEF WorkInv
<1> HIDE DEF l, q
<1>5. /\ caller' \in [Callers -> Locals] /\ caller'[c] = l
      /\ \A x \in Callers : x # c => caller'[x] = caller[x]
  BY <1>2, <1>4, CallerChange DEF WorkInv
<1>6. sem' \in [Queues -> Nat \cup {NONE}] /\ \A x \in Queues : x # q => sem'[x] = sem[x]
  BY <1>1, <1>3 DEF WorkInv, TypeOK
<1>7. TypeOK'
  BY <1>1, <1>5, <1>6 DEF WorkInv, TypeOK
<1>8. Placed' /\ WaitsOnItsQueue'
  BY <1>1, ListsUnchanged
<1>9. PendingCounted'
  <2>1. \A x \in Queues : Cardinality(Givers(x)') = Cardinality(Givers(x))
    BY <1>1, <1>2, <1>4, GiversChange DEF WorkInv
  <2>2. \A x \in Queues : worker[x] \in {"take", "taken", "handle"} => sem'[x] = sem[x]
    BY <1>3, <1>6
  <2> QED BY <1>1, <2>1, <2>2 DEF WorkInv, PendingCounted
<1>10. \A x : Created(x) <=> Created(x)'
  BY <1>1 DEF Created
<1>11. Named'
  BY <1>1, <1>3, <1>4, <1>5, <1>10 DEF WorkInv, Named
<1>12. Lives'
  BY <1>1, <1>3, <1>4, <1>5, <1>6 DEF WorkInv, Lives
<1> QED BY <1>7, <1>8, <1>9, <1>11, <1>12 DEF WorkInv

\* krhino_workqueue_del takes the queue off the list of queues.
LEMMA DelRemoveStep ==
    ASSUME WorkInv, NEW c \in Callers, DelRemove(c)
    PROVE  WorkInv'
<1>1. /\ caller[c].pc = "remove" /\ caller' = [caller EXCEPT ![c] = Idle("SUCCESS")]
      /\ g_workqueue_list' \subseteq g_workqueue_list
      /\ UNCHANGED <<sem, worker, work_list, work_current, wq, work_exit, armed, commands, callback>>
  BY DEF DelRemove, Return, works, timers
<1>2. Idle("SUCCESS") \in Locals /\ Idle("SUCCESS").pc = "idle"
  BY LocalsOf DEF WorkInv, Idle
<1>3. wq \in [Works -> Queues \cup {NONE}]
  BY DEF WorkInv, TypeOK
<1> QED BY <1>1, <1>2, <1>3, NamesNow, CallerStep

\* krhino_work_run of a work with a delay tells the timer task.
LEMMA WorkRunDelayedStep ==
    ASSUME WorkInv, NEW c \in Callers, WorkRunDelayed(c)
    PROVE  WorkInv'
<1>1. PICK w \in Delayed, q \in g_workqueue_list :
        Tell("AUTO", w, q) /\ Return(c, IF Len(commands) < MSG_NUM THEN "SUCCESS" ELSE "ERROR")
  BY DEF WorkRunDelayed
<1>2. PICK ret \in {"SUCCESS", "ERROR"} : Return(c, ret)
  BY <1>1
<1>3. /\ caller[c].pc = "idle" /\ caller' = [caller EXCEPT ![c] = Idle(ret)]
      /\ UNCHANGED <<g_workqueue_list, sem, worker, work_list, work_current, wq, work_exit, armed, callback>>
  BY <1>2 DEF WorkRunDelayed, Return, works, queues
<1>4. Idle(ret) \in Locals /\ Idle(ret).pc = "idle"
  BY <1>2, LocalsOf DEF WorkInv, Idle
<1>5. Created(q) /\ wq \in [Works -> Queues \cup {NONE}]
  BY DEF WorkInv, TypeOK, Named
<1>6. /\ commands' \in Seq(Command) /\ Len(commands') <= MSG_NUM
      /\ \A i \in 1..Len(commands') : commands'[i].q # NONE => Created(commands'[i].q)
  BY <1>1, <1>5, TellCommands
<1> QED BY <1>3, <1>4, <1>5, <1>6, CallerStep

\* krhino_work_cancel up to its critical section, and the critical section
LEMMA WorkCancelStep ==
    ASSUME WorkInv, NEW c \in Callers, WorkCancel(c)
    PROVE  WorkInv'
<1>1. PICK w \in Works :
          \/ /\ wq[w] = NONE /\ Return(c, "SUCCESS")
             /\ IF w \in Delayed THEN Tell("STOP", w, NONE) ELSE UNCHANGED commands
          \/ /\ wq[w] # NONE /\ caller' = [caller EXCEPT ![c] = At("cancel", wq[w], w)]
             /\ UNCHANGED commands
  BY DEF WorkCancel
<1>2. /\ caller[c].pc = "idle" /\ wq \in [Works -> Queues \cup {NONE}]
      /\ UNCHANGED <<g_workqueue_list, sem, worker, work_list, work_current, wq, work_exit, armed, callback>>
  BY DEF WorkCancel, works, queues, WorkInv, TypeOK
<1>3. CASE wq[w] = NONE
  <2>1. Return(c, "SUCCESS") /\ IF w \in Delayed THEN Tell("STOP", w, NONE) ELSE UNCHANGED commands
    BY <1>1, <1>3
  <2>2. Idle("SUCCESS") \in Locals /\ Idle("SUCCESS").pc = "idle"
    BY LocalsOf DEF WorkInv, Idle
  <2>3. /\ commands' \in Seq(Command) /\ Len(commands') <= MSG_NUM
        /\ \A i \in 1..Len(commands') : commands'[i].q # NONE => Created(commands'[i].q)
    BY <2>1, TellCommands, NamesNow
  <2> QED BY <1>2, <2>1, <2>2, <2>3, CallerStep DEF Return
<1>4. CASE wq[w] # NONE
  <2> DEFINE l == At("cancel", wq[w], w)
  <2>1. caller' = [caller EXCEPT ![c] = l] /\ UNCHANGED commands
    BY <1>1, <1>4
  <2>2. Created(wq[w]) /\ wq[w] \in Queues
    BY <1>4 DEF WorkInv, Named, Created
  <2>3. l \in Locals /\ l.pc = "cancel" /\ l.q = wq[w] /\ l.w = w
    BY <2>2, LocalsOf DEF WorkInv, At
  <2> HIDE DEF l
  <2> QED BY <1>2, <2>1, <2>2, <2>3, NamesNow, CallerStep
<1> QED BY <1>3, <1>4

\* krhino_work_cancel takes the work off the list of its queue.
LEMMA CancelWorkStep ==
    ASSUME WorkInv, NEW c \in Callers, CancelWork(c)
    PROVE  WorkInv'
<1> DEFINE w == caller[c].w
<1>1. /\ caller[c].pc = "cancel" /\ w \in Works
      /\ UNCHANGED <<g_workqueue_list, sem, worker, work_current, work_exit, armed, commands, callback>>
  BY DEF CancelWork, queues, timers, WorkInv, Lives
<1>2. PICK ret \in {"RUNNING", "EXIST", "SUCCESS"} : caller' = [caller EXCEPT ![c] = Idle(ret)]
  BY DEF CancelWork, Return
<1>3. work_list \in [Queues -> Seq(Works)] /\ wq \in [Works -> Queues \cup {NONE}]
  BY DEF WorkInv, TypeOK
<1>4. work_list' = work_list
  <2>1. ASSUME ~work_exit[w], work_list' = [x \in Queues |-> KlistRm(work_list[x], w)] PROVE work_list' = work_list
    <3>1. \A x \in Queues : ~Contains(work_list[x], w)
      BY <1>1, <2>1 DEF WorkInv, Placed
    <3>2. \A x \in Queues : KlistRm(work_list[x], w) = work_list[x]
      BY <3>1 DEF KlistRm
    <3> QED BY <1>3, <2>1, <3>2
  <2> QED BY <2>1 DEF CancelWork
<1>5. wq' \in [Works -> Queues \cup {NONE}] /\ \A x \in Works : wq'[x] # NONE \/ work_exit[x] => wq'[x] = wq[x]
  <2>1. \/ wq' = wq
        \/ ~work_exit[w] /\ wq' = [wq EXCEPT ![w] = NONE]
    BY SMTT(60) DEF CancelWork
  <2>2. CASE wq' = wq
    BY <1>3, <2>2
  <2>3. CASE ~work_exit[w] /\ wq' = [wq EXCEPT ![w] = NONE]
    <3>1. wq'[w] = NONE /\ \A x \in Works : x # w => wq'[x] = wq[x]
      BY <1>1, <1>3, <2>3
    <3>2. wq' \in [Works -> Queues \cup {NONE}]
      BY <1>1, <1>3, <2>3
    <3> QED BY <2>3, <3>1, <3>2
  <2> QED BY <2>1, <2>2, <2>3
<1>6. Idle(ret) \in Locals /\ Idle(ret).pc = "idle"
  BY <1>2, LocalsOf DEF WorkInv, Idle
<1> HIDE DEF w
<1> QED BY <1>1, <1>2, <1>4, <1>5, <1>6, NamesNow, CallerStep

\* The count of a queue, with its types, and what is to be shown after a step.
Counted(q) ==
    Len(work_list[q]) = sem[q] + Cardinality(Givers(q)) + (IF callback = q THEN 1 ELSE 0)
                        + (IF worker[q] = "taken" THEN 1 ELSE 0)
\* PendingCounted, queue by queue, before a step
LEMMA CountNow ==
    ASSUME WorkInv, NEW q \in Queues, worker[q] \in {"take", "taken", "handle"}
    PROVE  Counted(q) /\ sem[q] \in Nat /\ Len(work_list[q]) \in Nat /\ Cardinality(Givers(q)) \in Nat
<1>1. sem[q] # NONE /\ sem[q] \in Nat \cup {NONE} /\ work_list[q] \in Seq(Works)
  BY DEF WorkInv, Lives, TypeOK
<1>2. Cardinality(Givers(q)) \in Nat
  BY WorkAssumption, FS_Subset, FS_CardinalityType DEF Givers
<1>3. Len(work_list[q]) \in Nat
  BY <1>1, SMTT(60)
<1> QED BY <1>1, <1>2, <1>3 DEF WorkInv, PendingCounted, Counted
\* and after it.
LEMMA CountThen ==
    ASSUME \A q \in Queues : worker'[q] \in {"take", "taken", "handle"} => Counted(q)'
    PROVE  PendingCounted'
BY DEF PendingCounted, Counted

\* krhino_work_run of a work without a delay: the list grows, and so do those that
\* have still to give the semaphore.
LEMMA WorkRunStep ==
    ASSUME WorkInv, NEW c \in Callers, WorkRun(c)
    PROVE  WorkInv'
<1>1. PICK w \in Works \ Delayed, q \in g_workqueue_list :
          \/ work_current[q] = w /\ Return(c, "RUNNING") /\ UNCHANGED works
          \/ work_current[q] # w /\ work_exit[w] /\ Return(c, "EXIST") /\ UNCHANGED works
          \/ /\ work_current[q] # w /\ ~work_exit[w]
             /\ Put(w, q) /\ caller' = [caller EXCEPT ![c] = At("give", q, w)]
  BY DEF WorkRun
<1>2. caller[c].pc = "idle" /\ UNCHANGED <<g_workqueue_list, sem, worker, armed, commands, callback>>
  BY DEF WorkRun, queues, timers
<1>3. CASE UNCHANGED works /\ (Return(c, "RUNNING") \/ Return(c, "EXIST"))
  <2>1. PICK ret \in {"RUNNING", "EXIST"} : caller' = [caller EXCEPT ![c] = Idle(ret)]
    BY <1>3 DEF Return
  <2>2. Idle(ret) \in Locals /\ Idle(ret).pc = "idle"
    BY <2>1, LocalsOf DEF WorkInv, Idle
  <2>3. UNCHANGED <<work_list, work_current, wq, work_exit>> /\ wq \in [Works -> Queues \cup {NONE}]
    BY <1>3 DEF works, WorkInv, TypeOK
  <2> QED BY <1>2, <2>1, <2>2, <2>3, NamesNow, CallerStep
<1>4. CASE /\ work_current[q] # w /\ ~work_exit[w]
           /\ Put(w, q) /\ caller' = [caller EXCEPT ![c] = At("give", q, w)]
  <2> DEFINE l == At("give", q, w)
  <2>1. Created(q) /\ q \in Queues /\ w \in Works
    BY DEF WorkInv, Named, Created
  <2>2. l \in Locals /\ l.pc = "give" /\ l.q = q
    BY <2>1, LocalsOf DEF WorkInv, At
  <2>3. caller' = [caller EXCEPT ![c] = l]
    BY <1>4
  <2> HIDE DEF l
  <2>4. /\ Placed' /\ WaitsOnItsQueue' /\ work_list' \in [Queues -> Seq(Works)]
        /\ wq' \in [Works -> Queues \cup {NONE}] /\ work_exit' \in [Works -> BOOLEAN]
        /\ \A x \in Works : wq'[x] = IF x = w THEN q ELSE wq[x]
        /\ Len(work_list'[q]) = Len(work_list[q]) + 1
        /\ \A x \in Queues : x # q => work_list'[x] = work_list[x]
    BY <1>4, <2>1, PutStep
  <2>5. /\ caller' \in [Callers -> Locals] /\ caller'[c] = l
        /\ \A x \in Callers : x # c => caller'[x] = caller[x]
    BY <2>2, <2>3, CallerChange DEF WorkInv
  <2>6. TypeOK'
    BY <1>2, <1>4, <2>4, <2>5 DEF WorkInv, TypeOK, Put
  <2>7. ASSUME NEW x \in Queues, worker'[x] \in {"take", "taken", "handle"} PROVE Counted(x)'
    <3>1. Counted(x) /\ sem[x] \in Nat /\ Len(work_list[x]) \in Nat /\ Cardinality(Givers(x)) \in Nat
      BY <1>2, <2>7, CountNow
    <3>2. CASE x = q
      <4>1. Cardinality(Givers(x)') = Cardinality(Givers(x)) + 1
        BY <1>2, <2>2, <2>3, <3>2, GiversChange DEF WorkInv
      <4>2. Len(work_list'[x]) = Len(work_list[x]) + 1
        BY <2>4, <3>2
      <4> QED BY <1>2, <3>1, <4>1, <4>2, SMTT(60) DEF Counted
    <3>3. CASE x # q
      <4>1. Cardinality(Givers(x)') = Cardinality(Givers(x))
        BY <1>2, <2>2, <2>3, <3>3, GiversChange DEF WorkInv
      <4> QED BY <1>2, <2>4, <3>1, <3>3, <4>1 DEF Counted
    <3> QED BY <3>2, <3>3
  <2>8. \A x : Created(x) <=> Created(x)'
    BY <1>2 DEF Created
  <2>9. Named'
    <3>1. \A x \in Queues : worker[x] = "new" => work_list'[x] = <<>>
      BY <2>1, <2>4 DEF WorkInv, Named, Created
    <3>2. \A x \in Works : wq'[x] # NONE => Created(wq'[x])
      BY <2>1, <2>4 DEF WorkInv, Named
    <3>3. \A x \in Callers : caller'[x].pc # "idle" => Created(caller'[x].q)
      BY <2>1, <2>2, <2>5 DEF WorkInv, Named
    <3> QED BY <1>2, <2>8, <3>1, <3>2, <3>3 DEF WorkInv, Named
  <2>10. Lives'
    BY <1>2, <2>2, <2>5 DEF WorkInv, Lives
  <2>11. PendingCounted'
    BY <2>7, CountThen
  <2> QED BY <2>4, <2>6, <2>9, <2>10, <2>11 DEF WorkInv
<1> QED BY <1>1, <1>3, <1>4

\* The semaphore is given, unless it has been deleted meanwhile.
LEMMA WorkGiveStep ==
    ASSUME WorkInv, NEW c \in Callers, WorkGive(c)
    PROVE  WorkInv'
<1> DEFINE q == caller[c].q
<1>1. /\ caller[c].pc = "give" /\ sem' = IF sem[q] = NONE THEN sem ELSE [sem EXCEPT ![q] = @ + 1]
      /\ UNCHANGED <<g_workqueue_list, worker, work_list, work_current, wq, work_exit, armed, commands, callback>>
  BY DEF WorkGive, SemGive, works, timers
<1>2. PICK ret \in {"SUCCESS", "ERROR"} : caller' = [caller EXCEPT ![c].pc = "idle", ![c].ret = ret]
  BY DEF WorkGive
<1> DEFINE l == [caller[c] EXCEPT !.pc = "idle", !.ret = ret]
<1>3. caller[c] \in Locals
  BY DEF WorkInv, TypeOK
<1>4. l \in Locals
  BY LocalsOf DEF WorkInv
<1>5. l.pc = "idle"
  BY <1>3, SMTT(60) DEF Locals
<1>6. caller' = [caller EXCEPT ![c] = l]
  BY <1>2 DEF WorkInv, TypeOK
<1>7. Created(q) /\ q \in Queues
  BY <1>1 DEF WorkInv, Named, Created
<1> HIDE DEF l, q
<1>8. /\ caller' \in [Callers -> Locals] /\ caller'[c] = l
      /\ \A x \in Callers : x # c => caller'[x] = caller[x]
  BY <1>4, <1>6, CallerChange DEF WorkInv
<1>9. /\ sem' \in [Queues -> Nat \cup {NONE}] /\ \A x \in Queues : x # q => sem'[x] = sem[x]
      /\ sem[q] \in Nat => sem'[q] = sem[q] + 1
      /\ \A x \in Queues : sem[x] # NONE => sem'[x] # NONE
  <2>1. sem \in [Queues -> Nat \cup {NONE}] /\ NONE \notin Nat
    BY WorkAssumption DEF WorkInv, TypeOK
  <2>2. CASE sem[q] = NONE
    BY <1>1, <2>1, <2>2
  <2>3. CASE sem[q] # NONE
    <3>1. sem[q] \in Nat /\ sem[q] + 1 \in Nat
      BY <1>7, <2>1, <2>3, SMTT(60)
    <3> QED BY <1>1, <1>7, <2>1, <2>3, <3>1
  <2> QED BY <2>2, <2>3
<1>10. TypeOK'
  BY <1>1, <1>8, <1>9 DEF WorkInv, TypeOK
<1>11. Placed' /\ WaitsOnItsQueue'
  BY <1>1, ListsUnchanged
<1>12. ASSUME NEW x \in Queues, worker'[x] \in {"take", "taken", "handle"} PROVE Counted(x)'
  <2>1. Counted(x) /\ sem[x] \in Nat /\ Len(work_list[x]) \in Nat /\ Cardinality(Givers(x)) \in Nat
    BY <1>1, <1>12, CountNow
  <2>2. CASE x = q
    <3>1. Cardinality(Givers(x)) = Cardinality(Givers(x)') + 1 /\ Cardinality(Givers(x)') \in Nat
      BY <1>1, <1>4, <1>5, <1>6, <2>2, GiversChange DEF WorkInv, q
    <3>2. sem'[x] = sem[x] + 1
      BY <1>9, <2>1, <2>2
    <3> QED BY <1>1, <2>1, <3>1, <3>2, SMTT(60) DEF Counted
  <2>3. CASE x # q
    <3>1. Cardinality(Givers(x)') = Cardinality(Givers(x))
      BY <1>1, <1>4, <1>5, <1>6, <2>3, GiversChange DEF WorkInv, q
    <3> QED BY <1>1, <1>9, <2>1, <2>3, <3>1 DEF Counted
  <2> QED BY <2>2, <2>3
<1>13. \A x : Created(x) <=> Created(x)'
  BY <1>1 DEF Created
<1>14. Named'
  BY <1>1, <1>5, <1>8, <1>13 DEF WorkInv, Named
<1>15. Lives'
  BY <1>1, <1>5, <1>8, <1>9 DEF WorkInv, Lives
<1>16. PendingCounted'
  BY <1>12, CountThen
<1> QED BY <1>10, <1>11, <1>14, <1>15, <1>16 DEF WorkInv

-----------------------------------------------------------------------------
(* The workers and the timer task.                                          *)

\* A worker that is not deleted goes on, with a semaphore.
LEMMA WorkerLives ==
    ASSUME WorkInv, caller' = caller, NEW q \in Queues, worker[q] # "none", sem'[q] # NONE,
           \A x \in Queues : x # q => worker'[x] = worker[x] /\ sem'[x] = sem[x]
    PROVE  Lives'
<1>1. ASSUME NEW x \in Callers, caller[x].pc \in {"sem_del", "remove"} PROVE worker'[caller[x].q] = "none"
  <2>1. worker[caller[x].q] = "none" /\ caller[x].q \in Queues
    BY <1>1 DEF WorkInv, Lives, Named, Created
  <2> QED BY <2>1
<1>2. ASSUME NEW x \in Queues, worker'[x] \in {"take", "taken", "handle"} PROVE sem'[x] # NONE
  <2>1. CASE x = q
    BY <2>1
  <2>2. CASE x # q
    BY <1>2, <2>2 DEF WorkInv, Lives
  <2> QED BY <2>1, <2>2
<1> QED BY <1>1, <1>2 DEF WorkInv, Lives

\* A worker that takes its semaphore, or has run its work.
LEMMA WorkerTakeStep ==
    ASSUME WorkInv, NEW q \in Queues, WorkerTake(q)
    PROVE  WorkInv'
<1>1. /\ worker[q] = "take" /\ sem[q] # NONE /\ sem[q] > 0 /\ sem' = [sem EXCEPT ![q] = @ - 1]
      /\ worker' = [worker EXCEPT ![q] = "taken"] /\ caller' = caller
      /\ UNCHANGED <<g_workqueue_list, work_list, work_current, wq, work_exit, armed, commands, callback>>
  BY DEF WorkerTake, works, timers
<1>2. sem \in [Queues -> Nat \cup {NONE}] /\ NONE \notin Nat /\ sem[q] \in Nat
  BY <1>1, WorkAssumption DEF WorkInv, TypeOK
<1>3. sem[q] - 1 \in Nat
  BY <1>1, <1>2, SMTT(60)
<1>4. /\ sem' \in [Queues -> Nat \cup {NONE}] /\ \A x \in Queues : x # q => sem'[x] = sem[x]
      /\ sem'[q] = sem[q] - 1 /\ sem'[q] # NONE
  BY <1>1, <1>2, <1>3
<1>5. /\ worker' \in [Queues -> {"new", "take", "taken", "handle", "none"}]
      /\ worker'[q] = "taken" /\ \A x \in Queues : x # q => worker'[x] = worker[x]
  BY <1>1 DEF WorkInv, TypeOK
<1>6. TypeOK'
  BY <1>1, <1>4, <1>5 DEF WorkInv, TypeOK
<1>7. Placed' /\ WaitsOnItsQueue'
  BY <1>1, ListsUnchanged
<1>8. ASSUME NEW x \in Queues, worker'[x] \in {"take", "taken", "handle"} PROVE Counted(x)'
  <2>1. Counted(x) /\ sem[x] \in Nat /\ Len(work_list[x]) \in Nat /\ Cardinality(Givers(x)) \in Nat
    BY <1>1, <1>5, <1>8, CountNow
  <2>2. Givers(x)' = Givers(x)
    BY <1>1 DEF Givers
  <2>3. CASE x = q
    BY <1>1, <1>4, <1>5, <2>1, <2>2, <2>3, SMTT(60) DEF Counted
  <2>4. CASE x # q
    BY <1>1, <1>4, <1>5, <2>1, <2>2, <2>4 DEF Counted
  <2> QED BY <2>3, <2>4
<1>9. \A x : Created(x) <=> Created(x)'
  BY <1>1, <1>5 DEF Created
<1>10. Named'
  BY <1>1, <1>5, <1>9 DEF WorkInv, Named
<1>11. Lives'
  BY <1>1, <1>4, <1>5, WorkerLives
<1>12. PendingCounted'
  BY <1>8, CountThen
<1> QED BY <1>6, <1>7, <1>10, <1>11, <1>12 DEF WorkInv

\* The worker finds a work on its list, though it does not look.
LEMMA WorkerPickStep ==
    ASSUME WorkInv, NEW q \in Queues, WorkerPick(q)
    PROVE  WorkInv' /\ work_list[q] # <<>>
<1> DEFINE work == Head(work_list[q])
<1>1. /\ worker[q] = "taken" /\ worker' = [worker EXCEPT ![q] = "handle"] /\ caller' = caller
      /\ work_list' = [work_list EXCEPT ![q] = Tail(@)] /\ work_current' = [work_current EXCEPT ![q] = work]
      /\ work_exit' = [work_exit EXCEPT ![work] = FALSE]
      /\ UNCHANGED <<g_workqueue_list, sem, wq, armed, commands, callback>>
  BY DEF WorkerPick, timers
<1>2. Counted(q) /\ sem[q] \in Nat /\ Len(work_list[q]) \in Nat /\ Cardinality(Givers(q)) \in Nat
  BY <1>1, CountNow
<1>3. Len(work_list[q]) > 0
  BY <1>1, <1>2, SMTT(60) DEF Counted
<1>4. work_list[q] \in Seq(Works) /\ NoDup(work_list[q])
  BY DEF WorkInv, TypeOK, Placed
<1>5. work_list[q] # <<>> /\ Len(Tail(work_list[q])) = Len(work_list[q]) - 1
  BY <1>3, <1>4, SMTT(60)
<1>6. /\ work \in Works /\ Contains(work_list[q], work) /\ Tail(work_list[q]) \in Seq(Works) /\ NoDup(Tail(work_list[q]))
      /\ \A x : Contains(Tail(work_list[q]), x) <=> Contains(work_list[q], x) /\ x # work
  BY <1>4, <1>5, TailMembers
<1> HIDE DEF work
<1>7. /\ work_list' \in [Queues -> Seq(Works)] /\ work_list'[q] = Tail(work_list[q])
      /\ \A x \in Queues : x # q => work_list'[x] = work_list[x]
  BY <1>1, <1>6 DEF WorkInv, TypeOK
<1>8. /\ work_current' \in [Queues -> Works \cup {NONE}] /\ work_current'[q] = work
      /\ \A x \in Queues : x # q => work_current'[x] = work_current[x]
  BY <1>1, <1>6 DEF WorkInv, TypeOK
<1>9. /\ work_exit' \in [Works -> BOOLEAN] /\ ~work_exit'[work]
      /\ \A x \in Works : x # work => work_exit'[x] = work_exit[x]
  BY <1>1, <1>6 DEF WorkInv, TypeOK
<1>10. /\ worker' \in [Queues -> {"new", "take", "taken", "handle", "none"}]
       /\ worker'[q] = "handle" /\ \A x \in Queues : x # q => worker'[x] = worker[x]
  BY <1>1 DEF WorkInv, TypeOK
<1>11. TypeOK'
  BY <1>1, <1>7, <1>8, <1>9, <1>10 DEF WorkInv, TypeOK
<1>12. \A x \in Works, r \in Queues : Contains(work_list'[r], x) <=> Contains(work_list[r], x) /\ ~(x = work /\ r = q)
  BY <1>6, <1>7
<1>13. Placed'
  <2>1. \A r \in Queues : NoDup(work_list'[r])
    BY <1>6, <1>7 DEF WorkInv, Placed
  <2>2. \A x \in Works, r, t \in Queues : Contains(work_list[r], x) /\ Contains(work_list[t], x) => r = t
    BY DEF WorkInv, Placed
  <2>3. \A x \in Works, r, t \in Queues : Contains(work_list'[r], x) /\ Contains(work_list'[t], x) => r = t
    BY <1>12, <2>2
  <2>4. ASSUME NEW x \in Works PROVE work_exit'[x] <=> \E r \in Queues : Contains(work_list'[r], x)
    <3>1. CASE x = work
      BY <1>6, <1>9, <1>12, <2>2, <3>1
    <3>2. CASE x # work
      BY <1>9, <1>12, <3>2 DEF WorkInv, Placed
    <3> QED BY <3>1, <3>2
  <2> QED BY <2>1, <2>3, <2>4 DEF Placed
<1>14. WaitsOnItsQueue'
  BY <1>1, <1>8, <1>12 DEF WorkInv, WaitsOnItsQueue
<1>15. ASSUME NEW x \in Queues, worker'[x] \in {"take", "taken", "handle"} PROVE Counted(x)'
  <2>1. Counted(x) /\ sem[x] \in Nat /\ Len(work_list[x]) \in Nat /\ Cardinality(Givers(x)) \in Nat
    BY <1>1, <1>10, <1>15, CountNow
  <2>2. Givers(x)' = Givers(x)
    BY <1>1 DEF Givers
  <2>3. CASE x = q
    BY <1>1, <1>5, <1>7, <1>10, <2>1, <2>2, <2>3, SMTT(60) DEF Counted
  <2>4. CASE x # q
    BY <1>1, <1>7, <1>10, <2>1, <2>2, <2>4 DEF Counted
  <2> QED BY <2>3, <2>4
<1>16. \A x : Created(x) <=> Created(x)'
  BY <1>1, <1>10 DEF Created
<1>17. Named'
  BY <1>1, <1>7, <1>10, <1>16 DEF WorkInv, Named
<1>18. Lives'
  <2>1. sem'[q] # NONE
    BY <1>1 DEF WorkInv, Lives
  <2> QED BY <1>1, <1>10, <2>1, WorkerLives
<1>19. PendingCounted'
  BY <1>15, CountThen
<1> QED BY <1>5, <1>11, <1>13, <1>14, <1>17, <1>18, <1>19 DEF WorkInv

\* The worker is back from the handle of a work.
LEMMA WorkerDoneStep ==
    ASSUME WorkInv, NEW q \in Queues, WorkerDone(q)
    PROVE  WorkInv'
<1>1. /\ worker[q] = "handle" /\ worker' = [worker EXCEPT ![q] = "take"] /\ caller' = caller
      /\ work_current' = [work_current EXCEPT ![q] = NONE]
      /\ UNCHANGED <<g_workqueue_list, sem, work_list, wq, work_exit, armed, commands, callback>>
  BY DEF WorkerDone, timers
<1>2. /\ work_current' \in [Queues -> Works \cup {NONE}] /\ work_current'[q] = NONE
      /\ \A x \in Queues : x # q => work_current'[x] = work_current[x]
  BY <1>1 DEF WorkInv, TypeOK
<1>3. /\ worker' \in [Queues -> {"new", "take", "taken", "handle", "none"}]
      /\ worker'[q] = "take" /\ \A x \in Queues : x # q => worker'[x] = worker[x]
  BY <1>1 DEF WorkInv, TypeOK
<1>4. TypeOK'
  BY <1>1, <1>2, <1>3 DEF WorkInv, TypeOK
<1>5. Placed'
  BY <1>1 DEF WorkInv, Placed
<1>6. WaitsOnItsQueue'
  <2>1. \A x \in Works : x # NONE
    BY WorkAssumption
  <2> QED BY <1>1, <1>2, <2>1 DEF WorkInv, WaitsOnItsQueue
<1>7. ASSUME NEW x \in Queues, worker'[x] \in {"take", "taken", "handle"} PROVE Counted(x)'
  <2>1. Counted(x)
    BY <1>1, <1>3, <1>7, CountNow
  <2>2. Givers(x)' = Givers(x) /\ (worker'[x] = "taken" <=> worker[x] = "taken")
    BY <1>1, <1>3 DEF Givers
  <2> QED BY <1>1, <2>1, <2>2 DEF Counted
<1>8. \A x : Created(x) <=> Created(x)'
  BY <1>1, <1>3 DEF Created
<1>9. Named'
  BY <1>1, <1>3, <1>8 DEF WorkInv, Named
<1>10. Lives'
  <2>1. sem'[q] # NONE
    BY <1>1 DEF WorkInv, Lives
  <2> QED BY <1>1, <1>3, <2>1, WorkerLives
<1>11. PendingCounted'
  BY <1>7, CountThen
<1> QED BY <1>4, <1>5, <1>6, <1>9, <1>10, <1>11 DEF WorkInv

\* A queue that is created has no works, and nobody is about to give its semaphore.
LEMMA WorkqueueCreateStep ==
    ASSUME WorkInv, NEW q \in Queues, WorkqueueCreate(q)
    PROVE  WorkInv'
<1>1. /\ worker[q] = "new" /\ worker' = [worker EXCEPT ![q] = "take"] /\ caller' = caller
      /\ sem' = [sem EXCEPT ![q] = 0] /\ g_workqueue_list' = g_workqueue_list \cup {q}
      /\ UNCHANGED <<work_list, work_current, wq, work_exit, armed, commands, callback>>
  BY DEF WorkqueueCreate, timers, works
<1>2. /\ sem' \in [Queues -> Nat \cup {NONE}] /\ \A x \in Queues : x # q => sem'[x] = sem[x]
      /\ sem'[q] = 0 /\ sem'[q] # NONE
  <2>1. 0 \in Nat /\ NONE \notin Nat
    BY WorkAssumption
  <2> QED BY <1>1, <2>1 DEF WorkInv, TypeOK
<1>3. /\ worker' \in [Queues -> {"new", "take", "taken", "handle", "none"}]
      /\ worker'[q] = "take" /\ \A x \in Queues : x # q => worker'[x] = worker[x]
  BY <1>1 DEF WorkInv, TypeOK
<1>4. TypeOK'
  BY <1>1, <1>2, <1>3 DEF WorkInv, TypeOK
<1>5. Placed' /\ WaitsOnItsQueue'
  BY <1>1, ListsUnchanged
<1>6. ASSUME NEW x \in Queues, worker'[x] \in {"take", "taken", "handle"} PROVE Counted(x)'
  <2>1. Givers(x)' = Givers(x)
    BY <1>1 DEF Givers
  <2>2. CASE x = q
    <3>1. work_list[q] = <<>> /\ callback # q
      BY <1>1, WorkAssumption DEF WorkInv, Named, Created
    <3>2. Givers(q) = {}
      BY <1>1 DEF WorkInv, Named, Created, Givers
    <3>3. Len(work_list'[q]) = 0 /\ Cardinality(Givers(q)') = 0
      <4>1. Cardinality(Givers(q)') = 0
        BY <2>1, <2>2, <3>2, FS_EmptySet
      <4>2. Len(work_list'[q]) = 0
        BY <1>1, <3>1, SMTT(60)
      <4> QED BY <4>1, <4>2
    <3> QED BY <1>1, <1>2, <1>3, <2>2, <3>1, <3>3, SMTT(60) DEF Counted
  <2>3. CASE x # q
    <3>1. Counted(x)
      BY <1>3, <1>6, <2>3, CountNow
    <3> QED BY <1>1, <1>2, <1>3, <2>1, <2>3, <3>1 DEF Counted
  <2> QED BY <2>2, <2>3
<1>7. \A x : Created(x) => Created(x)'
  BY <1>1, <1>3 DEF Created
<1>8. Created(q)'
  BY <1>3 DEF Created
<1>9. Named'
  BY <1>1, <1>3, <1>7, <1>8 DEF WorkInv, Named
<1>10. Lives'
  BY <1>1, <1>2, <1>3, WorkerLives
<1>11. PendingCounted'
  BY <1>6, CountThen
<1> QED BY <1>4, <1>5, <1>9, <1>10, <1>11 DEF WorkInv

\* The timer task takes a command.
LEMMA TimerCommandStep == WorkInv /\ TimerCommand => WorkInv'
<1> SUFFICES ASSUME WorkInv, TimerCommand PROVE WorkInv'
  OBVIOUS
<1> DEFINE m == Head(commands)
<1>1. /\ commands # <<>> /\ commands' = Tail(commands) /\ armed' = [armed EXCEPT ![m.w] = m.q] /\ caller' = caller
      /\ UNCHANGED <<g_workqueue_list, sem, worker, work_list, work_current, wq, work_exit, callback>>
  BY DEF TimerCommand, queues, works
<1>2. commands \in Seq(Command) /\ Len(commands) <= MSG_NUM /\ MSG_NUM \in Nat
  BY WorkAssumption, SMTT(60) DEF WorkInv, TypeOK
<1>3. /\ Len(commands) \in Nat \ {0} /\ m = commands[1] /\ m \in Command
      /\ Tail(commands) \in Seq(Command) /\ Len(Tail(commands)) = Len(commands) - 1
      /\ \A i \in 1..(Len(commands) - 1) : Tail(commands)[i] = commands[i + 1]
  BY <1>1, <1>2, SMTT(60)
<1>4. m.w \in Works /\ m.q \in Queues \cup {NONE}
  BY <1>3, WorkAssumption DEF Command
<1>5. m.q # NONE => Created(m.q)
  <2>1. 1 \in 1..Len(commands)
    BY <1>3, SMTT(60)
  <2> QED BY <1>3, <2>1 DEF WorkInv, Named
<1> HIDE DEF m
<1>6. /\ armed' \in [Works -> Queues \cup {NONE}] /\ armed'[m.w] = m.q
      /\ \A x \in Works : x # m.w => armed'[x] = armed[x]
  BY <1>1, <1>4 DEF WorkInv, TypeOK
<1>7. commands' \in Seq(Command) /\ Len(commands') <= MSG_NUM
  BY <1>1, <1>2, <1>3, SMTT(60)
<1>8. TypeOK'
  BY <1>1, <1>6, <1>7 DEF WorkInv, TypeOK
<1>9. Placed' /\ WaitsOnItsQueue'
  BY <1>1, ListsUnchanged
<1>10. \A q : Givers(q)' = Givers(q) /\ (Created(q) <=> Created(q)')
  BY <1>1 DEF Givers, Created
<1>11. PendingCounted'
  BY <1>1, <1>10, CountsUnchanged
<1>12. \A i \in 1..Len(commands') : commands'[i].q # NONE => Created(commands'[i].q)
  <2>1. ASSUME NEW i \in 1..Len(commands') PROVE i + 1 \in 1..Len(commands) /\ commands'[i] = commands[i + 1]
    BY <1>1, <1>3, SMTT(60)
  <2> QED BY <2>1 DEF WorkInv, Named
<1>13. \A x \in Works : armed'[x] # NONE => Created(armed'[x])
  BY <1>5, <1>6 DEF WorkInv, Named
<1>14. Named'
  BY <1>1, <1>10, <1>12, <1>13 DEF WorkInv, Named
<1>15. Lives'
  BY <1>1 DEF WorkInv, Lives
<1> QED BY <1>8, <1>9, <1>11, <1>14, <1>15 DEF WorkInv

\* work_timer_cb puts its work on the list, and the timer task is the one to give.
LEMMA TimerFireStep ==
    ASSUME WorkInv, NEW w \in Works, TimerFire(w)
    PROVE  WorkInv'
<1> DEFINE q == armed[w]
<1>1. /\ callback = NONE /\ q # NONE /\ armed' = [armed EXCEPT ![w] = NONE] /\ caller' = caller
      /\ UNCHANGED <<g_workqueue_list, sem, worker, commands>>
  BY DEF TimerFire, queues
<1>2. Created(q) /\ q \in Queues
  BY <1>1 DEF WorkInv, Named, Created
<1>3. armed' \in [Works -> Queues \cup {NONE}] /\ \A x \in Works : armed'[x] # NONE => armed'[x] = armed[x]
  BY <1>1 DEF WorkInv, TypeOK
<1>4. \A x : Givers(x)' = Givers(x) /\ (Created(x) <=> Created(x)')
  BY <1>1 DEF Givers, Created
<1>5. Lives'
  BY <1>1 DEF WorkInv, Lives
<1>6. CASE UNCHANGED <<works, callback>>
  <2>1. UNCHANGED <<work_list, work_current, wq, work_exit, callback>>
    BY <1>6 DEF works
  <2>2. TypeOK'
    BY <1>1, <1>3, <2>1 DEF WorkInv, TypeOK
  <2>3. Placed' /\ WaitsOnItsQueue' /\ PendingCounted'
    BY <1>1, <1>4, <2>1, ListsUnchanged, CountsUnchanged
  <2>4. Named'
    BY <1>1, <1>3, <1>4, <2>1 DEF WorkInv, Named
  <2> QED BY <1>5, <2>2, <2>3, <2>4 DEF WorkInv
<1>7. CASE work_current[q] # w /\ ~work_exit[w] /\ Put(w, q) /\ callback' = q
  <2> HIDE DEF q
  <2>1. /\ Placed' /\ WaitsOnItsQueue' /\ work_list' \in [Queues -> Seq(Works)]
        /\ wq' \in [Works -> Queues \cup {NONE}] /\ work_exit' \in [Works -> BOOLEAN]
        /\ \A x \in Works : wq'[x] = IF x = w THEN q ELSE wq[x]
        /\ Len(work_list'[q]) = Len(work_list[q]) + 1
        /\ \A x \in Queues : x # q => work_list'[x] = work_list[x]
    BY <1>2, <1>7, PutStep
  <2>2. TypeOK'
    BY <1>1, <1>2, <1>3, <1>7, <2>1 DEF WorkInv, TypeOK, Put
  <2>3. ASSUME NEW x \in Queues, worker'[x] \in {"take", "taken", "handle"} PROVE Counted(x)'
    <3>1. Counted(x) /\ sem[x] \in Nat /\ Len(work_list[x]) \in Nat /\ Cardinality(Givers(x)) \in Nat
      BY <1>1, <2>3, CountNow
    <3>2. callback # x
      BY <1>1, WorkAssumption
    <3>3. CASE x = q
      BY <1>1, <1>4, <1>7, <2>1, <3>1, <3>2, <3>3, SMTT(60) DEF Counted
    <3>4. CASE x # q
      BY <1>1, <1>4, <1>7, <2>1, <3>1, <3>2, <3>4 DEF Counted
    <3> QED BY <3>3, <3>4
  <2>4. Named'
    <3>1. \A x \in Queues : worker[x] = "new" => work_list'[x] = <<>>
      BY <1>2, <2>1 DEF WorkInv, Named, Created
    <3>2. \A x \in Works : wq'[x] # NONE => Created(wq'[x])
      BY <1>2, <2>1 DEF WorkInv, Named
    <3> QED BY <1>1, <1>2, <1>3, <1>4, <1>7, <3>1, <3>2 DEF WorkInv, Named
  <2>5. PendingCounted'
    BY <2>3, CountThen
  <2> QED BY <1>5, <2>1, <2>2, <2>4, <2>5 DEF WorkInv
<1> QED BY <1>6, <1>7 DEF TimerFire

\* The callback of the timer gives the semaphore of the queue.
LEMMA TimerGiveStep == WorkInv /\ TimerGive => WorkInv'
<1> SUFFICES ASSUME WorkInv, TimerGive PROVE WorkInv'
  OBVIOUS
<1> DEFINE q == callback
<1>1. /\ q # NONE /\ sem' = (IF sem[q] = NONE THEN sem ELSE [sem EXCEPT ![q] = @ + 1]) /\ callback' = NONE
      /\ UNCHANGED <<g_workqueue_list, worker, work_list, work_current, wq, work_exit, armed, commands, caller>>
  BY DEF TimerGive, SemGive, works
<1>2. Created(q) /\ q \in Queues
  BY <1>1 DEF WorkInv, Named, Created
<1>3. /\ sem' \in [Queues -> Nat \cup {NONE}] /\ \A x \in Queues : x # q => sem'[x] = sem[x]
      /\ sem[q] \in Nat => sem'[q] = sem[q] + 1
      /\ \A x \in Queues : sem[x] # NONE => sem'[x] # NONE
  <2>1. sem \in [Queues -> Nat \cup {NONE}] /\ NONE \notin Nat
    BY WorkAssumption DEF WorkInv, TypeOK
  <2>2. CASE sem[q] = NONE
    BY <1>1, <2>1, <2>2
  <2>3. CASE sem[q] # NONE
    <3>1. sem[q] \in Nat /\ sem[q] + 1 \in Nat
      BY <1>2, <2>1, <2>3, SMTT(60)
    <3> QED BY <1>1, <1>2, <2>1, <2>3, <3>1
  <2> QED BY <2>2, <2>3
<1>4. TypeOK'
  BY <1>1, <1>3 DEF WorkInv, TypeOK
<1>5. Placed' /\ WaitsOnItsQueue'
  BY <1>1, ListsUnchanged
<1>6. \A x : Givers(x)' = Givers(x) /\ (Created(x) <=> Created(x)')
  BY <1>1 DEF Givers, Created
<1>7. ASSUME NEW x \in Queues, worker'[x] \in {"take", "taken", "handle"} PROVE Counted(x)'
  <2>1. Counted(x) /\ sem[x] \in Nat /\ Len(work_list[x]) \in Nat /\ Cardinality(Givers(x)) \in Nat
    BY <1>1, <1>7, CountNow
  <2>2. callback' # x
    BY <1>1, WorkAssumption
  <2>3. CASE x = q
    BY <1>1, <1>3, <1>6, <2>1, <2>2, <2>3, SMTT(60) DEF Counted
  <2>4. CASE x # q
    BY <1>1, <1>3, <1>6, <2>1, <2>2, <2>4 DEF Counted
  <2> QED BY <2>3, <2>4
<1>8. Named'
  BY <1>1, <1>6 DEF WorkInv, Named
<1>9. Lives'
  BY <1>1, <1>3 DEF WorkInv, Lives
<1>10. PendingCounted'
  BY <1>7, CountThen
<1> QED BY <1>4, <1>5, <1>8, <1>9, <1>10 DEF WorkInv

-----------------------------------------------------------------------------
(* The theorems.                                                            *)

\* Nothing is pending at the start, and no queue has been created.
LEMMA WorkInit == Init => WorkInv
<1> SUFFICES ASSUME Init PROVE WorkInv
  OBVIOUS
<1>1. \A x : ~Contains(<<>>, x)
  BY SMTT(60) DEF Contains
<1>2. NoDup(<<>>) /\ <<>> \in Seq(Works) /\ <<>> \in Seq(Command) /\ Len(<<>>) = 0 /\ 0 <= MSG_NUM /\ 1..0 = {}
  BY WorkAssumption, SMTT(60) DEF NoDup
<1>3. Idle(NONE) \in Locals /\ Idle(NONE).pc = "idle"
  BY DEF Idle, Locals
<1>4. TypeOK
  BY <1>2, <1>3 DEF Init, TypeOK
<1>5. Placed /\ WaitsOnItsQueue
  BY <1>1, <1>2 DEF Init, Placed, WaitsOnItsQueue
<1>6. PendingCounted
  BY DEF Init, PendingCounted
<1>7. Named /\ Lives
  BY <1>2, <1>3 DEF Init, Named, Lives
<1> QED BY <1>4, <1>5, <1>6, <1>7 DEF WorkInv

\* The invariant of the work queues holds between any two steps of the callers, the
\* workers and the timer task.
THEOREM WorkInvariance == Spec => []WorkInv
<1>1. WorkInv /\ [Next]_vars => WorkInv'
  <2> SUFFICES ASSUME WorkInv, [Next]_vars PROVE WorkInv'
    OBVIOUS
  <2>1. CASE \E q \in Queues : WorkqueueCreate(q) \/ Worker(q)
    BY <2>1, WorkqueueCreateStep, WorkerTakeStep, WorkerPickStep, WorkerDoneStep DEF Worker
  <2>2. CASE \E c \in Callers : Call(c) \/ Continue(c)
    <3>1. PICK c \in Callers : Call(c) \/ Continue(c)
      BY <2>2
    <3>2. CASE Call(c)
      BY <3>2, WorkqueueDelStep, WorkRunStep, WorkRunDelayedStep, WorkCancelStep DEF Call
    <3>3. CASE Continue(c)
      BY <3>3, DelTaskStep, DelSemStep, DelRemoveStep, WorkGiveStep, CancelWorkStep DEF Continue
    <3> QED BY <3>1, <3>2, <3>3
  <2>3. CASE Timer
    BY <2>3, TimerCommandStep, TimerGiveStep, TimerFireStep DEF Timer
  <2>4. CASE UNCHANGED vars
    <3>1. /\ UNCHANGED <<g_workqueue_list, sem, worker, work_list, work_current, wq, work_exit>>
          /\ UNCHANGED <<armed, commands, callback, caller>>
      BY <2>4 DEF vars, queues, works, timers
    <3>2. TypeOK' /\ Placed' /\ WaitsOnItsQueue'
      BY <3>1, ListsUnchanged DEF WorkInv, TypeOK
    <3>3. \A q : Givers(q)' = Givers(q) /\ (Created(q) <=> Created(q)')
      BY <3>1 DEF Givers, Created
    <3>4. PendingCounted'
      BY <3>1, <3>3, CountsUnchanged
    <3>5. Named' /\ Lives'
      BY <3>1, <3>3 DEF WorkInv, Named, Lives
    <3> QED BY <3>2, <3>4, <3>5 DEF WorkInv
  <2> QED BY <2>1, <2>2, <2>3, <2>4 DEF Next
<1> QED BY <1>1, WorkInit, PTL DEF Spec

\* work_exit says whether a work is on a list, and it is on one only and once.
THEOREM OnOneListThm == Spec => []OnOneList
<1>1. WorkInv => OnOneList
  <2> SUFFICES ASSUME WorkInv PROVE OnOneList
    OBVIOUS
  <2>1. ASSUME NEW w \in Works
        PROVE  Cardinality({q \in Queues : Contains(work_list[q], w)}) = IF work_exit[w] THEN 1 ELSE 0
    <3> DEFINE on == {q \in Queues : Contains(work_list[q], w)}
    <3>1. CASE work_exit[w]
      <4>1. PICK q \in Queues : Contains(work_list[q], w)
        BY <3>1 DEF WorkInv, Placed
      <4>2. \A r \in Queues : Contains(work_list[r], w) => r = q
        BY <4>1 DEF WorkInv, Placed
      <4>3. on = {q}
        BY <4>1, <4>2
      <4> QED BY <3>1, <4>3, FS_Singleton
    <3>2. CASE ~work_exit[w]
      <4>1. on = {}
        BY <3>2 DEF WorkInv, Placed
      <4> QED BY <3>2, <4>1, FS_EmptySet
    <3> QED BY <3>1, <3>2
  <2> QED BY <2>1 DEF OnOneList, WorkInv, Placed
<1> QED BY <1>1, WorkInvariance, PTL

\* A work on a list is on that of the queue its wq names, which does not run it:
\* krhino_work_run, work_timer_cb and krhino_work_cancel test work_current and
\* work_exit in the critical section that moves the work.
THEOREM WaitsOnItsQueueThm == Spec => []WaitsOnItsQueue
<1>1. WorkInv => WaitsOnItsQueue
  BY DEF WorkInv
<1> QED BY <1>1, WorkInvariance, PTL

\* The semaphore of a queue counts the works on its list.
THEOREM PendingCountedThm == Spec => []PendingCounted
<1>1. WorkInv => PendingCounted
  BY DEF WorkInv
<1> QED BY <1>1, WorkInvariance, PTL

\* So worker_task, which does not look whether its list is empty before it takes the
\* first entry, always finds one.
WorkerFindsWork == \A q \in Queues : worker[q] = "taken" => work_list[q] # <<>>

\* A worker that has taken its semaphore finds a work on its list.
THEOREM WorkerFindsWorkThm == Spec => []WorkerFindsWork
<1>1. WorkInv => WorkerFindsWork
  <2> SUFFICES ASSUME WorkInv, NEW q \in Queues, worker[q] = "taken" PROVE work_list[q] # <<>>
    BY DEF WorkerFindsWork
  <2>1. Counted(q) /\ sem[q] \in Nat /\ Len(work_list[q]) \in Nat /\ Cardinality(Givers(q)) \in Nat
    BY CountNow
  <2>2. Len(work_list[q]) > 0
    BY <2>1, SMTT(60) DEF Counted
  <2>3. work_list[q] \in Seq(Works)
    BY DEF WorkInv, TypeOK
  <2> QED BY <2>2, <2>3, SMTT(60)
<1> QED BY <1>1, WorkInvariance, PTL
=============================================================================
