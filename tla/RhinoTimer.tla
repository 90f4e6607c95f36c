----------------------------- MODULE RhinoTimer -----------------------------
(***************************************************************************)
(* The software timers of k_timer.c: krhino_timer_* calls send commands    *)
(* through a block pool and a message queue to the timer task, which       *)
(* alone touches the timers and runs their callbacks.                      *)
(*                                                                         *)
(* All times are kept relative to the present, so that time never ends: a  *)
(* timer is due in match ticks, and age is the time since g_timer_count    *)
(* was read.  A callback takes no step of its own; what it sends is sent   *)
(* by a task of Senders.                                                   *)
(***************************************************************************)
EXTENDS Integers, RhinoList, Sequences, FiniteSets

CONSTANTS Timers, Senders, NONE,
          Delays,    \* ticks that a call asks for
          Rounds,    \* periods that a call asks for, 0 for a timer that fires once
          Uses,      \* the applications: the calls that one makes, the delay and period that it
                     \* may give each timer, and whether the timer task always runs before the
                     \* next tick, as it does when nothing above its priority takes long
          MSG_NUM,   \* RHINO_CONFIG_TIMER_MSG_NUM: messages and blocks
          LATE_MAX   \* ticks that pass at most while the timer task uses g_timer_count

Cmds == {"START", "STOP", "CHG", "AUTO", "DEL"}

\* k_timer_queue_cb, with the arguments of krhino_timer_change
Message == [cmd : Cmds, timer : Timers, first : Delays \cup {0}, round : Rounds \cup {0}]

ASSUME TimerAssumption ==
    /\ MSG_NUM \in Nat \ {0} /\ LATE_MAX \in Nat /\ NONE \notin Timers \cup Message
    /\ Delays \subseteq Nat \ {0} /\ Rounds \subseteq Nat /\ IsFiniteSet(Senders)
    /\ Uses \subseteq [cmds : SUBSET Cmds, timers : [Timers -> SUBSET (Delays \X Rounds)],
                      punctual : BOOLEAN]

VARIABLES
    g_timer_head,   \* the list of active timers
    timer,          \* per timer: obj_type, timer_state, init_count, round_ticks and match
    age,            \* ticks since the timer task has read g_timer_count
    g_timer_queue,  \* messages sent and not received
    g_timer_pool,   \* blocks that are free
    block,          \* per sender: the command in the block that it has allocated
    task,           \* the timer task: where it is, the message it has received, the ticks
                    \* its wait has left, and the timer it looks at
    use             \* the application, which is one of Uses

vars == <<g_timer_head, timer, age, g_timer_queue, g_timer_pool, block, task, use>>

Msgs ==
    {m \in Message : /\ m.cmd \in use.cmds
                     /\ \/ m.first = 0 /\ m.round = 0
                        \/ m.cmd = "CHG" /\ <<m.first, m.round>> \in use.timers[m.timer]}
Unused == [obj_type |-> FALSE, state |-> "DEACTIVE", init_count |-> 1, round_ticks |-> 0, match |-> 0]
TaskAt(p) == [pc |-> p, msg |-> NONE, wait |-> 0, q |-> NONE]

\* A timer that is late by more than any age stays so: no test tells more.
Passed(n) == IF n > -(LATE_MAX + 1) THEN n - 1 ELSE n

-----------------------------------------------------------------------------
(* The list of timers.                                                      *)

\* match - g_timer_count as an unsigned number: greater than any period when the
\* timer is overdue
Exceeds(m, val) == m + age < 0 \/ m + age > val

\* Mutant: the list is not sorted
TimerListAppend(l, tm, t, val) == Append(l, t)

\* timer_list_pri_insert of a timer due val ticks after g_timer_count
TimerListPriInsert(l, tm, t, val) ==
    LET Later(x) == Exceeds(tm[x].match, val)
    IN  KlistInsert(l, FirstOr(l, Later), t)

\* The start of a timer, due val ticks after g_timer_count, and its end: the match
\* of a timer that is not active is never read.
Started(tm, t, val) == [tm EXCEPT ![t] = [@ EXCEPT !.match = val - age, !.state = "ACTIVE"]]
Stopped(tm, t) == [tm EXCEPT ![t] = [@ EXCEPT !.match = 0, !.state = "DEACTIVE"]]

-----------------------------------------------------------------------------
(* The calls.                                                               *)

\* timer_create; krhino_timer_start follows when auto_run is set
TimerCreate(t) ==
    /\ ~timer[t].obj_type
    /\ \E p \in use.timers[t] :
          timer' = [timer EXCEPT ![t] = [Unused EXCEPT !.obj_type = TRUE, !.init_count = p[1], !.round_ticks = p[2]]]
    /\ UNCHANGED <<g_timer_head, age, g_timer_queue, g_timer_pool, block, task, use>>

\* Mutant: a block although none is free
SendAllocUntested(s) ==
    /\ block[s] = NONE /\ g_timer_pool' = g_timer_pool - 1
    /\ \E m \in Msgs : timer[m.timer].obj_type /\ block' = [block EXCEPT ![s] = m]
    /\ UNCHANGED <<g_timer_head, timer, age, g_timer_queue, task, use>>

\* krhino_timer_start, stop, change, arg_change_auto and del: a block from the pool
SendAlloc(s) ==
    /\ block[s] = NONE /\ g_timer_pool > 0 /\ g_timer_pool' = g_timer_pool - 1
    /\ \E m \in Msgs : timer[m.timer].obj_type /\ block' = [block EXCEPT ![s] = m]
    /\ UNCHANGED <<g_timer_head, timer, age, g_timer_queue, task, use>>

\* krhino_queue_back_send: to the timer task when it waits, to the queue when it
\* has room, and otherwise the block is freed again
Waits == task.pc \in {"recv", "recv_delta"}
SendMsg(s) ==
    /\ block[s] # NONE /\ block' = [block EXCEPT ![s] = NONE]
    /\ IF Waits
       THEN /\ task' = [task EXCEPT !.pc = IF @ = "recv" THEN "msg" ELSE "msg_delta", !.msg = block[s], !.wait = 0]
            /\ UNCHANGED <<g_timer_queue, g_timer_pool>>
       ELSE IF Len(g_timer_queue) < MSG_NUM
       THEN g_timer_queue' = Append(g_timer_queue, block[s]) /\ UNCHANGED <<g_timer_pool, task>>
       ELSE g_timer_pool' = g_timer_pool + 1 /\ UNCHANGED <<g_timer_queue, task>>
    /\ UNCHANGED <<g_timer_head, timer, age, use>>

-----------------------------------------------------------------------------
(* The timer task.                                                          *)

\* Mutant: a wait that is a tick too long
QueueRecvLonger(blocked, received, n) ==
    IF g_timer_queue # <<>>
    THEN task' = [TaskAt(received) EXCEPT !.msg = Head(g_timer_queue)] /\ g_timer_queue' = Tail(g_timer_queue)
    ELSE task' = [TaskAt(blocked) EXCEPT !.wait = n + 1] /\ UNCHANGED g_timer_queue

\* krhino_queue_recv: the first message, or a wait of n ticks
QueueRecv(blocked, received, n) ==
    IF g_timer_queue # <<>>
    THEN /\ task' = [TaskAt(received) EXCEPT !.msg = Head(g_timer_queue)]
         /\ g_timer_queue' = Tail(g_timer_queue)
    ELSE task' = [TaskAt(blocked) EXCEPT !.wait = n] /\ UNCHANGED g_timer_queue

\* The end of both loops: a wait for a message when no timer is active, until the
\* first timer is due when one is, and its callback at once when it is due.
Loop ==
    LET delta == timer[Head(g_timer_head)].match
    IN
    /\ task.pc = "loop"
    /\ \/ g_timer_head = <<>> /\ QueueRecv("recv", "msg", 0) /\ UNCHANGED age
       \/ g_timer_head # <<>> /\ delta > 0 /\ QueueRecv("recv_delta", "msg_delta", delta) /\ UNCHANGED age
       \/ /\ g_timer_head # <<>> /\ delta <= 0 /\ age' = 0
          /\ task' = [TaskAt("cb") EXCEPT !.q = Head(g_timer_head)] /\ UNCHANGED g_timer_queue
    /\ UNCHANGED <<g_timer_head, timer, g_timer_pool, block, use>>

\* Mutant: the block is not freed
ReceivedKeepsBlock ==
    /\ task.pc \in {"msg", "msg_delta"} /\ age' = 0
    /\ task' = [task EXCEPT !.pc = IF @ = "msg" THEN "cmd" ELSE "cmd_delta"]
    /\ UNCHANGED <<g_timer_head, timer, g_timer_queue, g_timer_pool, block, use>>

\* The task reads g_timer_count, takes a copy of the message and frees its block.
Received ==
    /\ task.pc \in {"msg", "msg_delta"} /\ age' = 0 /\ g_timer_pool' = g_timer_pool + 1
    /\ task' = [task EXCEPT !.pc = IF @ = "msg" THEN "cmd" ELSE "cmd_delta"]
    /\ UNCHANGED <<g_timer_head, timer, g_timer_queue, block, use>>

TimedOut ==
    /\ task.pc = "timeout" /\ age' = 0
    /\ task' = [TaskAt("cb") EXCEPT !.q = Head(g_timer_head)]
    /\ UNCHANGED <<g_timer_head, timer, g_timer_queue, g_timer_pool, block, use>>

\* cmd_proc: the list and the timers after a command
Active(tm, t) == tm[t].state = "ACTIVE"
AfterStop(l, tm, t) == IF tm[t].obj_type /\ Active(tm, t) THEN <<KlistRm(l, t), Stopped(tm, t)>> ELSE <<l, tm>>

\* Mutant: a timer that is active is started again
AfterStartAgain(l, tm, t) ==
    IF tm[t].obj_type
    THEN <<TimerListPriInsert(l, tm, t, tm[t].init_count), Started(tm, t, tm[t].init_count)>> ELSE <<l, tm>>
AfterStart(l, tm, t) ==
    LET n == tm[t].init_count
    IN  IF tm[t].obj_type /\ ~Active(tm, t)
        THEN <<TimerListPriInsert(l, tm, t, n), Started(tm, t, n)>> ELSE <<l, tm>>
AfterCmd(l, tm, m) ==
    LET t == m.timer
        idle == tm[t].obj_type /\ ~Active(tm, t)
        stopped == AfterStop(l, tm, t)
    IN  CASE m.cmd = "START" -> AfterStart(l, tm, t)
          [] m.cmd = "STOP"  -> stopped
          [] m.cmd = "CHG"   -> <<l, IF m.first # 0 /\ idle THEN [tm EXCEPT ![t] = [@ EXCEPT !.init_count = m.first, !.round_ticks = m.round]] ELSE tm>>
          [] m.cmd = "AUTO"  -> AfterStart(stopped[1], stopped[2], t)
          [] m.cmd = "DEL"   -> <<l, IF idle THEN [tm EXCEPT ![t] = Unused] ELSE tm>>

\* g_timer_count is read again before it is used again
Forget == age' = IF task'.pc = "loop" THEN 0 ELSE age

\* timer_cmd_proc, and the callbacks after it when the task was waiting for a timer
TimerCmdProc ==
    LET after == AfterCmd(g_timer_head, timer, task.msg)
    IN
    /\ task.pc \in {"cmd", "cmd_delta"} /\ g_timer_head' = after[1] /\ timer' = after[2]
    /\ task' = IF task.pc = "cmd" \/ after[1] = <<>> THEN TaskAt("loop") ELSE [TaskAt("cb") EXCEPT !.q = Head(after[1])]
    /\ Forget /\ UNCHANGED <<g_timer_queue, g_timer_pool, block, use>>

\* Mutant: the loop of timer_cb_proc ends after a callback
NextNone(l, t) == NONE

\* The timer after t in a list, NONE at its end
Next1(l, t) == LET k == CHOOSE i \in 1..Len(l) : l[i] = t IN IF k = Len(l) THEN NONE ELSE l[k + 1]

\* One round of the loop of timer_cb_proc: the callback of a timer that is due,
\* which is then removed or put back.  klist_rm leaves the links of the timer, so
\* the loop goes on after the place where the timer was, or where it is now.
TimerCbProc ==
    LET t == task.q
        rest == KlistRm(g_timer_head, t)
        again == timer[t].round_ticks
        list == IF again > 0 THEN TimerListPriInsert(rest, timer, t, again) ELSE rest
        next == IF again > 0 THEN Next1(list, t) ELSE Next1(g_timer_head, t)
    IN
    /\ task.pc = "cb"
    /\ \/ /\ timer[t].match + age <= 0 /\ g_timer_head' = list
          /\ timer' = IF again > 0 THEN Started(timer, t, again) ELSE Stopped(timer, t)
          /\ task' = IF next = NONE THEN TaskAt("loop") ELSE [TaskAt("cb") EXCEPT !.q = next]
       \/ timer[t].match + age > 0 /\ task' = TaskAt("loop") /\ UNCHANGED <<g_timer_head, timer>>
    /\ Forget /\ UNCHANGED <<g_timer_queue, g_timer_pool, block, use>>

\* A tick: it ends the wait of the timer task when its time is over.
Counting == task.pc \in {"cmd", "cmd_delta", "cb"}
Tick ==
    /\ use.punctual => Waits
    /\ Counting => age < LATE_MAX
    /\ age' = IF Counting THEN age + 1 ELSE age
    /\ timer' = [t \in Timers |-> IF Active(timer, t) THEN [timer[t] EXCEPT !.match = Passed(@)] ELSE timer[t]]
    /\ task' = IF task.pc # "recv_delta" THEN task
               ELSE IF task.wait = 1 THEN TaskAt("timeout") ELSE [task EXCEPT !.wait = @ - 1]
    /\ UNCHANGED <<g_timer_head, g_timer_queue, g_timer_pool, block, use>>

Init ==
    /\ g_timer_head = <<>> /\ timer = [t \in Timers |-> Unused] /\ age = 0
    /\ g_timer_queue = <<>> /\ g_timer_pool = MSG_NUM
    /\ block = [s \in Senders |-> NONE] /\ task = TaskAt("loop") /\ use \in Uses

TimerTask == Loop \/ Received \/ TimedOut \/ TimerCmdProc \/ TimerCbProc
Next == (\E t \in Timers : TimerCreate(t)) \/ (\E s \in Senders : SendAlloc(s) \/ SendMsg(s)) \/ TimerTask \/ Tick

Spec == Init /\ [][Next]_vars

\* The timer task is scheduled when it can run: RHINO_CONFIG_TIMER_TASK_PRI, 5, is a
\* higher priority than those of the tasks of the application.  The tick goes on.
LiveSpec == Spec /\ WF_vars(TimerTask) /\ WF_vars(Tick)

-----------------------------------------------------------------------------
\* The type invariant of the timers
Control == [obj_type : BOOLEAN, state : {"ACTIVE", "DEACTIVE"}, init_count : Nat \ {0}, round_ticks : Nat, match : Int]
Locals == [pc : {"loop", "recv", "recv_delta", "msg", "msg_delta", "cmd", "cmd_delta", "timeout", "cb"},
           msg : Message \cup {NONE}, wait : Nat, q : Timers \cup {NONE}]
TypeOK ==
    /\ g_timer_head \in Seq(Timers) /\ timer \in [Timers -> Control] /\ age \in 0..LATE_MAX
    /\ g_timer_queue \in Seq(Message) /\ g_timer_pool \in 0..MSG_NUM
    /\ block \in [Senders -> Message \cup {NONE}] /\ task \in Locals /\ use \in Uses

\* timer_state says whether a timer is on the list, once, whatever commands cross
\* its callback: a timer that krhino_timer_del has deleted is on no list.
ListMatchesState ==
    /\ NoDup(g_timer_head)
    /\ \A t \in Timers : /\ Contains(g_timer_head, t) <=> Active(timer, t)
                         /\ Active(timer, t) => timer[t].obj_type

\* No block is lost: each is free, in the queue, or in the hands of one task.  So a
\* call that gets a block finds room in the queue, and its command is not dropped.
BlocksConserved ==
    LET held == Cardinality({s \in Senders : block[s] # NONE}) + IF task.pc \in {"msg", "msg_delta"} THEN 1 ELSE 0
    IN  g_timer_pool + Len(g_timer_queue) + held = MSG_NUM

\* timer_list_pri_insert keeps the list sorted by the time that is left, as long as
\* the timer task runs before the next tick.
SortedByRemain == use.punctual =>
    \A i, j \in 1..Len(g_timer_head) : i < j => timer[g_timer_head[i]].match <= timer[g_timer_head[j]].match

\* When the timer task runs before the next tick, no timer is ever a tick late:
\* not the ones that timer_cb_proc skips when it goes on from a timer it has moved.
FiresOnTime == use.punctual => \A t \in Timers : Active(timer, t) => timer[t].match >= 0

\* Where the timer task is: with a message, at a timer of the list, or in a wait
\* that a timer ends.  Outside its loops it has still to read g_timer_count.
TaskInv ==
    /\ task.pc \in {"msg", "msg_delta", "cmd", "cmd_delta"} => task.msg # NONE
    /\ task.pc = "cb" => Contains(g_timer_head, task.q)
    /\ task.pc \in {"recv_delta", "timeout"} => g_timer_head # <<>>
    /\ task.pc = "recv_delta" => task.wait > 0
    /\ ~Counting => age = 0

\* A timer task that runs before the next tick waits for no longer than the first
\* timer of the list.
WaitInv == use.punctual =>
    /\ age = 0
    /\ task.pc = "recv" => g_timer_head = <<>>
    /\ task.pc = "recv_delta" => task.wait = timer[Head(g_timer_head)].match

\* What holds after every step of the timer task, also inside timer_cb_proc and
\* between the two steps in which krhino_timer_start and the others send a command.
TimerInv ==
    TypeOK /\ ListMatchesState /\ BlocksConserved /\ TaskInv /\ SortedByRemain /\ FiresOnTime /\ WaitInv

\* The timer task is about to call a timer back, and to start a timer: after
\* krhino_timer_start, or krhino_timer_arg_change_auto, which starts an active timer anew
CallsBack(t) == task.pc = "cb" /\ task.q = t /\ timer[t].match + age <= 0
Starts ==
    /\ task.pc \in {"cmd", "cmd_delta"} /\ timer[task.msg.timer].obj_type
    /\ \/ task.msg.cmd = "AUTO"
       \/ task.msg.cmd = "START" /\ ~Active(timer, task.msg.timer)

\* A timer that is due is called back, or stopped, unless a timer is started: however
\* late the timer task is, and though the unsigned difference of timer_list_pri_insert
\* puts timers that fire again before an overdue one, where the loop of timer_cb_proc
\* ends.  (Timers that are started in turn can keep an overdue one waiting for ever.)
CallbackRuns == \A t \in Timers :
    Active(timer, t) /\ timer[t].match <= 0 ~> CallsBack(t) \/ ~Active(timer, t) \/ Starts
=============================================================================
