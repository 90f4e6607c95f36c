----------------------------- MODULE RhinoQueue -----------------------------
(***************************************************************************)
(* The queues of k_queue.c and the buffer queues of k_buf_queue.c.  The    *)
(* ring buffer under them is the sequence of messages that RingBuf is      *)
(* shown to implement.  A message is its number in the order of sending.   *)
(* Tasks receive; tasks and interrupt handlers send.  Each critical        *)
(* section is an action.                                                   *)
(***************************************************************************)
EXTENDS RhinoList, FiniteSets

CONSTANTS
    Tasks, PRIO,  \* the receivers and their priorities
    Uses,         \* the queues: whether one is a buffer queue or a queue of pointers (buf), and
                  \* whether messages are sent to its front (front) and to all waiters (all)
    SIZE, BYTES,  \* msg_num of a queue, bytes of a buffer queue
    BytesOf(_),   \* bytes a message takes in a buffer queue, its length included
    SEND_MAX,     \* messages sent in a behaviour
    NULL

ASSUME QueueAssumption ==
    /\ PRIO \in [Tasks -> Nat] /\ {SIZE, BYTES} \subseteq Nat \ {0} /\ SEND_MAX \in Nat
    /\ Uses \subseteq [buf : BOOLEAN, front : BOOLEAN, all : BOOLEAN] /\ NULL \notin 1..SEND_MAX

VARIABLES
    use,        \* which of the queues it is
    obj_type,   \* "queue", "none", or "early" before buf_queue_create has set up the ring
    ringbuf, cur_num,
    blk_list,   \* waiting receivers
    pc,         \* of a task: "run", or "recv" from blocking on the queue to the return, or "deleted"
    blk_state,  \* of a task
    task_msg,   \* ktask_t.msg, or the bytes it points to
    sent,       \* messages sent so far
    got,        \* of a task: the messages its calls have returned, in this order
    dropped     \* messages that went with a flush, the queue or a task

storeVars == <<ringbuf, cur_num>>
pendVars == <<blk_list, blk_state>>
vars == <<use, obj_type, storeVars, pendVars, pc, task_msg, sent, got, dropped>>

BytesIn(s) ==
    LET upTo[i \in 0..Len(s)] == IF i = 0 THEN 0 ELSE upTo[i - 1] + BytesOf(s[i])
    IN  upTo[Len(s)]

-----------------------------------------------------------------------------
(* Sending.                                                                 *)

\* ringbuf_push fails without room; a queue counts its messages instead
HasRoom(m) == IF use.buf THEN BytesIn(ringbuf) + BytesOf(m) <= BYTES ELSE cur_num < SIZE

Store(m, front) ==
    /\ blk_list = <<>> /\ HasRoom(m)
    /\ ringbuf' = IF front THEN <<m>> \o ringbuf ELSE Append(ringbuf, m)
    /\ cur_num' = cur_num + 1
    /\ UNCHANGED <<pendVars, task_msg>>

\* pend_task_wakeup and pend_task_rm: the tasks leave the waiting list, where the others stay.
Wake(ts, others, st) ==
    /\ blk_list' = others
    /\ blk_state' = [t \in Tasks |-> IF t \in ts THEN st ELSE blk_state[t]]

\* The message goes to the first waiter or to all of them, past the ring buffer.
\* The mutant also keeps the message in the ring buffer.
HandOverAndStore(m, all) ==
    LET ts == IF all THEN ToSet(blk_list) ELSE {Head(blk_list)} IN
    /\ blk_list # <<>> /\ (use.buf \/ HasRoom(m))
    /\ Wake(ts, IF all THEN <<>> ELSE Tail(blk_list), "FINISH")
    /\ task_msg' = [t \in Tasks |-> IF t \in ts THEN m ELSE task_msg[t]]
    /\ ringbuf' = Append(ringbuf, m) /\ cur_num' = cur_num + 1
HandOver(m, all) ==
    LET ts == IF all THEN ToSet(blk_list) ELSE {Head(blk_list)} IN
    /\ blk_list # <<>> /\ (use.buf \/ HasRoom(m))
    /\ Wake(ts, IF all THEN <<>> ELSE Tail(blk_list), "FINISH")
    /\ task_msg' = [t \in Tasks |-> IF t \in ts THEN m ELSE task_msg[t]]
    /\ UNCHANGED storeVars

\* msg_send and buf_queue_send, by a task or an interrupt handler
MsgSend(front, all) ==
    /\ obj_type # "none" /\ sent < SEND_MAX
    /\ sent' = sent + 1
    /\ Store(sent', front) \/ HandOver(sent', all)
    /\ UNCHANGED <<use, obj_type, pc, got, dropped>>

-----------------------------------------------------------------------------
(* Receiving.                                                               *)

\* A queue asks its counter, a buffer queue its ring
IsEmpty == IF use.buf THEN ringbuf = <<>> ELSE cur_num = 0

\* The result of ringbuf_pop is not looked at; the mutant takes the last message
PopLast(t) ==
    /\ ringbuf' = SubSeq(ringbuf, 1, Len(ringbuf) - 1)
    /\ got' = IF ringbuf = <<>> THEN got ELSE [got EXCEPT ![t] = Append(@, ringbuf[Len(ringbuf)])]
Pop(t) ==
    /\ ringbuf' = SubSeq(ringbuf, 2, Len(ringbuf))
    /\ got' = IF ringbuf = <<>> THEN got ELSE [got EXCEPT ![t] = Append(@, ringbuf[1])]

RecvNow(t) ==
    /\ obj_type # "none" /\ pc[t] = "run" /\ ~IsEmpty
    /\ Pop(t) /\ cur_num' = cur_num - 1
    /\ UNCHANGED <<use, obj_type, pendVars, pc, task_msg, sent, dropped>>

\* pend_to_blk_obj, sorted by priority; the mutant does not look for messages first
RecvPendAlways(t) ==
    /\ obj_type # "none" /\ pc[t] = "run"
    /\ blk_list' = PendListAdd(blk_list, t, PRIO)
    /\ pc' = [pc EXCEPT ![t] = "recv"]
    /\ UNCHANGED <<use, obj_type, storeVars, blk_state, task_msg, sent, got, dropped>>
RecvPend(t) == IsEmpty /\ RecvPendAlways(t)

\* The tick handler finds the time-out of a waiter expired
TimeOut(t) ==
    /\ Contains(blk_list, t) /\ Wake({t}, KlistRm(blk_list, t), "TIMEOUT")
    /\ UNCHANGED <<use, obj_type, storeVars, pc, task_msg, sent, got, dropped>>

\* pend_state_end_proc and the end of the call
HasMsg(t) == blk_state[t] = "FINISH"
RecvReturn(t) ==
    /\ pc[t] = "recv" /\ ~Contains(blk_list, t)
    /\ got' = IF HasMsg(t) THEN [got EXCEPT ![t] = Append(@, task_msg[t])] ELSE got
    /\ pc' = [pc EXCEPT ![t] = "run"]
    /\ UNCHANGED <<use, obj_type, storeVars, pendVars, task_msg, sent, dropped>>

\* krhino_task_del of a receiver, which is taken off the waiting list; a message
\* it was given and has not returned goes with it
TaskDel(t) ==
    /\ pc[t] = "recv"
    /\ pc' = [pc EXCEPT ![t] = "deleted"]
    /\ blk_list' = KlistRm(blk_list, t)
    /\ dropped' = dropped \cup (IF ~Contains(blk_list, t) /\ blk_state[t] = "FINISH" THEN {task_msg[t]} ELSE {})
    /\ UNCHANGED <<use, obj_type, storeVars, blk_state, task_msg, sent, got>>

-----------------------------------------------------------------------------
(* The object.                                                              *)

\* ringbuf_reset
DropAll == ringbuf' = <<>> /\ dropped' = dropped \cup ToSet(ringbuf)

\* The mutant does not clear the counter
FlushRing ==
    /\ obj_type # "none" /\ DropAll
    /\ UNCHANGED <<use, obj_type, cur_num, pendVars, pc, task_msg, sent, got>>
Flush ==
    /\ obj_type # "none" /\ DropAll /\ cur_num' = 0
    /\ UNCHANGED <<use, obj_type, pendVars, pc, task_msg, sent, got>>

\* krhino_queue_del leaves cur_num.  Nobody deletes a queue whose creation is not
\* finished.
Del ==
    /\ obj_type = "queue" /\ obj_type' = "none"
    /\ Wake(ToSet(blk_list), <<>>, "DEL") /\ DropAll
    /\ UNCHANGED <<use, cur_num, pc, task_msg, sent, got>>

\* queue_create gives the queue its type when all is set up, buf_queue_create
\* before it initialises the ring, in RingInit
Create ==
    /\ obj_type = "none" /\ obj_type' = IF use.buf THEN "early" ELSE "queue"
    /\ cur_num' = 0
    /\ UNCHANGED <<use, ringbuf, pendVars, pc, task_msg, sent, got, dropped>>
RingInit ==
    /\ obj_type = "early" /\ obj_type' = "queue" /\ DropAll
    /\ UNCHANGED <<use, cur_num, pendVars, pc, task_msg, sent, got>>

Init ==
    /\ use \in Uses
    /\ obj_type = "queue" /\ ringbuf = <<>> /\ cur_num = 0 /\ blk_list = <<>>
    /\ pc = [t \in Tasks |-> "run"] /\ blk_state = [t \in Tasks |-> "FINISH"]
    /\ task_msg = [t \in Tasks |-> NULL]
    /\ sent = 0 /\ got = [t \in Tasks |-> <<>>] /\ dropped = {}

Next ==
    \/ \E front \in {FALSE, use.front}, all \in {FALSE, use.all} : MsgSend(front, all)
    \/ \E t \in Tasks : RecvNow(t) \/ RecvPend(t) \/ TimeOut(t) \/ RecvReturn(t) \/ TaskDel(t)
    \/ Flush \/ Del \/ Create \/ RingInit

Spec == Init /\ [][Next]_vars

-----------------------------------------------------------------------------
(* Properties.                                                              *)

\* Where a message is in a sequence, the message with which a receiver is on its way
\* out of the call, and the places of a message
At(s, m) == {i \in 1..Len(s) : s[i] = m}
Out(t) == IF pc[t] = "recv" /\ ~Contains(blk_list, t) /\ blk_state[t] = "FINISH" THEN {task_msg[t]} ELSE {}
Given(m) == {t \in Tasks : m \in Out(t)}
Places(m) ==
    ({"ring"} \X At(ringbuf, m))
    \cup ({"given"} \X Given(m))
    \cup (UNION {{t} \X At(got[t], m) : t \in Tasks})
    \cup ({"dropped"} \X (dropped \cap {m}))

\* Every message a send accepted is in the ring buffer, with a receiver on its way
\* out of the call, returned by a receive or dropped by a flush or a deletion, and in
\* one of these places only unless it was sent to all: time-outs, deletions and
\* other senders between the hand-over and the return of the receiver neither lose
\* nor repeat it.  Two losses that the code has count as dropped: a message handed to a
\* receiver that is deleted before it returns, and one that ringbuf_init forgets because
\* it was sent after buf_queue_create had set the type of the queue.
MessagesKept == \A m \in 1..sent : Places(m) # {} /\ (use.all \/ Cardinality(Places(m)) = 1)

\* Without sends to the front a message that a receiver has, or is about to
\* return, is older than those still in the ring, and each receiver gets its
\* messages in the order of sending, whichever of them it waited for.
FirstInFirstOut ==
    use.front \/ \A t \in Tasks :
                 /\ \A i, j \in 1..Len(got[t]) : i < j => got[t][i] < got[t][j]
                 /\ \A m \in ToSet(ringbuf), n \in 1..sent : n \in ToSet(got[t]) \/ t \in Given(n) => n < m
                 /\ \A n \in 1..sent : t \in Given(n) => \A k \in ToSet(got[t]) : k < n

\* No receiver waits while the queue has a message: a message is stored only when
\* nobody waits, and a receiver blocks only when nothing is stored.
NoWaiterWithMessage == blk_list # <<>> => ringbuf = <<>>

\* cur_num of a queue of pointers is the number of its messages: what
\* krhino_queue_info_get reports, and what the tests for full and empty rely on.
CountIsMessages == ~use.buf /\ obj_type = "queue" => cur_num = Len(ringbuf)

\* The invariant that these rest on.
TypeOK ==
    /\ use \in Uses /\ obj_type \in {"queue", "none", "early"} /\ ringbuf \in Seq(Nat) /\ cur_num \in Nat
    /\ blk_list \in Seq(Tasks) /\ pc \in [Tasks -> {"run", "recv", "deleted"}]
    /\ blk_state \in [Tasks -> {"FINISH", "TIMEOUT", "DEL"}] /\ task_msg \in [Tasks -> Nat \cup {NULL}]
    /\ sent \in Nat /\ got \in [Tasks -> Seq(Nat)] /\ dropped \subseteq Nat

\* A deleted queue is empty, and the others count their messages; a buffer queue may
\* count more.
Counted ==
    /\ obj_type = "none" => blk_list = <<>> /\ ringbuf = <<>>
    /\ IF use.buf THEN cur_num >= Len(ringbuf)
       ELSE obj_type # "early" /\ (obj_type = "queue" => cur_num = Len(ringbuf))
Waiting == NoDup(blk_list) /\ \A t \in Tasks : Contains(blk_list, t) => pc[t] = "recv"

\* What a receiver has got, with the message it is on its way out of the call with
Has(t) == ToSet(got[t]) \cup Out(t)

Numbered == ToSet(ringbuf) \cup dropped \subseteq 1..sent /\ \A t \in Tasks : Has(t) \subseteq 1..sent
Kept == \A m \in 1..sent : m \in ToSet(ringbuf) \cup dropped \/ \E t \in Tasks : m \in Has(t)

\* A message in the ring is nowhere else; without sends to all it has one receiver or
\* is dropped.
Once ==
    /\ NoDup(ringbuf) /\ ToSet(ringbuf) \cap dropped = {}
    /\ \A t \in Tasks : NoDup(got[t]) /\ Out(t) \cap ToSet(got[t]) = {} /\ Has(t) \cap ToSet(ringbuf) = {}
    /\ use.all \/ \A t \in Tasks : Has(t) \cap dropped = {} /\ \A u \in Tasks : u # t => Has(t) \cap Has(u) = {}

\* Messages come in the order of their numbers, unless they are sent to the front.
Rising(s) == \A i, j \in 1..Len(s) : i < j => s[i] < s[j]
InOrder ==
    use.front \/ /\ Rising(ringbuf)
                 /\ \A t \in Tasks :
                    /\ Rising(got[t])
                    /\ \A n \in Has(t), m \in ToSet(ringbuf) : n < m
                    /\ \A n \in Out(t), m \in ToSet(got[t]) : m < n

\* What holds after every send, receive, time-out, flush, deletion and creation, also
\* between the hand-over of a message and the return of its receiver: messages are
\* numbered, kept, in one place and in order, and the counters agree with them.
QueueInv ==
    TypeOK /\ Counted /\ Waiting /\ NoWaiterWithMessage /\ Numbered /\ Kept /\ Once /\ InOrder
=============================================================================
