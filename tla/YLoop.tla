------------------------------- MODULE YLoop --------------------------------
(***************************************************************************)
(* The event loop: aos_loop_run of yloop.c, aos_poll of vfs.c and the      *)
(* event device of vfs/device.c, from which the loop reads what other      *)
(* tasks post.  The loop and its callbacks are one task; the tasks that    *)
(* post run between any two of its steps.  What the device does under its  *)
(* mutex is one step.  The board has no sockets: every descriptor is an    *)
(* event device, and aos_poll waits on a semaphore (CONFIG_NO_TCPIP).      *)
(***************************************************************************)
EXTENDS Integers, RhinoList, Sequences

CONSTANTS
    Fds,          \* event devices
    EventFd,      \* the one that aos_loop_init opens and registers
    Actions,      \* delayed actions
    Delays,       \* their delays in ms
    Uses,         \* the applications: sets of the calls that the callbacks of one make
    READERS_MAX,  \* bound on the registered readers
    EVENTS_MAX,   \* bound on the events of a device
    NONE

ASSUME LoopAssumption ==
    /\ EventFd \in Fds /\ NONE \notin Fds \cup Nat /\ Delays \subseteq Nat
    /\ Uses \subseteq SUBSET {"poll", "cancel", "close", "delay", "undelay", "exit"}
    /\ READERS_MAX \in Nat \ {0} /\ EVENTS_MAX \in Nat \ {0}

VARIABLES
    readers, reader_count,  \* the array of readers, by descriptor, and how many of it count
    pollfds,                \* the array for aos_poll, allocated with it: fd and revents
    timeouts,               \* delayed actions with the ms left, 0 when due
    terminate,
    counter,                \* events in each device
    poll_cb,                \* whether a poll has set its call-back in the device, and for which pollfd
    opened,                 \* the devices that are not closed
    sem,                    \* the semaphore of the poll_arg of aos_poll, NONE when there is none
    loop,                   \* the locals of aos_loop_run and aos_poll
    use                     \* the application, which is one of Uses

tables == <<readers, reader_count, pollfds>>
device == <<counter, poll_cb, opened, sem>>
vars == <<tables, timeouts, terminate, device, loop, use>>

Registered == {readers[i] : i \in 1..reader_count}
At(pc, i) == [loop EXCEPT !.pc = pc, !.i = i]

-----------------------------------------------------------------------------
(* The event device.                                                        *)

\* _event_write: an event is posted, and a poll in progress is told
PostSilent(fd) ==
    /\ fd \in opened /\ counter[fd] < EVENTS_MAX /\ counter' = [counter EXCEPT ![fd] = @ + 1]
    /\ IF poll_cb[fd] # NONE THEN pollfds' = [pollfds EXCEPT ![poll_cb[fd]].revents = TRUE] ELSE UNCHANGED pollfds
    /\ UNCHANGED <<readers, reader_count, timeouts, terminate, poll_cb, opened, sem, loop, use>>
Post(fd) ==
    /\ fd \in opened /\ counter[fd] < EVENTS_MAX
    /\ counter' = [counter EXCEPT ![fd] = @ + 1]
    /\ IF poll_cb[fd] # NONE
       THEN pollfds' = [pollfds EXCEPT ![poll_cb[fd]].revents = TRUE] /\ sem' = sem + 1
       ELSE UNCHANGED <<pollfds, sem>>
    /\ UNCHANGED <<readers, reader_count, timeouts, terminate, poll_cb, opened, loop, use>>

\* event_poll, setup: an event that is already there counts; the mutant overlooks it
EventPollBlind(fd, i) == poll_cb' = [poll_cb EXCEPT ![fd] = i] /\ UNCHANGED <<pollfds, sem>>
EventPoll(fd, i) ==
    /\ poll_cb' = [poll_cb EXCEPT ![fd] = i]
    /\ IF counter[fd] > 0 THEN pollfds' = [pollfds EXCEPT ![i].revents = TRUE] /\ sem' = sem + 1
       ELSE UNCHANGED <<pollfds, sem>>

-----------------------------------------------------------------------------
(* aos_poll.                                                                *)

\* pre_poll: one device after the other; a descriptor that is not open ends it
PrePoll ==
    /\ loop.pc = "setup"
    /\ UNCHANGED <<readers, reader_count, timeouts, terminate, counter, opened, use>>
    /\ IF loop.i > loop.n THEN loop' = At("wait", 1) /\ UNCHANGED <<pollfds, poll_cb, sem>>
       ELSE LET fd == pollfds[loop.i].fd
            IN  IF fd \in opened THEN EventPoll(fd, loop.i) /\ loop' = At("setup", loop.i + 1)
                ELSE loop' = [At("teardown", 1) EXCEPT !.failed = TRUE] /\ UNCHANGED <<pollfds, poll_cb, sem>>

\* wait_io: a signal, or the time of the first delayed action, which in ticks may be shorter
WaitIo ==
    /\ loop.pc = "wait" /\ loop' = At("teardown", 1)
    /\ \/ sem > 0 /\ sem' = sem - 1
       \/ ~loop.forever /\ UNCHANGED sem
    /\ UNCHANGED <<tables, timeouts, terminate, counter, poll_cb, opened, use>>

\* post_poll and the end of aos_poll; the mutant leaves the call-back in the device
PostPollKeeps ==
    /\ loop.pc = "teardown"
    /\ UNCHANGED <<tables, timeouts, terminate, counter, opened, poll_cb, use>>
    /\ IF loop.i > loop.n
       THEN sem' = NONE /\ loop' = [At("timeout", 1) EXCEPT !.nset = IF loop.failed THEN 0 ELSE @]
       ELSE loop' = At("teardown", loop.i + 1) /\ UNCHANGED sem
PostPoll ==
    /\ loop.pc = "teardown"
    /\ UNCHANGED <<tables, timeouts, terminate, counter, opened, use>>
    /\ IF loop.i > loop.n
       THEN sem' = NONE /\ loop' = [At("timeout", 1) EXCEPT !.nset = IF loop.failed THEN 0 ELSE @] /\ UNCHANGED poll_cb
       ELSE LET p == pollfds[loop.i]
            IN  /\ poll_cb' = IF p.fd \in opened THEN [poll_cb EXCEPT ![p.fd] = NONE] ELSE poll_cb
                /\ loop' = [At("teardown", loop.i + 1) EXCEPT !.nset = @ + (IF p.fd \in opened /\ p.revents THEN 1 ELSE 0)]
                /\ UNCHANGED sem

-----------------------------------------------------------------------------
(* aos_loop_run.                                                            *)

LoopTop ==
    /\ loop.pc = "top" /\ UNCHANGED <<readers, reader_count, timeouts, counter, poll_cb, opened, use>>
    /\ IF terminate \/ (timeouts = <<>> /\ reader_count = 0)
       THEN terminate' = FALSE /\ loop' = At("exit", 1) /\ UNCHANGED <<pollfds, sem>>
       ELSE /\ pollfds' = [i \in DOMAIN pollfds |->
                              IF i <= reader_count THEN [fd |-> readers[i], revents |-> FALSE] ELSE pollfds[i]]
            /\ sem' = 0 /\ UNCHANGED terminate
            /\ loop' = [pc |-> "setup", i |-> 1, n |-> reader_count, nset |-> 0, failed |-> FALSE,
                        forever |-> timeouts = <<>>, called |-> NONE]

\* The first delayed action runs when it is due; the mutant overlooks a single ready device.
LoopTimeoutOne ==
    /\ loop.pc = "timeout" /\ UNCHANGED <<tables, terminate, device, use>>
    /\ IF timeouts # <<>> /\ Head(timeouts).left = 0
       THEN timeouts' = Tail(timeouts) /\ loop' = At("timer", 1)
       ELSE loop' = At(IF loop.nset <= 1 THEN "top" ELSE "dispatch", 1) /\ UNCHANGED timeouts
LoopTimeout ==
    /\ loop.pc = "timeout" /\ UNCHANGED <<tables, terminate, device, use>>
    /\ IF timeouts # <<>> /\ Head(timeouts).left = 0
       THEN timeouts' = Tail(timeouts) /\ loop' = At("timer", 1)
       ELSE loop' = At(IF loop.nset <= 0 THEN "top" ELSE "dispatch", 1) /\ UNCHANGED timeouts

\* The call-backs of the readers whose pollfd is ready; event_read_cb takes an event.
\* The arrays may have become shorter than the number of readers at the top.
LoopDispatch ==
    /\ loop.pc = "dispatch" /\ UNCHANGED <<tables, timeouts, terminate, poll_cb, opened, sem, use>>
    /\ IF loop.i <= loop.n /\ loop.i \in DOMAIN pollfds /\ pollfds[loop.i].revents
       THEN LET fd == readers[loop.i]
            IN  /\ counter' = [counter EXCEPT ![fd] = IF @ > 0 /\ fd \in opened THEN @ - 1 ELSE @]
                /\ loop' = [At("callback", loop.i) EXCEPT !.called = fd]
       ELSE /\ loop' = CASE loop.i > loop.n -> At("top", 1)
                         [] loop.i <= loop.n /\ loop.i \in DOMAIN pollfds -> At("dispatch", loop.i + 1)
                         [] OTHER -> At("undefined", loop.i)
            /\ UNCHANGED counter

CallbackReturn ==
    /\ \/ loop.pc = "callback" /\ loop' = At("dispatch", loop.i + 1)
       \/ loop.pc = "timer" /\ loop' = At(IF loop.nset <= 0 THEN "top" ELSE "dispatch", 1)
    /\ UNCHANGED <<tables, timeouts, terminate, device, use>>

\* aos_loop_run is called again after it has returned.
LoopRun == loop.pc = "exit" /\ loop' = At("top", 1) /\ UNCHANGED <<tables, timeouts, terminate, device, use>>

-----------------------------------------------------------------------------
(* What the callbacks may call.                                             *)

InCallback(call) == loop.pc \in {"callback", "timer"} /\ call \in use

\* aos_poll_read_fd: both arrays are allocated again; the new pollfd is not initialized
PollReadFd(fd) ==
    /\ InCallback("poll") /\ reader_count < READERS_MAX /\ reader_count' = reader_count + 1
    /\ readers' = Append(SubSeq(readers, 1, reader_count), fd)
    /\ \E r \in BOOLEAN : pollfds' = Append(SubSeq(pollfds, 1, reader_count), [fd |-> fd, revents |-> r])
    /\ UNCHANGED <<timeouts, terminate, device, loop, use>>

\* aos_cancel_poll_read_fd: the readers after the first of fd move forward, in readers only.
CancelPollReadFd(fd) ==
    LET at == {i \in 1..reader_count : readers[i] = fd}
        first == CHOOSE i \in at : \A j \in at : i <= j
    IN  /\ InCallback("cancel") /\ at # {}
        /\ readers' = [i \in DOMAIN readers |-> IF i >= first /\ i < reader_count THEN readers[i + 1] ELSE readers[i]]
        /\ reader_count' = reader_count - 1
        /\ UNCHANGED <<pollfds, timeouts, terminate, device, loop, use>>

\* aos_close: event_close frees the events
Close(fd) ==
    /\ InCallback("close") /\ fd \in opened
    /\ opened' = opened \ {fd} /\ counter' = [counter EXCEPT ![fd] = 0]
    /\ UNCHANGED <<tables, timeouts, terminate, poll_cb, sem, loop, use>>

\* aos_post_delayed_action: before the first that is due later; the mutant before all
DelayAtHead(a, ms) ==
    /\ InCallback("delay") /\ \A i \in DOMAIN timeouts : timeouts[i].action # a
    /\ timeouts' = <<[action |-> a, left |-> ms]>> \o timeouts
    /\ UNCHANGED <<tables, terminate, device, loop, use>>
PostDelayedAction(a, ms) ==
    /\ InCallback("delay") /\ \A i \in DOMAIN timeouts : timeouts[i].action # a
    /\ LET n == Len(SelectSeq(timeouts, LAMBDA t : t.left <= ms))
       IN  timeouts' = KlistInsert(timeouts, n + 1, [action |-> a, left |-> ms])
    /\ UNCHANGED <<tables, terminate, device, loop, use>>
CancelDelayedAction(a) ==
    /\ InCallback("undelay") /\ timeouts' = SelectSeq(timeouts, LAMBDA t : t.action # a) /\ timeouts' # timeouts
    /\ UNCHANGED <<tables, terminate, device, loop, use>>
LoopExit == InCallback("exit") /\ terminate' = TRUE /\ UNCHANGED <<tables, timeouts, device, loop, use>>

\* aos_now_ms goes on.  What is due stays due: its order in the list is fixed.
Tick ==
    /\ \E i \in DOMAIN timeouts : timeouts[i].left > 0
    /\ timeouts' = [i \in DOMAIN timeouts |-> [timeouts[i] EXCEPT !.left = IF @ > 0 THEN @ - 1 ELSE 0]]
    /\ UNCHANGED <<tables, terminate, device, loop, use>>

-----------------------------------------------------------------------------
Init ==
    /\ readers = <<EventFd>> /\ reader_count = 1 /\ pollfds = <<[fd |-> EventFd, revents |-> FALSE]>>
    /\ timeouts = <<>> /\ terminate = FALSE
    /\ counter = [f \in Fds |-> 0] /\ poll_cb = [f \in Fds |-> NONE] /\ opened = Fds /\ sem = NONE
    /\ loop = [pc |-> "top", i |-> 1, n |-> 0, nset |-> 0, failed |-> FALSE, forever |-> FALSE, called |-> NONE]
    /\ use \in Uses

LoopStep == LoopTop \/ PrePoll \/ WaitIo \/ PostPoll \/ LoopTimeout \/ LoopDispatch \/ CallbackReturn
Callback ==
    \/ \E fd \in Fds : PollReadFd(fd) \/ CancelPollReadFd(fd) \/ Close(fd)
    \/ \E a \in Actions : CancelDelayedAction(a) \/ \E ms \in Delays : PostDelayedAction(a, ms)
    \/ LoopExit
Next == LoopStep \/ LoopRun \/ Callback \/ Tick \/ \E fd \in Fds : Post(fd)

Spec == Init /\ [][Next]_vars
\* The task of the loop runs, its callbacks return, and time passes; nobody need post or call.
LiveSpec == Spec /\ WF_vars(LoopStep) /\ WF_vars(Tick)

-----------------------------------------------------------------------------
\* A device tells only a poll that is still going on: whenever _event_write may call
\* back, the semaphore of aos_poll exists and the pollfd it sets is one that aos_poll
\* looks at and that is for this device, whatever ended the poll before.
PollArgAlive ==
    \A fd \in Fds : poll_cb[fd] # NONE /\ fd \in opened =>
        sem # NONE /\ poll_cb[fd] <= loop.n /\ pollfds[poll_cb[fd]].fd = fd

\* aos_poll does not wait for what has already happened: when the loop waits and no
\* signal is there, the devices it reads have no event, wherever between setup and
\* wait_io they were posted.
WaitsForNothing ==
    loop.pc = "wait" /\ sem = 0 => \A i \in 1..loop.n : counter[pollfds[i].fd] = 0

\* The type invariant of the loop and the devices
Locals == [pc : {"top", "setup", "wait", "teardown", "timeout", "timer", "dispatch", "callback", "exit", "undefined"},
           i : Nat \ {0}, n : Nat, nset : Nat, failed : BOOLEAN, forever : BOOLEAN, called : Fds \cup {NONE}]
Pollfd == [fd : Fds, revents : BOOLEAN]
TypeOK ==
    /\ readers \in Seq(Fds) /\ reader_count \in 0..Len(readers)
    /\ pollfds \in Seq(Pollfd) /\ Len(pollfds) = Len(readers)
    /\ counter \in [Fds -> Nat] /\ poll_cb \in [Fds -> Nat \cup {NONE}] /\ opened \subseteq Fds
    /\ sem \in Nat \cup {NONE} /\ loop \in Locals

\* What pre_poll has done to the devices: each that has the call-back tells aos_poll of a
\* pollfd of its own, one that post_poll has still to reach once that has begun.
Polling == loop.pc \in {"setup", "wait", "teardown"}
CallBack(fd) ==
    /\ Polling /\ poll_cb[fd] \in 1..loop.n /\ pollfds[poll_cb[fd]].fd = fd
    /\ loop.pc = "teardown" => poll_cb[fd] >= loop.i
SetUp(j) ==
    LET fd == pollfds[j].fd IN fd \in opened /\ poll_cb[fd] # NONE /\ (sem = 0 => counter[fd] = 0)

\* After every step of pre_poll, wait_io and post_poll and every post between them,
\* aos_poll works on the first loop.n pollfds, which nobody changes meanwhile, and while
\* nothing is signalled the devices that pre_poll has set up have no event.
PollInv ==
    /\ TypeOK
    /\ Polling => sem # NONE /\ loop.n = reader_count
    /\ \A fd \in opened : poll_cb[fd] # NONE => CallBack(fd)
    /\ loop.pc = "setup" => \A j \in 1..loop.n : j < loop.i => SetUp(j)
    /\ loop.pc = "wait" => \A j \in 1..loop.n : SetUp(j)

\* The applications whose callbacks neither remove a reader nor end the loop
Adding == use \subseteq {"poll", "delay"}

\* Every device with an event that has a reader gets its call-back.
EventsRead ==
    \A fd \in Fds : Adding /\ counter[fd] > 0 /\ fd \in Registered ~> loop.pc = "callback" /\ loop.called = fd

\* Every delayed action runs, though the loop runs one of them in each round and
\* callbacks post others.
DelayedRuns ==
    \A a \in Actions : Adding /\ (\E i \in DOMAIN timeouts : timeouts[i].action = a)
                         ~> (\A i \in DOMAIN timeouts : timeouts[i].action # a)
=============================================================================
