# TLA+ specifications of OT_Demo

OT_Demo is the production-test firmware of two STM32L4 boards (Starter Kit,
`app/GUI/Kids_A10`; Developer Kit, `app/GUI/Kids_A20`). It runs on AliOS Things,
whose real-time kernel is *Rhino* (`src/kernel/rhino/core`). This directory holds
TLA+ models of its parts, TLC configurations and TLAPS proofs. Every definition is
translated from the source; `PROJECT.json` gives the lines.

## The system

| part | state | operations | stands on |
|---|---|---|---|
| scheduler (`k_sched.c`, `k_sys.c`, `port_c.s`) | ready queue, active and preferred task, scheduler lock, interrupt nesting | lock, unlock, choose, switch, interrupt entry and exit | |
| blocking and time (`k_pend.c`, `k_tick.c`, `k_time.c`) | sorted waiting lists, tick list, tick counter | block, wake, time out, tick | scheduler |
| tasks (`k_task.c`) | state, priorities, suspension depth | create, sleep, yield, suspend, resume, change priority, delete | all of the above, mutexes |
| semaphores (`k_sem.c`) | count, waiters | take, give one, give all, set, create, delete | blocking |
| mutexes (`k_mutex.c`) | owner, nesting, waiters, the owner's list of mutexes | lock, unlock, create, delete | blocking, priorities of chains of owners |
| queues and buffer queues (`k_queue.c`, `k_buf_queue.c`), ring buffer (`k_ringbuf.c`) | messages, waiters | send, receive, flush, create, delete | blocking |
| timers (`k_timer.c`) | timer list, command queue, its block pool | start, stop, change, delete; the timer task | queue, block pool, tick |
| work queues (`k_workqueue.c`) | work lists, works, workers | run, run later, cancel, create, delete | semaphores, timers |
| key-value store (`fs/kv/kvmgr.c`) | flash log, block states | get, set, delete, garbage collection, recovery | semaphores, flash |
| event loop (`yloop.c`), poll and event device (`vfs.c`, `device.c`) | readers, delayed actions; events | register, cancel, post, poll | semaphores |

The rest (heap, sensors, application, third-party stacks) is listed in
`PROJECT.json` with the reason it is not modelled.

The kernel core is one specification in which tasks and interrupt handlers call it
in any order. Each service has a specification of its own, in which a kernel call is
one step, or one step per critical section where the service depends on it.

What makes it hard: handlers run between a call's critical section and its
rescheduling; a time-out races a wake-up; inherited priorities travel up and down
chains (and cycles) of mutex owners; tasks and objects are deleted under their
waiters; counters wrap; services leave and re-enter critical sections between a test
and its use; power fails between two flash writes. `PROJECT.json` lists each hazard at
its line.

## Modules

| module | models |
|---|---|
| `RhinoList` | circular lists and sorted insertion, on sequences |
| `RhinoState` | constants, variables and list operations of `k_sched.c`, `k_pend.c`, `k_tick.c` |
| `RhinoSched` | scheduler lock, `core_sched`, interrupt entry and exit, PendSV, return from a blocking call |
| `RhinoSem`, `RhinoMutex`, `RhinoTask` | `k_sem.c`; `k_mutex.c` and the loop of `task_pri_change`; `k_task.c` and `tick_list_update` |
| `RhinoKernel` | the kernel as a whole: `Init`, `Next`, fairness, liveness |
| `RhinoLists`, `RhinoProperties` | the safety properties of the kernel |
| `RhinoInvariant`, `RhinoInductive` | `IInv` and `KInv`, the inductive invariants of the kernel |
| `RhinoQueue` | queues and buffer queues over a sequence of messages |
| `RingBuf`, `MsgSeq` | the ring buffer byte by byte, and the sequence it implements |
| `RhinoTimer` | timer list, command queue and timer task |
| `RhinoWork` | work queues, their workers and delayed works |
| `KvStore`, `KvMap`, `KvRefinement` | the store on flash, the map it implements, and how |
| `YLoop` | `aos_loop_run`, `aos_poll` and the event device |
| `MCKernel`, `MCQueue`, `MCRing`, `MCTimer`, `MCWork`, `MCKv`, `MCKvSaved` | the TLC instances |
| `RhinoFacts` | lemmas on lists and on the list operations of `RhinoState` |
| `RhinoStepProofs`, `RhinoPriorityProofs` | every action preserves each part of `IInv` and `KInv` |
| `RhinoKernelProofs` | the theorems about the kernel |
| `RhinoQueueProofs`, `RhinoTimerProofs`, `RhinoWorkProofs`, `YLoopProofs` | invariants and theorems of the services |

### Correspondence: the kernel

* Variables have the names of the C globals and fields. A circular list is the
  sequence read from its head; `cur_list_item[p]` is the ready list of priority
  `p`, and its emptiness is the bit of `task_bit_map`.
* Interrupts are disabled between `RHINO_CRITICAL_ENTER` and its exit. A call
  without a loop there is one action. A loop is one action per iteration: `kcall`
  says which loop runs and `chg` which `task_pri_change` is on its way; until the
  loop ends no other action is enabled.
* `RHINO_CRITICAL_EXIT_SCHED` enables interrupts and *then* calls `core_sched`.
  `resched` holds the tasks between the two; handlers may run and switch there.
* A switch is requested (`pendsv`) and happens when no handler is active, as the
  lowest-priority PendSV exception of the port does.
* `call[t]` is the object whose blocking call `t` has not returned from. It
  returns (`PendReturn`) when it runs again and reads `blk_state`.
* `krhino_task_pri_change` checks its arguments before it disables interrupts:
  `TaskPriChangeCheck` and `TaskPriChange` are two actions.
* Calls that return an error change nothing and are no actions. Fatal errors
  (`k_err_proc`) end the system; the guards of `NESTED_MAX` and `LOCK_MAX` stop
  there. Statistics, tracing and hooks are left out.
* `Calls` and `IsrCalls` say which kernel calls the application of an instance
  makes from tasks and from handlers. The idle task makes none.
* Modelled configuration: one CPU, FIFO scheduling (`SCHED_RR` 0), no tickless
  mode, no `TASK_WAIT_ABORT`, as the boards' `k_config.h` sets it.

### Correspondence: the services

* `RhinoTimer`: times are relative to the present, so behaviours do not end. `match`
  is the time to the expiry of a timer and `age` the time since the timer task read
  `g_timer_count`. A command takes a block of the pool (`SendAlloc`) and then a place
  in the queue (`SendMsg`); `timer_task`, `timer_cmd_proc` and one iteration of
  `timer_cb_proc` are actions of the task. A use is *punctual* when the timer task
  finishes before the next tick.
* `RhinoWork`: a call is split where it leaves its critical section; `caller[c].pc`
  says where it goes on. The timer task is seen from here: it takes commands in order
  and a timer that is armed may fire at any time.
* `RhinoQueue`: each critical section is an action. A message is its number. A message
  handed to a waiter is in no store until the waiter returns. Sending to all, to the
  front, time-outs, deletion of the receiver, flush, deletion and re-creation of the
  queue are actions. A queue is not deleted before its creation is complete; `peak_num`
  is left out.
* `RingBuf`: memory cell by cell, with the compressed length before each message of a
  dynamic buffer; the lengths at which it takes one, two and three bytes are constants.
* `KvStore`: every flash write is a step. All items have `ITEM_MAX_LEN`, so positions
  are slots. Two blocks, as `CONFIG_AOS_KV_BUFFER_SIZE=8192` makes
  (`STM32L496AGIx.uvprojx:336`). The flash driver does not fail, and `aos_malloc` only
  while the collector copies: if it failed in the search of `aos_kv_set` (`kvmgr.c:325`,
  384) the key would look absent and a second item of it be stored. Power loss leaves any prefix of the write it interrupts.
* `YLoop`: the loop and its callbacks are one task; posts come between any two steps.
  Events are counted, not stored. Every descriptor is an event device, as without
  sockets (`CONFIG_NO_TCPIP`). A registration whose allocation fails is no step. A read
  outside the arrays (see *Observations*) leads to the state `"undefined"`, after which
  nothing is said.

## Runs

| run | instance | shows |
|---|---|---|
| `sem` | 3 tasks, two of one priority, 1 semaphore, nested handlers, time-outs 1 and 2 with ticks modulo 4 | types; lists agree with states, the first task of the highest priority runs, no waiter with a count, no deadline is missed across the wrap, a locked scheduler does not switch |
| `mutex` | 3 tasks of different priority, 2 mutexes, time-outs | priority inheritance through chains and cycles, sorted waiters, results of `krhino_mutex_lock` |
| `tasks` | 2 tasks, 1 mutex; priority changes, suspension (also by handlers), deletion and creation of tasks and mutex | owners, the cached highest priority, and `KInv`, the invariant of the proofs |
| `live` | 3 tasks, 2 mutexes, priority changes, time-outs | the task above all others returns from each wait with a time-out; every loop with interrupts disabled ends |
| `queue` | 2 receivers, 4 messages; a queue, one with sends to the front and to all, a buffer queue | no message is lost, repeated or overtaken, nobody waits while there is a message, the count is right |
| `ring` | 8 bytes; blocks and messages of 1 to 4 bytes, at both ends | the buffer implements the sequence `MsgSeq`, in which a message put to the front of a dynamic buffer may have its two parts exchanged; free space is counted |
| `timers` | 2 timers of all kinds or 3 of fixed kinds, 1 sender, 1 block; late and punctual uses | `TimerInv`; list and states agree, no block is lost, punctual timers are sorted and never late, a timer that is due is called back or stopped unless timers are started meanwhile |
| `work` | a plain and a delayed work, 2 queues, a caller that runs and cancels and one that deletes | `WorkInv`; lists, `work_exit` and semaphores agree, a work waits only on the queue its `wq` names and not while that queue runs it, a work on a living queue runs or is cancelled |
| `kv` | 2 keys, 2 values, 3 slots a block, 1 client | the store implements the map `KvMap` across power loss in calls and recovery; with power loss anywhere and allocations that fail while the collector copies the manager agrees with the flash and no key has two items |
| `loop` | 2 devices, 2 delayed actions, 2 readers, 2 events; three applications | `PollInv`; a device calls back only a poll that goes on, no poll waits for an event that is there, events and delayed actions reach their callbacks |
| `bug_nested`, `kv_gc_power` | | the findings below |

Deadlock is checked in every run but `loop`, where the loop may end or reach
`"undefined"`.

### Bounds

The bounds are the constants of the `.cfg` files; nothing else is cut off.
Three tasks and the idle task are the fewest in which a task of middle priority
can run between an owner and a waiter, and give a chain of two owners; two tasks
and two mutexes give a cycle. `TICK_MODULUS` 3 or 4 stands for 2^32: the counter
wraps after a few ticks, and a wait of 1 or 2 ticks crosses the wrap from some of
them. `SEM_MAX`, `NESTED_MAX`, `SUSPEND_MAX` and `LOCK_MAX` of 1 or 2 reach the
limits that need 2^32, 2^32, 255 and 200 calls in the code, where the calls return an
error or stop the system. `INTRPT_MAX` 2 nests a handler in a handler; a third level
adds no state, since only the outermost exit chooses a task. The mutexes of `mutex`
and the keys and values of `kv` are interchangeable.

The services: `MSG_NUM` 1 makes the command queue full at once; `LATE_MAX` 1 is enough
for a timer to be overdue when another is inserted. Two timers are enough for one to
move past the other, and three for two of them to move past an overdue one in turn. Two works and two queues let a work change queues while its old queue is
deleted. Eight bytes let every header and every message wrap. Three slots in a block
fill it with two keys and start a collection; `LEAVING_MAX` 1 and `SEM_MAX` 1 bound
collector tasks that are on their way out and signals that nobody waits for. Two
readers and two devices let a callback remove the reader that is next. Four messages
fill a queue of two and a receiver each.

### Fairness

Kernel: `KernelStep` is weakly fair, since a loop runs with interrupts disabled and
nothing can take the processor from it. The other actions of `Fairness` are strongly
fair, because interrupts are disabled and enabled again and again: the tick interrupt
comes (a hardware timer) and is taken when interrupts are enabled, its handler
calls `krhino_tick_proc` and returns, a pending PendSV is taken, and a task that
may run gets to its next instruction. No call of the application is fair.

Services: the timer task (`RHINO_CONFIG_TIMER_TASK_PRI` 5, a higher priority than any
task of the application has) and the tick are weakly fair in `timers`; workers, the timer task and calls that have begun are in
`work`; the loop, with its callbacks returning, and the clock are in `loop`. Nobody has
to start a call or post an event. `CallbackRuns` excepts behaviours in which timers are
started again and again, which may defer an overdue timer for ever.

## Findings

* `bug_nested`: `task_mutex_free` hands a mutex of a deleted task to a waiter and
  keeps the nesting of the old owner (`k_task.c:668`), so one unlock may not be
  enough.
* `kv_gc_power`: the collector copies `origin_off` unchanged (`kvmgr.c:643`). After the
  blocks have changed roles it may name the item's own original: when power fails
  during the collection, the recovery deletes the original because of the copy and then
  formats the block that holds the copy. A saved value is lost.

### Observations

Met while modelling, and reproduced with the models; the properties above are stated so
as to hold beside them.

* `k_task.c:556`: `krhino_task_pri_change` tests that the task is not deleted before it
  disables interrupts; a task deleted in between has its base priority changed.
* `k_task.c:244`: under a locked scheduler a second `krhino_task_yield` moves another
  task to the end of the list.
* `k_timer.c:21`: the difference `match - g_timer_count` is unsigned. When the timer task
  is late, a new timer is put before an overdue one, which then waits for it. So
  `SortedByRemain` and `FiresOnTime` are stated of punctual uses. With three timers, two
  that fire once and are started in turn keep an overdue third waiting for ever, because
  the walk of `timer_cb_proc` ends at the first timer that is not due (line 311). So
  `CallbackRuns` leaves out timers that are started meanwhile.
* `k_workqueue.c:145`: `krhino_workqueue_del` tests for works in one critical section and
  deletes in later ones; a work accepted in between never runs.
* `k_workqueue.c:296`: `krhino_work_cancel` stops the timer only when `work->wq` is
  `NULL`; a delayed work that has run once is "cancelled" with its timer armed. At line
  300 the result of `krhino_timer_stop` is ignored.
* `k_workqueue.c:248`: `krhino_work_run` compares the work only with what the target queue
  runs. A work that one queue runs can be put on another queue, run by both workers at
  once, and be cancelled with success while it runs. So `WaitsOnItsQueue` speaks of one
  queue at a time.
* `k_workqueue.c:175`: the timer of a delayed work that fires while the work runs drops
  the run.
* `k_ringbuf.c:173`: a message with a length that is pushed at the head and wraps comes
  back with its parts exchanged, which `krhino_buf_queue_send_front` is exposed to.
  `ImplementsSequence` allows exactly this (`AtFront`), and the buffer queue of `queue`
  is sent to at its end only.
* `k_buf_queue.c:46`: a buffer queue has its type before its ring is initialised; a
  message sent in between is forgotten and stays counted. `CountIsMessages` leaves this
  out, and `MessagesKept` counts the message as dropped.
* `kvmgr.c:704`: `aos_kv_set` decides to wait for the collector without the mutex and
  may miss its end, and then waits for ever.
* `yloop.c:292`: a reader cancelled by a callback may be called back in the same round,
  and after a further registration the walk may leave the arrays.
* `vfs.c:897`: a poll on a closed descriptor ends early without waiting.

## Proofs

The theorems hold for every set of tasks, objects, timers, works, queues and devices
and every value of the limits, under the named assumptions of the modules, which TLC
evaluates in every run. For the kernel: the idle task is a task and has the lowest
priority for itself, objects are distinct from each other and from `NONE`, limits are
natural numbers, the ready lists at the start hold tasks of their priority, without
duplicates and with the idle task among them, time-outs are shorter than the wrap, and
priorities asked for are above the idle one. For the services: limits and delays are
natural numbers, `NONE` is none of the values it stands beside, and there are finitely
many senders of commands and callers of work queues, because they are counted. The
queues need nothing of the bytes a message takes, nor that receivers are finitely many.

### The kernel

`Invariance` says that `IInv` holds after every step, those of a loop
included. None of the properties is inductive alone. `ListsMatchState` needs
that a task woken from a list is blocked on that object, that `ready_list_rm`
finds another ready task (`IdleInv`: the idle task is always ready and its
priority is its own), that the task that calls is ready (`RunInv`, which rests on
the switch being requested before the task returns to its code) and that a
deleted object has no waiters but during the loop that wakes them. That a
`task_pri_change` only meets live tasks (`LoopInv`) needs that owners are alive
(`OwnerInv`), and `OwnerInv` needs that a mutex in the middle of an unlock is on
no list. `SuspendInv` keeps the counter of `task_resume` from passing zero. From `IInv`
follow `TypeOK`, `ListsMatchState`, `HighestPriIsFirst`, `WaitersSorted`,
`NoWaiterWithCount`, `OwnersConsistent` and the action property `SchedLockKeepsTask`.

`KernelInvariance` adds four parts, each inductive with `IInv` and the ones before it:

* `PriorityInv`: at every step of a chain of `task_pri_change` the only live task
  without the priority it inherits is the one the chain is about to reach (`chg`), so
  the chain may be of any length and may close a cycle. `PriorityInherited` is the case
  in which no chain is on its way.
* `HighestInv`: `RunsHighest`, with the reason that `krhino_mutex_unlock` may return
  without rescheduling when nobody waits.
* `DeadlineInv`: `DeadlinesKept`, with the wait of a `krhino_mutex_lock` that is still
  raising owners.
* `LockInv`: `blk_state` says who got the mutex from the end of the wait on.
  `LockResultThm` has the hypothesis that no mutex is created anew while the result for
  the old one has not been read: without it the property does not hold.

### The timers

`TimerInv` adds to the properties where the timer task is (`TaskInv`: the timer that
`timer_cb_proc` looks at is on the list, though it was moved a moment ago, which
`ListMatchesState` needs for its next step) and what a punctual task waits for
(`WaitInv`: exactly the time of the first timer). A tick comes only while a punctual
task waits, so with `SortedByRemain` no timer passes its tick: `FiresOnTime`.
`BlocksConserved` counts the senders that hold a block. It gives `CommandsKept`: the
failure of `krhino_queue_back_send` that every `krhino_timer_*` call handles cannot
happen, because blocks and places in the queue are equally many.

### The work queues

`WorkInv` says that `work_exit` is set exactly while a work is on a list (`Placed`) and
that this is the list of the queue its `wq` names (`WaitsOnItsQueue`), that
what callers, timers, commands and the callback name are queues that were created
(`Named`), and that workers live no longer than their semaphores (`Lives`). With
`PendingCounted`, which counts the callers between putting a work and giving the
semaphore, follows `WorkerFindsWork`: `worker_task` takes the first entry of its list
without a test and is right to.

### The queues

Neither `MessagesKept` nor `FirstInFirstOut` is inductive: both count on where the
message of a receiver on its way out of the call came from. `QueueInv` says it for every
receiver (`Has`: what it got, with what it was handed): messages are numbered and kept,
a message in the ring is nowhere else, without sends to all a message has one receiver
or is dropped (`Once`), and without sends to the front a receiver's messages rise and
stay below those in the ring (`InOrder`). A hand-over past the ring keeps this order only
because the ring is empty while somebody waits (`NoWaiterWithMessage`), which in turn
needs that a queue of pointers counts its messages (`Counted`, from which
`CountIsMessages` follows) and that a task waits at most once (`Waiting`). One lemma per
way in which a message moves (stored, handed over, taken, returned, lost with its
receiver, dropped) covers the two kinds of queue and all the calls.

### The event loop

`PollInv` says what `pre_poll` has left in the devices: a device with the call-back set
names a pollfd of its own that the poll looks at, `post_poll` has still to reach it once
that has begun, and while nothing is signalled the devices set up so far have no event.
Callbacks register, cancel and close only outside `aos_poll`, where no open device has
the call-back set.

### How they are laid out

Each part of an invariant has a lemma per action that can disturb it, after one that
says which do. The lemmas on lists say what is on a list, in which order, after an
insertion, a removal and a sorted insertion; those that need that a set of naturals has
a least element take it as the hypothesis `NatLeast`, which `NaturalsAreWellOrdered`
proves from `WellFoundedInduction` where the theorems are. `RhinoTimerProofs`,
`RhinoWorkProofs` and `RhinoQueueProofs` hold the few of them they use, so that they do
not depend on the kernel.

### Only model-checked

* Liveness (`HighestReturns`, `KernelLoopsEnd`, `CallbackRuns`, `PendingRuns`,
  `EventsRead`, `DelayedRuns`): fairness is beyond the prover.
* The ring buffer: the messages in it are found by recursion over the memory, so its
  properties need induction over data.
* The key-value store: `OneItemPerKey`, `Bookkeeping` and the refinement of `KvMap` count
  slots by cardinality and follow recoveries over the whole log.

## Not modelled

The components marked `not_modelled` in `PROJECT.json`, with the reasons. Of the
kernel core: dynamic creation and deletion (they differ by an allocation), a
second deletion of a deleted task, calls that fail, `krhino_task_wait_abort` and
other options the boards do not configure, tickless mode, and multi-core. Of the
services: `krhino_timer_dyn_del` and `krhino_timer_arg_change`, the fifo and the vendor
calls of the ring buffer (not built), `aos_kv_deinit` and the command line of the store,
`aos_loop_schedule_work` and `aos_loop_destroy`, the inode and file tables.
