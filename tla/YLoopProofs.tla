---------------------------- MODULE YLoopProofs -----------------------------
(***************************************************************************)
(* What holds of the event loop for every set of devices, delayed actions  *)
(* and applications and for every number of readers and events: aos_poll   *)
(* leaves nothing behind in the devices, and misses no event.              *)
(***************************************************************************)
EXTENDS YLoop, TLAPS

\* The loop starts with no poll in progress.
LEMMA PollInit == Init => PollInv
BY LoopAssumption, SMTT(60) DEF Init, PollInv, TypeOK, Locals, Pollfd, Polling

\* The locals when only the place in the code and the index change.
LEMMA AtFields ==
    ASSUME TypeOK, NEW k \in Nat \ {0},
           NEW p \in {"top", "setup", "wait", "teardown", "timeout", "timer", "dispatch", "callback", "exit", "undefined"}
    PROVE  At(p, k) \in Locals /\ At(p, k).pc = p /\ At(p, k).i = k /\ At(p, k).n = loop.n
<1>1. loop \in Locals
  BY DEF TypeOK
<1>2. At(p, k) \in Locals
  BY <1>1, ZenonT(60) DEF At, Locals
<1>3. At(p, k).pc = p /\ At(p, k).i = k /\ At(p, k).n = loop.n
  BY <1>1, SMTT(60) DEF At, Locals
<1> QED BY <1>2, <1>3

\* A pollfd that becomes ready is for the same descriptor as before.
LEMMA ReadyPollfd ==
    ASSUME NEW s \in Seq(Pollfd), NEW k \in 1..Len(s)
    PROVE  /\ [s EXCEPT ![k].revents = TRUE] \in Seq(Pollfd) /\ Len([s EXCEPT ![k].revents = TRUE]) = Len(s)
           /\ \A j \in 1..Len(s) : [s EXCEPT ![k].revents = TRUE][j].fd = s[j].fd
<1> DEFINE e == [s[k] EXCEPT !.revents = TRUE]
           r == [s EXCEPT ![k] = e]
<1>1. \A j \in 1..Len(s) : s[j] \in Pollfd
  OBVIOUS
<1>2. e \in Pollfd
  BY <1>1, ZenonT(60) DEF Pollfd
<1>3. e.fd = s[k].fd
  BY <1>1, ZenonT(60) DEF Pollfd
<1>4. r = [s EXCEPT ![k].revents = TRUE]
  OBVIOUS
<1> HIDE DEF e
<1>5. r \in Seq(Pollfd) /\ Len(r) = Len(s) /\ \A j \in 1..Len(s) : r[j] = IF j = k THEN e ELSE s[j]
  BY <1>2
<1> HIDE DEF r
<1>6. \A j \in 1..Len(s) : r[j].fd = s[j].fd
  BY <1>3, <1>5, ZenonT(60)
<1> QED BY <1>4, <1>5, <1>6

\* Every pollfd is for a descriptor.
LEMMA PollfdFd ==
    ASSUME TypeOK, NEW j \in 1..Len(pollfds)
    PROVE  pollfds[j].fd \in Fds
<1>1. pollfds[j] \in Pollfd
  BY DEF TypeOK
<1> QED BY <1>1, ZenonT(60) DEF Pollfd

\* Outside aos_poll no open device has a call-back, so a step that stays outside and
\* neither opens a device nor sets a call-back has only the types to keep.
LEMMA OutsideStep ==
    ASSUME PollInv, ~Polling, ~Polling', TypeOK', opened' \subseteq opened, poll_cb' = poll_cb
    PROVE  PollInv'
<1>1. \A fd \in opened' : poll_cb'[fd] = NONE
  BY DEF PollInv, CallBack
<1>2. loop'.pc # "setup" /\ loop'.pc # "wait"
  BY DEF Polling
<1> QED BY <1>1, <1>2, ZenonT(60) DEF PollInv

\* _event_write sets the pollfd that the device was given and gives the semaphore.
LEMMA PostStep ==
    ASSUME PollInv, NEW fd \in Fds, Post(fd)
    PROVE  PollInv'
<1> USE DEF PollInv
<1>1. CASE poll_cb[fd] = NONE
  <2>1. /\ counter' = [counter EXCEPT ![fd] = @ + 1]
        /\ UNCHANGED <<readers, reader_count, pollfds, poll_cb, opened, sem, loop>>
    BY <1>1 DEF Post
  <2>2. TypeOK'
    BY <2>1, SMTT(60) DEF TypeOK
  <2>3. \A j : SetUp(j) => SetUp(j)'
    BY <1>1, <2>1, SMTT(60) DEF SetUp, TypeOK
  <2> QED BY <2>1, <2>2, <2>3, ZenonT(60) DEF Polling, CallBack
<1>2. CASE poll_cb[fd] # NONE
  <2>1. /\ counter' = [counter EXCEPT ![fd] = @ + 1] /\ sem' = sem + 1
        /\ pollfds' = [pollfds EXCEPT ![poll_cb[fd]].revents = TRUE]
        /\ UNCHANGED <<readers, reader_count, poll_cb, opened, loop>>
    BY <1>2 DEF Post
  <2>2. fd \in opened /\ CallBack(fd) /\ sem \in Nat /\ loop.n = reader_count
    BY <1>2, ZenonT(60) DEF Post, CallBack, TypeOK
  <2>3. poll_cb[fd] \in 1..Len(pollfds)
    BY <2>2, SMTT(60) DEF CallBack, TypeOK
  <2>4. pollfds' \in Seq(Pollfd) /\ Len(pollfds') = Len(pollfds)
        /\ \A j \in 1..Len(pollfds) : pollfds'[j].fd = pollfds[j].fd
    <3> HIDE DEF PollInv
    <3>1. pollfds \in Seq(Pollfd) /\ pollfds' = [pollfds EXCEPT ![poll_cb[fd]].revents = TRUE]
      BY <2>1 DEF TypeOK, PollInv
    <3> QED BY <2>3, <3>1, ReadyPollfd, ZenonT(60)
  <2>5. TypeOK'
    BY <2>1, <2>2, <2>4, SMTT(60) DEF TypeOK
  <2>6. \A j \in 1..loop.n : SetUp(j) => SetUp(j)'
    BY <2>1, <2>2, <2>4, SMTT(60) DEF SetUp, TypeOK
  <2>7. \A f \in Fds : CallBack(f) => CallBack(f)'
    BY <2>1, <2>2, <2>4, SMTT(60) DEF CallBack, Polling, TypeOK
  <2>8. sem' # NONE
    BY <2>1, <2>2, LoopAssumption, SMTT(60)
  <2> QED BY <2>1, <2>5, <2>6, <2>7, <2>8, ZenonT(60) DEF Polling, TypeOK
<1> QED BY <1>1, <1>2

\* pre_poll asks the next device.
LEMMA PrePollStep == PollInv /\ PrePoll => PollInv'
<1> SUFFICES ASSUME PollInv, PrePoll PROVE PollInv'
  OBVIOUS
<1> USE DEF PollInv
<1>0. /\ loop.pc = "setup" /\ Polling /\ loop.i \in Nat \ {0} /\ loop.n \in Nat /\ loop.n = reader_count
      /\ UNCHANGED <<readers, reader_count, counter, opened>> /\ sem \in Nat
      /\ loop.n <= Len(pollfds)
  BY SMTT(60) DEF PrePoll, Polling, TypeOK, Locals
<1>1. CASE loop.i > loop.n
  <2>1. loop' = At("wait", 1) /\ UNCHANGED <<pollfds, poll_cb, sem>>
    BY <1>1 DEF PrePoll
  <2>2. loop' \in Locals /\ loop'.pc = "wait" /\ loop'.n = loop.n
    BY <2>1, AtFields
  <2>3. TypeOK' /\ Polling'
    BY <1>0, <2>1, <2>2, ZenonT(60) DEF TypeOK, Polling
  <2>4. \A j \in 1..loop.n : SetUp(j)'
    <3>1. \A j \in 1..loop.n : SetUp(j)
      BY <1>0, <1>1, SMTT(60)
    <3> QED BY <3>1, <1>0, <2>1, ZenonT(60) DEF SetUp
  <2>5. \A fd \in opened' : poll_cb'[fd] # NONE => CallBack(fd)'
    BY <1>0, <2>1, <2>2, <2>3, ZenonT(60) DEF CallBack
  <2> QED BY <1>0, <2>1, <2>2, <2>3, <2>4, <2>5, ZenonT(60)
<1>2. CASE loop.i <= loop.n
  <2> DEFINE fd == pollfds[loop.i].fd
  <2>0. loop.i \in 1..loop.n /\ loop.i \in 1..Len(pollfds) /\ fd \in Fds
    <3>1. loop.i \in 1..loop.n /\ loop.i \in 1..Len(pollfds)
      BY <1>0, <1>2, SMTT(60) DEF TypeOK
    <3> QED BY <3>1, PollfdFd
  <2>1. CASE fd \in opened
    <3>1. /\ poll_cb' = [poll_cb EXCEPT ![fd] = loop.i] /\ loop' = At("setup", loop.i + 1)
          /\ IF counter[fd] > 0 THEN pollfds' = [pollfds EXCEPT ![loop.i].revents = TRUE] /\ sem' = sem + 1
             ELSE UNCHANGED <<pollfds, sem>>
      BY <1>0, <1>2, <2>1, SMTT(60) DEF PrePoll, EventPoll
    <3>2. loop' \in Locals /\ loop'.pc = "setup" /\ loop'.n = loop.n /\ loop'.i = loop.i + 1
      <4>1. loop.i + 1 \in Nat \ {0}
        BY <1>0, SMTT(60)
      <4> QED BY <3>1, <4>1, AtFields
    <3>3. /\ pollfds' \in Seq(Pollfd) /\ Len(pollfds') = Len(pollfds)
          /\ \A j \in 1..Len(pollfds) : pollfds'[j].fd = pollfds[j].fd
      <4>1. CASE pollfds' = pollfds
        BY <4>1 DEF TypeOK
      <4>2. CASE pollfds' = [pollfds EXCEPT ![loop.i].revents = TRUE]
        <5>1. pollfds \in Seq(Pollfd)
          BY DEF TypeOK
        <5> QED BY <2>0, <4>2, <5>1, ReadyPollfd, ZenonT(60)
      <4> QED BY <3>1, <4>1, <4>2
    <3>4. sem' \in Nat /\ (sem' = 0 => sem = 0 /\ counter[fd] = 0)
      BY <1>0, <2>0, <3>1, SMTT(60) DEF TypeOK
    <3>5. poll_cb' \in [Fds -> Nat \cup {NONE}]
      <4>1. poll_cb \in [Fds -> Nat \cup {NONE}] /\ loop.i \in Nat \cup {NONE}
        BY <1>0 DEF TypeOK
      <4> QED BY <3>1, <4>1, ZenonT(60)
    <3>6. TypeOK' /\ Polling'
      BY <1>0, <3>2, <3>3, <3>4, <3>5, ZenonT(60) DEF TypeOK, Polling
    <3>7. \A f \in Fds : f # fd => poll_cb'[f] = poll_cb[f]
      BY <2>0, <3>1, ZenonT(60) DEF TypeOK
    <3>8. poll_cb'[fd] = loop.i
      BY <2>0, <3>1, ZenonT(60) DEF TypeOK
    <3>9. ASSUME NEW f \in opened', poll_cb'[f] # NONE PROVE CallBack(f)'
      <4>1. CASE f = fd
        <5>1. poll_cb'[f] = loop.i /\ pollfds'[loop.i].fd = f
          BY <2>0, <3>3, <3>8, <4>1, ZenonT(60)
        <5> QED BY <2>0, <3>2, <3>6, <5>1, ZenonT(60) DEF CallBack
      <4>2. CASE f # fd
        <5>1. f \in opened /\ f \in Fds /\ poll_cb'[f] = poll_cb[f]
          BY <1>0, <3>7, <4>2, ZenonT(60) DEF TypeOK
        <5>2. CallBack(f)
          BY <3>9, <5>1, ZenonT(60)
        <5>3. poll_cb[f] \in 1..Len(pollfds)
          BY <1>0, <5>2, SMTT(60) DEF CallBack, TypeOK
        <5> QED BY <3>2, <3>3, <3>6, <5>1, <5>2, <5>3, ZenonT(60) DEF CallBack
      <4> QED BY <4>1, <4>2
    <3>10. ASSUME NEW j \in 1..loop.n, j < loop.i + 1 PROVE SetUp(j)'
      <4>1. j \in 1..Len(pollfds) /\ (j < loop.i \/ j = loop.i)
        BY <1>0, <3>10, SMTT(60) DEF TypeOK
      <4>2. pollfds'[j].fd = pollfds[j].fd /\ pollfds[j].fd \in Fds
        BY <4>1, <3>3, PollfdFd
      <4>3. CASE pollfds[j].fd = fd
        <5>1. loop.i # NONE
          BY <1>0, LoopAssumption
        <5> QED BY <1>0, <2>1, <3>4, <3>8, <4>2, <4>3, <5>1, ZenonT(60) DEF SetUp
      <4>4. CASE pollfds[j].fd # fd
        <5>1. SetUp(j)
          BY <1>0, <4>1, <4>4, ZenonT(60)
        <5> QED BY <1>0, <3>4, <3>7, <4>2, <4>4, <5>1, ZenonT(60) DEF SetUp
      <4> QED BY <4>3, <4>4
    <3>11. sem' # NONE
      BY <3>4, LoopAssumption
    <3> QED BY <1>0, <3>2, <3>6, <3>9, <3>10, <3>11, ZenonT(60)
  <2>2. CASE fd \notin opened
    <3>1. loop' = [At("teardown", 1) EXCEPT !.failed = TRUE] /\ UNCHANGED <<pollfds, poll_cb, sem>>
      BY <1>0, <1>2, <2>2, SMTT(60) DEF PrePoll
    <3>2. loop' \in Locals /\ loop'.pc = "teardown" /\ loop'.n = loop.n /\ loop'.i = 1
      <4> DEFINE l == At("teardown", 1)
      <4>1. l \in Locals /\ l.pc = "teardown" /\ l.n = loop.n /\ l.i = 1
        BY AtFields
      <4> HIDE DEF l
      <4>2. loop' = [l EXCEPT !.failed = TRUE]
        BY <3>1 DEF l
      <4>3. loop' \in Locals
        BY <4>1, <4>2, ZenonT(60) DEF Locals
      <4>4. loop'.pc = l.pc /\ loop'.n = l.n /\ loop'.i = l.i
        BY <4>1, <4>2, SMTT(60) DEF Locals
      <4> QED BY <4>1, <4>3, <4>4
    <3>3. TypeOK' /\ Polling'
      BY <1>0, <3>1, <3>2, ZenonT(60) DEF TypeOK, Polling
    <3>4. ASSUME NEW f \in opened', poll_cb'[f] # NONE PROVE CallBack(f)'
      <4>1. CallBack(f)
        BY <1>0, <3>1, <3>4, ZenonT(60)
      <4>2. poll_cb[f] >= 1
        BY <1>0, <4>1, SMTT(60) DEF CallBack
      <4> QED BY <3>1, <3>2, <3>3, <4>1, <4>2, ZenonT(60) DEF CallBack
    <3> QED BY <1>0, <3>1, <3>2, <3>3, <3>4, ZenonT(60)
  <2> QED BY <2>1, <2>2
<1> QED BY <1>0, <1>1, <1>2, SMTT(60)

\* wait_io ends the wait; the call-backs are still there.
LEMMA WaitIoStep == PollInv /\ WaitIo => PollInv'
<1> SUFFICES ASSUME PollInv, WaitIo PROVE PollInv'
  OBVIOUS
<1> USE DEF PollInv
<1>1. /\ loop.pc = "wait" /\ loop' = At("teardown", 1) /\ sem' \in Nat \cup {NONE} /\ sem' # NONE
      /\ loop.n = reader_count /\ UNCHANGED <<readers, reader_count, pollfds, counter, poll_cb, opened>>
  BY LoopAssumption, SMTT(60) DEF WaitIo, Polling, TypeOK, tables
<1>2. loop' \in Locals /\ loop'.pc = "teardown" /\ loop'.i = 1 /\ loop'.n = loop.n
  BY <1>1, AtFields
<1>3. TypeOK' /\ Polling'
  BY <1>1, <1>2, ZenonT(60) DEF TypeOK, Polling
<1>4. ASSUME NEW f \in opened', poll_cb'[f] # NONE PROVE CallBack(f)'
  <2>1. CallBack(f)
    BY <1>1, <1>4, ZenonT(60)
  <2>2. poll_cb[f] >= 1
    BY <2>1, SMTT(60) DEF CallBack, TypeOK, Locals
  <2> QED BY <1>1, <1>2, <1>3, <2>1, <2>2, ZenonT(60) DEF CallBack
<1> QED BY <1>1, <1>2, <1>3, <1>4, ZenonT(60)

\* post_poll takes one call-back after the other away, so none is left when the
\* semaphore is deleted.
LEMMA PostPollStep == PollInv /\ PostPoll => PollInv'
<1> SUFFICES ASSUME PollInv, PostPoll PROVE PollInv'
  OBVIOUS
<1> USE DEF PollInv
<1>0. /\ loop.pc = "teardown" /\ Polling /\ loop.i \in Nat \ {0} /\ loop.n \in Nat /\ loop.nset \in Nat
      /\ loop.n = reader_count /\ UNCHANGED <<readers, reader_count, pollfds, counter, opened>>
  BY SMTT(60) DEF PostPoll, Polling, TypeOK, Locals, tables
<1>1. CASE loop.i > loop.n
  <2> DEFINE l == At("timeout", 1)
  <2>1. /\ loop' = [l EXCEPT !.nset = IF loop.failed THEN 0 ELSE @]
        /\ sem' = NONE /\ UNCHANGED poll_cb
    BY <1>1 DEF PostPoll
  <2>2. l \in Locals /\ l.pc = "timeout"
    BY AtFields
  <2> HIDE DEF l
  <2>3. l.nset \in Nat /\ (IF loop.failed THEN 0 ELSE l.nset) \in Nat
    BY <2>2, SMTT(60) DEF Locals
  <2>4. loop' \in Locals /\ loop'.pc = "timeout"
    BY <2>1, <2>2, <2>3, ZenonT(60) DEF Locals
  <2>5. TypeOK' /\ ~Polling'
    BY <1>0, <2>1, <2>4, ZenonT(60) DEF TypeOK, Polling
  <2>6. ASSUME NEW f \in opened', poll_cb'[f] # NONE PROVE FALSE
    <3>1. CallBack(f)
      BY <1>0, <2>1, <2>6, ZenonT(60)
    <3> QED BY <1>0, <1>1, <3>1, SMTT(60) DEF CallBack
  <2> QED BY <2>4, <2>5, <2>6, ZenonT(60)
<1>2. CASE loop.i <= loop.n
  <2> DEFINE p == pollfds[loop.i]
             l == At("teardown", loop.i + 1)
  <2>0. loop.i \in 1..Len(pollfds) /\ loop.i + 1 \in Nat \ {0}
    BY <1>0, <1>2, SMTT(60) DEF TypeOK
  <2>1. /\ loop' = [l EXCEPT !.nset = @ + (IF p.fd \in opened /\ p.revents THEN 1 ELSE 0)]
        /\ poll_cb' = IF p.fd \in opened THEN [poll_cb EXCEPT ![p.fd] = NONE] ELSE poll_cb
        /\ UNCHANGED sem
    BY <1>0, <1>2, SMTT(60) DEF PostPoll
  <2>2. l \in Locals /\ l.pc = "teardown" /\ l.i = loop.i + 1 /\ l.n = loop.n
    BY <2>0, AtFields
  <2>3. p.fd \in Fds
    BY <2>0, PollfdFd
  <2> HIDE DEF l
  <2>4. l.nset + (IF p.fd \in opened /\ p.revents THEN 1 ELSE 0) \in Nat
    BY <2>2, SMTT(60) DEF Locals
  <2>5. loop' \in Locals /\ loop'.pc = "teardown" /\ loop'.i = loop.i + 1 /\ loop'.n = loop.n
    BY <2>1, <2>2, <2>4, ZenonT(60) DEF Locals
  <2>6. /\ poll_cb' \in [Fds -> Nat \cup {NONE}]
        /\ \A f \in Fds : poll_cb'[f] # NONE => poll_cb'[f] = poll_cb[f]
        /\ p.fd \in opened => poll_cb'[p.fd] = NONE
    BY <2>1, <2>3, ZenonT(60) DEF TypeOK
  <2>7. TypeOK' /\ Polling'
    BY <1>0, <2>1, <2>5, <2>6, ZenonT(60) DEF TypeOK, Polling
  <2>8. ASSUME NEW f \in opened', poll_cb'[f] # NONE PROVE CallBack(f)'
    <3>1. f \in opened /\ f \in Fds
      BY <1>0 DEF TypeOK
    <3>2. poll_cb'[f] = poll_cb[f] /\ CallBack(f)
      BY <2>6, <2>8, <3>1, ZenonT(60)
    <3>3. poll_cb[f] # loop.i
      BY <2>6, <2>8, <3>1, <3>2, ZenonT(60) DEF CallBack
    <3>4. poll_cb[f] >= loop.i + 1
      BY <1>0, <3>2, <3>3, SMTT(60) DEF CallBack
    <3> QED BY <1>0, <2>5, <2>7, <3>2, <3>4, ZenonT(60) DEF CallBack
  <2> QED BY <1>0, <2>1, <2>5, <2>7, <2>8, ZenonT(60)
<1> QED BY <1>0, <1>1, <1>2, SMTT(60)

\* aos_loop_run begins a poll with the readers of now.
LEMMA LoopTopStep == PollInv /\ LoopTop => PollInv'
<1> SUFFICES ASSUME PollInv, LoopTop PROVE PollInv'
  OBVIOUS
<1> USE DEF PollInv
<1>0. loop.pc = "top" /\ ~Polling /\ UNCHANGED <<readers, reader_count, counter, poll_cb, opened>>
  BY DEF LoopTop, Polling
<1>1. CASE terminate \/ (timeouts = <<>> /\ reader_count = 0)
  <2>1. loop' = At("exit", 1) /\ UNCHANGED <<pollfds, sem>>
    BY <1>1 DEF LoopTop
  <2>2. loop' \in Locals /\ loop'.pc = "exit"
    BY <2>1, AtFields
  <2>3. TypeOK' /\ ~Polling'
    BY <1>0, <2>1, <2>2, ZenonT(60) DEF TypeOK, Polling
  <2> QED BY <1>0, <2>3, OutsideStep
<1>2. CASE ~(terminate \/ (timeouts = <<>> /\ reader_count = 0))
  <2>1. /\ pollfds' = [i \in DOMAIN pollfds |->
                          IF i <= reader_count THEN [fd |-> readers[i], revents |-> FALSE] ELSE pollfds[i]]
        /\ sem' = 0
        /\ loop' = [pc |-> "setup", i |-> 1, n |-> reader_count, nset |-> 0, failed |-> FALSE,
                    forever |-> timeouts = <<>>, called |-> NONE]
    BY <1>2 DEF LoopTop
  <2>2. reader_count \in Nat /\ 0 \in Nat /\ 1 \in Nat \ {0} /\ 0 # NONE
    BY LoopAssumption, SMTT(60) DEF TypeOK
  <2>3. loop' \in Locals /\ loop'.pc = "setup" /\ loop'.i = 1 /\ loop'.n = reader_count
    BY <2>1, <2>2, SMTT(60) DEF Locals
  <2>4. ASSUME NEW j \in 1..Len(pollfds)
        PROVE  (IF j <= reader_count THEN [fd |-> readers[j], revents |-> FALSE] ELSE pollfds[j]) \in Pollfd
    <3>1. readers[j] \in Fds /\ pollfds[j] \in Pollfd
      BY SMTT(60) DEF TypeOK
    <3> QED BY <3>1, ZenonT(60) DEF Pollfd
  <2>5. DOMAIN pollfds = 1..Len(pollfds) /\ Len(pollfds) \in Nat
    BY DEF TypeOK
  <2>6. pollfds' \in Seq(Pollfd) /\ Len(pollfds') = Len(pollfds)
    BY <2>1, <2>4, <2>5, SMTT(60)
  <2>7. TypeOK' /\ Polling'
    BY <1>0, <2>1, <2>2, <2>3, <2>6, ZenonT(60) DEF TypeOK, Polling
  <2>8. \A f \in opened' : poll_cb'[f] = NONE
    BY <1>0, ZenonT(60) DEF CallBack
  <2>9. \A j \in 1..loop'.n : ~(j < loop'.i)
    BY <2>2, <2>3, SMTT(60)
  <2> QED BY <1>0, <2>1, <2>2, <2>3, <2>7, <2>8, <2>9, ZenonT(60)
<1> QED BY <1>1, <1>2

\* The loop outside aos_poll only moves on.
LEMMA MoveStep ==
    ASSUME PollInv, UNCHANGED <<tables, device>>, ~Polling,
           NEW p \in {"top", "timer", "dispatch", "undefined"}, NEW k \in Nat \ {0}, loop' = At(p, k)
    PROVE  PollInv'
<1>1. TypeOK
  BY DEF PollInv
<1>2. loop' \in Locals /\ loop'.pc = p
  BY <1>1, AtFields
<1>3. UNCHANGED <<readers, reader_count, pollfds, counter, poll_cb, opened, sem>>
  BY DEF tables, device
<1>4. TypeOK' /\ ~Polling'
  BY <1>1, <1>2, <1>3, ZenonT(60) DEF TypeOK, Polling
<1> QED BY <1>3, <1>4, OutsideStep

\* The first delayed action runs when it is due.
LEMMA LoopTimeoutStep == PollInv /\ LoopTimeout => PollInv'
<1> SUFFICES ASSUME PollInv, LoopTimeout PROVE PollInv'
  OBVIOUS
<1>1. ~Polling /\ UNCHANGED <<tables, device>> /\ 1 \in Nat \ {0}
  BY DEF LoopTimeout, Polling
<1>2. loop' = At("timer", 1) \/ loop' = At("top", 1) \/ loop' = At("dispatch", 1)
  BY DEF LoopTimeout
<1> QED BY <1>1, <1>2, MoveStep

\* A callback returns, or aos_loop_run is called again.
LEMMA CallbackReturnStep == PollInv /\ (CallbackReturn \/ LoopRun) => PollInv'
<1> SUFFICES ASSUME PollInv, CallbackReturn \/ LoopRun PROVE PollInv'
  OBVIOUS
<1>1. ~Polling /\ UNCHANGED <<tables, device>>
  BY DEF CallbackReturn, LoopRun, Polling
<1>2. 1 \in Nat \ {0} /\ loop.i + 1 \in Nat \ {0}
  BY SMTT(60) DEF PollInv, TypeOK, Locals
<1>3. loop' = At("top", 1) \/ loop' = At("dispatch", 1) \/ loop' = At("dispatch", loop.i + 1)
  BY DEF CallbackReturn, LoopRun
<1> QED BY <1>1, <1>2, <1>3, MoveStep

\* Reading an event: the array of readers is as long as the pollfds, whatever the
\* callbacks have registered and cancelled since the top of the loop.
LEMMA LoopDispatchStep == PollInv /\ LoopDispatch => PollInv'
<1> SUFFICES ASSUME PollInv, LoopDispatch PROVE PollInv'
  OBVIOUS
<1>0. /\ ~Polling /\ UNCHANGED <<tables, poll_cb, opened, sem>> /\ TypeOK
      /\ loop.i \in Nat \ {0} /\ loop.i + 1 \in Nat \ {0} /\ 1 \in Nat \ {0} /\ loop.n \in Nat
  BY SMTT(60) DEF LoopDispatch, Polling, PollInv, TypeOK, Locals
<1>1. CASE loop.i <= loop.n /\ loop.i \in DOMAIN pollfds /\ pollfds[loop.i].revents
  <2> DEFINE fd == readers[loop.i]
             l == At("callback", loop.i)
  <2>1. /\ counter' = [counter EXCEPT ![fd] = IF @ > 0 /\ fd \in opened THEN @ - 1 ELSE @]
        /\ loop' = [l EXCEPT !.called = fd]
    BY <1>1 DEF LoopDispatch
  <2>2. l \in Locals /\ l.pc = "callback"
    BY <1>0, AtFields
  <2>3. fd \in Fds
    BY <1>0, <1>1, SMTT(60) DEF TypeOK
  <2> HIDE DEF l, fd
  <2>4. loop' \in Locals /\ loop'.pc = "callback"
    BY <2>1, <2>2, <2>3, ZenonT(60) DEF Locals
  <2>5. counter' \in [Fds -> Nat]
    BY <1>0, <2>1, <2>3, SMTT(60) DEF TypeOK
  <2>6. TypeOK' /\ ~Polling'
    BY <1>0, <2>4, <2>5, ZenonT(60) DEF TypeOK, Polling, tables
  <2> QED BY <1>0, <2>6, OutsideStep
<1>2. CASE ~(loop.i <= loop.n /\ loop.i \in DOMAIN pollfds /\ pollfds[loop.i].revents)
  <2>1. UNCHANGED <<tables, device>>
    BY <1>0, <1>2 DEF LoopDispatch, device
  <2>2. loop' = At("top", 1) \/ loop' = At("dispatch", loop.i + 1) \/ loop' = At("undefined", loop.i)
    <3>1. CASE loop.i > loop.n
      BY <1>0, <1>2, <3>1, SMTT(60) DEF LoopDispatch
    <3>2. CASE loop.i <= loop.n /\ loop.i \in DOMAIN pollfds
      BY <1>0, <1>2, <3>2, SMTT(60) DEF LoopDispatch
    <3>3. CASE loop.i <= loop.n /\ loop.i \notin DOMAIN pollfds
      BY <1>0, <1>2, <3>3, SMTT(60) DEF LoopDispatch
    <3> QED BY <1>0, <3>1, <3>2, <3>3, SMTT(60)
  <2> QED BY <1>0, <2>1, <2>2, MoveStep
<1> QED BY <1>1, <1>2

\* The two arrays are allocated together and stay of one length.
LEMMA PollReadFdStep ==
    ASSUME PollInv, NEW fd \in Fds, PollReadFd(fd)
    PROVE  PollInv'
<1>1. /\ ~Polling /\ ~Polling' /\ TypeOK /\ reader_count' = reader_count + 1 /\ loop' = loop
      /\ UNCHANGED <<counter, poll_cb, opened, sem>>
      /\ readers' = Append(SubSeq(readers, 1, reader_count), fd)
  BY DEF PollReadFd, InCallback, Polling, PollInv, device
<1>2. PICK r \in BOOLEAN : pollfds' = Append(SubSeq(pollfds, 1, reader_count), [fd |-> fd, revents |-> r])
  BY DEF PollReadFd
<1>3. [fd |-> fd, revents |-> r] \in Pollfd
  BY ZenonT(60) DEF Pollfd
<1>4. reader_count \in 0..Len(readers) /\ reader_count \in 0..Len(pollfds)
      /\ readers \in Seq(Fds) /\ pollfds \in Seq(Pollfd)
  BY <1>1, SMTT(60) DEF TypeOK
<1>5. readers' \in Seq(Fds) /\ Len(readers') = reader_count + 1
  BY <1>1, <1>4, SMTT(60)
<1>6. pollfds' \in Seq(Pollfd) /\ Len(pollfds') = reader_count + 1
  BY <1>2, <1>3, <1>4, SMTT(60)
<1>7. reader_count' \in 0..Len(readers')
  BY <1>1, <1>4, <1>5, SMTT(60)
<1>8. TypeOK'
  BY <1>1, <1>5, <1>6, <1>7, ZenonT(60) DEF TypeOK
<1> QED BY <1>1, <1>8, OutsideStep

\* aos_cancel_poll_read_fd takes a reader off the table.
LEMMA CancelPollReadFdStep ==
    ASSUME PollInv, NEW fd \in Fds, CancelPollReadFd(fd)
    PROVE  PollInv'
<1> DEFINE at == {i \in 1..reader_count : readers[i] = fd}
           first == CHOOSE i \in at : \A j \in at : i <= j
<1>1. /\ ~Polling /\ ~Polling' /\ TypeOK /\ reader_count' = reader_count - 1 /\ loop' = loop
      /\ UNCHANGED <<pollfds, counter, poll_cb, opened, sem>> /\ at # {}
      /\ readers' = [i \in DOMAIN readers |-> IF i >= first /\ i < reader_count THEN readers[i + 1] ELSE readers[i]]
  BY DEF CancelPollReadFd, InCallback, Polling, PollInv, device
<1>2. reader_count \in 1..Len(readers) /\ Len(readers) \in Nat /\ DOMAIN readers = 1..Len(readers)
  BY <1>1, SMTT(60) DEF TypeOK
<1> HIDE DEF first
<1>3. \A i \in 1..Len(readers) : (IF i >= first /\ i < reader_count THEN readers[i + 1] ELSE readers[i]) \in Fds
  BY <1>1, <1>2, SMTT(60) DEF TypeOK
<1>4. readers' \in Seq(Fds) /\ Len(readers') = Len(readers)
  BY <1>1, <1>2, <1>3, SMTT(60)
<1>5. reader_count' \in 0..Len(readers')
  BY <1>1, <1>2, <1>4, SMTT(60)
<1>6. TypeOK'
  BY <1>1, <1>4, <1>5, ZenonT(60) DEF TypeOK
<1> QED BY <1>1, <1>6, OutsideStep

\* A device is closed, outside a poll.
LEMMA CloseStep ==
    ASSUME PollInv, NEW fd \in Fds, Close(fd)
    PROVE  PollInv'
<1>1. /\ ~Polling /\ ~Polling' /\ TypeOK /\ loop' = loop /\ UNCHANGED <<readers, reader_count, pollfds, poll_cb, sem>>
      /\ opened' = opened \ {fd} /\ counter' = [counter EXCEPT ![fd] = 0]
  BY DEF Close, InCallback, Polling, PollInv, tables
<1>2. counter' \in [Fds -> Nat]
  BY <1>1, SMTT(60) DEF TypeOK
<1>3. TypeOK'
  BY <1>1, <1>2, ZenonT(60) DEF TypeOK
<1> QED BY <1>1, <1>3, OutsideStep

\* Delayed actions, time and the end of the loop do not touch the poll.
LEMMA TimeStep ==
    ASSUME PollInv, UNCHANGED <<tables, device, loop>>
    PROVE  PollInv'
<1>1. UNCHANGED <<readers, reader_count, pollfds, counter, poll_cb, opened, sem, loop>>
  BY DEF tables, device
<1> QED BY <1>1, ZenonT(60) DEF PollInv, TypeOK, Polling, CallBack, SetUp

-----------------------------------------------------------------------------
\* The invariant of aos_poll holds between any two steps, whoever posts and whatever
\* the callbacks call.
THEOREM PollInvariance == Spec => []PollInv
<1>1. PollInv /\ [Next]_vars => PollInv'
  <2> SUFFICES ASSUME PollInv, [Next]_vars PROVE PollInv'
    OBVIOUS
  <2>1. CASE LoopStep
    BY <2>1, LoopTopStep, PrePollStep, WaitIoStep, PostPollStep, LoopTimeoutStep, LoopDispatchStep, CallbackReturnStep
       DEF LoopStep
  <2>2. CASE LoopRun
    BY <2>2, CallbackReturnStep
  <2>3. CASE Callback
    <3>1. CASE \E fd \in Fds : PollReadFd(fd) \/ CancelPollReadFd(fd) \/ Close(fd)
      BY <3>1, PollReadFdStep, CancelPollReadFdStep, CloseStep
    <3>2. CASE (\E a \in Actions : CancelDelayedAction(a) \/ \E ms \in Delays : PostDelayedAction(a, ms)) \/ LoopExit
      <4>1. UNCHANGED <<tables, device, loop>>
        <5>1. ASSUME NEW a \in Actions, CancelDelayedAction(a) PROVE UNCHANGED <<tables, device, loop>>
          BY <5>1, ZenonT(60) DEF CancelDelayedAction
        <5>2. ASSUME NEW a \in Actions, NEW ms \in Delays, PostDelayedAction(a, ms) PROVE UNCHANGED <<tables, device, loop>>
          BY <5>2, ZenonT(60) DEF PostDelayedAction
        <5> QED BY <3>2, <5>1, <5>2 DEF LoopExit
      <4> QED BY <4>1, TimeStep
    <3> QED BY <2>3, <3>1, <3>2 DEF Callback
  <2>4. CASE Tick
    BY <2>4, TimeStep DEF Tick
  <2>5. CASE \E fd \in Fds : Post(fd)
    BY <2>5, PostStep
  <2>6. CASE UNCHANGED vars
    BY <2>6, TimeStep DEF vars
  <2> QED BY <2>1, <2>2, <2>3, <2>4, <2>5, <2>6 DEF Next
<1> QED BY <1>1, PollInit, PTL DEF Spec

\* A device tells only a poll that goes on, and of a pollfd that the poll looks at and
\* that is for this device.
THEOREM PollArgAliveThm == Spec => []PollArgAlive
<1>1. PollInv => PollArgAlive
  <2> SUFFICES ASSUME PollInv, NEW fd \in Fds, poll_cb[fd] # NONE, fd \in opened
               PROVE  sem # NONE /\ poll_cb[fd] <= loop.n /\ pollfds[poll_cb[fd]].fd = fd
    BY DEF PollArgAlive
  <2>1. CallBack(fd) /\ sem # NONE
    BY ZenonT(60) DEF PollInv, CallBack
  <2> QED BY <2>1, SMTT(60) DEF CallBack, PollInv, TypeOK, Locals
<1> QED BY <1>1, PollInvariance, PTL

\* When the loop waits without a signal, none of the devices that it reads has an event.
THEOREM WaitsForNothingThm == Spec => []WaitsForNothing
<1>1. PollInv => WaitsForNothing
  BY ZenonT(60) DEF PollInv, SetUp, WaitsForNothing
<1> QED BY <1>1, PollInvariance, PTL
=============================================================================
