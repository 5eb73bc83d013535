---------------------------- MODULE RuntimeProofs ----------------------------
(***************************************************************************)
(* What holds of Runtime for any number of tasks.  Whatever clients do,    *)
(* types are kept, no wakeup is lost and no finished task has waiters; of  *)
(* clients that await one thing at a time and never abort, also that the   *)
(* reference counts and the run queue are exact and no pointer dangles.    *)
(***************************************************************************)
EXTENDS Runtime, FiniteSetTheorems, TLAPS

InBatch == pc \in {"drain", "poll", "wakers"}

\* The eventfd is written exactly once per batch: poll_scheduled remembers it
\* from the write until the batch it leads to is over.
EventOncePerBatch ==
  /\ pc = "epoll" => (poll_scheduled <=> event_fd = 1)
  /\ InBatch => poll_scheduled /\ event_fd = 0
  /\ ~poll_scheduled => poll_head = Null

\* The worker has a task in its hands while it polls or finishes one.
WorkerHoldsTask == pc \in {"poll", "wakers"} => cur \in Tasks

\* A live task is referred to, so that its counter can be decremented.
LiveIsCounted == \A t \in Tasks : Live(t) => counter[t] > 0

IInv == TypeOK /\ EventOncePerBatch /\ WorkerHoldsTask /\ LiveIsCounted

-----------------------------------------------------------------------------
(* The pieces of the handlers.                                              *)

\* task_add_event_loop() keeps the types of what it touches, and the eventfd
\* in step with poll_scheduled.
LEMMA AddEventLoopKeeps ==
  ASSUME IInv, pc # "exit", NEW t \in Tasks,
         NEW st \in [Tasks -> Status], TaskAddEventLoop(t, st)
  PROVE  /\ status' \in [Tasks -> Status]
         /\ next' \in [Tasks -> Tasks \cup {Null}]
         /\ poll_head' \in Tasks \cup {Null}
         /\ poll_tail' \in Tasks \cup {Null}
         /\ poll_scheduled' \in BOOLEAN
         /\ event_fd' \in {0, 1}
         /\ pc = "epoll" => (poll_scheduled' <=> event_fd' = 1)
         /\ InBatch => poll_scheduled' /\ event_fd' = 0
         /\ ~poll_scheduled' => poll_head' = Null
<1> USE DEF IInv, TypeOK, EventOncePerBatch, InBatch, TaskAddEventLoop
<1>1. CASE st[t] = "scheduled"
  BY <1>1 DEF queueVars
<1>2. CASE st[t] # "scheduled"
  <2>1. /\ status' \in [Tasks -> Status]
        /\ next' \in [Tasks -> Tasks \cup {Null}]
        /\ poll_head' \in Tasks \cup {Null}
        /\ poll_tail' \in Tasks \cup {Null}
    BY <1>2 DEF Enqueue, Status
  <2>2. poll_scheduled' = TRUE
    BY <1>2
  <2>3. CASE poll_scheduled
    <3>1. event_fd' = event_fd
      BY <1>2, <2>3 DEF NeedsEvent
    <3> QED BY <2>1, <2>2, <2>3, <3>1
  <2>4. CASE ~poll_scheduled
    <3>1. event_fd' = event_fd + 1
      BY <1>2, <2>4 DEF NeedsEvent
    <3>2. pc = "epoll" /\ event_fd = 0
      BY <2>4
    <3> HIDE DEF IInv, TypeOK, EventOncePerBatch, TaskAddEventLoop
    <3> QED BY <2>1, <2>2, <3>1, <3>2
  <2> QED BY <2>3, <2>4
<1> QED BY <1>1, <1>2

\* Giving back a handle that is held.
LEMMA HandlesGoDown ==
  ASSUME TypeOK, NEW t \in Tasks, handles[t] > 0,
         handles' = [handles EXCEPT ![t] = @ - 1]
  PROVE  handles' \in [Tasks -> Nat]
<1>1. handles \in [Tasks -> Nat]
  BY DEF TypeOK
<1> QED BY <1>1

\* task_drop() never takes a counter below zero, nor leaves a live task with
\* a counter of zero.
LEMMA TaskDropKeeps ==
  ASSUME IInv, NEW t \in Tasks, TaskDrop(t)
  PROVE  /\ counter' \in [Tasks -> Nat]
         /\ mem' \in [Tasks -> {"none", "live", "freed"}]
         /\ LiveIsCounted'
  BY DEF IInv, TypeOK, LiveIsCounted, TaskDrop, IsLastRef, Live

LEMMA CleanupKeeps ==
  ASSUME TypeOK, NEW t \in Tasks, FutureCleanup(t)
  PROVE  armed' \in [Tasks -> BOOLEAN]
  BY DEF TypeOK, FutureCleanup

-----------------------------------------------------------------------------
(* The invariant.                                                           *)

LEMMA InitIInv == Init => IInv
  BY RuntimeAssumption
  DEF Init, IInv, TypeOK, EventOncePerBatch, InBatch, WorkerHoldsTask,
      LiveIsCounted, Live, Status

LEMMA ClientKeepsIInv ==
  ASSUME IInv, Client
  PROVE  IInv'
<1> USE DEF Status
<1>1. ASSUME NEW t \in Tasks, Spawn(t) PROVE IInv'
  <2>1. poll_scheduled /\ event_fd = 0 /\ poll_scheduled' = TRUE /\ event_fd' = 0
    BY <1>1 DEF Spawn, IInv, EventOncePerBatch, InBatch, NeedsEvent
  <2>2. TypeOK'
    <3>1. /\ counter' \in [Tasks -> Nat] /\ handles' \in [Tasks -> Nat]
          /\ mem' \in [Tasks -> {"none", "live", "freed"}] /\ status' \in [Tasks -> Status]
      BY <1>1 DEF Spawn, IInv, TypeOK, InitialRefs
    <3>2. /\ next' \in [Tasks -> Tasks \cup {Null}]
          /\ poll_head' \in Tasks \cup {Null} /\ poll_tail' \in Tasks \cup {Null}
      BY <1>1 DEF Spawn, IInv, TypeOK, Enqueue
    <3>3. UNCHANGED <<waiters, armed, running, pc, cur>>
      BY <1>1 DEF Spawn
    <3> QED BY <2>1, <3>1, <3>2, <3>3 DEF IInv, TypeOK
  <2>3. EventOncePerBatch' /\ WorkerHoldsTask'
    BY <1>1, <2>1 DEF Spawn, IInv, EventOncePerBatch, InBatch, WorkerHoldsTask
  <2>4. LiveIsCounted'
    BY <1>1 DEF Spawn, IInv, TypeOK, LiveIsCounted, Live, InitialRefs
  <2> QED BY <2>2, <2>3, <2>4 DEF IInv
<1>2. ASSUME NEW t \in Tasks, HandleClone(t) PROVE IInv'
  <2>1. TypeOK'
    <3>1. counter' \in [Tasks -> Nat] /\ handles' \in [Tasks -> Nat]
      <4>1. /\ counter' = [counter EXCEPT ![t] = counter[t] + 1]
            /\ handles' = [handles EXCEPT ![t] = handles[t] + 1]
        BY <1>2 DEF HandleClone
      <4>2. counter \in [Tasks -> Nat] /\ handles \in [Tasks -> Nat]
        BY DEF IInv, TypeOK
      <4> QED BY <4>1, <4>2
    <3>2. UNCHANGED <<mem, status, waiters, armed, queueVars, running, pc, cur>>
      BY <1>2 DEF HandleClone
    <3> QED BY <3>1, <3>2 DEF IInv, TypeOK, queueVars
  <2>2. EventOncePerBatch' /\ WorkerHoldsTask'
    BY <1>2 DEF HandleClone, IInv, EventOncePerBatch, InBatch, WorkerHoldsTask, queueVars
  <2>3. LiveIsCounted'
    BY <1>2 DEF HandleClone, IInv, TypeOK, LiveIsCounted, Live
  <2> QED BY <2>1, <2>2, <2>3 DEF IInv
<1>3. ASSUME NEW t \in Tasks, HandleDrop(t) PROVE IInv'
  <2>1. /\ TaskDrop(t)
        /\ UNCHANGED <<status, waiters, armed, queueVars, running, pc, cur>>
    BY <1>3 DEF HandleDrop
  <2>2. handles' \in [Tasks -> Nat]
    BY <1>3, HandlesGoDown DEF HandleDrop, IInv
  <2>3. /\ counter' \in [Tasks -> Nat] /\ mem' \in [Tasks -> {"none", "live", "freed"}]
        /\ LiveIsCounted'
    BY <2>1, TaskDropKeeps
  <2>4. TypeOK'
    BY <2>1, <2>2, <2>3 DEF IInv, TypeOK, queueVars
  <2> QED BY <2>1, <2>3, <2>4
          DEF IInv, EventOncePerBatch, InBatch, WorkerHoldsTask, queueVars
<1>4. ASSUME NEW t \in Tasks, HandleAbort(t) PROVE IInv'
  <2>1. CASE TaskAddEventLoop(t, [status EXCEPT ![t] = "aborted"])
    <3>1. [status EXCEPT ![t] = "aborted"] \in [Tasks -> Status]
      BY DEF IInv, TypeOK
    <3> QED BY <1>4, <2>1, <3>1, AddEventLoopKeeps
            DEF HandleAbort, IInv, TypeOK, EventOncePerBatch, InBatch,
                WorkerHoldsTask, LiveIsCounted, Live
  <2>2. CASE status' = [status EXCEPT ![t] = "aborted"] /\ UNCHANGED queueVars
    BY <1>4, <2>2 DEF HandleAbort, IInv, TypeOK, EventOncePerBatch, InBatch,
                      WorkerHoldsTask, LiveIsCounted, Live, queueVars
  <2> QED BY <1>4, <2>1, <2>2 DEF HandleAbort
<1>5. ASSUME NEW t \in Tasks, HandleJoin(t) PROVE IInv'
  <2>1. cur \in Tasks /\ status \in [Tasks -> Status]
    BY <1>5 DEF HandleJoin, IInv, WorkerHoldsTask, TypeOK
  <2>2. waiters' \in [Tasks -> Seq(Tasks)]
    <3>1. \/ waiters' = waiters
          \/ waiters' = [waiters EXCEPT ![t] = <<cur>> \o waiters[t]]
      BY <1>5 DEF HandleJoin
    <3>2. waiters \in [Tasks -> Seq(Tasks)]
      BY DEF IInv, TypeOK
    <3>3. <<cur>> \o waiters[t] \in Seq(Tasks)
      BY <2>1, <3>2
    <3> QED BY <3>1, <3>2, <3>3
  <2>3. CASE TaskAddEventLoop(cur, status)
    <3>1. TypeOK'
      <4>1. handles' \in [Tasks -> Nat]
        BY <1>5, HandlesGoDown DEF HandleJoin, IInv
      <4>2. counter' \in [Tasks -> Nat] /\ mem' \in [Tasks -> {"none", "live", "freed"}]
        BY <1>5, TaskDropKeeps DEF HandleJoin
      <4>3. UNCHANGED <<armed, running, pc, cur>> /\ pc # "exit"
        BY <1>5 DEF HandleJoin
      <4> QED BY <2>1, <2>2, <2>3, <4>1, <4>2, <4>3, AddEventLoopKeeps DEF IInv, TypeOK
    <3>2. EventOncePerBatch' /\ WorkerHoldsTask'
      BY <1>5, <2>1, <2>3, AddEventLoopKeeps
         DEF HandleJoin, EventOncePerBatch, InBatch, WorkerHoldsTask
    <3>3. LiveIsCounted'
      BY <1>5, TaskDropKeeps DEF HandleJoin
    <3> QED BY <3>1, <3>2, <3>3 DEF IInv
  <2>4. CASE UNCHANGED <<status, queueVars>>
    <3>1. UNCHANGED <<armed, running, pc, cur>> /\ TaskDrop(t)
      BY <1>5 DEF HandleJoin
    <3>2. handles' \in [Tasks -> Nat]
      BY <1>5, HandlesGoDown DEF HandleJoin, IInv
    <3>3. /\ counter' \in [Tasks -> Nat] /\ mem' \in [Tasks -> {"none", "live", "freed"}]
          /\ LiveIsCounted'
      BY <3>1, TaskDropKeeps
    <3>4. TypeOK'
      BY <2>2, <2>4, <3>1, <3>2, <3>3 DEF IInv, TypeOK, queueVars
    <3> QED BY <2>4, <3>1, <3>3, <3>4
            DEF IInv, EventOncePerBatch, InBatch, WorkerHoldsTask, queueVars
  <2> QED BY <1>5, <2>3, <2>4 DEF HandleJoin
<1>6. ASSUME ArmTimer PROVE IInv'
  BY <1>6 DEF ArmTimer, IInv, TypeOK, EventOncePerBatch, InBatch,
              WorkerHoldsTask, LiveIsCounted, Live, queueVars
<1>7. ASSUME YieldWake PROVE IInv'
  <2>1. cur \in Tasks /\ status \in [Tasks -> Status]
    BY <1>7 DEF YieldWake, IInv, WorkerHoldsTask, TypeOK
  <2> QED BY <1>7, <2>1, AddEventLoopKeeps
          DEF YieldWake, IInv, TypeOK, EventOncePerBatch, InBatch,
              WorkerHoldsTask, LiveIsCounted, Live
<1> QED BY <1>1, <1>2, <1>3, <1>4, <1>5, <1>6, <1>7 DEF Client

LEMMA WorkerKeepsIInv ==
  ASSUME IInv, Worker
  PROVE  IInv'
<1> USE DEF Status
<1>1. ASSUME EventFdReady PROVE IInv'
  BY <1>1 DEF EventFdReady, IInv, TypeOK, EventOncePerBatch, InBatch,
              WorkerHoldsTask, LiveIsCounted, Live
<1>2. ASSUME PopTask
      PROVE  /\ poll_head \in Tasks
             /\ poll_head' \in Tasks \cup {Null}
             /\ poll_tail' \in Tasks \cup {Null}
             /\ poll_scheduled /\ event_fd = 0
  BY <1>2 DEF PopTask, TailAfterPop, IInv, TypeOK, EventOncePerBatch, InBatch
<1>3. ASSUME PopPoll PROVE IInv'
  BY <1>2, <1>3 DEF PopPoll, PopTask, IInv, TypeOK, EventOncePerBatch, InBatch,
                    WorkerHoldsTask, LiveIsCounted, Live
<1>4. ASSUME PopAborted PROVE IInv'
  BY <1>2, <1>4, TaskDropKeeps, CleanupKeeps
     DEF PopAborted, PopTask, IInv, TypeOK, EventOncePerBatch, InBatch, WorkerHoldsTask
<1>5. ASSUME WakeWaiter PROVE IInv'
  <2>1. /\ cur \in Tasks /\ status \in [Tasks -> Status]
        /\ waiters[cur] \in Seq(Tasks) /\ waiters[cur] # << >>
    BY <1>5 DEF WakeWaiter, IInv, WorkerHoldsTask, TypeOK
  <2>2. Head(waiters[cur]) \in Tasks /\ Tail(waiters[cur]) \in Seq(Tasks)
    BY <2>1
  <2> QED BY <1>5, <2>1, <2>2, AddEventLoopKeeps
          DEF WakeWaiter, IInv, TypeOK, EventOncePerBatch, InBatch,
              WorkerHoldsTask, LiveIsCounted, Live
<1>6. ASSUME FinishTask PROVE IInv'
  <2>1. cur \in Tasks
    BY <1>6 DEF FinishTask, IInv, WorkerHoldsTask
  <2> QED BY <1>6, <2>1, TaskDropKeeps
          DEF FinishTask, IInv, TypeOK, EventOncePerBatch, InBatch, WorkerHoldsTask, queueVars
<1>7. ASSUME DrainEnd PROVE IInv'
  <2>1. event_fd = 0 /\ event_fd' = 0 /\ poll_scheduled' = FALSE
    BY <1>7 DEF DrainEnd, AfterDrain, IInv, EventOncePerBatch, InBatch
  <2>2. TypeOK'
    BY <1>7, <2>1 DEF DrainEnd, IInv, TypeOK
  <2>3. EventOncePerBatch' /\ WorkerHoldsTask' /\ LiveIsCounted'
    BY <1>7, <2>1 DEF DrainEnd, IInv, EventOncePerBatch, InBatch,
                      WorkerHoldsTask, LiveIsCounted, Live
  <2> QED BY <2>2, <2>3 DEF IInv
<1>8. ASSUME Exit PROVE IInv'
  BY <1>8 DEF Exit, IInv, TypeOK, EventOncePerBatch, InBatch, WorkerHoldsTask,
              LiveIsCounted, Live, queueVars
<1> QED BY <1>1, <1>3, <1>4, <1>5, <1>6, <1>7, <1>8 DEF Worker

LEMMA PollReturnsKeepsIInv ==
  ASSUME IInv, PollReturns
  PROVE  IInv'
<1>1. ASSUME PollPending PROVE IInv'
  BY <1>1 DEF PollPending, IInv, TypeOK, EventOncePerBatch, InBatch,
              WorkerHoldsTask, LiveIsCounted, Live, queueVars
<1>2. ASSUME PollReady PROVE IInv'
  <2>1. cur \in Tasks
    BY <1>2 DEF PollReady, IInv, WorkerHoldsTask
  <2> QED BY <1>2, <2>1, CleanupKeeps
          DEF PollReady, IInv, TypeOK, EventOncePerBatch, InBatch,
              WorkerHoldsTask, LiveIsCounted, Live, queueVars, Status
<1> QED BY <1>1, <1>2 DEF PollReturns

LEMMA FireTimerKeepsIInv ==
  ASSUME IInv, NEW t \in Tasks, FireTimer(t)
  PROVE  IInv'
<1>1. status \in [Tasks -> Status]
  BY DEF IInv, TypeOK
<1> QED BY <1>1, AddEventLoopKeeps
        DEF FireTimer, IInv, TypeOK, EventOncePerBatch, InBatch,
            WorkerHoldsTask, LiveIsCounted, Live

LEMMA NextKeepsIInv == IInv /\ [Next]_vars => IInv'
<1> SUFFICES ASSUME IInv, [Next]_vars PROVE IInv'
  OBVIOUS
<1>1. CASE Next
  BY <1>1, ClientKeepsIInv, WorkerKeepsIInv, PollReturnsKeepsIInv, FireTimerKeepsIInv
     DEF Next
<1>2. CASE UNCHANGED vars
  BY <1>2 DEF vars, queueVars, IInv, TypeOK, EventOncePerBatch, InBatch,
              WorkerHoldsTask, LiveIsCounted, Live
<1> QED BY <1>1, <1>2

LEMMA SpecIInv == Spec => []IInv
  BY InitIInv, NextKeepsIInv, PTL DEF Spec

-----------------------------------------------------------------------------
(* What follows from it.                                                    *)

\* Every variable keeps its type; in particular the eventfd is written at most
\* once before it is read, and no counter of a task wraps below zero.
THEOREM TypeCorrect == Spec => []TypeOK
<1>1. IInv => TypeOK
  BY DEF IInv
<1> QED BY <1>1, SpecIInv, PTL

\* The worker never blocks in epoll_wait() beside a queued task, whatever the
\* clients do: task_add_event_loop() and worker_run() agree on poll_scheduled.
THEOREM NoLostWakeup == Spec => []WakeupNotLost
<1>1. IInv => WakeupNotLost
  BY DEF IInv, TypeOK, EventOncePerBatch, WakeupNotLost
<1> QED BY <1>1, SpecIInv, PTL

-----------------------------------------------------------------------------
(* The run queue and the life of a task, when futures await one thing at a  *)
(* time and never abort (Features = {}).                                    *)

\* The queue has an order that lists it; a link is only ever set in the queue.
QueueInv ==
  /\ \E n \in Nat : \E s \in [1..n -> Queued] :
       Lists(s, n, Queued, poll_head, poll_tail, next)
  /\ \A t \in Tasks \ Queued : next[t] = Null

\* Where the worker is says what it has in its hands.
WorkerInv ==
  /\ pc = "poll" => cur \in Tasks /\ status[cur] # "finished"
  /\ pc = "wakers" => cur \in Tasks /\ status[cur] = "finished"
  /\ pc \notin {"poll", "wakers"} => cur = Null

Unborn(t) == /\ status[t] = "suspended" /\ handles[t] = 0 /\ counter[t] = 0
             /\ ~Outstanding(t) /\ cur # t
Gone(t) == /\ status[t] = "finished" /\ handles[t] = 0 /\ counter[t] = 0
           /\ ~(pc = "wakers" /\ cur = t)

\* A task is referred to exactly as often as it is counted from its spawn to
\* its release, and nobody is to wake a task that has finished.
LifeOf(t) ==
  /\ mem[t] = "none" => Unborn(t)
  /\ mem[t] = "freed" => Gone(t)
  /\ mem[t] = "live" => counter[t] = handles[t] + RuntimeRef(t) /\ counter[t] > 0
  /\ status[t] # "aborted"
  /\ status[t] = "finished" => ~Outstanding(t)

LifeInv == \A t \in Tasks : LifeOf(t)

RefInv == QueueInv /\ WorkerInv /\ LifeInv

-----------------------------------------------------------------------------
(* The queue as a data structure: a task is pushed behind the end (which    *)
(* Enqueue does) and taken from the head (which PopTask does).              *)

LEMMA PushLists ==
  ASSUME NEW q \in SUBSET Tasks, NEW head, NEW end,
         NEW link \in [Tasks -> Tasks \cup {Null}], NEW t \in Tasks \ q, link[t] = Null,
         NEW n \in Nat, NEW s \in [1..n -> q], Lists(s, n, q, head, end, link)
  PROVE  \E s1 \in [1..(n + 1) -> q \cup {t}] :
           Lists(s1, n + 1, q \cup {t}, IF end = Null THEN t ELSE head, t,
                 IF end = Null THEN link ELSE [link EXCEPT ![end] = t])
<1> USE RuntimeAssumption
<1> DEFINE s1 == [i \in 1..(n + 1) |-> IF i = n + 1 THEN t ELSE s[i]]
           link1 == IF end = Null THEN link ELSE [link EXCEPT ![end] = t]
<1>1. /\ s1 \in [1..(n + 1) -> q \cup {t}]
      /\ \A i \in 1..n : s1[i] = s[i] /\ s[i] \in q /\ s[i] # t /\ s[i] # Null
      /\ s1[n + 1] = t
  OBVIOUS
<1>2. end = Null <=> n = 0
  BY <1>1 DEF Lists
<1>3. n # 0 => end = s[n] /\ end \in Tasks /\ head = s[1]
  BY <1>1 DEF Lists
<1>4. \A u \in Tasks : link1[u] = IF u = end THEN t ELSE link[u]
  BY <1>2, <1>3
<1>5. \A i \in 1..(n + 1) : link1[s1[i]] = IF i = n + 1 THEN Null ELSE s1[i + 1]
  <2> SUFFICES ASSUME NEW i \in 1..(n + 1)
               PROVE  link1[s1[i]] = IF i = n + 1 THEN Null ELSE s1[i + 1]
    OBVIOUS
  <2> HIDE DEF s1, link1
  <2>1. CASE i = n + 1
    <3>1. t # end
      BY <1>1, <1>2, <1>3
    <3> QED BY <1>1, <1>4, <2>1, <3>1
  <2>2. CASE i = n
    BY <1>1, <1>2, <1>3, <1>4, <2>2
  <2>3. CASE i \in 1..(n - 1)
    <3>1. i \in 1..n /\ n \in 1..n /\ i # n /\ s[i] # s[n] /\ i + 1 \in 1..n
      BY <2>3 DEF Lists
    <3>2. link[s[i]] = s[i + 1]
      BY <3>1 DEF Lists
    <3> QED BY <1>1, <1>3, <1>4, <2>3, <3>1, <3>2
  <2> QED BY <2>1, <2>2, <2>3
<1>6. \A u \in q \cup {t} : \E i \in 1..(n + 1) : s1[i] = u
  <2>1. \A u \in q : \E i \in 1..n : s[i] = u
    BY DEF Lists
  <2> QED BY <1>1, <2>1
<1>7. \A i, j \in 1..(n + 1) : s1[i] = s1[j] => i = j
  BY <1>1 DEF Lists
<1>8. /\ (IF end = Null THEN t ELSE head) = IF n + 1 = 0 THEN Null ELSE s1[1]
      /\ t = IF n + 1 = 0 THEN Null ELSE s1[n + 1]
  BY <1>1, <1>2, <1>3
<1>9. Lists(s1, n + 1, q \cup {t}, IF end = Null THEN t ELSE head, t, link1)
  <2> HIDE DEF s1, link1
  <2> QED BY <1>5, <1>6, <1>7, <1>8 DEF Lists
<1> QED BY <1>1, <1>9

LEMMA PopLists ==
  ASSUME NEW q \in SUBSET Tasks, NEW head \in Tasks, NEW end,
         NEW link \in [Tasks -> Tasks \cup {Null}],
         NEW n \in Nat, NEW s \in [1..n -> q], Lists(s, n, q, head, end, link)
  PROVE  /\ n - 1 \in Nat
         /\ \E s1 \in [1..(n - 1) -> q \ {head}] :
              Lists(s1, n - 1, q \ {head}, link[head],
                    IF link[head] = Null THEN Null ELSE end,
                    [link EXCEPT ![head] = Null])
<1> USE RuntimeAssumption
<1> DEFINE s1 == [i \in 1..(n - 1) |-> s[i + 1]]
           link1 == [link EXCEPT ![head] = Null]
           end1 == IF link[head] = Null THEN Null ELSE end
<1>1. n # 0 /\ n - 1 \in Nat /\ head = s[1] /\ end = s[n]
  BY DEF Lists
<1>2. \A i, j \in 1..n : s[i] = s[j] => i = j
  BY DEF Lists
<1>3. \A i \in 1..n : s[i] \in q /\ s[i] \in Tasks /\ s[i] # Null
  OBVIOUS
<1>4. \A i \in 1..n : link[s[i]] = IF i = n THEN Null ELSE s[i + 1]
  BY DEF Lists
<1>5. /\ \A i \in 1..(n - 1) : s1[i] = s[i + 1] /\ i + 1 \in 1..n /\ s[i + 1] # head
      /\ s1 \in [1..(n - 1) -> q \ {head}]
  BY <1>1, <1>2, <1>3
<1>6. \A u \in Tasks : link1[u] = IF u = head THEN Null ELSE link[u]
  OBVIOUS
<1> HIDE DEF s1, link1
<1>7. link[head] = IF n - 1 = 0 THEN Null ELSE s1[1]
  BY <1>1, <1>4, <1>5
<1>8. end1 = IF n - 1 = 0 THEN Null ELSE s1[n - 1]
  <2>1. link[head] = Null <=> n = 1
    BY <1>1, <1>3, <1>4
  <2>2. n # 1 => s1[n - 1] = s[n]
    BY <1>1, <1>5
  <2> QED BY <1>1, <2>1, <2>2
<1>9. \A u \in q \ {head} : \E i \in 1..(n - 1) : s1[i] = u
  <2> SUFFICES ASSUME NEW u \in q \ {head} PROVE \E i \in 1..(n - 1) : s1[i] = u
    OBVIOUS
  <2>1. PICK j \in 1..n : s[j] = u
    BY DEF Lists
  <2>2. j - 1 \in 1..(n - 1) /\ (j - 1) + 1 = j
    BY <1>1, <2>1
  <2> QED BY <1>5, <2>1, <2>2
<1>10. \A i, j \in 1..(n - 1) : s1[i] = s1[j] => i = j
  BY <1>2, <1>5
<1>11. \A i \in 1..(n - 1) : link1[s1[i]] = IF i = n - 1 THEN Null ELSE s1[i + 1]
  <2> SUFFICES ASSUME NEW i \in 1..(n - 1)
               PROVE  link1[s1[i]] = IF i = n - 1 THEN Null ELSE s1[i + 1]
    OBVIOUS
  <2>1. link1[s1[i]] = IF i + 1 = n THEN Null ELSE s[i + 2]
    BY <1>3, <1>4, <1>5, <1>6
  <2>2. i # n - 1 => s1[i + 1] = s[i + 2]
    BY <1>1, <1>5
  <2> QED BY <1>1, <2>1, <2>2
<1>12. Lists(s1, n - 1, q \ {head}, link[head], end1, link1)
  <2> HIDE DEF end1
  <2> QED BY <1>7, <1>8, <1>9, <1>10, <1>11 DEF Lists
<1> QED BY <1>1, <1>5, <1>12 DEF link1

-----------------------------------------------------------------------------
(* What the parts of the handlers do to the invariant.                      *)

\* Waking or spawning a task that has not finished puts it in the queue.
LEMMA EnqueueKeepsQueue ==
  ASSUME TypeOK, QueueInv, NEW t \in Tasks, status[t] # "scheduled", Enqueue(t),
         status' = [status EXCEPT ![t] = "scheduled"]
  PROVE  QueueInv'
<1>1. Queued' = Queued \cup {t}
  BY DEF TypeOK, Queued
<1>2. Queued \in SUBSET Tasks /\ t \in Tasks \ Queued /\ next[t] = Null
  BY DEF Queued, QueueInv
<1>3. PICK n \in Nat : \E s \in [1..n -> Queued] :
        Lists(s, n, Queued, poll_head, poll_tail, next)
  BY DEF QueueInv
<1>4. /\ n + 1 \in Nat
      /\ \E s1 \in [1..(n + 1) -> Queued'] :
           Lists(s1, n + 1, Queued', poll_head', poll_tail', next')
  <2>1. PICK s \in [1..n -> Queued] : Lists(s, n, Queued, poll_head, poll_tail, next)
    BY <1>3
  <2>2. next \in [Tasks -> Tasks \cup {Null}]
    BY DEF TypeOK
  <2>3. \E s1 \in [1..(n + 1) -> Queued \cup {t}] :
          Lists(s1, n + 1, Queued \cup {t}, IF poll_tail = Null THEN t ELSE poll_head, t,
                IF poll_tail = Null THEN next ELSE [next EXCEPT ![poll_tail] = t])
    BY <1>2, <2>1, <2>2, PushLists
  <2> QED BY <1>1, <2>3 DEF Enqueue
<1>5. \A u \in Tasks \ Queued' : next'[u] = Null
  <2>1. poll_tail = Null \/ poll_tail \in Queued
    BY <1>3 DEF Lists
  <2> QED BY <1>1, <2>1 DEF QueueInv, Enqueue, TypeOK
<1> QED BY <1>4, <1>5 DEF QueueInv, Enqueue

\* Taking the head of the queue to poll it.
LEMMA PopKeepsQueue ==
  ASSUME TypeOK, QueueInv, PopTask,
         status' = [status EXCEPT ![poll_head] = "suspended"],
         next' = [next EXCEPT ![poll_head] = Null]
  PROVE  QueueInv'
<1>1. Queued' = Queued \ {poll_head} /\ Queued \in SUBSET Tasks /\ poll_head \in Tasks
  BY DEF TypeOK, Queued, PopTask
<1>2. PICK n \in Nat : \E s \in [1..n -> Queued] :
        Lists(s, n, Queued, poll_head, poll_tail, next)
  BY DEF QueueInv
<1>3. /\ n - 1 \in Nat
      /\ \E s1 \in [1..(n - 1) -> Queued'] :
           Lists(s1, n - 1, Queued', poll_head', poll_tail', next')
  BY <1>1, <1>2, PopLists DEF TypeOK, PopTask, TailAfterPop
<1>4. \A u \in Tasks \ Queued' : next'[u] = Null
  BY <1>1 DEF QueueInv, TypeOK
<1> QED BY <1>3, <1>4 DEF QueueInv

LEMMA WakeKeepsQueue ==
  ASSUME TypeOK, QueueInv, NEW t \in Tasks, status[t] \in {"suspended", "scheduled"},
         TaskAddEventLoop(t, status)
  PROVE  QueueInv' /\ status' = [status EXCEPT ![t] = "scheduled"]
<1>1. CASE status[t] = "scheduled"
  <2>1. UNCHANGED <<status, next, poll_head, poll_tail>>
    BY <1>1 DEF TaskAddEventLoop, queueVars
  <2> QED BY <1>1, <2>1 DEF TypeOK, QueueInv, Queued
<1>2. CASE status[t] # "scheduled"
  <2>1. Enqueue(t) /\ status' = [status EXCEPT ![t] = "scheduled"]
    BY <1>2 DEF TaskAddEventLoop
  <2> QED BY <1>2, <2>1, EnqueueKeepsQueue
<1> QED BY <1>1, <1>2

\* A step that moves no task into or out of the queue.
LEMMA QuietKeepsQueue ==
  ASSUME QueueInv, UNCHANGED <<next, poll_head, poll_tail>>, Queued' = Queued
  PROVE  QueueInv'
  BY DEF QueueInv

\* Dropping a reference of a task leaves the others alone.
LEMMA TaskDropCounts ==
  ASSUME TypeOK, NEW t \in Tasks, TaskDrop(t), counter[t] > 0
  PROVE  /\ mem[t] = "live"
         /\ counter'[t] = counter[t] - 1
         /\ mem'[t] = IF counter[t] = 1 THEN "freed" ELSE "live"
         /\ \A u \in Tasks \ {t} : counter'[u] = counter[u] /\ mem'[u] = mem[u]
  BY DEF TypeOK, TaskDrop, IsLastRef, Live

-----------------------------------------------------------------------------
(* The queue: every action.                                                 *)

\* Who is to be woken has not finished and is allocated.
LEMMA OutstandingLives ==
  ASSUME LifeInv, NEW t \in Tasks, Outstanding(t), TypeOK
  PROVE  status[t] \in {"suspended", "scheduled"} /\ mem[t] = "live"
  BY DEF LifeInv, LifeOf, Unborn, Gone, TypeOK, Status

LEMMA TopIsOutstanding ==
  ASSUME TypeOK, NEW t \in Tasks, waiters[t] # << >>
  PROVE  Head(waiters[t]) \in Tasks /\ Outstanding(Head(waiters[t]))
<1>1. waiters[t] \in Seq(Tasks) /\ Len(waiters[t]) \in Nat \ {0}
  BY DEF TypeOK
<1>2. 1 \in 1..Len(waiters[t]) /\ waiters[t][1] = Head(waiters[t])
  BY <1>1
<1>3. Head(waiters[t]) \in Tasks
  BY <1>1
<1> QED BY <1>2, <1>3 DEF Outstanding

LEMMA ClientKeepsQueue ==
  ASSUME TypeOK, RefInv, Features = {}, Client
  PROVE  QueueInv'
<1> USE DEF RefInv
<1>1. ASSUME NEW t \in Tasks, Spawn(t) PROVE QueueInv'
  <2>1. status[t] # "scheduled"
    BY <1>1 DEF Spawn, LifeInv, LifeOf, Unborn
  <2> QED BY <1>1, <2>1, EnqueueKeepsQueue DEF Spawn
<1>2. ASSUME NEW t \in Tasks, HandleClone(t) \/ HandleDrop(t) PROVE QueueInv'
  BY <1>2, QuietKeepsQueue DEF HandleClone, HandleDrop, queueVars, Queued
<1>3. ASSUME NEW t \in Tasks, HandleAbort(t) PROVE QueueInv'
  BY <1>3 DEF HandleAbort
<1>4. ASSUME NEW t \in Tasks, HandleJoin(t) PROVE QueueInv'
  <2>1. cur \in Tasks /\ status[cur] = "suspended"
    BY <1>4 DEF HandleJoin, MayProceed, WorkerInv
  <2>2. CASE UNCHANGED <<status, queueVars>>
    BY <2>2, QuietKeepsQueue DEF queueVars, Queued
  <2>3. CASE TaskAddEventLoop(cur, status)
    BY <2>1, <2>3, WakeKeepsQueue
  <2> QED BY <1>4, <2>2, <2>3 DEF HandleJoin
<1>5. CASE ArmTimer
  BY <1>5, QuietKeepsQueue DEF ArmTimer, queueVars, Queued
<1>6. CASE YieldWake
  <2>1. cur \in Tasks /\ status[cur] = "suspended"
    BY <1>6 DEF YieldWake, MayProceed, WorkerInv
  <2> QED BY <1>6, <2>1, WakeKeepsQueue DEF YieldWake
<1> QED BY <1>1, <1>2, <1>3, <1>4, <1>5, <1>6 DEF Client

LEMMA NextKeepsQueue ==
  ASSUME TypeOK, RefInv, Features = {}, Next
  PROVE  QueueInv'
<1> USE DEF RefInv
<1>1. CASE Client
  BY <1>1, ClientKeepsQueue
<1>2. CASE PollPending \/ EventFdReady \/ DrainEnd \/ Exit \/ FinishTask
  BY <1>2, QuietKeepsQueue
     DEF PollPending, EventFdReady, DrainEnd, Exit, FinishTask, queueVars, Queued
<1>3. CASE PollReady
  <2>1. status[cur] # "scheduled" /\ cur \in Tasks
    BY <1>3 DEF PollReady, MayProceed, WorkerInv
  <2>2. status' = [status EXCEPT ![cur] = "finished"]
        /\ UNCHANGED <<next, poll_head, poll_tail>>
    BY <1>3 DEF PollReady, queueVars
  <2>3. Queued' = Queued
    BY <2>1, <2>2 DEF Queued, TypeOK
  <2> QED BY <2>2, <2>3, QuietKeepsQueue
<1>4. CASE PopPoll
  BY <1>4, PopKeepsQueue DEF PopPoll
<1>5. CASE PopAborted
  BY <1>5 DEF PopAborted, PopTask, LifeInv, LifeOf, TypeOK
<1>6. CASE WakeWaiter
  <2>1. cur \in Tasks
    BY <1>6 DEF WakeWaiter, WorkerInv
  <2>2. /\ Head(waiters[cur]) \in Tasks
        /\ status[Head(waiters[cur])] \in {"suspended", "scheduled"}
    BY <1>6, <2>1, TopIsOutstanding, OutstandingLives DEF WakeWaiter
  <2> QED BY <1>6, <2>2, WakeKeepsQueue DEF WakeWaiter
<1>7. ASSUME NEW t \in Tasks, FireTimer(t) PROVE QueueInv'
  <2>1. status[t] \in {"suspended", "scheduled"}
    BY <1>7, OutstandingLives DEF FireTimer, Outstanding
  <2> QED BY <1>7, <2>1, WakeKeepsQueue DEF FireTimer
<1> QED BY <1>1, <1>2, <1>3, <1>4, <1>5, <1>6, <1>7 DEF Next, PollReturns, Worker

-----------------------------------------------------------------------------
(* The life of a task: every action.                                        *)

\* A task that is to be woken, or in the worker's hands, is allocated.
LEMMA HeldTaskLives ==
  ASSUME TypeOK, WorkerInv, LifeInv, pc \in {"poll", "wakers"}
  PROVE  cur \in Tasks /\ mem[cur] = "live"
  BY DEF TypeOK, WorkerInv, LifeInv, LifeOf, Unborn, Gone

\* A task whose references do not change, and which at most moves between
\* suspended and scheduled or gets a waker to wait for while it is alive.
LEMMA WakeKeepsLife ==
  ASSUME TypeOK, NEW u \in Tasks, LifeOf(u), UNCHANGED <<pc, cur>>,
         mem'[u] = mem[u], counter'[u] = counter[u], handles'[u] = handles[u],
         \/ status'[u] = status[u] /\ (Outstanding(u)' => Outstanding(u))
         \/ /\ mem[u] = "live"
            /\ status[u] \in {"suspended", "scheduled"}
            /\ status'[u] \in {"suspended", "scheduled"}
  PROVE  LifeOf(u)'
<1>1. RuntimeRef(u)' = RuntimeRef(u)
  BY DEF RuntimeRef
<1> QED BY <1>1 DEF LifeOf, Unborn, Gone

\* A live task that gains or loses a handle and the reference that goes with it.
LEMMA CountKeepsLife ==
  ASSUME TypeOK, NEW t \in Tasks, LifeOf(t), mem[t] = "live", UNCHANGED <<pc, cur>>,
         status'[t] = status[t], Outstanding(t)' => Outstanding(t),
         counter'[t] - handles'[t] = counter[t] - handles[t],
         counter'[t] \in Nat, handles'[t] \in Nat,
         mem'[t] = IF counter'[t] = 0 THEN "freed" ELSE "live"
  PROVE  LifeOf(t)'
<1>1. /\ counter[t] = handles[t] + RuntimeRef(t) /\ RuntimeRef(t)' = RuntimeRef(t)
      /\ RuntimeRef(t) \in {0, 1}
  BY DEF LifeOf, RuntimeRef
<1>2. counter'[t] = handles'[t] + RuntimeRef(t)'
  <2>1. counter[t] \in Nat /\ handles[t] \in Nat
    BY DEF TypeOK
  <2> QED BY <1>1, <2>1
<1>3. counter'[t] = 0 => handles'[t] = 0 /\ RuntimeRef(t) = 0
  BY <1>1, <1>2
<1>4. counter'[t] = 0 => Gone(t)'
  BY <1>3 DEF Gone, RuntimeRef
<1> QED BY <1>2, <1>4 DEF LifeOf

LEMMA SpawnKeepsLife ==
  ASSUME TypeOK, LifeInv, NEW t \in Tasks, Spawn(t)
  PROVE  LifeInv'
<1>1. \A u \in Tasks : Outstanding(u)' <=> Outstanding(u)
  BY DEF Spawn, Outstanding
<1>2. ASSUME NEW u \in Tasks \ {t} PROVE LifeOf(u)'
  BY <1>1, WakeKeepsLife DEF Spawn, TypeOK, LifeInv
<1>3. LifeOf(t)'
  <2>1. /\ mem'[t] = "live" /\ counter'[t] = 2 /\ handles'[t] = 1
        /\ status'[t] = "scheduled"
    BY DEF Spawn, TypeOK, InitialRefs
  <2> QED BY <2>1 DEF LifeOf, RuntimeRef
<1> QED BY <1>2, <1>3 DEF LifeInv

LEMMA ReferenceKeepsLife ==
  ASSUME TypeOK, LifeInv, NEW t \in Tasks, HandleClone(t) \/ HandleDrop(t)
  PROVE  LifeInv'
<1>1. UNCHANGED <<status, pc, cur>> /\ \A u \in Tasks : Outstanding(u)' <=> Outstanding(u)
  BY DEF HandleClone, HandleDrop, Outstanding
<1>2. ASSUME NEW u \in Tasks \ {t} PROVE LifeOf(u)'
  BY <1>1, <1>2, WakeKeepsLife DEF HandleClone, HandleDrop, TaskDrop, TypeOK, LifeInv
<1>3. LifeOf(t)'
  <2>1. LifeOf(t) /\ mem[t] = "live" /\ counter[t] \in Nat \ {0} /\ handles[t] \in Nat
    BY DEF HandleClone, HandleDrop, TaskDrop, Live, TypeOK, LifeInv, LifeOf
  <2>2. CASE HandleClone(t)
    <3>1. /\ mem' = mem /\ counter'[t] = counter[t] + 1 /\ handles'[t] = handles[t] + 1
      BY <2>2 DEF HandleClone, TypeOK
    <3> QED BY <1>1, <2>1, <3>1, CountKeepsLife
  <2>3. CASE HandleDrop(t)
    <3>1. TaskDrop(t) /\ handles[t] > 0 /\ handles'[t] = handles[t] - 1
      BY <2>3 DEF HandleDrop, TypeOK
    <3> QED BY <1>1, <2>1, <3>1, TaskDropCounts, CountKeepsLife
  <2> QED BY <2>2, <2>3
<1> QED BY <1>2, <1>3 DEF LifeInv

\* The joiner is alive and not finished, so that it may be woken later.
LEMMA JoinKeepsLife ==
  ASSUME TypeOK, WorkerInv, LifeInv, Features = {}, NEW t \in Tasks, HandleJoin(t)
  PROVE  LifeInv'
<1>1. /\ cur \in Tasks /\ mem[cur] = "live" /\ status[cur] = "suspended" /\ t # cur
      /\ UNCHANGED <<armed, pc, cur>>
  BY HeldTaskLives DEF HandleJoin, MayProceed
<1>2. \A u \in Tasks \ {cur} : Outstanding(u)' => Outstanding(u)
  <2>1. waiters[t] \in Seq(Tasks)
    BY DEF TypeOK
  <2>2. waiters' = waiters \/ waiters' = [waiters EXCEPT ![t] = <<cur>> \o waiters[t]]
    BY DEF HandleJoin
  <2>3. CASE waiters' = waiters
    BY <1>1, <2>3 DEF Outstanding
  <2>4. CASE waiters' = [waiters EXCEPT ![t] = <<cur>> \o waiters[t]]
    <3> SUFFICES ASSUME NEW u \in Tasks \ {cur}, NEW v \in Tasks,
                        NEW i \in 1..Len(waiters'[v]), waiters'[v][i] = u
                 PROVE  \E j \in 1..Len(waiters[v]) : waiters[v][j] = u
      BY <1>1 DEF Outstanding
    <3>1. CASE v # t
      BY <2>4, <3>1 DEF TypeOK
    <3>2. CASE v = t
      <4>1. waiters'[v] = <<cur>> \o waiters[t]
        BY <2>4, <3>2 DEF TypeOK
      <4>2. i # 1 /\ i - 1 \in 1..Len(waiters[t]) /\ waiters[t][i - 1] = u
        BY <1>1, <2>1, <4>1
      <4> QED BY <3>2, <4>2
    <3> QED BY <3>1, <3>2
  <2> QED BY <2>2, <2>3, <2>4
<1>3. /\ \A u \in Tasks \ {cur} : status'[u] = status[u]
      /\ status'[cur] \in {"suspended", "scheduled"}
  BY <1>1 DEF HandleJoin, TaskAddEventLoop, TypeOK
<1>4. TaskDrop(t) /\ handles[t] > 0 /\ handles' = [handles EXCEPT ![t] = @ - 1]
  BY DEF HandleJoin
<1>5. LifeOf(t) /\ mem[t] = "live" /\ counter[t] \in Nat \ {0} /\ handles[t] \in Nat \ {0}
  BY <1>4 DEF TaskDrop, Live, TypeOK, LifeInv, LifeOf
<1>6. LifeOf(t)'
  <2>1. handles'[t] = handles[t] - 1
    BY <1>4 DEF TypeOK
  <2> QED BY <1>1, <1>2, <1>3, <1>4, <1>5, <2>1, TaskDropCounts, CountKeepsLife
<1>7. ASSUME NEW u \in Tasks \ {t} PROVE LifeOf(u)'
  <2>1. handles'[u] = handles[u] /\ counter'[u] = counter[u] /\ mem'[u] = mem[u]
    <3>1. counter'[u] = counter[u] /\ mem'[u] = mem[u]
      BY <1>4, <1>5, <1>7, TaskDropCounts
    <3>2. handles'[u] = handles[u]
      BY <1>4, <1>7 DEF TypeOK
    <3> QED BY <3>1, <3>2
  <2>2. LifeOf(u)
    BY DEF LifeInv
  <2>3. CASE u = cur
    BY <1>1, <1>3, <2>1, <2>2, <2>3, WakeKeepsLife
  <2>4. CASE u # cur
    BY <1>1, <1>2, <1>3, <2>1, <2>2, <2>4, WakeKeepsLife
  <2> QED BY <2>3, <2>4
<1> QED BY <1>6, <1>7 DEF LifeInv

\* A wake of somebody who may be woken; at most wakers are consumed with it.
LEMMA WakingKeepsLife ==
  ASSUME TypeOK, QueueInv, LifeInv, NEW t \in Tasks, mem[t] = "live",
         status[t] \in {"suspended", "scheduled"}, TaskAddEventLoop(t, status),
         UNCHANGED <<mem, counter, handles, pc, cur>>,
         \A u \in Tasks : Outstanding(u)' => Outstanding(u)
  PROVE  LifeInv'
<1>1. status' = [status EXCEPT ![t] = "scheduled"]
  BY WakeKeepsQueue
<1>2. ASSUME NEW u \in Tasks PROVE LifeOf(u)'
  <2>1. \/ status'[u] = status[u]
        \/ u = t /\ status'[u] = "scheduled"
    BY <1>1 DEF TypeOK
  <2> QED BY <2>1, WakeKeepsLife DEF LifeInv
<1> QED BY <1>2 DEF LifeInv

LEMMA ClientKeepsLife ==
  ASSUME TypeOK, RefInv, Features = {}, Client
  PROVE  LifeInv'
<1> USE DEF RefInv
<1>1. ASSUME NEW t \in Tasks, \/ Spawn(t) \/ HandleClone(t) \/ HandleDrop(t)
                              \/ HandleAbort(t) \/ HandleJoin(t)
      PROVE  LifeInv'
  <2>1. ~HandleAbort(t)
    BY DEF HandleAbort
  <2> QED BY <1>1, <2>1, SpawnKeepsLife, ReferenceKeepsLife, JoinKeepsLife
<1>2. CASE ArmTimer \/ YieldWake
  <2>1. cur \in Tasks /\ mem[cur] = "live" /\ status[cur] = "suspended"
    BY <1>2, HeldTaskLives DEF ArmTimer, YieldWake, MayProceed
  <2>2. CASE ArmTimer
    <3>1. \A u \in Tasks \ {cur} : Outstanding(u)' => Outstanding(u)
      BY <2>2 DEF ArmTimer, Outstanding, TypeOK
    <3>2. UNCHANGED <<mem, counter, handles, status, pc, cur>>
      BY <2>2 DEF ArmTimer
    <3> QED BY <2>1, <3>1, <3>2, WakeKeepsLife DEF LifeInv
  <2>3. CASE YieldWake
    BY <2>1, <2>3, WakingKeepsLife DEF YieldWake, Outstanding
  <2> QED BY <1>2, <2>2, <2>3
<1> QED BY <1>1, <1>2 DEF Client

\* A poll that returns ready leaves nobody who could wake the task.
LEMMA PollReturnsKeepsLife ==
  ASSUME TypeOK, RefInv, Features = {}, PollReturns
  PROVE  LifeInv'
<1> USE DEF RefInv
<1>1. pc = "poll" /\ cur \in Tasks /\ mem[cur] = "live" /\ status[cur] # "finished"
  BY HeldTaskLives DEF PollReturns, PollPending, PollReady, WorkerInv
<1>2. CASE PollPending
  <2>1. /\ UNCHANGED <<mem, counter, handles, status>> /\ pc' = "drain" /\ cur' = Null
        /\ \A u \in Tasks : Outstanding(u)' <=> Outstanding(u)
    BY <1>2 DEF PollPending, Outstanding
  <2>2. ASSUME NEW u \in Tasks PROVE LifeOf(u)'
    <3>1. RuntimeRef(u)' = RuntimeRef(u) /\ u # Null
      BY <1>1, <2>1, RuntimeAssumption DEF RuntimeRef
    <3> QED BY <1>1, <2>1, <3>1 DEF LifeInv, LifeOf, Unborn, Gone
  <2> QED BY <2>2 DEF LifeInv
<1>3. CASE PollReady
  <2>1. /\ UNCHANGED <<mem, counter, handles, cur, waiters>> /\ pc' = "wakers"
        /\ \A u \in Tasks : status'[u] = IF u = cur THEN "finished" ELSE status[u]
        /\ \A u \in Tasks : armed'[u] => armed[u]
        /\ ~Outstanding(cur)
    BY <1>1, <1>3 DEF PollReady, FutureCleanup, TypeOK, MayProceed
  <2>2. \A u \in Tasks : Outstanding(u)' => Outstanding(u)
    BY <2>1 DEF Outstanding
  <2>3. ASSUME NEW u \in Tasks PROVE LifeOf(u)'
    <3>1. RuntimeRef(u)' = RuntimeRef(u)
      BY <1>1, <2>1 DEF RuntimeRef
    <3> QED BY <1>1, <2>1, <2>2, <3>1 DEF LifeInv, LifeOf, Unborn, Gone
  <2> QED BY <2>3 DEF LifeInv
<1> QED BY <1>2, <1>3 DEF PollReturns

LEMMA FinishTaskKeepsLife ==
  ASSUME TypeOK, RefInv, FinishTask
  PROVE  LifeInv'
<1> USE DEF RefInv
<1>1. /\ cur \in Tasks /\ mem[cur] = "live" /\ status[cur] = "finished"
      /\ pc = "wakers" /\ pc' = "drain" /\ cur' = Null /\ TaskDrop(cur)
      /\ UNCHANGED <<handles, status, waiters, armed>>
  BY HeldTaskLives DEF FinishTask, WorkerInv
<1>2. \A u \in Tasks : (Outstanding(u)' <=> Outstanding(u)) /\ u # Null
  BY <1>1, RuntimeAssumption DEF Outstanding
<1>3. counter[cur] = handles[cur] + 1 /\ counter[cur] > 0 /\ handles[cur] \in Nat
      /\ ~Outstanding(cur)
  BY <1>1 DEF LifeInv, LifeOf, RuntimeRef, TypeOK
<1>4. /\ counter'[cur] = handles[cur]
      /\ mem'[cur] = IF handles[cur] = 0 THEN "freed" ELSE "live"
      /\ \A u \in Tasks \ {cur} : counter'[u] = counter[u] /\ mem'[u] = mem[u]
  BY <1>1, <1>3, TaskDropCounts
<1>5. ASSUME NEW u \in Tasks, u = cur PROVE LifeOf(u)'
  <2>1. RuntimeRef(u)' = 0
    BY <1>1, <1>5 DEF RuntimeRef
  <2>2. /\ counter'[u] = handles'[u] /\ handles'[u] \in Nat /\ status'[u] = "finished"
        /\ mem'[u] = IF handles'[u] = 0 THEN "freed" ELSE "live"
        /\ ~Outstanding(u)' /\ pc' # "wakers"
    BY <1>1, <1>2, <1>3, <1>4, <1>5
  <2> QED BY <2>1, <2>2 DEF LifeOf, Gone
<1>6. ASSUME NEW u \in Tasks \ {cur} PROVE LifeOf(u)'
  <2>1. RuntimeRef(u)' = RuntimeRef(u)
    BY <1>1, <1>6 DEF RuntimeRef
  <2> QED BY <1>1, <1>2, <1>4, <2>1 DEF LifeInv, LifeOf, Unborn, Gone
<1> QED BY <1>5, <1>6 DEF LifeInv

LEMMA PopPollKeepsLife ==
  ASSUME TypeOK, RefInv, PopPoll
  PROVE  LifeInv'
<1> USE DEF RefInv
<1>1. /\ poll_head \in Tasks /\ mem[poll_head] = "live" /\ pc = "drain"
      /\ pc' = "poll" /\ cur' = poll_head
      /\ UNCHANGED <<mem, counter, handles, waiters, armed>>
      /\ \A u \in Tasks : status'[u] = IF u = poll_head THEN "suspended" ELSE status[u]
  BY DEF PopPoll, PopTask, Live, TypeOK
<1>2. poll_head \in Queued
  BY <1>1, RuntimeAssumption DEF QueueInv, Lists
<1>3. status[poll_head] = "scheduled"
  BY <1>2 DEF Queued
<1>4. \A u \in Tasks : Outstanding(u)' <=> Outstanding(u)
  BY <1>1 DEF Outstanding
<1>5. ASSUME NEW u \in Tasks PROVE LifeOf(u)'
  <2>1. RuntimeRef(u)' = RuntimeRef(u)
    BY <1>1, <1>3 DEF RuntimeRef
  <2> QED BY <1>1, <1>3, <1>4, <2>1 DEF LifeInv, LifeOf, Unborn, Gone
<1> QED BY <1>5 DEF LifeInv

LEMMA NextKeepsLife ==
  ASSUME TypeOK, RefInv, Features = {}, Next
  PROVE  LifeInv'
<1> USE DEF RefInv
<1>1. CASE Client \/ PollReturns \/ FinishTask \/ PopPoll
  BY <1>1, ClientKeepsLife, PollReturnsKeepsLife, FinishTaskKeepsLife, PopPollKeepsLife
<1>2. CASE PopAborted
  BY <1>2 DEF PopAborted, PopTask, LifeInv, LifeOf, TypeOK
<1>3. CASE WakeWaiter
  <2> DEFINE t == Head(waiters[cur])
  <2>1. cur \in Tasks /\ waiters[cur] # << >>
    BY <1>3 DEF WakeWaiter, WorkerInv
  <2>2. t \in Tasks /\ mem[t] = "live" /\ status[t] \in {"suspended", "scheduled"}
    BY <2>1, TopIsOutstanding, OutstandingLives
  <2>3. \A u \in Tasks : Outstanding(u)' => Outstanding(u)
    <3>1. waiters' = [waiters EXCEPT ![cur] = Tail(waiters[cur])] /\ armed' = armed
      BY <1>3 DEF WakeWaiter
    <3>2. /\ waiters[cur] \in Seq(Tasks) /\ Len(waiters[cur]) \in Nat
          /\ Len(Tail(waiters[cur])) = Len(waiters[cur]) - 1
          /\ \A i \in 1..(Len(waiters[cur]) - 1) :
               /\ Tail(waiters[cur])[i] = waiters[cur][i + 1]
               /\ i + 1 \in 1..Len(waiters[cur])
      <4> DEFINE ws == waiters[cur]
      <4>1. ws \in Seq(Tasks) /\ ws # << >>
        BY <2>1 DEF TypeOK
      <4> HIDE DEF ws
      <4>2. /\ Len(ws) \in Nat /\ Len(Tail(ws)) = Len(ws) - 1
            /\ \A i \in 1..(Len(ws) - 1) : Tail(ws)[i] = ws[i + 1] /\ i + 1 \in 1..Len(ws)
        BY <4>1
      <4> QED BY <4>1, <4>2 DEF ws
    <3>3. \A v \in Tasks : waiters'[v] = IF v = cur THEN Tail(waiters[cur]) ELSE waiters[v]
      BY <3>1 DEF TypeOK
    <3> QED BY <3>1, <3>2, <3>3 DEF Outstanding
  <2>4. /\ TaskAddEventLoop(t, status)
        /\ UNCHANGED <<mem, counter, handles, pc, cur>>
    BY <1>3 DEF WakeWaiter
  <2> QED BY <2>2, <2>3, <2>4, WakingKeepsLife
<1>4. CASE EventFdReady \/ DrainEnd \/ Exit
  <2>1. /\ UNCHANGED <<mem, counter, handles, status, waiters, armed, cur>>
        /\ pc # "wakers" /\ pc' # "wakers"
    BY <1>4 DEF EventFdReady, DrainEnd, Exit
  <2>2. ASSUME NEW u \in Tasks PROVE LifeOf(u)'
    BY <2>1 DEF LifeInv, LifeOf, Unborn, Gone, RuntimeRef, Outstanding
  <2> QED BY <2>2 DEF LifeInv
<1>5. ASSUME NEW t \in Tasks, FireTimer(t) PROVE LifeInv'
  <2>1. status[t] \in {"suspended", "scheduled"} /\ mem[t] = "live"
    BY <1>5, OutstandingLives DEF FireTimer, Outstanding
  <2>2. /\ TaskAddEventLoop(t, status)
        /\ UNCHANGED <<mem, counter, handles, pc, cur>>
    BY <1>5 DEF FireTimer
  <2>3. \A u \in Tasks : Outstanding(u)' => Outstanding(u)
    BY <1>5 DEF FireTimer, Outstanding, TypeOK
  <2> QED BY <2>1, <2>2, <2>3, WakingKeepsLife
<1> QED BY <1>1, <1>2, <1>3, <1>4, <1>5 DEF Next, Worker

-----------------------------------------------------------------------------
(* What the worker holds: every action.                                     *)

LEMMA NextKeepsWorker ==
  ASSUME TypeOK, RefInv, Features = {}, Next
  PROVE  WorkerInv'
<1> USE DEF RefInv
<1>1. CASE Client \/ \E t \in Tasks : FireTimer(t)
  <2>1. UNCHANGED <<pc, cur>>
    BY <1>1 DEF Client, Spawn, HandleClone, HandleDrop, HandleAbort, HandleJoin,
                ArmTimer, YieldWake, FireTimer
  <2>2. CASE Client
    <3>1. pc = "poll"
      BY <2>2 DEF Client, Spawn, HandleClone, HandleDrop, HandleAbort, HandleJoin,
                  ArmTimer, YieldWake
    <3>2. cur \in Tasks /\ status[cur] # "finished"
      BY <3>1 DEF WorkerInv
    <3>3. status'[cur] # "finished"
      BY <2>2, <3>2 DEF Client, Spawn, HandleClone, HandleDrop, HandleAbort, HandleJoin,
                        ArmTimer, YieldWake, TaskAddEventLoop, TypeOK
    <3> QED BY <2>1, <3>1, <3>2, <3>3 DEF WorkerInv
  <2>3. CASE \E t \in Tasks : FireTimer(t)
    BY <2>1, <2>3 DEF WorkerInv, FireTimer
  <2> QED BY <1>1, <2>2, <2>3
<1>2. CASE PollReturns
  BY <1>2, RuntimeAssumption DEF PollReturns, PollPending, PollReady, WorkerInv, TypeOK
<1>3. CASE PopPoll
  <2>1. /\ poll_head \in Tasks /\ pc' = "poll" /\ cur' = poll_head
        /\ status'[poll_head] = "suspended"
    BY <1>3 DEF PopPoll, PopTask, TypeOK
  <2> QED BY <2>1 DEF WorkerInv
<1>4. CASE PopAborted
  BY <1>4 DEF PopAborted, PopTask, LifeInv, LifeOf, TypeOK
<1>5. CASE WakeWaiter
  <2>1. /\ cur \in Tasks /\ status[cur] = "finished" /\ pc = "wakers"
        /\ UNCHANGED <<pc, cur>>
    BY <1>5 DEF WakeWaiter, WorkerInv
  <2>2. /\ Head(waiters[cur]) \in Tasks
        /\ status[Head(waiters[cur])] \in {"suspended", "scheduled"}
    BY <1>5, <2>1, TopIsOutstanding, OutstandingLives DEF WakeWaiter
  <2>3. status' = [status EXCEPT ![Head(waiters[cur])] = "scheduled"]
    BY <1>5, <2>2, WakeKeepsQueue DEF WakeWaiter
  <2>4. status'[cur] = "finished"
    BY <2>1, <2>2, <2>3 DEF TypeOK
  <2> QED BY <2>1, <2>4 DEF WorkerInv
<1>6. CASE EventFdReady \/ DrainEnd \/ Exit \/ FinishTask
  BY <1>6 DEF EventFdReady, DrainEnd, Exit, FinishTask, WorkerInv
<1> QED BY <1>1, <1>2, <1>3, <1>4, <1>5, <1>6 DEF Next, Worker

-----------------------------------------------------------------------------
(* What follows when futures await one thing at a time and never abort.     *)

LEMMA InitRefInv == Init => RefInv
<1> SUFFICES ASSUME Init PROVE RefInv
  OBVIOUS
<1> USE RuntimeAssumption DEF Init
<1>1. Queued = {Main}
  BY DEF Queued
<1>2. QueueInv
  <2> DEFINE s == [i \in 1..1 |-> Main]
  <2>1. s \in [1..1 -> Queued] /\ Lists(s, 1, Queued, poll_head, poll_tail, next)
    BY <1>1 DEF Lists
  <2>2. \A t \in Tasks \ Queued : next[t] = Null
    OBVIOUS
  <2> HIDE DEF s, Init
  <2> QED BY <2>1, <2>2 DEF QueueInv
<1>3. WorkerInv
  BY DEF WorkerInv
<1>4. \A t \in Tasks : ~Outstanding(t)
  BY DEF Outstanding
<1>5. LifeInv
  BY <1>4 DEF LifeInv, LifeOf, Unborn, Gone, RuntimeRef
<1> QED BY <1>2, <1>3, <1>5 DEF RefInv

LEMMA NextKeepsRefInv ==
  ASSUME Features = {}, TypeOK, RefInv, [Next]_vars
  PROVE  RefInv'
<1>1. CASE Next
  BY <1>1, NextKeepsQueue, NextKeepsWorker, NextKeepsLife DEF RefInv
<1>2. CASE UNCHANGED vars
  <2>1. QueueInv'
    BY <1>2, QuietKeepsQueue DEF vars, queueVars, RefInv, Queued
  <2>2. WorkerInv'
    BY <1>2 DEF vars, RefInv, WorkerInv
  <2>3. ASSUME NEW t \in Tasks PROVE LifeOf(t)'
    BY <1>2, WakeKeepsLife DEF vars, RefInv, LifeInv, Outstanding
  <2> QED BY <2>1, <2>2, <2>3 DEF RefInv, LifeInv
<1> QED BY <1>1, <1>2

LEMMA SpecRefInv == ASSUME Features = {} PROVE Spec => [](TypeOK /\ RefInv)
<1>1. TypeOK /\ RefInv /\ [Next]_vars => RefInv'
  BY NextKeepsRefInv
<1> QED BY <1>1, InitRefInv, TypeCorrect, PTL DEF Spec

\* The reference count of a task is the number of references: it is freed with
\* the last one, neither before (use after free) nor never (leak).
THEOREM CountsReferences == ASSUME Features = {} PROVE Spec => []RefCountExact
<1>1. TypeOK /\ RefInv => RefCountExact
  BY DEF TypeOK, RefInv, LifeInv, LifeOf, Gone, RefCountExact, Live
<1> QED BY <1>1, SpecRefInv, PTL

\* Nothing the worker, a timer, a wake node or a handle leads to is freed.
THEOREM NeverDangles == ASSUME Features = {} PROVE Spec => []NoDanglingTask
<1>1. ASSUME TypeOK, RefInv PROVE NoDanglingTask
  <2> SUFFICES ASSUME NEW t \in Reachable, t # Null PROVE mem[t] = "live"
    BY DEF NoDanglingTask, Live
  <2>1. \A u \in Queued : u \in Tasks /\ mem[u] = "live"
    BY <1>1 DEF TypeOK, RefInv, LifeInv, LifeOf, Unborn, Gone, Queued
  <2>2. PICK n \in Nat : \E s \in [1..n -> Queued] :
          Lists(s, n, Queued, poll_head, poll_tail, next)
    BY <1>1 DEF RefInv, QueueInv
  <2>3. PICK s \in [1..n -> Queued] : Lists(s, n, Queued, poll_head, poll_tail, next)
    BY <2>2
  <2>4. poll_head \in Queued \cup {Null} /\ poll_tail \in Queued \cup {Null}
    BY <2>3 DEF Lists
  <2>5. \A u \in Queued : next[u] \in Queued \cup {Null}
    BY <2>3 DEF Lists
  <2>6. \A u \in Tasks : armed[u] \/ handles[u] > 0 \/ Outstanding(u) => mem[u] = "live"
    <3> SUFFICES ASSUME NEW u \in Tasks, handles[u] > 0 \/ Outstanding(u)
                 PROVE  mem[u] = "live"
      BY DEF Outstanding
    <3>1. LifeOf(u) /\ mem[u] \in {"none", "live", "freed"}
      BY <1>1 DEF TypeOK, RefInv, LifeInv
    <3>2. CASE Outstanding(u)
      BY <3>1, <3>2 DEF LifeOf, Unborn, Gone
    <3>3. CASE handles[u] > 0
      BY <3>1, <3>3 DEF LifeOf, Unborn, Gone
    <3> QED BY <3>2, <3>3
  <2>7. cur = Null \/ mem[cur] = "live"
    BY <1>1, HeldTaskLives DEF RefInv, WorkerInv
  <2> QED BY <2>1, <2>4, <2>5, <2>6, <2>7 DEF Reachable, Queued
<1> QED BY <1>1, SpecRefInv, PTL

\* The queue is what the drain loop takes it for: every scheduled task once.
THEOREM QueueIsExact == ASSUME Features = {} PROVE Spec => []QueueHoldsScheduled
<1>1. ASSUME RefInv PROVE QueueHoldsScheduled
  <2>1. PICK n \in Nat : \E s \in [1..n -> Queued] :
          Lists(s, n, Queued, poll_head, poll_tail, next)
    BY <1>1 DEF RefInv, QueueInv
  <2>2. PICK s \in [1..n -> Queued] : Lists(s, n, Queued, poll_head, poll_tail, next)
    BY <2>1
  <2>3. s \in Bijection(1..n, Queued)
    BY <2>2 DEF Lists, Bijection, Injection, Surjection, IsInjective
  <2>4. IsFiniteSet(1..n) /\ Cardinality(1..n) = n
    BY FS_Interval
  <2>5. Cardinality(Queued) = n
    BY <2>3, <2>4, FS_Bijection DEF ExistsBijection
  <2> QED BY <2>2, <2>5 DEF QueueHoldsScheduled
<1> QED BY <1>1, SpecRefInv, PTL

-----------------------------------------------------------------------------
(* Waiters, whatever the clients do.                                        *)

\* A finished task has waiters only while its wake list is being walked.
WaitersInv ==
  /\ \A t \in Tasks : status[t] = "finished" /\ ~(pc = "wakers" /\ cur = t)
                        => waiters[t] = << >>
  /\ pc = "poll" => status[cur] # "finished"

LEMMA NextKeepsWaiters ==
  ASSUME IInv, WaitersInv, [Next]_vars
  PROVE  WaitersInv'
<1> USE DEF WaitersInv
<1>1. TypeOK /\ (pc \in {"poll", "wakers"} => cur \in Tasks)
  BY DEF IInv, WorkerHoldsTask
<1>2. ASSUME NEW t \in Tasks, \/ Spawn(t) \/ HandleClone(t) \/ HandleDrop(t)
                              \/ HandleAbort(t) \/ HandleJoin(t)
      PROVE  WaitersInv'
  <2>1. pc = "poll" /\ UNCHANGED <<pc, cur>>
    BY <1>2 DEF Spawn, HandleClone, HandleDrop, HandleAbort, HandleJoin
  <2>2. \A u \in Tasks : status'[u] = "finished" => status[u] = "finished"
    BY <1>1, <1>2 DEF Spawn, HandleClone, HandleDrop, HandleAbort, HandleJoin,
                      TaskAddEventLoop, TypeOK
  <2>3. \A u \in Tasks : status[u] = "finished" => waiters'[u] = waiters[u]
    <3>1. \/ waiters' = waiters
          \/ waiters' = [waiters EXCEPT ![t] = <<cur>> \o waiters[t]] /\ LeavesNode(t)
      BY <1>2 DEF Spawn, HandleClone, HandleDrop, HandleAbort, HandleJoin
    <3>2. waiters \in [Tasks -> Seq(Tasks)]
      BY <1>1 DEF TypeOK
    <3> QED BY <3>1, <3>2 DEF LeavesNode
  <2> QED BY <1>1, <2>1, <2>2, <2>3
<1>3. CASE ArmTimer \/ YieldWake \/ \E t \in Tasks : FireTimer(t)
  <2>1. CASE ArmTimer
    BY <1>1, <2>1 DEF ArmTimer, TypeOK
  <2>2. CASE YieldWake
    BY <1>1, <2>2 DEF YieldWake, TaskAddEventLoop, TypeOK
  <2>3. CASE \E t \in Tasks : FireTimer(t)
    BY <1>1, <2>3 DEF FireTimer, TaskAddEventLoop, TypeOK
  <2> QED BY <1>3, <2>1, <2>2, <2>3
<1>4. CASE PollPending \/ PollReady
  BY <1>1, <1>4 DEF PollPending, PollReady, TypeOK
<1>5. CASE WakeWaiter
  BY <1>1, <1>5 DEF WakeWaiter, TaskAddEventLoop, TypeOK
<1>6. CASE PopPoll \/ PopAborted
  BY <1>1, <1>6 DEF PopPoll, PopAborted, PopTask, TypeOK
<1>7. CASE EventFdReady \/ DrainEnd \/ Exit \/ FinishTask
  BY <1>1, <1>7 DEF EventFdReady, DrainEnd, Exit, FinishTask
<1>8. CASE UNCHANGED vars
  BY <1>8 DEF vars
<1> QED BY <1>2, <1>3, <1>4, <1>5, <1>6, <1>7, <1>8 DEF Next, Client, PollReturns, Worker

\* Nobody is left waiting for a task that has finished: a join either finds the
\* task finished or is woken by task_wake_wakers().
THEOREM FinishedWokeAll == Spec => []FinishedHasNoWaiters
<1>1. Init => WaitersInv
  BY DEF Init, WaitersInv
<1>2. WaitersInv => FinishedHasNoWaiters
  BY DEF WaitersInv, FinishedHasNoWaiters
<1>3. IInv /\ WaitersInv /\ [Next]_vars => WaitersInv'
  BY NextKeepsWaiters
<1> QED BY <1>1, <1>2, <1>3, SpecIInv, PTL DEF Spec
=============================================================================
