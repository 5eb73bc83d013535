------------------------------- MODULE Runtime -------------------------------
(***************************************************************************)
(* The single-threaded executor of src/platform/linux/runtime.c: tasks,    *)
(* their reference counts and handles, the intrusive run queue between     *)
(* poll_head and poll_tail, the eventfd that tells epoll the queue is not  *)
(* empty, and the loop of worker_run().                                    *)
(*                                                                         *)
(* A task's future is client code.  While it is being polled it may do     *)
(* any sequence of the calls of taskio/runtime.h and taskio/async.h before *)
(* the poll returns; everything else runs when no poll is in progress.     *)
(*                                                                         *)
(* Reading freed memory is undefined: an action that would do it is not    *)
(* enabled, and NoDanglingTask says that no such state is reached.         *)
(* A definition marked (slip) is no part of the model: it is the mistake   *)
(* that shows that a property can fail (PROJECT.json, "mutants").          *)
(***************************************************************************)
EXTENDS Naturals, Sequences, FiniteSets

CONSTANTS
  Tasks,       \* task objects; each is allocated at most once
  Main,        \* the task taskio_runtime_block_on() spawns
  Null,        \* the null pointer
  MaxHandles,  \* bound: handles held on one task at a time
  MaxWaiters,  \* bound: wake nodes on one task at a time
  Features     \* what client futures do besides awaiting one thing at a time:
               \*   "abort"  they call taskio_handle_abort()
               \*   "select" they await several things in one poll and may
               \*            go on while some of them are still outstanding

ASSUME RuntimeAssumption ==
  /\ Main \in Tasks
  /\ Null \notin Tasks
  /\ MaxHandles \in Nat \ {0}
  /\ MaxWaiters \in Nat \ {0}
  /\ Features \subseteq {"abort", "select"}

VARIABLES
  mem,             \* task memory: "none", "live" or "freed"
  counter,         \* task->base.counter
  handles,         \* user handles that point to the task
  status,          \* task->base.status
  next,            \* task->next
  waiters,         \* the wake nodes of wake_on_ready_top, top first
  armed,           \* a timer of the task's future still holds its waker
  poll_head, poll_tail, poll_scheduled,
  event_fd,        \* counter of the eventfd
  running,         \* local of worker_run()
  pc,              \* where the worker is: "epoll" blocked or between batches,
                   \* "drain" in the pop loop, "poll" in future->poll(),
                   \* "wakers" in task_wake_wakers(), "exit" returned
  cur              \* the task being polled or finished

queueVars == <<next, poll_head, poll_tail, poll_scheduled, event_fd>>
vars == <<mem, counter, handles, status, waiters, armed, queueVars, running, pc, cur>>

Status == {"suspended", "scheduled", "aborted", "finished"}

TypeOK ==
  /\ mem \in [Tasks -> {"none", "live", "freed"}]
  /\ counter \in [Tasks -> Nat]
  /\ handles \in [Tasks -> Nat]
  /\ status \in [Tasks -> Status]
  /\ next \in [Tasks -> Tasks \cup {Null}]
  /\ waiters \in [Tasks -> Seq(Tasks)]
  /\ armed \in [Tasks -> BOOLEAN]
  /\ poll_head \in Tasks \cup {Null}
  /\ poll_tail \in Tasks \cup {Null}
  /\ poll_scheduled \in BOOLEAN
  /\ event_fd \in {0, 1}
  /\ running \in BOOLEAN
  /\ pc \in {"epoll", "drain", "poll", "wakers", "exit"}
  /\ cur \in Tasks \cup {Null}

-----------------------------------------------------------------------------
(* Pieces of the handlers.                                                  *)

\* References a new task starts with: the user's handle and the runtime's.
\* (slip) only one of the two references is counted
OneInitialRef == 1
InitialRefs == 2

Live(t) == mem[t] = "live"

\* task_drop(): the last reference frees the task.
\* (slip) off by one
IsLastRefEarly(t) == counter[t] = 2
IsLastRef(t) == counter[t] = 1
TaskDrop(t) ==
  /\ Live(t)
  /\ counter' = [counter EXCEPT ![t] = @ - 1]
  /\ mem' = IF IsLastRef(t) THEN [mem EXCEPT ![t] = "freed"] ELSE mem

\* task_add_event_loop(): st is the status of the tasks when it is called.
\* The status check is all that keeps a task from being linked twice.
\* (slip) pushes in front of the queue
EnqueueInFront(t) ==
  /\ poll_head' = t
  /\ next' = [next EXCEPT ![t] = poll_head]
  /\ poll_tail' = IF poll_tail = Null THEN t ELSE poll_tail
Enqueue(t) ==
  /\ poll_head' = IF poll_tail = Null THEN t ELSE poll_head
  /\ next' = IF poll_tail = Null THEN next ELSE [next EXCEPT ![poll_tail] = t]
  /\ poll_tail' = t

\* (slip) writes the eventfd for every task
AlwaysNeedsEvent == TRUE
NeedsEvent == ~poll_scheduled
TaskAddEventLoop(t, st) ==
  /\ Live(t)
  /\ IF st[t] = "scheduled"
     THEN /\ status' = st
          /\ UNCHANGED queueVars
     ELSE /\ poll_tail # Null => Live(poll_tail)
          /\ status' = [st EXCEPT ![t] = "scheduled"]
          /\ Enqueue(t)
          /\ poll_scheduled' = TRUE
          /\ event_fd' = IF NeedsEvent THEN event_fd + 1 ELSE event_fd

\* __TASKIO_FUTURE_CLEANUP(): the cleanup of a pending sleep aborts its timer,
\* or misses it when it looks in another wheel than the timer is in (see
\* TimerWheel).  Nothing takes a wake node back.
FutureCleanup(t) == armed' \in {armed, [armed EXCEPT ![t] = FALSE]}

\* t has been handed out as a waker that has not been called yet.
Outstanding(t) ==
  \/ armed[t]
  \/ \E u \in Tasks : \E i \in 1..Len(waiters[u]) : waiters[u][i] = t

\* A future without select or abort goes on only when the one thing it
\* awaited has woken it, and registers at most one waker before it suspends.
MayProceed ==
  Features # {} \/ (~Outstanding(cur) /\ status[cur] = "suspended")

-----------------------------------------------------------------------------
(* Calls a future makes while it is polled.                                 *)

\* taskio_runtime_spawn()
Spawn(t) ==
  /\ pc = "poll"
  /\ mem[t] = "none"
  /\ counter' = [counter EXCEPT ![t] = InitialRefs]
  /\ handles' = [handles EXCEPT ![t] = 1]
  /\ mem' = [mem EXCEPT ![t] = "live"]
  /\ poll_tail # Null => Live(poll_tail)
  /\ status' = [status EXCEPT ![t] = "scheduled"]
  /\ Enqueue(t)
  /\ poll_scheduled' = TRUE
  /\ event_fd' = IF NeedsEvent THEN event_fd + 1 ELSE event_fd
  /\ UNCHANGED <<waiters, armed, running, pc, cur>>

\* taskio_handle_clone()
HandleClone(t) ==
  /\ pc = "poll"
  /\ handles[t] \in 1..(MaxHandles - 1)
  /\ Live(t)
  /\ counter' = [counter EXCEPT ![t] = @ + 1]
  /\ handles' = [handles EXCEPT ![t] = @ + 1]
  /\ UNCHANGED <<mem, status, waiters, armed, queueVars, running, pc, cur>>

\* taskio_handle_drop()
HandleDrop(t) ==
  /\ pc = "poll"
  /\ handles[t] > 0
  /\ TaskDrop(t)
  /\ handles' = [handles EXCEPT ![t] = @ - 1]
  /\ UNCHANGED <<status, waiters, armed, queueVars, running, pc, cur>>

\* taskio_handle_abort(): of a suspended task it sets the status and then
\* queues the task, of a scheduled one it only sets the status, of a finished
\* or aborted one it does nothing.
HandleAbort(t) ==
  /\ "abort" \in Features
  /\ pc = "poll"
  /\ handles[t] > 0
  /\ Live(t)
  /\ \/ /\ status[t] = "suspended"
        /\ TaskAddEventLoop(t, [status EXCEPT ![t] = "aborted"])
     \/ /\ status[t] = "scheduled"
        /\ status' = [status EXCEPT ![t] = "aborted"]
        /\ UNCHANGED queueVars
  /\ UNCHANGED <<mem, counter, handles, waiters, armed, running, pc, cur>>

\* Only a join on a finished task returns before it registers a wake node.
LeavesNode(t) == status[t] # "finished"

\* await_get_handle(): taskio_handle_join() with the waker of the polled task,
\* then taskio_handle_drop().  The suspended_yield() that follows is PollPending.
HandleJoin(t) ==
  /\ pc = "poll"
  /\ MayProceed
  /\ t # cur
  /\ handles[t] > 0
  /\ Len(waiters[t]) < MaxWaiters
  /\ waiters' = IF LeavesNode(t)
                THEN [waiters EXCEPT ![t] = <<cur>> \o @]
                ELSE waiters
  /\ IF status[t] \in {"aborted", "finished"}
     THEN TaskAddEventLoop(cur, status)
     ELSE UNCHANGED <<status, queueVars>>
  /\ TaskDrop(t)
  /\ handles' = [handles EXCEPT ![t] = @ - 1]
  /\ UNCHANGED <<armed, running, pc, cur>>

\* taskio_sleep() polled for the first time: the timer keeps the task's waker.
ArmTimer ==
  /\ pc = "poll"
  /\ MayProceed
  /\ armed' = [armed EXCEPT ![cur] = TRUE]
  /\ UNCHANGED <<mem, counter, handles, status, waiters, queueVars, running, pc, cur>>

\* The wake that yield() does before it returns pending.
YieldWake ==
  /\ pc = "poll"
  /\ MayProceed
  /\ TaskAddEventLoop(cur, status)
  /\ UNCHANGED <<mem, counter, handles, waiters, armed, running, pc, cur>>

\* The poll leaves the result pending or undefined: the executor forgets the
\* task until somebody wakes it.
PollPending ==
  /\ pc = "poll"
  /\ pc' = "drain"
  /\ cur' = Null
  /\ UNCHANGED <<mem, counter, handles, status, waiters, armed, queueVars, running>>

-----------------------------------------------------------------------------
(* The worker.                                                              *)

\* The poll leaves the result ready: cleanup, then the status is final.
PollReady ==
  /\ pc = "poll"
  /\ MayProceed
  /\ Live(cur)
  /\ FutureCleanup(cur)
  /\ status' = [status EXCEPT ![cur] = "finished"]
  /\ pc' = "wakers"
  /\ UNCHANGED <<mem, counter, handles, waiters, queueVars, running, cur>>

\* One turn of the loop of task_wake_wakers().
\* (slip) the list is dropped after the first waiter
WakeTopOnly ==
  /\ pc = "wakers"
  /\ waiters[cur] # << >>
  /\ TaskAddEventLoop(Head(waiters[cur]), status)
  /\ waiters' = [waiters EXCEPT ![cur] = << >>]
  /\ UNCHANGED <<mem, counter, handles, armed, running, pc, cur>>
WakeWaiter ==
  /\ pc = "wakers"
  /\ waiters[cur] # << >>
  /\ TaskAddEventLoop(Head(waiters[cur]), status)
  /\ waiters' = [waiters EXCEPT ![cur] = Tail(@)]
  /\ UNCHANGED <<mem, counter, handles, armed, running, pc, cur>>

FinishTask ==
  /\ pc = "wakers"
  /\ waiters[cur] = << >>
  /\ running' = (running /\ cur # Main)
  /\ TaskDrop(cur)
  /\ pc' = "drain"
  /\ cur' = Null
  /\ UNCHANGED <<handles, status, waiters, armed, queueVars>>

\* epoll_wait() reports the eventfd; reading it resets its counter.
EventFdReady ==
  /\ pc = "epoll"
  /\ running
  /\ event_fd > 0
  /\ event_fd' = 0
  /\ pc' = "drain"
  /\ UNCHANGED <<mem, counter, handles, status, next, waiters, armed,
                 poll_head, poll_tail, poll_scheduled, running, cur>>

\* poll_tail after the head has been unlinked.
\* (slip) the tail is not reset with the last task
TailKept == poll_tail
TailAfterPop == IF next[poll_head] = Null THEN Null ELSE poll_tail
PopTask ==
  /\ pc = "drain"
  /\ poll_head # Null
  /\ Live(poll_head)
  /\ poll_head' = next[poll_head]
  /\ poll_tail' = TailAfterPop

PopPoll ==
  /\ PopTask
  /\ status[poll_head] # "aborted"
  /\ status' = [status EXCEPT ![poll_head] = "suspended"]
  /\ next' = [next EXCEPT ![poll_head] = Null]
  /\ pc' = "poll"
  /\ cur' = poll_head
  /\ UNCHANGED <<mem, counter, handles, waiters, armed, poll_scheduled, event_fd, running>>

\* An aborted task is cleaned up and dropped.  Neither its link nor its wake
\* nodes are touched.
PopAborted ==
  /\ PopTask
  /\ status[poll_head] = "aborted"
  /\ FutureCleanup(poll_head)
  /\ running' = (running /\ poll_head # Main)
  /\ TaskDrop(poll_head)
  /\ UNCHANGED <<handles, status, next, waiters, poll_scheduled, event_fd, pc, cur>>

\* poll_scheduled when the drain loop has found the queue empty.
\* (slip) poll_scheduled is not reset
StillScheduled == TRUE
AfterDrain == FALSE
DrainEnd ==
  /\ pc = "drain"
  /\ poll_head = Null
  /\ poll_scheduled' = AfterDrain
  /\ pc' = "epoll"
  /\ UNCHANGED <<mem, counter, handles, status, next, waiters, armed,
                 poll_head, poll_tail, event_fd, running, cur>>

\* taskio_sleep_handler(), called while the worker handles the timerfd.  The
\* timerfd may come after the eventfd in one batch, so running may be FALSE.
FireTimer(t) ==
  /\ pc = "epoll"
  /\ armed[t]
  /\ armed' = [armed EXCEPT ![t] = FALSE]
  /\ TaskAddEventLoop(t, status)
  /\ UNCHANGED <<mem, counter, handles, waiters, running, pc, cur>>

Exit ==
  /\ pc = "epoll"
  /\ ~running
  /\ pc' = "exit"
  /\ UNCHANGED <<mem, counter, handles, status, waiters, armed, queueVars, running, cur>>

-----------------------------------------------------------------------------

\* worker_run() starts after taskio_runtime_block_on() has spawned Main and
\* dropped its handle.
Init ==
  /\ mem = [t \in Tasks |-> IF t = Main THEN "live" ELSE "none"]
  /\ counter = [t \in Tasks |-> IF t = Main THEN 1 ELSE 0]
  /\ handles = [t \in Tasks |-> 0]
  /\ status = [t \in Tasks |-> IF t = Main THEN "scheduled" ELSE "suspended"]
  /\ next = [t \in Tasks |-> Null]
  /\ waiters = [t \in Tasks |-> << >>]
  /\ armed = [t \in Tasks |-> FALSE]
  /\ poll_head = Main
  /\ poll_tail = Main
  /\ poll_scheduled = TRUE
  /\ event_fd = 1
  /\ running = TRUE
  /\ pc = "epoll"
  /\ cur = Null

Client ==
  \/ \E t \in Tasks : \/ Spawn(t) \/ HandleClone(t) \/ HandleDrop(t)
                      \/ HandleAbort(t) \/ HandleJoin(t)
  \/ ArmTimer
  \/ YieldWake

PollReturns == PollPending \/ PollReady

Worker == \/ EventFdReady \/ PopPoll \/ PopAborted \/ WakeWaiter
          \/ FinishTask \/ DrainEnd \/ Exit

Next == Client \/ PollReturns \/ Worker \/ \E t \in Tasks : FireTimer(t)

Spec == Init /\ [][Next]_vars

\* The worker thread runs, every poll returns, and every armed timer expires
\* and is handled whenever the worker keeps coming back to epoll_wait(), which
\* reports all the descriptors that are ready.
FairSpec ==
  /\ Spec
  /\ WF_vars(Worker)
  /\ WF_vars(PollReturns)
  /\ \A t \in Tasks : SF_vars(FireTimer(t))

-----------------------------------------------------------------------------
(* Properties.                                                              *)

\* Everything task_add_event_loop() and worker_run() will follow.
Reachable ==
  {poll_head, poll_tail, cur} \cup
  {t \in Tasks : armed[t] \/ handles[t] > 0 \/ Outstanding(t)} \cup
  {next[t] : t \in {u \in Tasks : status[u] = "scheduled"}}

\* No pointer the code will still follow (queue ends and links, wakers held by
\* timers and wake nodes, user handles, the task being polled) leads to a task
\* that task_drop() has freed.
NoDanglingTask == \A t \in Reachable \ {Null} : Live(t)

\* The counter of a live task is the number of handles that users hold plus one
\* for the runtime until the worker has dropped the finished task, so a task
\* is freed exactly when nobody can name it any more (task_drop()).
RuntimeRef(t) == IF status[t] # "finished" \/ (pc = "wakers" /\ cur = t) THEN 1 ELSE 0
RefCountExact ==
  \A t \in Tasks :
    /\ Live(t) => counter[t] = handles[t] + RuntimeRef(t) /\ counter[t] > 0
    /\ mem[t] = "freed" => counter[t] = 0 /\ handles[t] = 0

Queued == {t \in Tasks : status[t] = "scheduled"}

\* s[1], ..., s[n] are the tasks q, each once, in the order of the links.
Lists(s, n, q, head, end, link) ==
  /\ \A t \in q : \E i \in 1..n : s[i] = t
  /\ \A i, j \in 1..n : s[i] = s[j] => i = j
  /\ head = IF n = 0 THEN Null ELSE s[1]
  /\ end = IF n = 0 THEN Null ELSE s[n]
  /\ \A i \in 1..n : link[s[i]] = IF i = n THEN Null ELSE s[i + 1]

\* The links from poll_head reach exactly the scheduled tasks, each once, and
\* end at poll_tail: the status check of task_add_event_loop() is enough to
\* keep every woken task in the queue and no task in it twice.
QueueHoldsScheduled ==
  LET n == Cardinality(Queued) IN
  \E s \in [1..n -> Queued] : Lists(s, n, Queued, poll_head, poll_tail, next)

\* The worker never blocks in epoll_wait() with a task in the queue and an
\* eventfd that will not wake it: poll_scheduled is reset late enough
\* (worker_run()) and tested early enough (task_add_event_loop()).
WakeupNotLost == pc = "epoll" /\ poll_head # Null => event_fd > 0

\* A join node is never left on a finished task, whose wake list nobody walks
\* again: taskio_handle_join() and task_wake_wakers() agree on who wakes.
FinishedHasNoWaiters ==
  \A t \in Tasks : status[t] = "finished" /\ cur # t => waiters[t] = << >>

\* Every task that is woken gets polled, whatever other tasks do, unless the
\* worker returns because Main is done.
ScheduledIsPolled ==
  \A t \in Tasks : status[t] = "scheduled" ~> (cur = t \/ pc = "exit")

\* Whoever waits for a task that finishes is polled again.
JoinerResumes ==
  \A t, u \in Tasks :
    (status[u] = "finished" /\ \E i \in 1..Len(waiters[u]) : waiters[u][i] = t)
      ~> ((cur = t /\ pc = "poll") \/ pc = "exit")

\* Aborting a task that has not finished leaves it aborted, so that the worker
\* cleans it up instead of polling it.
AbortTakesEffect ==
  [][\A t \in Tasks : HandleAbort(t) => status'[t] = "aborted"]_vars
=============================================================================
