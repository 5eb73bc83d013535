------------------------------ MODULE WakeRace ------------------------------
(***************************************************************************)
(* Wakes from other threads: task_add_event_loop() of                      *)
(* src/platform/linux/runtime.c, called by a blocking worker whose task    *)
(* has ended or a thread that signals a semaphore, against the drain loop  *)
(* of worker_run().  Without TASKIO_RT_MULTI_THREADED_FEATURE neither      *)
(* takes a lock, so every load and store of a shared field is a step.      *)
(* These are data races, whose outcomes C does not limit: the model has    *)
(* those that some interleaving of the statements gives when each loads a  *)
(* field once and keeps it in a register, as the optimised build does.     *)
(*                                                                         *)
(* A waker is a pointer to the task and may be copied (join() of several   *)
(* children, select(), a timeout beside what it limits): everybody wakes   *)
(* every task as often as he likes, and two may wake the same one at once. *)
(* A task here does not end; Runtime has its life.                         *)
(* A definition marked (slip) is the mistake that shows that a property    *)
(* can fail (PROJECT.json, "mutants"), no part of the model.               *)
(***************************************************************************)
EXTENDS Naturals

CONSTANTS
  Tasks,
  Threads,  \* threads beside the loop's
  Loop,     \* the loop's thread, which wakes tasks as well
  Null

ASSUME WakeAssumption == Null \notin Tasks /\ Loop \notin Threads

Callers == Threads \cup {Loop}

VARIABLES
  status,    \* task->base.status: "suspended" or "scheduled"
  next,      \* task->next
  poll_head, poll_tail, poll_scheduled,
  event_fd,  \* 1 while the eventfd can be read
  pc,        \* where the loop is: "epoll" blocked, the line it is about to run
             \* ("head", "advance", "tail", "status", "next", "unschedule"),
             \* or "poll" in task->future->poll()
  task,      \* its local
  at,        \* where each caller of task_add_event_loop() is: "out" or the
             \* line it is about to run
  waking,    \* its argument
  tail,      \* what it has loaded from poll_tail
  due,       \* history: tasks that a call has scheduled, not polled since
  quiet,     \* history: tasks whose wake met nothing else going on
  doubled    \* history: a call has scheduled a task that another one had
             \* scheduled since the first tested its status

queueVars == <<next, poll_head, poll_tail>>
callVars == <<at, waking, tail>>
historyVars == <<due, quiet, doubled>>
vars == <<status, queueVars, poll_scheduled, event_fd, pc, task, callVars, historyVars>>

Pointer == Tasks \cup {Null}

TypeOK ==
  /\ status \in [Tasks -> {"suspended", "scheduled"}]
  /\ next \in [Tasks -> Pointer]
  /\ {poll_head, poll_tail, task} \subseteq Pointer
  /\ poll_scheduled \in BOOLEAN /\ event_fd \in {0, 1}
  /\ pc \in {"epoll", "head", "advance", "tail", "status", "next", "poll", "unschedule"}
  /\ at \in [Callers -> {"out", "status", "store", "load", "link", "tail", "scheduled", "ring", "write"}]
  /\ waking \in [Callers -> Pointer] /\ tail \in [Callers -> Pointer]
  /\ due \subseteq Tasks /\ quiet \subseteq Tasks /\ doubled \in BOOLEAN
  /\ pc \in {"advance", "tail", "status", "next", "poll"} => task # Null

-----------------------------------------------------------------------------
(* task_add_event_loop(), called through task_wake().                       *)

Goto(c, line) == at' = [at EXCEPT ![c] = line]
Line(c, line) == at[c] = line

\* What c has in its registers is forgotten when it is of no use any more.
Return(c) == Goto(c, "out") /\ waking' = [waking EXCEPT ![c] = Null]

\* Nothing is going on: the loop is blocked and the queue is empty.
Idle ==
  /\ pc = "epoll" /\ event_fd = 0 /\ ~poll_scheduled
  /\ poll_head = Null /\ poll_tail = Null
  /\ \A c \in Callers : at[c] = "out"

\* The calls that are not over yet when another begins have met something.
Undisturbed == {t \in quiet : \A c \in Callers : at[c] # "out" => waking[c] # t}

\* Threads wake when they like, the loop's timers between two batches, and a
\* polled task what it signals, or itself (yield()).  A task whose last wake was
\* lost keeps its status, and no wake is of use to it: such a one is not quiet.
Call(c, t) ==
  /\ Line(c, "out")
  /\ c = Loop => pc \in {"epoll", "poll"}
  /\ Goto(c, "status")
  /\ waking' = [waking EXCEPT ![c] = t]
  /\ quiet' = IF Idle /\ t \notin due THEN {t} ELSE Undisturbed
  /\ UNCHANGED <<status, queueVars, poll_scheduled, event_fd, pc, task, tail, due, doubled>>

\* The wake of a task that is scheduled is left to the poll it is scheduled for.
LoadStatus(c) ==
  /\ Line(c, "status")
  /\ IF status[waking[c]] = "scheduled" THEN Return(c) ELSE Goto(c, "store") /\ UNCHANGED waking
  /\ UNCHANGED <<status, queueVars, poll_scheduled, event_fd, pc, task, tail, historyVars>>

StoreStatus(c) ==
  /\ Line(c, "store")
  /\ status' = [status EXCEPT ![waking[c]] = "scheduled"]
  /\ due' = due \cup {waking[c]}
  /\ doubled' = (doubled \/ waking[c] \in due)
  /\ Goto(c, "load")
  /\ UNCHANGED <<queueVars, poll_scheduled, event_fd, pc, task, waking, tail, quiet>>

LoadTail(c) ==
  /\ Line(c, "load")
  /\ tail' = [tail EXCEPT ![c] = poll_tail]
  /\ Goto(c, "link")
  /\ UNCHANGED <<status, queueVars, poll_scheduled, event_fd, pc, task, waking, historyVars>>

Link(c) ==
  /\ Line(c, "link")
  /\ IF tail[c] = Null
     THEN poll_head' = waking[c] /\ UNCHANGED next
     ELSE next' = [next EXCEPT ![tail[c]] = waking[c]] /\ UNCHANGED poll_head
  /\ tail' = [tail EXCEPT ![c] = Null]
  /\ Goto(c, "tail")
  /\ UNCHANGED <<status, poll_tail, poll_scheduled, event_fd, pc, task, waking, historyVars>>

StoreTail(c) ==
  /\ Line(c, "tail")
  /\ poll_tail' = waking[c]
  /\ Goto(c, "scheduled")
  /\ UNCHANGED <<status, next, poll_head, poll_scheduled, event_fd, pc, task, waking, tail, historyVars>>

TestScheduled(c) ==
  /\ Line(c, "scheduled")
  /\ IF poll_scheduled THEN Return(c) ELSE Goto(c, "ring") /\ UNCHANGED waking
  /\ UNCHANGED <<status, queueVars, poll_scheduled, event_fd, pc, task, tail, historyVars>>

SetScheduled(c) ==
  /\ Line(c, "ring")
  /\ poll_scheduled' = TRUE
  /\ Goto(c, "write")
  /\ UNCHANGED <<status, queueVars, event_fd, pc, task, waking, tail, historyVars>>

WriteEvent(c) ==
  /\ Line(c, "write")
  /\ event_fd' = 1
  /\ Return(c)
  /\ UNCHANGED <<status, queueVars, poll_scheduled, pc, task, tail, historyVars>>

Waking(c) ==
  \/ LoadStatus(c) \/ StoreStatus(c) \/ LoadTail(c) \/ Link(c) \/ StoreTail(c)
  \/ TestScheduled(c) \/ SetScheduled(c) \/ WriteEvent(c)

-----------------------------------------------------------------------------
(* worker_run().                                                            *)

\* The loop's thread does one thing at a time.
LoopAt(line) == pc = line /\ at[Loop] = "out"

ReadEvent ==
  /\ LoopAt("epoll") /\ event_fd = 1
  /\ event_fd' = 0
  /\ pc' = "head"
  /\ UNCHANGED <<status, queueVars, poll_scheduled, task, callVars, historyVars>>

\* (slip) the end of the queue is taken for its head
EmptyByTail == poll_tail = Null
Empty == poll_head = Null

LoadHead ==
  /\ LoopAt("head")
  /\ task' = poll_head
  /\ pc' = IF Empty THEN "unschedule" ELSE "advance"
  /\ UNCHANGED <<status, queueVars, poll_scheduled, event_fd, callVars, historyVars>>

\* poll_head = poll_head->next, with the head that has been loaded.
Advance ==
  /\ LoopAt("advance")
  /\ poll_head' = next[task]
  /\ pc' = IF next[task] = Null THEN "tail" ELSE "status"
  /\ UNCHANGED <<status, next, poll_tail, poll_scheduled, event_fd, task, callVars, historyVars>>

ClearTail ==
  /\ LoopAt("tail")
  /\ poll_tail' = Null
  /\ pc' = "status"
  /\ UNCHANGED <<status, next, poll_head, poll_scheduled, event_fd, task, callVars, historyVars>>

\* (slip) the status is left to the poll
StatusLeft == status[task]
StatusInPoll == "suspended"

\* From here on a wake finds the task suspended, and schedules it anew.
SetSuspended ==
  /\ LoopAt("status")
  /\ status' = [status EXCEPT ![task] = StatusInPoll]
  /\ pc' = "next"
  /\ due' = due \ {task}
  /\ quiet' = quiet \ {task}
  /\ UNCHANGED <<queueVars, poll_scheduled, event_fd, task, callVars, doubled>>

\* (slip) the link is not reset
OldLink == next[task]
NoLink == Null

ClearNext ==
  /\ LoopAt("next")
  /\ next' = [next EXCEPT ![task] = NoLink]
  /\ pc' = "poll"
  /\ UNCHANGED <<status, poll_head, poll_tail, poll_scheduled, event_fd, task, callVars, historyVars>>

PollReturns ==
  /\ LoopAt("poll")
  /\ pc' = "head"
  /\ task' = Null
  /\ UNCHANGED <<status, queueVars, poll_scheduled, event_fd, callVars, historyVars>>

\* (slip) poll_scheduled is not reset
StillScheduled == poll_scheduled
NotScheduled == FALSE

Unschedule ==
  /\ LoopAt("unschedule")
  /\ poll_scheduled' = NotScheduled
  /\ pc' = "epoll"
  /\ UNCHANGED <<status, queueVars, event_fd, task, callVars, historyVars>>

LoopStep ==
  \/ ReadEvent \/ LoadHead \/ Advance \/ ClearTail \/ SetSuspended \/ ClearNext
  \/ PollReturns \/ Unschedule

-----------------------------------------------------------------------------

\* Every task is suspended.
Init ==
  /\ status = [t \in Tasks |-> "suspended"]
  /\ next = [t \in Tasks |-> Null]
  /\ poll_head = Null /\ poll_tail = Null
  /\ poll_scheduled = FALSE /\ event_fd = 0
  /\ pc = "epoll" /\ task = Null
  /\ at = [c \in Callers |-> "out"]
  /\ waking = [c \in Callers |-> Null] /\ tail = [c \in Callers |-> Null]
  /\ due = {} /\ quiet = {} /\ doubled = FALSE

Next ==
  \/ \E c \in Callers : Waking(c) \/ \E t \in Tasks : Call(c, t)
  \/ LoopStep

Spec == Init /\ [][Next]_vars

\* Threads run, and so does the loop; nobody has to make a call.
FairSpec == Spec /\ WF_vars(LoopStep) /\ \A c \in Callers : WF_vars(Waking(c))

-----------------------------------------------------------------------------

(* Properties.                                                              *)

\* The eventfd is not forgotten: when the loop goes to sleep while
\* poll_scheduled is set, which keeps everybody from writing it, it has been
\* written or somebody is about to write it.
DoorbellNotStuck ==
  pc = "epoll" /\ poll_scheduled => event_fd = 1 \/ \E c \in Callers : at[c] = "write"

\* A task whose future is pending is polled only when it has been woken since:
\* "Nothing to do, waiting for future to wake up" (runtime.c).
PendingWaits == pc = "advance" => task \in due

\* Whatever the races do to the links, only one of them gets a task polled that
\* was not woken: one call schedules it while another is between runtime.c:474
\* and 478, and both link it, the second one behind itself.
NoSpuriousPoll == ~doubled => PendingWaits

InHand(t) == task = t /\ pc \in {"advance", "tail", "status"}

\* A wake that meets nothing else going on is served: when the call is over, its
\* task is at the head of the queue and the loop has been told, until the loop
\* has it in hand, whatever other wakes do meanwhile, of the same task or others.
QuietWakeIsServed ==
  \A t \in quiet : \/ \E c \in Callers : at[c] # "out" /\ waking[c] = t
                   \/ poll_head = t /\ poll_tail # Null /\ (pc = "epoll" => event_fd = 1)
                   \/ InHand(t)

\* A task that is woken is polled: src/tests/spawn_blocking.c awaits the handle
\* of a blocking task, whose worker wakes the main task from its own thread.
WokenIsPolled == \A t \in Tasks : t \in due ~> t \notin due
=============================================================================
