------------------------------- MODULE JoinExt -------------------------------
(***************************************************************************)
(* taskio_join() and taskio_select(): src/common/join_ext.c, join.c and    *)
(* select.c.  The future keeps an array of join tasks, one per child, and  *)
(* polls only those whose waker, _join_wake(), has linked them since.  The *)
(* children are coroutines (module Future).                                *)
(*                                                                         *)
(* A waker is called by the code of a child that signals what another one  *)
(* waits for, by whatever the loop does between two polls, or at any time  *)
(* by a thread.  Here the call is one step, as is the taking over of the   *)
(* list; what two calls, or a call and the take-over, do to each other     *)
(* when they overlap is JoinRace.  A child that is a join or a select      *)
(* itself, and is woken twice between two polls, is in JoinRace too.       *)
(* Reading freed memory is undefined: FireWaker is not enabled when the    *)
(* join tasks are gone, and FreedCleanly says when that can be.            *)
(* A definition marked (slip) is the mistake that shows that a property    *)
(* can fail (PROJECT.json, "mutants"), no part of the model.               *)
(***************************************************************************)
EXTENDS Future

CONSTANTS
  Children,  \* the futures that are joined, in the order of the call
  Modes,     \* "join", "select" and "biased" (a select), those that occur
  Drops      \* whether whoever holds the future may give it up

Kids == {Children[i] : i \in DOMAIN Children}
Index(f) == CHOOSE i \in DOMAIN Children : Children[i] = f

ASSUME JoinAssumption ==
  /\ Children \in Seq(Futures) /\ Children # << >>
  /\ \A i, j \in DOMAIN Children : Children[i] = Children[j] => i = j
  /\ \A f \in Futures : Awaits[f] \cap Kids = {}
  /\ Modes \subseteq {"join", "select", "biased"}
  /\ Drops \in BOOLEAN

VARIABLES
  mode,           \* which of Modes it is: on_ready, on_finish and biased
  present,        \* children whose join_task->future is not NULL
  next,           \* join_task->next
  poll_head, poll_tail,
  completed_len,
  picked,         \* the children that were ready, in that order: the list of
                  \* select nodes (a join keeps none)
  jpc,            \* "idle" between polls, "loop" at the head of the while,
                  \* "child" inside child->poll(), "over", "freed"
  join_task, next_join_task,  \* the locals of the loop
  answer,         \* "open", "joined", "dropped" or, of a select, the child whose
                  \* index it returns
  woken,          \* the task that awaits the future is queued
  due             \* children that are to be polled: never polled yet, or their
                  \* waker was called since

linkVars == <<next, poll_head, poll_tail>>
childVars == <<mode, present, completed_len, picked>>
loopVars == <<jpc, join_task, next_join_task, answer>>
vars == <<futureVars, linkVars, childVars, loopVars, woken, due>>

TypeOK ==
  /\ FutureTypeOK
  /\ mode \in Modes
  /\ present \subseteq Kids
  /\ next \in [Kids -> Kids \cup {Null}]
  /\ {poll_head, poll_tail, join_task, next_join_task} \subseteq Kids \cup {Null}
  /\ completed_len \in 0..Len(Children)
  /\ picked \in Seq(Kids)
  /\ jpc \in {"idle", "loop", "child", "over", "freed"}
  /\ answer \in {"open", "joined", "dropped"} \cup Kids
  /\ woken \in BOOLEAN /\ due \subseteq Kids
  /\ pc # "idle" => jpc = "child"

-----------------------------------------------------------------------------

\* (slip) the tail is not moved
TailStays(f) == IF poll_tail = Null THEN f ELSE poll_tail
NewTail(f) == f

\* _join_wake(): link the child at the tail and wake the task.
JoinWake(f) ==
  /\ next' = IF poll_tail = Null THEN [next EXCEPT ![f] = Null]
             ELSE [next EXCEPT ![f] = Null, ![poll_tail] = f]
  /\ poll_head' = IF poll_tail = Null THEN f ELSE poll_head
  /\ poll_tail' = NewTail(f)
  /\ woken' = TRUE
  /\ due' = due \cup {f}

\* (slip) the list stays as it was
KeptTail == poll_tail
\* The list the join takes over is empty afterwards.
TakenTail == Null

\* (slip) every child is polled again
FirstChild == Children[1]
\* Only those that were woken are.
FirstWoken == poll_head

\* The task is polled, for whatever reason, and polls the join.
PollJoin ==
  /\ jpc = "idle" /\ woken
  /\ woken' = FALSE
  /\ join_task' = FirstWoken
  /\ poll_head' = Null /\ poll_tail' = TakenTail
  /\ jpc' = "loop"
  /\ UNCHANGED <<futureVars, next, childVars, next_join_task, answer, due>>

\* Something else the task awaits wakes it.
TaskWoken ==
  /\ jpc = "idle" /\ ~woken
  /\ woken' = TRUE
  /\ UNCHANGED <<futureVars, linkVars, childVars, loopVars, due>>

PollChild ==
  /\ jpc = "loop" /\ join_task \in present
  /\ next_join_task' = next[join_task]
  /\ StartPoll(join_task)
  /\ jpc' = "child"
  /\ due' = due \ {join_task}
  /\ UNCHANGED <<await_future, held, cleaned, result, linkVars, childVars, join_task, answer, woken>>

\* The child runs, and calls its waker when it yields.
ChildStep ==
  /\ jpc = "child"
  /\ \/ QuietStep /\ UNCHANGED <<linkVars, woken, due>>
     \/ WakingStep /\ JoinWake(Root)
  /\ UNCHANGED <<childVars, loopVars>>

\* The rest of the loop's body after child->poll().
LoopOn ==
  /\ jpc = "child" /\ pc = "return" /\ Len(stack) = 1
  /\ stack' = << >> /\ pc' = "idle"
  /\ jpc' = "loop"
  /\ join_task' = next_join_task
  /\ UNCHANGED <<await_future, linkVars, mode, next_join_task, answer, woken, due>>

ChildPending ==
  /\ LoopOn
  /\ result # "ready"
  /\ UNCHANGED <<counter, held, cleaned, result, present, completed_len, picked>>

\* on_ready() of a select: a node at the end of its list.
OnReady == picked' = Append(picked, join_task)

ChildReady ==
  /\ LoopOn
  /\ result = "ready"
  /\ FutureCleanup({join_task})
  /\ OnReady
  /\ completed_len' = completed_len + 1
  /\ present' = present \ {join_task}
  /\ UNCHANGED result

\* (slip) one too few
AlmostCompleted == completed_len >= Len(Children) - 1
AllCompleted == completed_len = Len(Children)

\* on_finish() of a select: the indices it may answer, none while no child is
\* ready.  rand() picks one, or the first is taken.
OnFinish ==
  IF mode = "join" THEN {}
  ELSE {picked[k] : k \in IF mode = "biased" THEN DOMAIN picked \cap {1} ELSE DOMAIN picked}

\* The loop is done: on_finish(), then the test of completed_len.
JoinFinish ==
  /\ jpc = "loop" /\ join_task = Null
  /\ \/ /\ answer' \in OnFinish
        /\ jpc' = "over"
     \/ /\ OnFinish = {}
        /\ IF AllCompleted THEN jpc' = "over" /\ answer' = "joined"
                           ELSE jpc' = "idle" /\ UNCHANGED answer
  /\ UNCHANGED <<futureVars, linkVars, childVars, join_task, next_join_task, woken, due>>

\* The children the cleanup reaches: it counts those left to be found.
Left ==
  {Children[i] : i \in {j \in DOMAIN Children :
     /\ Children[j] \in present
     /\ Cardinality({k \in 1..j : Children[k] \in present}) <= Len(Children) - completed_len}}

\* async_cleanup(): when the future is ready, or nobody waits for it any more.
Cleanup ==
  /\ jpc = "over" \/ (jpc = "idle" /\ Drops)
  /\ answer' = IF jpc = "over" THEN answer ELSE "dropped"
  /\ FutureCleanup(Left)
  /\ jpc' = "freed"
  /\ UNCHANGED <<await_future, stack, pc, result, linkVars, childVars, join_task, next_join_task, woken, due>>

\* A timer fires, a semaphore is signalled, a task ends: f's waker is called, by
\* the loop thread or, in the middle of whatever that does, by another one.
FireWaker(f) ==
  /\ held[f] # Null
  /\ jpc # "freed"
  /\ held' = [held EXCEPT ![f] = Null]
  /\ JoinWake(held[f])
  /\ UNCHANGED <<counter, await_future, cleaned, stack, pc, result, childVars, loopVars>>

-----------------------------------------------------------------------------

\* taskio_join() and taskio_select() link the join tasks in the order of their
\* arguments.
AllLinked ==
  /\ next = [f \in Kids |-> IF Index(f) < Len(Children) THEN Children[Index(f) + 1] ELSE Null]
  /\ poll_head = Children[1] /\ poll_tail = Children[Len(Children)]

Init ==
  /\ FutureInit
  /\ mode \in Modes
  /\ present = Kids
  /\ AllLinked
  /\ completed_len = 0 /\ picked = << >>
  /\ jpc = "idle" /\ join_task = Null /\ next_join_task = Null
  /\ answer = "open"
  /\ woken = TRUE /\ due = Kids

Loop == PollChild \/ ChildStep \/ ChildPending \/ ChildReady \/ JoinFinish

Next == PollJoin \/ TaskWoken \/ Loop \/ Cleanup \/ \E f \in Futures : FireWaker(f)

Spec == Init /\ [][Next]_vars

\* A poll that has begun ends.  That one begins nobody promises: WakeRace shows
\* how the wake of the task that awaits the join may be lost.
FairSpec == Spec /\ WF_vars(Loop)

-----------------------------------------------------------------------------
(* Properties.                                                              *)

\* The children linked from f on.
Linked(f) ==
  LET nth[n \in 1..(Len(Children) + 1)] ==
        IF n = 1 THEN f ELSE LET g == nth[n - 1] IN IF g = Null THEN Null ELSE next[g]
  IN [k \in 1..Cardinality({n \in 1..(Len(Children) + 1) : nth[n] # Null}) |-> nth[k]]

\* Still to be polled in this round.
Rest == IF jpc = "loop" THEN Linked(join_task)
        ELSE IF jpc = "child" THEN Linked(next_join_task) ELSE << >>

\* No wake is lost, none is served twice: what is left of the list the loop
\* has taken and the list of the wakes since (whose links share the same
\* fields) hold every child that is to be polled, each once, and no other.
ListsHoldDue ==
  jpc \notin {"over", "freed"} =>
    LET lists == Rest \o Linked(poll_head) IN
      /\ {lists[i] : i \in DOMAIN lists} = due
      /\ Len(lists) = Cardinality(due)
      /\ due \subseteq present
      /\ poll_head # Null => poll_tail = Linked(poll_head)[Len(Linked(poll_head))]

Polled(f) == counter[f] # 0

\* When the join tasks are freed, every future that was ever called has been
\* cleaned up, once, through any awaits; and after a join that has completed
\* nobody holds a waker that points to them.
FreedCleanly ==
  /\ \A f \in Futures : cleaned[f] <= 1
  /\ jpc = "freed" => \A f \in Futures : Polled(f) => cleaned[f] = 1
  /\ jpc = "freed" /\ completed_len = Len(Children) => \A f \in Futures : held[f] = Null

\* A child that is woken is polled, unless the whole is over before, or the task
\* that awaits it is never polled again although it was woken.
WokenChildIsPolled ==
  \A f \in Kids :
    f \in due ~> \/ f \notin due \/ jpc \in {"over", "freed"}
                 \/ [](jpc = "idle" /\ woken)

G == INSTANCE Gather WITH ended <- picked

\* join and select keep the promise of Gather.
IsGather == G!Spec

\* The coroutines keep the promise of Coroutine, whoever polls them when.
IsCoroutine == C!Spec
=============================================================================
