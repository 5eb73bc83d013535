--------------------------- MODULE WakeRaceProofs ---------------------------
(***************************************************************************)
(* Proofs about WakeRace, for any number of tasks and threads: what the    *)
(* races on the run queue cannot break.                                    *)
(***************************************************************************)
EXTENDS WakeRace, TLAPS

-----------------------------------------------------------------------------
(* The inductive invariant.                                                 *)

\* A call that has scheduled its task and not linked it yet.
BeforeLink == {"load", "link"}
Fresh(t) == \E c \in Callers : waking[c] = t /\ at[c] \in BeforeLink

\* A call has a task, and a task is due from the store of its status by a call
\* to the one by the loop.
CallInv ==
  /\ \A c \in Callers : at[c] # "out" => waking[c] \in Tasks
  /\ \A t \in Tasks : status[t] = "scheduled" <=> t \in due

\* Two calls that have not linked their tasks have different ones, which are due.
FreshInv ==
  /\ \A c \in Callers : at[c] \in BeforeLink => waking[c] \in due
  /\ \A c, d \in Callers :
       at[c] \in BeforeLink /\ at[d] \in BeforeLink /\ waking[c] = waking[d] => c = d

\* The head of the queue and the task the loop has in hand are due, linked,
\* and the same only until the loop has moved the head on.
HeadInv ==
  /\ poll_head # Null => poll_head \in due /\ ~Fresh(poll_head)
  /\ pc \in {"tail", "status"} => poll_head # task
  /\ pc \in {"advance", "tail", "status"} => task \in due /\ ~Fresh(task)

\* The head has been moved on to what t links to.
Passed(t) == task = t /\ pc \in {"tail", "status", "next"}

\* A link is to a task that is due and has been linked, by one task only and
\* not at the head as well, unless the loop has just moved the head on to it.
\* (The races may still cut off what the head or a link led to before.)
LinkInv ==
  /\ \A t \in Tasks : next[t] # Null =>
       /\ next[t] \in due
       /\ ~Fresh(next[t]) /\ ~InHand(next[t])
       /\ next[t] = poll_head => Passed(t)
  /\ \A t, u \in Tasks : next[t] = next[u] /\ next[t] # Null => t = u

\* The queue is in order as long as no two calls have linked the same task.
QueueInv == ~doubled => FreshInv /\ HeadInv /\ LinkInv

\* c wakes t, alone since nothing was going on.
Alone(c, t) ==
  /\ at[c] # "out" /\ waking[c] = t
  /\ \A d \in Callers : d # c => at[d] = "out"
  /\ pc = "epoll" /\ event_fd = 0
  /\ IF at[c] \in {"status", "store"} \cup BeforeLink
     THEN poll_head = Null /\ poll_tail = Null
     ELSE poll_head = t
  /\ at[c] \in {"status", "store"} => t \notin due
  /\ at[c] = "link" => tail[c] = Null
  /\ at[c] \in {"scheduled", "ring", "write"} => poll_tail = t
  /\ at[c] # "write" => ~poll_scheduled

\* t is the next task the loop takes.
AtHead(t) ==
  /\ poll_head = t /\ poll_tail # Null
  /\ \A c \in Callers : at[c] = "link" => tail[c] # Null
  /\ pc \in {"epoll", "head"}
  /\ pc = "epoll" => event_fd = 1

QuietInv == \A t \in quiet : (\E c \in Callers : Alone(c, t)) \/ AtHead(t) \/ InHand(t)

IInv ==
  /\ TypeOK
  /\ CallInv
  /\ QueueInv
  /\ DoorbellNotStuck
  /\ QuietInv

-----------------------------------------------------------------------------
(* Types.                                                                   *)

\* TypeOK needs of the rest of the invariant that pointers that are
\* dereferenced are not null.
LEMMA TypeStep ==
  ASSUME TypeOK, CallInv, [Next]_vars
  PROVE  TypeOK'
<1> USE WakeAssumption DEF TypeOK, CallInv, Pointer, Callers, queueVars, callVars, historyVars
<1>1. CASE \E c \in Callers : \E t \in Tasks : Call(c, t)
  BY <1>1 DEF Call, Goto, Line, Undisturbed
<1>2. CASE \E c \in Callers : LoadStatus(c)
  BY <1>2 DEF LoadStatus, Return, Goto, Line
<1>3. CASE \E c \in Callers : StoreStatus(c)
  <2>1. PICK c \in Callers : StoreStatus(c)
    BY <1>3
  <2>2. waking[c] \in Tasks
    BY <2>1 DEF StoreStatus, Line
  <2> QED
    BY <2>1, <2>2 DEF StoreStatus, Goto, Line
<1>4. CASE \E c \in Callers : LoadTail(c)
  BY <1>4 DEF LoadTail, Goto, Line
<1>5. CASE \E c \in Callers : Link(c) \/ StoreTail(c)
  <2>1. PICK c \in Callers : Link(c) \/ StoreTail(c)
    BY <1>5
  <2>2. waking[c] \in Tasks
    BY <2>1 DEF Link, StoreTail, Line
  <2> QED
    BY <2>1, <2>2 DEF Link, StoreTail, Goto, Line
<1>6. CASE \E c \in Callers : TestScheduled(c)
  BY <1>6 DEF TestScheduled, Return, Goto, Line
<1>7. CASE \E c \in Callers : SetScheduled(c)
  BY <1>7 DEF SetScheduled, Goto, Line
<1>8. CASE \E c \in Callers : WriteEvent(c)
  BY <1>8 DEF WriteEvent, Return, Goto, Line
<1>9. CASE ReadEvent \/ ClearTail \/ PollReturns \/ Unschedule
  <2>1. CASE ReadEvent \/ ClearTail \/ PollReturns
    BY <2>1 DEF ReadEvent, ClearTail, PollReturns, LoopAt
  <2>2. CASE Unschedule
    BY <2>2 DEF Unschedule, NotScheduled, LoopAt
  <2> QED
    BY <1>9, <2>1, <2>2
<1>10. CASE LoadHead \/ Advance
  BY <1>10 DEF LoadHead, Advance, LoopAt, Empty
<1>11. CASE SetSuspended \/ ClearNext
  BY <1>11 DEF SetSuspended, ClearNext, LoopAt, StatusInPoll, NoLink
<1>12. CASE UNCHANGED vars
  BY <1>12 DEF vars
<1> QED
  BY <1>1, <1>2, <1>3, <1>4, <1>5, <1>6, <1>7, <1>8, <1>9, <1>10, <1>11, <1>12
     DEF Next, Waking, LoopStep

-----------------------------------------------------------------------------
(* Calls.                                                                   *)

\* The status says which tasks are due.
LEMMA CallStep ==
  ASSUME TypeOK, CallInv, [Next]_vars
  PROVE  CallInv'
<1> USE WakeAssumption DEF CallInv
<1>1. CASE \E c \in Callers : \E t \in Tasks : Call(c, t)
  BY <1>1 DEF Call, Goto, Line, TypeOK
<1>2. CASE \E c \in Callers : LoadStatus(c)
  BY <1>2 DEF LoadStatus, Return, Goto, Line, TypeOK, historyVars
<1>3. CASE \E c \in Callers : StoreStatus(c)
  BY <1>3 DEF StoreStatus, Goto, Line, TypeOK
<1>4. CASE \E c \in Callers : LoadTail(c) \/ Link(c) \/ StoreTail(c) \/ SetScheduled(c)
  BY <1>4 DEF LoadTail, Link, StoreTail, SetScheduled, Goto, Line, TypeOK, historyVars
<1>5. CASE \E c \in Callers : TestScheduled(c) \/ WriteEvent(c)
  BY <1>5 DEF TestScheduled, WriteEvent, Return, Goto, Line, TypeOK, historyVars
<1>6. CASE SetSuspended
  <2>1. task \in Tasks
    BY <1>6 DEF SetSuspended, LoopAt, TypeOK, Pointer
  <2> QED
    BY <1>6, <2>1 DEF SetSuspended, StatusInPoll, TypeOK, callVars
<1>7. CASE LoopStep /\ ~SetSuspended
  BY <1>7 DEF LoopStep, ReadEvent, LoadHead, Advance, ClearTail, ClearNext, PollReturns,
       Unschedule, callVars, historyVars
<1>8. CASE UNCHANGED vars
  BY <1>8 DEF vars, callVars, historyVars
<1> QED
  BY <1>1, <1>2, <1>3, <1>4, <1>5, <1>6, <1>7, <1>8 DEF Next, Waking

\* Only the store of a status makes a task fresh, and that one only.
LEMMA FreshChange ==
  ASSUME TypeOK, NEW c \in Callers, Waking(c) \/ \E t \in Tasks : Call(c, t)
  PROVE  \A t : Fresh(t)' => Fresh(t) \/ (t = waking[c] /\ StoreStatus(c))
<1> USE DEF TypeOK, Fresh, BeforeLink, Line, Goto
<1>1. CASE \E t \in Tasks : Call(c, t)
  BY <1>1 DEF Call
<1>2. CASE LoadStatus(c)
  BY <1>2 DEF LoadStatus, Return
<1>3. CASE StoreStatus(c)
  BY <1>3 DEF StoreStatus
<1>4. CASE LoadTail(c)
  BY <1>4 DEF LoadTail
<1>5. CASE Link(c) \/ StoreTail(c)
  BY <1>5 DEF Link, StoreTail
<1>6. CASE TestScheduled(c)
  BY <1>6 DEF TestScheduled, Return
<1>7. CASE SetScheduled(c)
  BY <1>7 DEF SetScheduled
<1>8. CASE WriteEvent(c)
  BY <1>8 DEF WriteEvent, Return
<1> QED
  BY <1>1, <1>2, <1>3, <1>4, <1>5, <1>6, <1>7, <1>8 DEF Waking

\* Two calls that are to link the same task have overlapped.
LEMMA FreshStep ==
  ASSUME TypeOK, CallInv, FreshInv, HeadInv, ~doubled', [Next]_vars
  PROVE  FreshInv'
<1> USE WakeAssumption DEF FreshInv, BeforeLink
<1>1. CASE \E c \in Callers : \E t \in Tasks : Call(c, t)
  BY <1>1 DEF Call, Goto, Line, TypeOK
<1>2. CASE \E c \in Callers : LoadStatus(c)
  BY <1>2 DEF LoadStatus, Return, Goto, Line, TypeOK, historyVars
<1>3. CASE \E c \in Callers : StoreStatus(c)
  <2>1. PICK c \in Callers : StoreStatus(c)
    BY <1>3
  <2>2. waking[c] \notin due
    BY <2>1 DEF StoreStatus
  <2> QED
    BY <2>1, <2>2 DEF StoreStatus, Goto, Line, TypeOK
<1>4. CASE \E c \in Callers : LoadTail(c)
  BY <1>4 DEF LoadTail, Goto, Line, TypeOK, historyVars
<1>5. CASE \E c \in Callers : Link(c) \/ StoreTail(c) \/ SetScheduled(c)
  BY <1>5 DEF Link, StoreTail, SetScheduled, Goto, Line, TypeOK, historyVars
<1>6. CASE \E c \in Callers : TestScheduled(c) \/ WriteEvent(c)
  BY <1>6 DEF TestScheduled, WriteEvent, Return, Goto, Line, TypeOK, historyVars
<1>7. CASE SetSuspended
  BY <1>7 DEF SetSuspended, LoopAt, HeadInv, Fresh, callVars
<1>8. CASE LoopStep /\ ~SetSuspended
  BY <1>8 DEF LoopStep, ReadEvent, LoadHead, Advance, ClearTail, ClearNext, PollReturns,
       Unschedule, callVars, historyVars
<1>9. CASE UNCHANGED vars
  BY <1>9 DEF vars, callVars, historyVars
<1> QED
  BY <1>1, <1>2, <1>3, <1>4, <1>5, <1>6, <1>7, <1>8, <1>9 DEF Next, Waking

-----------------------------------------------------------------------------
(* The queue.                                                               *)

\* Steps that make no task fresh and leave alone what the queue is made of.
LEMMA QueueKept ==
  ASSUME HeadInv, LinkInv,
         UNCHANGED <<next, poll_head, pc, task, due>>,
         \A t : Fresh(t)' => Fresh(t)
  PROVE  HeadInv' /\ LinkInv'
BY DEF HeadInv, LinkInv, InHand, Passed

\* Steps of the loop that take nothing out of the queue.
LEMMA LoopKept ==
  ASSUME TypeOK, HeadInv, LinkInv,
         ReadEvent \/ ClearTail \/ PollReturns \/ Unschedule
  PROVE  HeadInv' /\ LinkInv'
<1> USE DEF ReadEvent, ClearTail, PollReturns, Unschedule, LoopAt, queueVars, callVars, historyVars
<1>1. UNCHANGED <<next, poll_head, due>> /\ \A t : Fresh(t)' <=> Fresh(t)
  BY DEF Fresh
<1>2. \A t : (InHand(t)' <=> InHand(t)) /\ (Passed(t) => Passed(t)')
  BY DEF InHand, Passed
<1>3. HeadInv'
  BY <1>1 DEF HeadInv
<1>4. LinkInv'
  BY <1>1, <1>2 DEF LinkInv
<1> QED
  BY <1>3, <1>4

\* A task that is scheduled is not in the queue yet, and nothing refers to it.
LEMMA QueueCalled ==
  ASSUME TypeOK, HeadInv, LinkInv,
         NEW t \in Tasks \ due,
         UNCHANGED <<next, poll_head, pc, task>>, due' = due \cup {t},
         \A u : Fresh(u)' => Fresh(u) \/ u = t
  PROVE  HeadInv' /\ LinkInv'
<1>1. \A u : (InHand(u)' <=> InHand(u)) /\ (Passed(u)' <=> Passed(u))
  BY DEF InHand, Passed
<1>2. HeadInv'
  BY DEF HeadInv
<1>3. LinkInv'
  BY <1>1 DEF LinkInv
<1> QED
  BY <1>2, <1>3

\* A link to a task nothing refers to; or the head is overwritten with it.
LEMMA QueueLinked ==
  ASSUME TypeOK, FreshInv, HeadInv, LinkInv,
         NEW c \in Callers, Link(c)
  PROVE  HeadInv' /\ LinkInv'
<1>0. PICK w : w = waking[c]
  OBVIOUS
<1>1. /\ w \in due /\ Fresh(w) /\ ~Fresh(w)'
      /\ \A t : Fresh(t)' => Fresh(t)
  BY <1>0 DEF TypeOK, FreshInv, Link, Goto, Line, Fresh, BeforeLink
<1>2. w \in Tasks /\ w # Null /\ ~InHand(w)
  BY <1>1, WakeAssumption DEF LinkInv, HeadInv, InHand, TypeOK
<1>3. \A t \in Tasks : next[t] # w
  BY <1>1, <1>2, WakeAssumption DEF LinkInv
<1>4. \A u : (InHand(u)' <=> InHand(u)) /\ (Passed(u)' <=> Passed(u))
  BY DEF Link, InHand, Passed
<1>5. w # poll_head /\ (w = task => pc \notin {"advance", "tail", "status"})
  BY <1>1, <1>2 DEF HeadInv
<1>6. CASE tail[c] = Null
  <2>1. poll_head' = w /\ UNCHANGED <<next, pc, task, due>>
    BY <1>0, <1>6 DEF Link, historyVars
  <2>2. HeadInv'
    BY <2>1, <1>1, <1>2, <1>5 DEF HeadInv
  <2>3. LinkInv'
    BY <2>1, <1>1, <1>2, <1>3, <1>4 DEF LinkInv
  <2> QED
    BY <2>2, <2>3
<1>7. CASE tail[c] # Null
  <2>1. /\ next' = [next EXCEPT ![tail[c]] = w] /\ UNCHANGED <<poll_head, pc, task, due>>
        /\ next \in [Tasks -> Tasks \cup {Null}]
    BY <1>0, <1>7 DEF Link, TypeOK, Pointer, historyVars
  <2>2. HeadInv'
    BY <2>1, <1>1 DEF HeadInv
  <2>3. \A t \in Tasks : next'[t] = next[t] \/ (t = tail[c] /\ next'[t] = w)
    BY <2>1
  <2>4. LinkInv'
    BY <2>1, <2>3, <1>1, <1>2, <1>3, <1>4, <1>5 DEF LinkInv
  <2> QED
    BY <2>2, <2>4
<1> QED
  BY <1>6, <1>7

\* The loop takes the head in hand, and leaves it at the head.
LEMMA QueueTaken ==
  ASSUME TypeOK, HeadInv, LinkInv, LoadHead
  PROVE  HeadInv' /\ LinkInv'
<1>1. \A t : Fresh(t)' <=> Fresh(t)
  BY DEF LoadHead, Fresh, callVars
<1>2. UNCHANGED <<next, poll_head, due>> /\ pc = "head"
  BY DEF LoadHead, LoopAt, queueVars, historyVars
<1>3. CASE poll_head = Null
  <2>1. pc' = "unschedule"
    BY <1>3 DEF LoadHead, Empty
  <2> QED
    BY <1>1, <1>2, <1>3, <2>1 DEF HeadInv, LinkInv, InHand, Passed
<1>4. CASE poll_head # Null
  <2>1. pc' = "advance" /\ task' = poll_head
    BY <1>4 DEF LoadHead, Empty
  <2> QED
    BY <1>1, <1>2, <1>4, <2>1 DEF HeadInv, LinkInv, InHand, Passed
<1> QED
  BY <1>3, <1>4

\* The head moves on to what the task in hand links to, even if it has been
\* overwritten since it was loaded.
LEMMA QueueAdvanced ==
  ASSUME TypeOK, HeadInv, LinkInv, Advance
  PROVE  HeadInv' /\ LinkInv'
<1>1. \A t : Fresh(t)' <=> Fresh(t)
  BY DEF Advance, Fresh, callVars
<1>2. /\ UNCHANGED <<next, task, due>> /\ pc = "advance" /\ pc' \in {"tail", "status"}
      /\ poll_head' = next[task]
  BY DEF Advance, LoopAt, historyVars
<1>3. task \in due /\ ~Fresh(task) /\ task \in Tasks
  BY <1>2 DEF HeadInv, TypeOK
<1>4. \A t : (InHand(t) <=> t = task) /\ (InHand(t)' <=> t = task) /\ (Passed(t)' <=> t = task)
  BY <1>2 DEF InHand, Passed
<1>5. next[task] # Null => next[task] \in due /\ ~Fresh(next[task]) /\ next[task] # task
  BY <1>3, <1>4 DEF LinkInv
<1>6. HeadInv'
  BY <1>1, <1>2, <1>3, <1>5, WakeAssumption DEF HeadInv
<1>7. LinkInv'
  BY <1>1, <1>2, <1>3, <1>4 DEF LinkInv
<1> QED
  BY <1>6, <1>7

\* Nothing leads to the task that is not due any more.
LEMMA QueueSuspended ==
  ASSUME TypeOK, HeadInv, LinkInv, SetSuspended
  PROVE  HeadInv' /\ LinkInv'
<1>1. \A t : Fresh(t)' <=> Fresh(t)
  BY DEF SetSuspended, Fresh, callVars
<1>2. /\ UNCHANGED <<next, poll_head, task>> /\ pc = "status" /\ pc' = "next"
      /\ due' = due \ {task}
  BY DEF SetSuspended, LoopAt, queueVars
<1>3. \A t : (InHand(t) <=> t = task) /\ ~InHand(t)' /\ (Passed(t)' <=> t = task)
  BY <1>2 DEF InHand, Passed
<1>4. \A t : Passed(t) => t = task
  BY DEF Passed
<1>5. HeadInv'
  BY <1>1, <1>2 DEF HeadInv
<1>6. LinkInv'
  BY <1>1, <1>2, <1>3, <1>4 DEF LinkInv
<1> QED
  BY <1>5, <1>6

\* The task that leaves the queue takes its link with it.
LEMMA QueueCleared ==
  ASSUME TypeOK, HeadInv, LinkInv, ClearNext
  PROVE  HeadInv' /\ LinkInv'
<1>1. \A t : Fresh(t)' <=> Fresh(t)
  BY DEF ClearNext, Fresh, callVars
<1>2. /\ UNCHANGED <<poll_head, task, due>> /\ pc = "next" /\ pc' = "poll"
      /\ next' = [next EXCEPT ![task] = Null]
      /\ next \in [Tasks -> Pointer] /\ task \in Tasks
  BY DEF ClearNext, LoopAt, NoLink, TypeOK, Pointer, historyVars
<1>3. HeadInv'
  BY <1>1, <1>2 DEF HeadInv
<1>4. \A t : ~InHand(t) /\ ~InHand(t)' /\ (Passed(t) => t = task)
  BY <1>2 DEF InHand, Passed
<1>5. \A t \in Tasks : next'[t] = IF t = task THEN Null ELSE next[t]
  BY <1>2
<1>6. LinkInv'
  BY <1>1, <1>2, <1>4, <1>5 DEF LinkInv
<1> QED
  BY <1>3, <1>6

\* Every step keeps the queue in order, except one that schedules a task twice.
LEMMA QueueStep ==
  ASSUME TypeOK, CallInv, QueueInv, [Next]_vars
  PROVE  QueueInv'
<1> SUFFICES ASSUME ~doubled' PROVE FreshInv' /\ HeadInv' /\ LinkInv'
  BY DEF QueueInv
<1>1. ~doubled
  BY DEF Next, vars, Waking, LoopStep, Call, LoadStatus, StoreStatus, LoadTail, Link, StoreTail,
     TestScheduled, SetScheduled, WriteEvent, ReadEvent, LoadHead, Advance, ClearTail,
     SetSuspended, ClearNext, PollReturns, Unschedule, historyVars
<1>2. FreshInv /\ HeadInv /\ LinkInv
  BY <1>1 DEF QueueInv
<1>3. FreshInv'
  BY <1>2, FreshStep
<1>4. CASE \E c \in Callers : StoreStatus(c)
  <2>1. PICK c \in Callers : StoreStatus(c)
    BY <1>4
  <2>2. waking[c] \in Tasks \ due
    BY <2>1 DEF StoreStatus, Line, CallInv
  <2>3. \A t : Fresh(t)' => Fresh(t) \/ t = waking[c]
    BY <2>1, FreshChange DEF Waking
  <2> QED
    BY <1>2, <1>3, <2>1, <2>2, <2>3, QueueCalled DEF StoreStatus, queueVars
<1>5. CASE \E c \in Callers : Link(c)
  BY <1>2, <1>3, <1>5, QueueLinked
<1>6. CASE \E c \in Callers :
             (Waking(c) \/ \E t \in Tasks : Call(c, t)) /\ ~StoreStatus(c) /\ ~Link(c)
  <2>1. PICK c \in Callers :
              (Waking(c) \/ \E t \in Tasks : Call(c, t)) /\ ~StoreStatus(c) /\ ~Link(c)
    BY <1>6
  <2>2. \A t : Fresh(t)' => Fresh(t)
    BY <2>1, FreshChange
  <2>3. UNCHANGED <<next, poll_head, pc, task, due>>
    BY <2>1 DEF Waking, Call, LoadStatus, LoadTail, StoreTail, TestScheduled, SetScheduled,
         WriteEvent, queueVars, historyVars
  <2> QED
    BY <1>2, <1>3, <2>2, <2>3, QueueKept
<1>7. CASE ReadEvent \/ ClearTail \/ PollReturns \/ Unschedule
  BY <1>2, <1>3, <1>7, LoopKept
<1>8. CASE LoadHead \/ Advance \/ SetSuspended \/ ClearNext
  BY <1>2, <1>3, <1>8, QueueTaken, QueueAdvanced, QueueSuspended, QueueCleared
<1>9. CASE UNCHANGED vars
  BY <1>2, <1>3, <1>9, QueueKept DEF vars, queueVars, callVars, historyVars, Fresh
<1> QED
  BY <1>4, <1>5, <1>6, <1>7, <1>8, <1>9 DEF Next, LoopStep

-----------------------------------------------------------------------------
(* The eventfd.                                                             *)

\* poll_scheduled is reset before the loop sleeps, and set before a write.
LEMMA DoorbellStep ==
  ASSUME TypeOK, DoorbellNotStuck, [Next]_vars
  PROVE  DoorbellNotStuck'
<1> USE DEF DoorbellNotStuck
<1>1. CASE \E c \in Callers : \E t \in Tasks : Call(c, t)
  BY <1>1 DEF Call, Goto, Line, TypeOK
<1>2. CASE \E c \in Callers : LoadStatus(c)
  BY <1>2 DEF LoadStatus, Return, Goto, Line, TypeOK
<1>3. CASE \E c \in Callers : StoreStatus(c) \/ LoadTail(c)
  BY <1>3 DEF StoreStatus, LoadTail, Goto, Line, TypeOK
<1>4. CASE \E c \in Callers : Link(c) \/ StoreTail(c)
  BY <1>4 DEF Link, StoreTail, Goto, Line, TypeOK
<1>5. CASE \E c \in Callers : TestScheduled(c)
  <2>1. PICK c \in Callers : TestScheduled(c)
    BY <1>5
  <2>2. \A d \in Callers : at[d] = "write" => at'[d] = "write"
    BY <2>1 DEF TestScheduled, Return, Goto, Line, TypeOK
  <2> QED
    BY <2>1, <2>2 DEF TestScheduled
<1>6. CASE \E c \in Callers : SetScheduled(c)
  BY <1>6 DEF SetScheduled, Goto, TypeOK
<1>7. CASE \E c \in Callers : WriteEvent(c)
  BY <1>7 DEF WriteEvent
<1>8. CASE LoopStep
  BY <1>8 DEF LoopStep, ReadEvent, LoadHead, Advance, ClearTail, SetSuspended, ClearNext,
       PollReturns, Unschedule, NotScheduled, LoopAt, callVars
<1>9. CASE UNCHANGED vars
  BY <1>9 DEF vars, callVars
<1> QED
  BY <1>1, <1>2, <1>3, <1>4, <1>5, <1>6, <1>7, <1>8, <1>9 DEF Next, Waking

-----------------------------------------------------------------------------
(* A wake that meets nothing.                                               *)

\* While a task is woken alone, the loop sleeps, and the call does its work.
LEMMA AloneStep ==
  ASSUME TypeOK, CallInv, NEW t \in Tasks, NEW c \in Callers, Alone(c, t), Waking(c)
  PROVE  Alone(c, t)' \/ AtHead(t)'
<1> USE WakeAssumption DEF Alone, BeforeLink
<1>1. CASE LoadStatus(c)
  <2>1. status[t] # "scheduled"
    BY <1>1 DEF LoadStatus, Line, CallInv
  <2> QED
    BY <1>1, <2>1 DEF LoadStatus, Goto, Line, TypeOK, queueVars, historyVars
<1>2. CASE StoreStatus(c)
  BY <1>2 DEF StoreStatus, Goto, Line, TypeOK, queueVars
<1>3. CASE LoadTail(c)
  BY <1>3 DEF LoadTail, Goto, Line, TypeOK, queueVars
<1>4. CASE Link(c)
  BY <1>4 DEF Link, Goto, Line, TypeOK
<1>5. CASE StoreTail(c)
  BY <1>5 DEF StoreTail, Goto, Line, TypeOK
<1>6. CASE TestScheduled(c)
  BY <1>6 DEF TestScheduled, Goto, Line, TypeOK, queueVars
<1>7. CASE SetScheduled(c)
  BY <1>7 DEF SetScheduled, Goto, Line, TypeOK, queueVars
<1>8. CASE WriteEvent(c)
  BY <1>8 DEF WriteEvent, Return, Goto, Line, TypeOK, queueVars, AtHead
<1> QED
  BY <1>1, <1>2, <1>3, <1>4, <1>5, <1>6, <1>7, <1>8 DEF Waking

\* Calls do not displace the head of a queue that has a tail.
LEMMA AtHeadWaking ==
  ASSUME TypeOK, CallInv, NEW t \in Tasks, AtHead(t), NEW c \in Callers, Waking(c)
  PROVE  AtHead(t)'
<1> USE WakeAssumption DEF AtHead
<1>1. CASE LoadStatus(c)
  BY <1>1 DEF LoadStatus, Return, Goto, Line, TypeOK, queueVars
<1>2. CASE StoreStatus(c)
  BY <1>2 DEF StoreStatus, Goto, Line, TypeOK, queueVars
<1>3. CASE LoadTail(c)
  BY <1>3 DEF LoadTail, Goto, Line, TypeOK, queueVars
<1>4. CASE Link(c)
  BY <1>4 DEF Link, Goto, Line, TypeOK
<1>5. CASE StoreTail(c)
  <2>1. waking[c] # Null
    BY <1>5 DEF StoreTail, Line, CallInv
  <2> QED
    BY <1>5, <2>1 DEF StoreTail, Goto, Line, TypeOK
<1>6. CASE TestScheduled(c)
  <2>1. \A d \in Callers : at'[d] = "link" => at[d] = "link"
    BY <1>6 DEF TestScheduled, Return, Goto, Line, TypeOK
  <2> QED
    BY <1>6, <2>1 DEF TestScheduled, queueVars
<1>7. CASE SetScheduled(c)
  BY <1>7 DEF SetScheduled, Goto, Line, TypeOK, queueVars
<1>8. CASE WriteEvent(c)
  BY <1>8 DEF WriteEvent, Return, Goto, Line, TypeOK, queueVars
<1> QED
  BY <1>1, <1>2, <1>3, <1>4, <1>5, <1>6, <1>7, <1>8 DEF Waking

\* What a new call or a step of the loop does to a quiet wake.
LEMMA QuietStep ==
  ASSUME TypeOK, CallInv, QuietInv, [Next]_vars
  PROVE  QuietInv'
<1> USE WakeAssumption
<1>1. CASE \E c \in Callers : \E u \in Tasks : Call(c, u)
  <2>1. PICK c \in Callers, u \in Tasks : Call(c, u)
    BY <1>1
  <2>2. CASE Idle /\ u \notin due
    <3>1. quiet' = {u}
      BY <2>1, <2>2 DEF Call
    <3>2. Alone(c, u)'
      BY <2>1, <2>2 DEF Call, Idle, Alone, Goto, Line, TypeOK, BeforeLink, queueVars
    <3> QED
      BY <3>1, <3>2 DEF QuietInv
  <2>3. CASE ~(Idle /\ u \notin due)
    <3>1. quiet' = Undisturbed
      BY <2>1, <2>3 DEF Call
    <3>2. ASSUME NEW t \in quiet'
          PROVE  AtHead(t)' \/ InHand(t)'
      <4>1. t \in quiet /\ \A d \in Callers : ~Alone(d, t)
        BY <3>1 DEF Undisturbed, Alone
      <4>2. CASE AtHead(t)
        BY <2>1, <4>2 DEF AtHead, Call, Goto, Line, TypeOK, queueVars
      <4>3. CASE InHand(t)
        BY <2>1, <4>3 DEF InHand, Call
      <4> QED
        BY <4>1, <4>2, <4>3 DEF QuietInv
    <3> QED
      BY <3>2 DEF QuietInv
  <2> QED
    BY <2>2, <2>3
<1>2. CASE \E d \in Callers : Waking(d)
  <2>1. PICK d \in Callers : Waking(d)
    BY <1>2
  <2>2. UNCHANGED <<quiet, pc, task>> /\ at[d] # "out"
    BY <2>1 DEF Waking, LoadStatus, StoreStatus, LoadTail, Link, StoreTail, TestScheduled,
         SetScheduled, WriteEvent, Line, historyVars
  <2>3. ASSUME NEW t \in quiet
        PROVE  (\E c \in Callers : Alone(c, t)') \/ AtHead(t)' \/ InHand(t)'
    <3>1. t \in Tasks
      BY DEF TypeOK
    <3>2. ASSUME NEW c \in Callers, Alone(c, t)
          PROVE  Alone(c, t)' \/ AtHead(t)'
      <4>1. c = d
        BY <2>2, <3>2 DEF Alone
      <4> QED
        BY <2>1, <3>1, <3>2, <4>1, AloneStep
    <3>3. CASE AtHead(t)
      BY <2>1, <3>1, <3>3, AtHeadWaking
    <3>4. CASE InHand(t)
      BY <2>2, <3>4 DEF InHand
    <3> QED
      BY <3>2, <3>3, <3>4 DEF QuietInv
  <2> QED
    BY <2>2, <2>3 DEF QuietInv
<1>3. CASE LoopStep
  <2>1. quiet' \subseteq quiet /\ UNCHANGED callVars
    BY <1>3 DEF LoopStep, ReadEvent, LoadHead, Advance, ClearTail, SetSuspended, ClearNext,
         PollReturns, Unschedule, historyVars
  <2>2. ASSUME NEW t \in quiet'
        PROVE  AtHead(t)' \/ InHand(t)'
    <3>1. t \in Tasks /\ t \in quiet
      BY <2>1 DEF TypeOK
    <3>2. \A c \in Callers : ~Alone(c, t)
      BY <1>3 DEF Alone, LoopStep, ReadEvent, LoadHead, Advance, ClearTail, SetSuspended,
           ClearNext, PollReturns, Unschedule, LoopAt
    <3>3. CASE AtHead(t)
      <4>1. CASE ReadEvent
        BY <3>3, <4>1 DEF AtHead, ReadEvent, LoopAt, queueVars, callVars
      <4>2. CASE LoadHead
        BY <3>1, <3>3, <4>2 DEF AtHead, InHand, LoadHead, LoopAt, Empty
      <4> QED
        BY <1>3, <3>3, <4>1, <4>2 DEF AtHead, LoopStep, Advance, ClearTail, SetSuspended,
             ClearNext, PollReturns, Unschedule, LoopAt
    <3>4. CASE InHand(t)
      BY <1>3, <2>2, <3>4 DEF InHand, LoopStep, ReadEvent, LoadHead, Advance, ClearTail,
           SetSuspended, ClearNext, PollReturns, Unschedule, LoopAt
    <3> QED
      BY <3>1, <3>2, <3>3, <3>4 DEF QuietInv
  <2> QED
    BY <2>2 DEF QuietInv
<1>4. CASE UNCHANGED vars
  BY <1>4 DEF vars, queueVars, callVars, historyVars, QuietInv, Alone, AtHead, InHand
<1> QED
  BY <1>1, <1>2, <1>3, <1>4 DEF Next

-----------------------------------------------------------------------------
(* The theorems.                                                            *)

\* The two halves of the induction.
LEMMA InitInv == Init => IInv
<1> SUFFICES ASSUME Init PROVE IInv
  OBVIOUS
<1> USE WakeAssumption DEF Init
<1>1. TypeOK
  BY DEF TypeOK, Pointer
<1>2. CallInv /\ DoorbellNotStuck /\ QuietInv
  BY DEF CallInv, DoorbellNotStuck, QuietInv
<1>3. FreshInv /\ HeadInv /\ LinkInv
  BY DEF FreshInv, HeadInv, LinkInv, BeforeLink
<1> QED
  BY <1>1, <1>2, <1>3 DEF IInv, QueueInv

LEMMA NextInv == IInv /\ [Next]_vars => IInv'
<1> SUFFICES ASSUME IInv, [Next]_vars PROVE IInv'
  OBVIOUS
<1>1. TypeOK /\ CallInv /\ QueueInv /\ DoorbellNotStuck /\ QuietInv
  BY DEF IInv
<1>2. TypeOK' /\ CallInv' /\ QueueInv' /\ DoorbellNotStuck' /\ QuietInv'
  BY <1>1, TypeStep, CallStep, QueueStep, DoorbellStep, QuietStep
<1> QED
  BY <1>2 DEF IInv

\* IInv is an inductive invariant of Spec.
THEOREM Invariant == Spec => []IInv
BY InitInv, NextInv, PTL DEF Spec

\* The types, of which the pointer in hand, which is not null while the loop
\* uses it, is more than a declaration.
THEOREM TypeCorrect == Spec => []TypeOK
<1>1. IInv => TypeOK
  BY DEF IInv
<1> QED
  BY <1>1, Invariant, PTL

\* The loop does not sleep with poll_scheduled set and nobody to ring it.
THEOREM DoorbellRings == Spec => []DoorbellNotStuck
<1>1. IInv => DoorbellNotStuck
  BY DEF IInv
<1> QED
  BY <1>1, Invariant, PTL

\* Until two calls have scheduled the same task at once, none is polled that was
\* not woken: whatever stores overtake one another, a task that is not due is
\* neither linked nor in hand.
THEOREM PolledWasWoken == Spec => []NoSpuriousPoll
<1>1. IInv => NoSpuriousPoll
  BY DEF IInv, QueueInv, HeadInv, NoSpuriousPoll, PendingWaits
<1> QED
  BY <1>1, Invariant, PTL

\* A wake that meets nothing else going on is served, whatever wakes follow.
THEOREM QuietWakeServed == Spec => []QuietWakeIsServed
<1>1. IInv => QuietWakeIsServed
  BY DEF IInv, QuietInv, QuietWakeIsServed, Alone, AtHead
<1> QED
  BY <1>1, Invariant, PTL
=============================================================================
