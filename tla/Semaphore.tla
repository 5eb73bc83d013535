------------------------------ MODULE Semaphore ------------------------------
(***************************************************************************)
(* src/sync/semaphore.c: futures of the loop thread wait in a queue of     *)
(* nodes, threads wait in cnd_wait(), and whoever signals hands its permit *)
(* to one of them or, when nobody waits, to the counter.                   *)
(*                                                                         *)
(* What runs between mtx_lock() and mtx_unlock() is one step, except that  *)
(* the counter of a node is also touched without the lock, by the cleanup  *)
(* of the future that waits: its loads and stores are steps of their own.  *)
(* A client that owns a permit may signal, which gives it up; events are   *)
(* signals of clients that own none.                                       *)
(* A definition marked (slip) is the mistake that shows that a property    *)
(* can fail (PROJECT.json, "mutants"), no part of the model.               *)
(***************************************************************************)
EXTENDS Naturals, Sequences, FiniteSets

CONSTANTS
  Futures,    \* each one wait future at a time, with the node of that name
  Threads,    \* callers of taskio_semaphore_blocking_wait()
  Event,      \* a signaller that owns no permit
  Null,       \* nobody
  Permits,    \* permits at taskio_semaphore_init()
  MaxEvents,  \* bound: signals of Event
  Timed       \* the waits are those of taskio_semaphore_timedwait()

ASSUME SemaphoreAssumption ==
  /\ Futures \cap Threads = {}
  /\ Event \notin Futures \cup Threads /\ Null \notin Futures \cup Threads \cup {Event}
  /\ IsFiniteSet(Futures) /\ IsFiniteSet(Threads)
  /\ Permits \in Nat /\ MaxEvents \in Nat
  /\ Timed \in BOOLEAN

VARIABLES
  counter, priority, blocking_wake_wait,  \* fields of the semaphore; priority
                                          \* modulo 2, all that is used of it
  queue,      \* nodes from wake_queue_head to wake_queue_tail
  refs,       \* node->counter without its flags; 0 when there is no node
  fut,        \* what each future does
  fval,       \* node->counter as its cleanup has loaded it
  thr,        \* what each thread does
  signaller,  \* who is in taskio_semaphore_signal() with the lock, or Null
  snode, sval,\* the node it drops, and the counter it loaded (0: not yet)
  events,     \* signals of Event so far
  dropped     \* taskio_semaphore_drop() has been called

futVars == <<refs, fut, fval>>
sigVars == <<signaller, snode, sval>>
semVars == <<counter, priority, blocking_wake_wait, queue>>
vars == <<semVars, futVars, thr, sigVars, events, dropped>>

TypeOK ==
  /\ counter \in Nat /\ priority \in {0, 1}
  /\ blocking_wake_wait \in 0..Cardinality(Threads)
  /\ queue \in Seq(Futures)
  /\ refs \in [Futures -> 0..2]
  /\ fut \in [Futures -> {"idle", "waiting", "woken", "ready", "dropping",
                          "late", "lateDropping", "owner"}]
  /\ fval \in [Futures -> 0..2]
  /\ thr \in [Threads -> {"idle", "blocked", "signalled", "owner"}]
  /\ signaller \in Futures \cup Threads \cup {Event, Null}
  /\ snode \in Futures \cup {Null} /\ sval \in 0..2
  /\ events \in 0..MaxEvents
  /\ dropped \in BOOLEAN

\* mtx_guard is there, and is free.
Unlocked == signaller = Null /\ ~dropped
\* The loop thread is not itself in the middle of a call.
LoopFree == /\ signaller \notin Futures
            /\ \A f \in Futures : fut[f] \notin {"ready", "dropping", "late", "lateDropping"}

-----------------------------------------------------------------------------
(* Waiting.                                                                 *)

\* (slip) the node is counted for the queue only
QueueRefOnly == 1
\* References of a new node: the queue's and the future's.
NodeRefs == 2

\* First poll of taskio_semaphore_wait(): the permit is taken ...
WaitTakes(f) ==
  /\ Unlocked /\ LoopFree
  /\ fut[f] = "idle" /\ counter > 0
  /\ counter' = counter - 1
  /\ fut' = [fut EXCEPT ![f] = "owner"]
  /\ UNCHANGED <<priority, blocking_wake_wait, queue, refs, fval, thr, sigVars, events, dropped>>

\* ... or a new node is queued.  A future that gave up on a node that is still
\* queued would have to be a new future to wait again.
WaitQueues(f) ==
  /\ Unlocked /\ LoopFree
  /\ fut[f] = "idle" /\ counter = 0
  /\ \A i \in 1..Len(queue) : queue[i] # f
  /\ refs' = [refs EXCEPT ![f] = NodeRefs]
  /\ queue' = Append(queue, f)
  /\ fut' = [fut EXCEPT ![f] = "waiting"]
  /\ UNCHANGED <<counter, priority, blocking_wake_wait, fval, thr, sigVars, events, dropped>>

\* The poll after the wake: the future is ready, and is then cleaned up.
WaitReady(f) ==
  /\ LoopFree
  /\ fut[f] = "woken"
  /\ fut' = [fut EXCEPT ![f] = "ready"]
  /\ UNCHANGED <<semVars, refs, fval, thr, sigVars, events, dropped>>

\* The select of a timed wait is ready with its timeout, which may be because
\* the timer's wake came just before the node's: the wait is cleaned up.
WaitTimesOut(f) ==
  /\ Timed /\ LoopFree
  /\ fut[f] \in {"waiting", "woken"}
  /\ fut' = [fut EXCEPT ![f] = "late"]
  /\ UNCHANGED <<semVars, refs, fval, thr, sigVars, events, dropped>>

\* _node_drop() in the cleanup of taskio_semaphore_wait(), without the lock.
CleanupLoad(f) ==
  /\ \/ fut[f] = "ready" /\ fut' = [fut EXCEPT ![f] = "dropping"]
     \/ fut[f] = "late" /\ fut' = [fut EXCEPT ![f] = "lateDropping"]
  /\ refs[f] > 0
  /\ fval' = [fval EXCEPT ![f] = refs[f]]
  /\ UNCHANGED <<semVars, refs, thr, sigVars, events, dropped>>

\* (slip) it goes up
Counted(n) == n + 1
\* node->counter-- of a counter that was loaded as n: at 1 the node is freed.
Dropped(n) == n - 1

CleanupStore(f) ==
  /\ \/ fut[f] = "dropping" /\ fut' = [fut EXCEPT ![f] = "owner"]
     \/ fut[f] = "lateDropping" /\ fut' = [fut EXCEPT ![f] = "idle"]
  /\ refs[f] > 0
  /\ refs' = [refs EXCEPT ![f] = Dropped(fval[f])]
  /\ fval' = [fval EXCEPT ![f] = 0]
  /\ UNCHANGED <<semVars, thr, sigVars, events, dropped>>

\* taskio_semaphore_blocking_wait() takes a permit ...
BlockingTakes(t) ==
  /\ Unlocked
  /\ thr[t] = "idle" /\ counter > 0
  /\ counter' = counter - 1
  /\ thr' = [thr EXCEPT ![t] = "owner"]
  /\ UNCHANGED <<priority, blocking_wake_wait, queue, futVars, sigVars, events, dropped>>

\* ... or waits in cnd_wait() ...
BlockingWaits(t) ==
  /\ Unlocked
  /\ thr[t] = "idle" /\ counter = 0
  /\ blocking_wake_wait' = blocking_wake_wait + 1
  /\ thr' = [thr EXCEPT ![t] = "blocked"]
  /\ UNCHANGED <<counter, priority, queue, futVars, sigVars, events, dropped>>

\* (slip) it stays counted among those that wait
BlockingReturnsCounted(t) ==
  /\ Unlocked
  /\ thr[t] = "signalled"
  /\ thr' = [thr EXCEPT ![t] = "owner"]
  /\ UNCHANGED <<semVars, futVars, sigVars, events, dropped>>
\* ... until it has been signalled and has the lock again.
BlockingReturns(t) ==
  /\ Unlocked
  /\ thr[t] = "signalled"
  /\ blocking_wake_wait' = blocking_wake_wait - 1
  /\ thr' = [thr EXCEPT ![t] = "owner"]
  /\ UNCHANGED <<counter, priority, queue, futVars, sigVars, events, dropped>>

-----------------------------------------------------------------------------
(* taskio_semaphore_signal().                                               *)

MaySignal(a) ==
  /\ Unlocked
  /\ \/ a \in Futures /\ fut[a] = "owner" /\ LoopFree
     \/ a \in Threads /\ thr[a] = "owner"
     \/ a = Event /\ events < MaxEvents

\* The futures, threads and events after a has given up its permit.
FutAfter(a) == [f \in Futures |-> IF f = a THEN "idle" ELSE fut[f]]
ThrAfter(a) == [t \in Threads |-> IF t = a THEN "idle" ELSE thr[t]]
EventsAfter(a) == IF a = Event THEN events + 1 ELSE events

BothWait == queue # << >> /\ blocking_wake_wait > 0

\* (slip) threads go first, always
ThreadsFirst == TRUE
\* Whose turn it is when both kinds wait.
SyncTurn == priority = 1

\* (slip) the counter goes up although a waiter has been served
CountedToo == counter + 1
\* A permit that is handed to a waiter is not counted.
NotCounted == counter

\* The queue after its head has been unlinked.
Unlinked(q) == Tail(q)

\* _signal_async(): the first node is unlinked and its future woken.  The
\* lock is kept until the node is dropped.
SignalAsync(a) ==
  /\ MaySignal(a)
  /\ queue # << >> /\ (blocking_wake_wait = 0 \/ ~SyncTurn)
  /\ LET f == Head(queue) IN
       /\ fut' = [FutAfter(a) EXCEPT ![f] = IF @ = "waiting" THEN "woken" ELSE @]
       /\ snode' = f
  /\ queue' = Unlinked(queue)
  /\ thr' = ThrAfter(a) /\ events' = EventsAfter(a)
  /\ priority' = IF BothWait THEN 1 ELSE priority
  /\ counter' = NotCounted
  /\ signaller' = a /\ sval' = 0
  /\ UNCHANGED <<blocking_wake_wait, refs, fval, dropped>>

SignalNodeLoad ==
  /\ snode # Null /\ sval = 0
  /\ refs[snode] > 0
  /\ sval' = refs[snode]
  /\ UNCHANGED <<semVars, futVars, thr, signaller, snode, events, dropped>>

SignalNodeStore ==
  /\ snode # Null /\ sval > 0
  /\ refs[snode] > 0
  /\ refs' = [refs EXCEPT ![snode] = Dropped(sval)]
  /\ signaller' = Null /\ snode' = Null /\ sval' = 0
  /\ UNCHANGED <<semVars, fut, fval, thr, events, dropped>>

\* _signal_sync(): cnd_signal() lets one of the threads that are still blocked
\* go on, if there is one.
SignalSync(a) ==
  /\ MaySignal(a)
  /\ blocking_wake_wait > 0 /\ (queue = << >> \/ SyncTurn)
  /\ LET blocked == {t \in Threads : thr[t] = "blocked"} IN
       \/ \E t \in blocked : thr' = [ThrAfter(a) EXCEPT ![t] = "signalled"]
       \/ blocked = {} /\ thr' = ThrAfter(a)
  /\ priority' = IF BothWait THEN 0 ELSE priority
  /\ fut' = FutAfter(a) /\ events' = EventsAfter(a)
  /\ counter' = NotCounted
  /\ UNCHANGED <<blocking_wake_wait, queue, refs, fval, sigVars, dropped>>

SignalCounts(a) ==
  /\ MaySignal(a)
  /\ queue = << >> /\ blocking_wake_wait = 0
  /\ counter' = counter + 1
  /\ fut' = FutAfter(a) /\ thr' = ThrAfter(a) /\ events' = EventsAfter(a)
  /\ UNCHANGED <<priority, blocking_wake_wait, queue, refs, fval, sigVars, dropped>>

-----------------------------------------------------------------------------

\* taskio_semaphore_drop(), which nobody calls while a thread is inside another
\* call: each queued node loses the queue's reference.  Only the nodes of timed
\* waits outlive it until their futures have timed out; a node without a
\* timeout is freed under its future, which the code traces as a mistake of
\* the caller.  Nobody reads the queue afterwards.
SemaphoreDrop ==
  /\ Unlocked /\ LoopFree
  /\ \A t \in Threads : thr[t] \in {"idle", "owner"}
  /\ Timed \/ queue = << >>
  /\ refs' = [f \in Futures |-> IF \E i \in 1..Len(queue) : queue[i] = f
                               THEN Dropped(refs[f]) ELSE refs[f]]
  /\ queue' = << >>
  /\ dropped' = TRUE
  /\ UNCHANGED <<counter, priority, blocking_wake_wait, fut, fval, thr, sigVars, events>>

-----------------------------------------------------------------------------

Init ==
  /\ counter = Permits /\ priority = 0 /\ blocking_wake_wait = 0 /\ queue = << >>
  /\ refs = [f \in Futures |-> 0]
  /\ fut = [f \in Futures |-> "idle"] /\ fval = [f \in Futures |-> 0]
  /\ thr = [t \in Threads |-> "idle"]
  /\ signaller = Null /\ snode = Null /\ sval = 0 /\ events = 0
  /\ dropped = FALSE

Begin(f) == WaitTakes(f) \/ WaitQueues(f)
Resume(f) == WaitReady(f) \/ CleanupLoad(f) \/ CleanupStore(f)
BlockingWait(t) == BlockingTakes(t) \/ BlockingWaits(t)
Signal(a) == SignalAsync(a) \/ SignalSync(a) \/ SignalCounts(a)

Next ==
  \/ \E f \in Futures : Begin(f) \/ Resume(f) \/ WaitTimesOut(f)
  \/ \E t \in Threads : BlockingWait(t) \/ BlockingReturns(t)
  \/ \E a \in Futures \cup Threads \cup {Event} : Signal(a)
  \/ SignalNodeLoad \/ SignalNodeStore
  \/ SemaphoreDrop

Spec == Init /\ [][Next]_vars

-----------------------------------------------------------------------------
(* Properties.                                                              *)

\* Clients that hold a permit, or have been handed one they will find when
\* they run again.
Owners == {f \in Futures : fut[f] \in {"woken", "ready", "dropping", "owner"}} \cup
          {t \in Threads : thr[t] \in {"signalled", "owner"}}

\* No permit is lost or made up on its way from a signal to a waiter: the
\* counter and the owners account for all that have been issued.
PermitsConserved == counter + Cardinality(Owners) = Permits + events

\* A permit is in the counter only while nobody waits for one: whoever comes
\* later does not overtake, and no waiter sleeps beside a free permit.
NoIdlePermit == counter > 0 => queue = << >> /\ blocking_wake_wait = 0

\* No node is freed while the queue, its future or the signaller still uses it.
NodeNotFreedInUse ==
  \A f \in Futures :
    (\/ \E i \in 1..Len(queue) : queue[i] = f
     \/ fut[f] \in {"waiting", "woken", "ready", "dropping", "late", "lateDropping"}
     \/ snode = f) => refs[f] > 0

\* A future that waits gets a permit, if every owner gives its own back: the
\* queue is served in order and shares the signals with the threads.  In vain it
\* waits only if the executor never polls one of them although it was woken.
FutureGetsPermit ==
  \A f \in Futures :
    fut[f] = "waiting" ~> (fut[f] = "owner" \/ \E g \in Futures : [](fut[g] = "woken"))

\* The semaphore does what a counting semaphore promises.
Abstract == INSTANCE CountingSemaphore WITH
  Clients <- Futures \cup Threads,
  issued <- Permits + events,
  owners <- {f \in Futures : fut[f] = "owner"} \cup {t \in Threads : thr[t] = "owner"}
IsCountingSemaphore == Abstract!Spec
=============================================================================
