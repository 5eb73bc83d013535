--------------------------- MODULE SemaphoreProofs ---------------------------
(***************************************************************************)
(* What holds of Semaphore for any number of futures, threads, permits and *)
(* events, timed or not: permits are never made up, so it implements a     *)
(* counting semaphore, none lies idle beside a waiter, no node is freed in *)
(* use.  The queue without timeouts is there for Mutex.                    *)
(***************************************************************************)
EXTENDS Semaphore, FiniteSetTheorems, TLAPS

\* Threads counted by blocking_wake_wait: in cnd_wait(), or signalled and not
\* yet back with the lock.
Inside == {t \in Threads : thr[t] \in {"blocked", "signalled"}}
InsideCounted == blocking_wake_wait = Cardinality(Inside)

\* A cleanup has loaded the counter of a node that was there.
LoadedPositive ==
  \A f \in Futures : fut[f] \in {"dropping", "lateDropping"} => fval[f] > 0

\* A permit that a signal hands over belongs to its new owner at once, so that
\* permits can be lost but not doubled.
NeverTooMany == counter + Cardinality(Owners) <= Permits + events

IInv == TypeOK /\ LoadedPositive /\ InsideCounted /\ NoIdlePermit /\ NeverTooMany

InQueue(f) == \E i \in 1..Len(queue) : queue[i] = f
\* The future holds its reference to the node.
Uses(f) == fut[f] \in {"waiting", "woken", "ready", "dropping", "late", "lateDropping"}
\* The other reference is the queue's or, from the unlinking on, the signaller's.
Held(f) == InQueue(f) \/ snode = f

\* A node is linked once, and is not while it is being dropped, which is done
\* with the lock.
LinkedOnce ==
  /\ \A i, j \in 1..Len(queue) : queue[i] = queue[j] => i = j
  /\ snode # Null => signaller # Null /\ ~InQueue(snode)

\* Both references are in the counter, and in what either side has loaded of it
\* as long as the other side has not stored.
RefsCover ==
  \A f \in Futures :
    /\ Uses(f) \/ Held(f) => refs[f] >= 1
    /\ Uses(f) /\ Held(f) => refs[f] >= 2
    /\ fut[f] \in {"dropping", "lateDropping"} /\ Held(f) => fval[f] >= 2
    /\ snode = f /\ sval > 0 /\ Uses(f) => sval >= 2

NodeInv == IInv /\ LinkedOnce /\ RefsCover

\* Futures and threads that have returned with a permit.
Holders == {f \in Futures : fut[f] = "owner"} \cup {t \in Threads : thr[t] = "owner"}

-----------------------------------------------------------------------------
(* Counting.                                                                *)

LEMMA SubsetCounts ==
  ASSUME NEW S, IsFiniteSet(S), NEW T, T \subseteq S
  PROVE  /\ IsFiniteSet(T)
         /\ Cardinality(T) \in Nat /\ Cardinality(S) \in Nat
         /\ Cardinality(T) <= Cardinality(S)
         /\ T # S => Cardinality(T) < Cardinality(S)
<1>1. T \in SUBSET S
  OBVIOUS
<1>2. /\ IsFiniteSet(T) /\ Cardinality(T) <= Cardinality(S)
      /\ Cardinality(S) = Cardinality(T) => S = T
  BY <1>1, FS_Subset
<1>3. Cardinality(T) \in Nat /\ Cardinality(S) \in Nat
  BY <1>2, FS_CardinalityType
<1> QED BY <1>2, <1>3

\* One comes, one goes.
LEMMA SwapCounts ==
  ASSUME NEW S, IsFiniteSet(S), NEW a, a \in S, NEW x, NEW T, T \subseteq (S \ {a}) \cup {x}
  PROVE  Cardinality(T) \in Nat /\ Cardinality(T) <= Cardinality(S)
<1>1. /\ IsFiniteSet(S \ {a}) /\ Cardinality(S \ {a}) = Cardinality(S) - 1
      /\ Cardinality(S) \in Nat /\ Cardinality(S \ {a}) \in Nat
  BY FS_RemoveElement, FS_CardinalityType
<1>2. /\ IsFiniteSet((S \ {a}) \cup {x})
      /\ Cardinality((S \ {a}) \cup {x}) <= Cardinality(S)
      /\ Cardinality((S \ {a}) \cup {x}) \in Nat
  <2>1. /\ IsFiniteSet((S \ {a}) \cup {x})
        /\ \/ Cardinality((S \ {a}) \cup {x}) = Cardinality(S \ {a})
           \/ Cardinality((S \ {a}) \cup {x}) = Cardinality(S \ {a}) + 1
    BY <1>1, FS_AddElement
  <2> QED BY <1>1, <2>1
<1>3. Cardinality(T) \in Nat /\ Cardinality(T) <= Cardinality((S \ {a}) \cup {x})
  BY <1>2, SubsetCounts
<1> QED BY <1>1, <1>2, <1>3

\* One comes.
LEMMA AddCounts ==
  ASSUME NEW S, IsFiniteSet(S), NEW x, NEW T, T \subseteq S \cup {x}
  PROVE  /\ Cardinality(T) \in Nat /\ Cardinality(S) \in Nat
         /\ Cardinality(T) <= Cardinality(S) + 1
<1>1. /\ IsFiniteSet(S \cup {x}) /\ Cardinality(S) \in Nat
      /\ \/ Cardinality(S \cup {x}) = Cardinality(S)
         \/ Cardinality(S \cup {x}) = Cardinality(S) + 1
  BY FS_AddElement, FS_CardinalityType
<1>2. Cardinality(T) \in Nat /\ Cardinality(T) <= Cardinality(S \cup {x})
  BY <1>1, SubsetCounts
<1> QED BY <1>1, <1>2

LEMMA SetsFinite ==
  /\ IsFiniteSet(Owners) /\ IsFiniteSet(Inside)
  /\ Cardinality(Owners) \in Nat /\ Cardinality(Inside) \in Nat
<1>1. IsFiniteSet(Futures \cup Threads)
  BY SemaphoreAssumption, FS_Union
<1>2. Owners \subseteq Futures \cup Threads /\ Inside \subseteq Threads
  BY DEF Owners, Inside
<1> QED BY <1>1, <1>2, SemaphoreAssumption, SubsetCounts

LEMMA HoldersCount ==
  /\ Holders \subseteq Owners
  /\ Cardinality(Holders) \in Nat
  /\ Cardinality(Holders) <= Cardinality(Owners)
<1>1. Holders \subseteq Owners
  BY DEF Holders, Owners
<1> QED BY <1>1, SetsFinite, SubsetCounts

-----------------------------------------------------------------------------
(* The invariant.                                                           *)

LEMMA InitIInv == Init => IInv
<1> SUFFICES ASSUME Init PROVE IInv
  OBVIOUS
<1>1. Owners = {} /\ Inside = {}
  BY DEF Init, Owners, Inside
<1>2. Cardinality(Owners) = 0 /\ Cardinality(Inside) = 0
  BY <1>1, FS_EmptySet
<1>3. TypeOK
  <2>1. 0 \in 0..Cardinality(Threads)
    BY SemaphoreAssumption, FS_CardinalityType
  <2>2. /\ refs \in [Futures -> 0..2] /\ fval \in [Futures -> 0..2]
        /\ fut \in [Futures -> {"idle", "waiting", "woken", "ready", "dropping",
                                "late", "lateDropping", "owner"}]
        /\ thr \in [Threads -> {"idle", "blocked", "signalled", "owner"}]
    BY DEF Init
  <2>3. queue \in Seq(Futures)
    BY DEF Init
  <2>4. dropped \in BOOLEAN
    BY DEF Init
  <2> QED BY <2>1, <2>2, <2>3, <2>4, SemaphoreAssumption DEF Init, TypeOK
<1>4. LoadedPositive
  BY DEF Init, LoadedPositive
<1> QED BY <1>2, <1>3, <1>4, SemaphoreAssumption
        DEF Init, IInv, InsideCounted, NoIdlePermit, NeverTooMany

\* blocking_wake_wait after a step, from the threads that are then inside.
LEMMA InsideBound ==
  ASSUME NEW T, T \subseteq Threads
  PROVE  Cardinality(T) \in 0..Cardinality(Threads)
BY SemaphoreAssumption, SubsetCounts

\* A future that waits, is woken, gives up or cleans up.
LEMMA FutureKeepsIInv ==
  ASSUME IInv, NEW f \in Futures, Begin(f) \/ Resume(f) \/ WaitTimesOut(f)
  PROVE  IInv'
<1> USE DEF IInv
<1>0. /\ counter \in Nat /\ Permits + events \in Nat /\ UNCHANGED <<thr, events>>
      /\ fut \in [Futures -> {"idle", "waiting", "woken", "ready", "dropping",
                              "late", "lateDropping", "owner"}]
  BY SemaphoreAssumption
     DEF TypeOK, Begin, Resume, WaitTakes, WaitQueues, WaitReady, CleanupLoad,
         CleanupStore, WaitTimesOut
<1>1. Inside' = Inside /\ UNCHANGED blocking_wake_wait
  BY <1>0 DEF Inside, Begin, Resume, WaitTakes, WaitQueues, WaitReady, CleanupLoad,
              CleanupStore, WaitTimesOut, semVars
<1>2. CASE WaitTakes(f)
  <2>1. Owners' = Owners \cup {f}
    BY <1>0, <1>2 DEF WaitTakes, Owners
  <2>2. Cardinality(Owners') \in Nat /\ Cardinality(Owners') <= Cardinality(Owners) + 1
    BY <2>1, SetsFinite, AddCounts
  <2>3. NeverTooMany'
    BY <1>0, <1>2, <2>2, SetsFinite, SemaphoreAssumption DEF WaitTakes, NeverTooMany, TypeOK
  <2>4. TypeOK'
    BY <1>0, <1>2 DEF WaitTakes, TypeOK, sigVars
  <2> QED BY <1>0, <1>1, <1>2, <2>3, <2>4
          DEF WaitTakes, LoadedPositive, InsideCounted, NoIdlePermit
<1>3. CASE WaitQueues(f)
  <2>1. Owners' = Owners
    BY <1>0, <1>3 DEF WaitQueues, Owners
  <2>2. NeverTooMany'
    BY <1>0, <1>3, <2>1 DEF WaitQueues, NeverTooMany
  <2>3. TypeOK'
    BY <1>0, <1>3 DEF WaitQueues, NodeRefs, TypeOK, sigVars
  <2> QED BY <1>0, <1>1, <1>3, <2>2, <2>3
          DEF WaitQueues, LoadedPositive, InsideCounted, NoIdlePermit
<1>4. CASE Resume(f) \/ WaitTimesOut(f)
  <2>1. UNCHANGED semVars /\ Owners' \subseteq Owners
    BY <1>0, <1>4 DEF Resume, WaitReady, CleanupLoad, CleanupStore, WaitTimesOut, Owners
  <2>2. NeverTooMany' /\ NoIdlePermit' /\ InsideCounted'
    <3>1. Cardinality(Owners') \in Nat /\ Cardinality(Owners') <= Cardinality(Owners)
      BY <2>1, SetsFinite, SubsetCounts
    <3> QED BY <1>0, <1>1, <2>1, <3>1, SetsFinite
            DEF NeverTooMany, NoIdlePermit, InsideCounted, semVars
  <2>3. TypeOK' /\ LoadedPositive'
    <3>1. CASE WaitReady(f) \/ WaitTimesOut(f)
      BY <1>0, <3>1 DEF WaitReady, WaitTimesOut, TypeOK, LoadedPositive, semVars, sigVars
    <3>2. CASE CleanupLoad(f)
      BY <1>0, <3>2 DEF CleanupLoad, TypeOK, LoadedPositive, semVars, sigVars
    <3>3. CASE CleanupStore(f)
      <4>1. fval[f] \in 1..2
        BY <3>3 DEF CleanupStore, TypeOK, LoadedPositive
      <4> QED BY <1>0, <3>3, <4>1
              DEF CleanupStore, Dropped, TypeOK, LoadedPositive, semVars, sigVars
    <3> QED BY <1>4, <3>1, <3>2, <3>3 DEF Resume
  <2> QED BY <2>2, <2>3
<1> QED BY <1>2, <1>3, <1>4 DEF Begin

\* A thread that takes a permit, waits in cnd_wait() or returns from it.
LEMMA ThreadKeepsIInv ==
  ASSUME IInv, NEW t \in Threads, BlockingWait(t) \/ BlockingReturns(t)
  PROVE  IInv'
<1> USE DEF IInv
<1>0. /\ counter \in Nat /\ Permits + events \in Nat /\ blocking_wake_wait \in Nat
      /\ UNCHANGED <<priority, queue, futVars, sigVars, events>>
      /\ thr \in [Threads -> {"idle", "blocked", "signalled", "owner"}]
  BY SemaphoreAssumption, FS_CardinalityType
     DEF TypeOK, BlockingWait, BlockingTakes, BlockingWaits, BlockingReturns
<1>1. CASE BlockingTakes(t)
  <2>1. Owners' = Owners \cup {t} /\ Inside' = Inside
    BY <1>0, <1>1 DEF BlockingTakes, Owners, Inside, futVars
  <2>2. Cardinality(Owners') \in Nat /\ Cardinality(Owners') <= Cardinality(Owners) + 1
    BY <2>1, SetsFinite, AddCounts
  <2>3. NeverTooMany'
    BY <1>0, <1>1, <2>2, SetsFinite DEF BlockingTakes, NeverTooMany
  <2>4. TypeOK'
    BY <1>0, <1>1 DEF BlockingTakes, TypeOK, futVars, sigVars
  <2> QED BY <1>0, <1>1, <2>1, <2>3, <2>4
          DEF BlockingTakes, LoadedPositive, InsideCounted, NoIdlePermit, futVars
<1>2. CASE BlockingWaits(t)
  <2>1. Owners' = Owners /\ Inside' = Inside \cup {t} /\ t \notin Inside
    BY <1>0, <1>2 DEF BlockingWaits, Owners, Inside, futVars
  <2>2. Cardinality(Inside') = Cardinality(Inside) + 1
    BY <2>1, SetsFinite, FS_AddElement
  <2>3. InsideCounted'
    BY <1>2, <2>2 DEF BlockingWaits, InsideCounted
  <2>4. TypeOK'
    <3>1. blocking_wake_wait' \in 0..Cardinality(Threads)
      BY <2>3, InsideBound DEF InsideCounted, Inside
    <3> QED BY <1>0, <1>2, <3>1 DEF BlockingWaits, TypeOK, futVars, sigVars
  <2> QED BY <1>0, <1>2, <2>1, <2>3, <2>4
          DEF BlockingWaits, LoadedPositive, NoIdlePermit, NeverTooMany, futVars
<1>3. CASE BlockingReturns(t)
  <2>1. Owners' = Owners /\ Inside' = Inside \ {t} /\ t \in Inside
    BY <1>0, <1>3 DEF BlockingReturns, Owners, Inside, futVars
  <2>2. Cardinality(Inside') = Cardinality(Inside) - 1 /\ Cardinality(Inside) > 0
    BY <2>1, SetsFinite, FS_RemoveElement, FS_EmptySet
  <2>3. InsideCounted'
    BY <1>3, <2>2 DEF BlockingReturns, InsideCounted
  <2>4. TypeOK'
    <3>1. blocking_wake_wait' \in 0..Cardinality(Threads)
      BY <2>3, InsideBound DEF InsideCounted, Inside
    <3> QED BY <1>0, <1>3, <3>1 DEF BlockingReturns, TypeOK, futVars, sigVars
  <2>5. NoIdlePermit'
    BY <1>0, <1>3, <2>2, SetsFinite DEF BlockingReturns, NoIdlePermit, InsideCounted
  <2> QED BY <1>0, <1>3, <2>1, <2>3, <2>4, <2>5
          DEF BlockingReturns, LoadedPositive, NeverTooMany, futVars
<1> QED BY <1>1, <1>2, <1>3 DEF BlockingWait

\* The signaller gives up its permit, or issues one.
LEMMA SignallerGives ==
  ASSUME IInv, NEW a \in Futures \cup Threads \cup {Event}, MaySignal(a)
  PROVE  /\ a # Event => a \in Owners /\ EventsAfter(a) = events
         /\ a = Event => EventsAfter(a) = events + 1 /\ a \notin Owners
         /\ EventsAfter(a) \in 0..MaxEvents
         /\ FutAfter(a) \in [Futures -> {"idle", "waiting", "woken", "ready", "dropping",
                                         "late", "lateDropping", "owner"}]
         /\ ThrAfter(a) \in [Threads -> {"idle", "blocked", "signalled", "owner"}]
         /\ \A f \in Futures : FutAfter(a)[f] = fut[f] \/ FutAfter(a)[f] = "idle"
         /\ \A f \in Futures : FutAfter(a)[f] = "waiting" => fut[f] = "waiting"
         /\ {f \in Futures : FutAfter(a)[f] \in {"woken", "ready", "dropping", "owner"}}
              \cup {t \in Threads : ThrAfter(a)[t] \in {"signalled", "owner"}} = Owners \ {a}
         /\ {t \in Threads : ThrAfter(a)[t] \in {"blocked", "signalled"}} = Inside
<1> USE SemaphoreAssumption DEF IInv, TypeOK, MaySignal
<1>1. a # Event => a \in Owners /\ EventsAfter(a) = events
  BY DEF Owners, EventsAfter
<1>2. a = Event => EventsAfter(a) = events + 1 /\ a \notin Owners
  BY DEF Owners, EventsAfter
<1>3. EventsAfter(a) \in 0..MaxEvents
  BY DEF EventsAfter
<1>4. FutAfter(a) \in [Futures -> {"idle", "waiting", "woken", "ready", "dropping",
                                  "late", "lateDropping", "owner"}]
  BY DEF FutAfter
<1>5. ThrAfter(a) \in [Threads -> {"idle", "blocked", "signalled", "owner"}]
  BY DEF ThrAfter
<1>6. \A f \in Futures : FutAfter(a)[f] = IF f = a THEN "idle" ELSE fut[f]
  BY DEF FutAfter
<1>7. \A t \in Threads : ThrAfter(a)[t] = IF t = a THEN "idle" ELSE thr[t]
  BY DEF ThrAfter
<1>8. {f \in Futures : FutAfter(a)[f] \in {"woken", "ready", "dropping", "owner"}}
        \cup {t \in Threads : ThrAfter(a)[t] \in {"signalled", "owner"}} = Owners \ {a}
  BY <1>6, <1>7 DEF Owners
<1>9. {t \in Threads : ThrAfter(a)[t] \in {"blocked", "signalled"}} = Inside
  BY <1>7 DEF Inside
<1> QED BY <1>1, <1>2, <1>3, <1>4, <1>5, <1>6, <1>8, <1>9

\* Handing the permit to x, or to nobody, makes none up.
LEMMA HandOverKeeps ==
  ASSUME IInv, NEW a \in Futures \cup Threads \cup {Event}, MaySignal(a),
         counter' = counter, events' = EventsAfter(a),
         NEW x, Owners' \subseteq (Owners \ {a}) \cup {x}
  PROVE  NeverTooMany'
<1>1. counter \in Nat /\ events \in Nat /\ Permits \in Nat
  BY SemaphoreAssumption DEF IInv, TypeOK
<1>2. CASE a = Event
  <2>1. Owners' \subseteq Owners \cup {x}
    OBVIOUS
  <2>2. /\ Cardinality(Owners') \in Nat
        /\ Cardinality(Owners') <= Cardinality(Owners) + 1
    BY <2>1, SetsFinite, AddCounts
  <2>3. events' = events + 1
    BY <1>2, SignallerGives
  <2> QED BY <1>1, <2>2, <2>3, SetsFinite DEF IInv, NeverTooMany
<1>3. CASE a # Event
  <2>1. a \in Owners /\ events' = events
    BY <1>3, SignallerGives
  <2>2. Cardinality(Owners') \in Nat /\ Cardinality(Owners') <= Cardinality(Owners)
    BY <2>1, SetsFinite, SwapCounts
  <2> QED BY <1>1, <2>1, <2>2, SetsFinite DEF IInv, NeverTooMany
<1> QED BY <1>2, <1>3

LEMMA SignalKeepsIInv ==
  ASSUME IInv, NEW a \in Futures \cup Threads \cup {Event}, Signal(a)
  PROVE  IInv'
<1>0. MaySignal(a) /\ TypeOK /\ dropped' = dropped
  BY DEF Signal, SignalAsync, SignalSync, SignalCounts, IInv
<1>1. CASE SignalAsync(a)
  <2> DEFINE f == Head(queue)
  <2>1. f \in Futures /\ queue' = Tail(queue) /\ queue' \in Seq(Futures)
    BY <1>0, <1>1 DEF SignalAsync, Unlinked, TypeOK
  <2>2. /\ fut' = [FutAfter(a) EXCEPT ![f] =
                    IF FutAfter(a)[f] = "waiting" THEN "woken" ELSE FutAfter(a)[f]]
        /\ thr' = ThrAfter(a) /\ events' = EventsAfter(a) /\ counter' = counter
        /\ UNCHANGED <<blocking_wake_wait, refs, fval>>
        /\ signaller' = a /\ snode' = f /\ sval' = 0
        /\ priority' \in {0, 1}
    BY <1>0, <1>1 DEF SignalAsync, NotCounted, TypeOK
  <2>3. TypeOK'
    BY <1>0, <2>1, <2>2, SignallerGives DEF TypeOK
  <2>4. LoadedPositive'
    BY <1>0, <2>1, <2>2, SignallerGives DEF IInv, LoadedPositive
  <2>5. InsideCounted'
    <3>1. Inside' = Inside
      BY <1>0, <2>2, SignallerGives DEF Inside
    <3> QED BY <2>2, <3>1 DEF IInv, InsideCounted
  <2>6. NoIdlePermit'
    BY <1>1, <2>1, <2>2 DEF IInv, NoIdlePermit, SignalAsync
  <2>7. NeverTooMany'
    <3>1. Owners' \subseteq (Owners \ {a}) \cup {f}
      BY <1>0, <2>1, <2>2, SignallerGives DEF Owners
    <3> QED BY <1>0, <2>2, <3>1, HandOverKeeps
  <2> QED BY <2>3, <2>4, <2>5, <2>6, <2>7 DEF IInv
<1>2. CASE SignalSync(a)
  <2>1. /\ fut' = FutAfter(a) /\ events' = EventsAfter(a) /\ counter' = counter
        /\ UNCHANGED <<blocking_wake_wait, queue, refs, fval, sigVars>>
        /\ priority' \in {0, 1} /\ blocking_wake_wait > 0
    BY <1>0, <1>2 DEF SignalSync, NotCounted, TypeOK
  <2>2. \/ \E t \in Threads : /\ thr[t] = "blocked"
                             /\ thr' = [ThrAfter(a) EXCEPT ![t] = "signalled"]
        \/ thr' = ThrAfter(a)
    BY <1>2 DEF SignalSync
  <2>3. /\ thr' \in [Threads -> {"idle", "blocked", "signalled", "owner"}]
        /\ Inside' = Inside
        /\ \E x \in Threads \cup {Null} : Owners' \subseteq (Owners \ {a}) \cup {x}
    <3>1. CASE thr' = ThrAfter(a)
      BY <1>0, <2>1, <3>1, SignallerGives DEF Owners, Inside
    <3>2. ASSUME NEW t \in Threads, thr[t] = "blocked",
                 thr' = [ThrAfter(a) EXCEPT ![t] = "signalled"]
          PROVE  <2>3!1 /\ <2>3!2 /\ <2>3!3
      <4>1. thr' \in [Threads -> {"idle", "blocked", "signalled", "owner"}]
        BY <1>0, <3>2, SignallerGives
      <4>2. \A u \in Threads : thr'[u] = IF u = t THEN "signalled" ELSE ThrAfter(a)[u]
        BY <1>0, <3>2, SignallerGives
      <4>3. t \in Inside
        BY <3>2 DEF Inside
      <4>4. Inside' = Inside
        BY <1>0, <4>2, <4>3, SignallerGives DEF Inside
      <4>5. Owners' \subseteq (Owners \ {a}) \cup {t}
        BY <1>0, <2>1, <4>2, SignallerGives DEF Owners
      <4> QED BY <4>1, <4>4, <4>5
    <3> QED BY <2>2, <3>1, <3>2
  <2>4. TypeOK'
    BY <1>0, <2>1, <2>3, SignallerGives DEF TypeOK, sigVars
  <2>5. LoadedPositive'
    BY <1>0, <2>1, SignallerGives DEF IInv, LoadedPositive
  <2>6. InsideCounted' /\ NoIdlePermit'
    BY <2>1, <2>3 DEF IInv, InsideCounted, NoIdlePermit
  <2>7. NeverTooMany'
    BY <1>0, <2>1, <2>3, HandOverKeeps
  <2> QED BY <2>4, <2>5, <2>6, <2>7 DEF IInv
<1>3. CASE SignalCounts(a)
  <2>1. /\ fut' = FutAfter(a) /\ thr' = ThrAfter(a) /\ events' = EventsAfter(a)
        /\ counter' = counter + 1 /\ queue = << >> /\ blocking_wake_wait = 0
        /\ UNCHANGED <<priority, blocking_wake_wait, queue, refs, fval, sigVars>>
    BY <1>3 DEF SignalCounts
  <2>2. TypeOK'
    BY <1>0, <2>1, SignallerGives DEF TypeOK, sigVars
  <2>3. LoadedPositive' /\ NoIdlePermit'
    BY <1>0, <2>1, SignallerGives DEF IInv, LoadedPositive, NoIdlePermit
  <2>4. InsideCounted'
    <3>1. Inside' = Inside
      BY <1>0, <2>1, SignallerGives DEF Inside
    <3> QED BY <2>1, <3>1 DEF IInv, InsideCounted
  <2>5. NeverTooMany'
    <3>1. Owners' = Owners \ {a}
      BY <1>0, <2>1, SignallerGives DEF Owners
    <3>2. counter \in Nat /\ events \in Nat /\ Permits \in Nat
      BY SemaphoreAssumption DEF IInv, TypeOK
    <3>3. CASE a = Event
      <4>1. Owners' = Owners /\ events' = events + 1
        BY <1>0, <2>1, <3>1, <3>3, SignallerGives
      <4> QED BY <2>1, <3>2, <4>1, SetsFinite DEF IInv, NeverTooMany
    <3>4. CASE a # Event
      <4>1. a \in Owners /\ events' = events
        BY <1>0, <2>1, <3>4, SignallerGives
      <4>2. Cardinality(Owners') = Cardinality(Owners) - 1
        BY <3>1, <4>1, SetsFinite, FS_RemoveElement
      <4> QED BY <2>1, <3>2, <4>1, <4>2, SetsFinite DEF IInv, NeverTooMany
    <3> QED BY <3>3, <3>4
  <2> QED BY <2>2, <2>3, <2>4, <2>5 DEF IInv
<1> QED BY <1>1, <1>2, <1>3 DEF Signal

LEMMA SignalEndKeepsIInv ==
  ASSUME IInv, SignalNodeLoad \/ SignalNodeStore
  PROVE  IInv'
<1>1. UNCHANGED <<semVars, fut, fval, thr, events>>
  BY DEF SignalNodeLoad, SignalNodeStore, futVars
<1>2. TypeOK'
  <2>1. CASE SignalNodeLoad
    BY <2>1 DEF SignalNodeLoad, IInv, TypeOK, semVars, futVars
  <2>2. CASE SignalNodeStore
    <3>1. snode \in Futures /\ sval \in 1..2
      BY <2>2 DEF SignalNodeStore, IInv, TypeOK
    <3> QED BY <2>2, <3>1 DEF SignalNodeStore, Dropped, IInv, TypeOK, semVars
  <2> QED BY <2>1, <2>2
<1>3. Owners' = Owners /\ Inside' = Inside
  BY <1>1 DEF Owners, Inside
<1> QED BY <1>1, <1>2, <1>3
        DEF IInv, LoadedPositive, InsideCounted, NoIdlePermit, NeverTooMany, semVars

LEMMA DropKeepsIInv ==
  ASSUME NodeInv, SemaphoreDrop
  PROVE  IInv'
<1> USE DEF NodeInv
<1>1. UNCHANGED <<counter, priority, blocking_wake_wait, fut, fval, thr, sigVars, events>>
      /\ queue' = << >> /\ dropped' = TRUE
  BY DEF SemaphoreDrop
<1>2. refs' \in [Futures -> 0..2]
  <2>1. ASSUME NEW f \in Futures, \E i \in 1..Len(queue) : queue[i] = f
        PROVE  refs[f] - 1 \in 0..2
    BY <2>1 DEF IInv, RefsCover, Held, InQueue, TypeOK
  <2> QED BY <2>1 DEF SemaphoreDrop, Dropped, IInv, TypeOK
<1>3. TypeOK'
  BY <1>1, <1>2 DEF IInv, TypeOK, sigVars
<1>4. Owners' = Owners /\ Inside' = Inside
  BY <1>1 DEF Owners, Inside
<1> QED BY <1>1, <1>3, <1>4
        DEF IInv, LoadedPositive, InsideCounted, NoIdlePermit, NeverTooMany

LEMMA StutterKeepsIInv == IInv /\ UNCHANGED vars => IInv'
<1> SUFFICES ASSUME IInv, UNCHANGED vars PROVE IInv'
  OBVIOUS
<1>1. Owners' = Owners /\ Inside' = Inside
  BY DEF vars, futVars, Owners, Inside
<1>2. TypeOK' /\ LoadedPositive'
  BY DEF IInv, TypeOK, LoadedPositive, vars, semVars, futVars, sigVars
<1> QED BY <1>1, <1>2
        DEF IInv, InsideCounted, NoIdlePermit, NeverTooMany, vars, semVars

LEMMA NextKeepsIInv == NodeInv /\ [Next]_vars => IInv'
  BY FutureKeepsIInv, ThreadKeepsIInv, SignalKeepsIInv, SignalEndKeepsIInv,
     DropKeepsIInv, StutterKeepsIInv DEF Next, NodeInv

-----------------------------------------------------------------------------
(* The counting semaphore.                                                  *)

AbstractStep == [Abstract!Next]_<<Permits + events, Holders>>

\* A step after which the same clients hold a permit stutters.
LEMMA SameHoldersStutters ==
  ASSUME Holders' = Holders, events' = events
  PROVE  AbstractStep
BY DEF AbstractStep

\* A client that comes to hold a permit finds fewer holders than permits.
LEMMA AcquireMaps ==
  ASSUME IInv, NEW c \in Futures \cup Threads, c \notin Holders, Holders' = Holders \cup {c},
         events' = events, counter > 0 \/ c \in Owners
  PROVE  AbstractStep
<1>1. counter \in Nat /\ events \in Nat /\ Permits \in Nat
  BY SemaphoreAssumption DEF IInv, TypeOK
<1>2. Cardinality(Holders) < Permits + events
  <2>1. CASE counter > 0
    BY <1>1, <2>1, SetsFinite, HoldersCount DEF IInv, NeverTooMany
  <2>2. CASE c \in Owners
    <3>1. Cardinality(Holders) < Cardinality(Owners)
      BY <2>2, HoldersCount, SetsFinite, SubsetCounts
    <3> QED BY <1>1, <3>1, SetsFinite, HoldersCount DEF IInv, NeverTooMany
  <2> QED BY <2>1, <2>2
<1>3. Abstract!Acquire(c)
  <2>1. Abstract!Cardinality(Holders) = Cardinality(Holders)
    BY DEF Abstract!Cardinality, Cardinality
  <2> QED BY <1>2, <2>1 DEF Abstract!Acquire, Holders
<1> QED BY <1>3 DEF AbstractStep, Abstract!Next

LEMMA SignalMaps ==
  ASSUME IInv, NEW a \in Futures \cup Threads \cup {Event}, Signal(a)
  PROVE  AbstractStep
<1> USE SemaphoreAssumption
<1>1. TypeOK /\ MaySignal(a) /\ events' = EventsAfter(a)
  BY DEF IInv, Signal, SignalAsync, SignalSync, SignalCounts
<1>2. /\ \A f \in Futures : FutAfter(a)[f] = IF f = a THEN "idle" ELSE fut[f]
      /\ \A t \in Threads : ThrAfter(a)[t] = IF t = a THEN "idle" ELSE thr[t]
      /\ FutAfter(a) \in [Futures -> {"idle", "waiting", "woken", "ready", "dropping",
                                      "late", "lateDropping", "owner"}]
      /\ ThrAfter(a) \in [Threads -> {"idle", "blocked", "signalled", "owner"}]
  BY <1>1, SignallerGives DEF FutAfter, ThrAfter
<1>3. /\ \A f \in Futures : fut'[f] = "owner" <=> FutAfter(a)[f] = "owner"
      /\ \A t \in Threads : thr'[t] = "owner" <=> ThrAfter(a)[t] = "owner"
  <2>1. CASE SignalAsync(a)
    <3>1. thr' = ThrAfter(a) /\ Head(queue) \in Futures
      BY <1>1, <2>1 DEF SignalAsync, TypeOK
    <3>2. fut' = [FutAfter(a) EXCEPT ![Head(queue)] =
                   IF FutAfter(a)[Head(queue)] = "waiting" THEN "woken"
                   ELSE FutAfter(a)[Head(queue)]]
      BY <2>1 DEF SignalAsync
    <3> QED BY <1>2, <3>1, <3>2
  <2>2. CASE SignalSync(a)
    <3>1. fut' = FutAfter(a)
      BY <2>2 DEF SignalSync
    <3>2. CASE thr' = ThrAfter(a)
      BY <3>1, <3>2
    <3>3. ASSUME NEW t \in Threads, thr[t] = "blocked",
                 thr' = [ThrAfter(a) EXCEPT ![t] = "signalled"]
          PROVE  <1>3!1 /\ <1>3!2
      <4>1. ThrAfter(a)[t] # "owner"
        BY <1>2, <3>3
      <4> QED BY <1>2, <3>1, <3>3, <4>1
    <3> QED BY <2>2, <3>2, <3>3 DEF SignalSync
  <2>3. CASE SignalCounts(a)
    BY <2>3 DEF SignalCounts
  <2> QED BY <2>1, <2>2, <2>3 DEF Signal
<1>4. Holders' = Holders \ {a}
  BY <1>2, <1>3 DEF Holders
<1>5. CASE a = Event
  <2>1. Holders' = Holders /\ events' = events + 1 /\ events \in Nat
    BY <1>1, <1>4, <1>5, SignallerGives DEF Holders, TypeOK
  <2>2. Abstract!Post
    BY <2>1 DEF Abstract!Post, Holders
  <2> QED BY <2>2 DEF AbstractStep, Abstract!Next
<1>6. CASE a # Event
  <2>1. a \in Holders /\ a \in Futures \cup Threads /\ events' = events
    BY <1>1, <1>6, SignallerGives DEF Holders, MaySignal
  <2>2. Abstract!Release(a)
    BY <1>4, <2>1 DEF Abstract!Release, Holders
  <2> QED BY <2>1, <2>2 DEF AbstractStep, Abstract!Next
<1> QED BY <1>5, <1>6

LEMMA NextMaps == IInv /\ [Next]_vars => AbstractStep
<1> SUFFICES ASSUME IInv, [Next]_vars PROVE AbstractStep
  OBVIOUS
<1> USE SemaphoreAssumption DEF IInv, TypeOK
<1>1. ASSUME NEW f \in Futures, WaitTakes(f) PROVE AbstractStep
  <2>1. /\ Holders' = Holders \cup {f} /\ f \notin Holders
        /\ counter > 0 /\ events' = events
    BY <1>1 DEF WaitTakes, Holders
  <2> QED BY <2>1, AcquireMaps
<1>2. ASSUME NEW f \in Futures,
             WaitQueues(f) \/ WaitReady(f) \/ CleanupLoad(f) \/ WaitTimesOut(f)
      PROVE  AbstractStep
  <2>1. Holders' = Holders /\ events' = events
    BY <1>2 DEF WaitQueues, WaitReady, CleanupLoad, WaitTimesOut, Holders
  <2> QED BY <2>1, SameHoldersStutters
<1>3. ASSUME NEW f \in Futures, CleanupStore(f) PROVE AbstractStep
  <2>1. CASE fut[f] = "dropping"
    <3>1. /\ Holders' = Holders \cup {f} /\ f \notin Holders
          /\ f \in Owners /\ events' = events
      BY <1>3, <2>1 DEF CleanupStore, Holders, Owners
    <3> QED BY <3>1, AcquireMaps
  <2>2. CASE fut[f] = "lateDropping"
    <3>1. Holders' = Holders /\ events' = events
      BY <1>3, <2>2 DEF CleanupStore, Holders
    <3> QED BY <3>1, SameHoldersStutters
  <2> QED BY <1>3, <2>1, <2>2 DEF CleanupStore
<1>4. ASSUME NEW t \in Threads, BlockingTakes(t) PROVE AbstractStep
  <2>1. /\ Holders' = Holders \cup {t} /\ t \notin Holders
        /\ counter > 0 /\ events' = events
    BY <1>4 DEF BlockingTakes, Holders, futVars
  <2> QED BY <2>1, AcquireMaps
<1>5. ASSUME NEW t \in Threads, BlockingWaits(t) PROVE AbstractStep
  <2>1. Holders' = Holders /\ events' = events
    BY <1>5 DEF BlockingWaits, Holders, futVars
  <2> QED BY <2>1, SameHoldersStutters
<1>6. ASSUME NEW t \in Threads, BlockingReturns(t) PROVE AbstractStep
  <2>1. /\ Holders' = Holders \cup {t} /\ t \notin Holders
        /\ t \in Owners /\ events' = events
    BY <1>6 DEF BlockingReturns, Holders, Owners, futVars
  <2> QED BY <2>1, AcquireMaps
<1>7. ASSUME SignalNodeLoad \/ SignalNodeStore \/ SemaphoreDrop \/ UNCHANGED vars
      PROVE  AbstractStep
  <2>1. Holders' = Holders /\ events' = events
    BY <1>7 DEF SignalNodeLoad, SignalNodeStore, SemaphoreDrop, vars, futVars, Holders
  <2> QED BY <2>1, SameHoldersStutters
<1> QED BY <1>1, <1>2, <1>3, <1>4, <1>5, <1>6, <1>7, SignalMaps
        DEF Next, Begin, Resume, BlockingWait

-----------------------------------------------------------------------------
(* The nodes.                                                               *)

\* A queue that has lost its head.
LEMMA TailQueue ==
  ASSUME queue \in Seq(Futures), \A i, j \in 1..Len(queue) : queue[i] = queue[j] => i = j,
         queue # << >>, queue' = Tail(queue)
  PROVE  /\ InQueue(Head(queue))
         /\ \A f : InQueue(f)' <=> InQueue(f) /\ f # Head(queue)
         /\ \A i, j \in 1..Len(queue') : queue'[i] = queue'[j] => i = j
<1>1. /\ Len(queue) \in Nat \ {0} /\ Len(queue') = Len(queue) - 1
      /\ Head(queue) = queue[1]
      /\ \A i \in 1..Len(queue') : queue'[i] = queue[i + 1]
  OBVIOUS
<1>2. InQueue(Head(queue))
  BY <1>1 DEF InQueue
<1>3. \A i, j \in 1..Len(queue') : queue'[i] = queue'[j] => i = j
  <2> SUFFICES ASSUME NEW i \in 1..Len(queue'), NEW j \in 1..Len(queue'), queue'[i] = queue'[j]
               PROVE  i = j
    OBVIOUS
  <2>1. i + 1 \in 1..Len(queue) /\ j + 1 \in 1..Len(queue) /\ queue[i + 1] = queue[j + 1]
    BY <1>1
  <2> QED BY <2>1
<1>4. ASSUME NEW f, InQueue(f)' PROVE InQueue(f) /\ f # Head(queue)
  <2>1. PICK i \in 1..Len(queue') : queue'[i] = f
    BY <1>4 DEF InQueue
  <2>2. i + 1 \in 1..Len(queue) /\ queue[i + 1] = f /\ 1 \in 1..Len(queue) /\ i + 1 # 1
    BY <1>1, <2>1
  <2> QED BY <1>1, <2>2 DEF InQueue
<1>5. ASSUME NEW f, InQueue(f), f # Head(queue) PROVE InQueue(f)'
  <2>1. PICK i \in 1..Len(queue) : queue[i] = f
    BY <1>5 DEF InQueue
  <2>2. i - 1 \in 1..Len(queue') /\ queue'[i - 1] = f
    BY <1>1, <1>5, <2>1
  <2> QED BY <2>2 DEF InQueue
<1> QED BY <1>2, <1>3, <1>4, <1>5

\* A queue with a new tail.
LEMMA AppendQueue ==
  ASSUME queue \in Seq(Futures), \A i, j \in 1..Len(queue) : queue[i] = queue[j] => i = j,
         NEW x \in Futures, ~InQueue(x), queue' = Append(queue, x)
  PROVE  /\ \A f : InQueue(f)' <=> InQueue(f) \/ f = x
         /\ \A i, j \in 1..Len(queue') : queue'[i] = queue'[j] => i = j
<1>1. /\ Len(queue) \in Nat /\ Len(queue') = Len(queue) + 1
      /\ queue'[Len(queue) + 1] = x
      /\ \A i \in 1..Len(queue) : queue'[i] = queue[i] /\ queue[i] # x
  BY DEF InQueue
<1>2. ASSUME NEW f PROVE InQueue(f)' <=> InQueue(f) \/ f = x
  BY <1>1 DEF InQueue
<1> QED BY <1>1, <1>2

LEMMA InitNodeInv == Init => NodeInv
<1> SUFFICES ASSUME Init PROVE NodeInv
  OBVIOUS
<1>1. LinkedOnce
  BY DEF Init, LinkedOnce, InQueue
<1>2. \A f \in Futures : ~Uses(f) /\ ~Held(f)
  BY SemaphoreAssumption DEF Init, Uses, Held, InQueue
<1> QED BY <1>1, <1>2, InitIInv DEF NodeInv, RefsCover, Uses

LEMMA FutureKeepsNodes ==
  ASSUME NodeInv, NEW f \in Futures, Begin(f) \/ Resume(f) \/ WaitTimesOut(f)
  PROVE  LinkedOnce' /\ RefsCover'
<1> USE DEF NodeInv
<1>0. /\ TypeOK /\ LoadedPositive /\ UNCHANGED <<signaller, snode, sval>>
      /\ f # Null
  BY SemaphoreAssumption DEF IInv, Begin, Resume, WaitTakes, WaitQueues, WaitReady,
     CleanupLoad, CleanupStore, WaitTimesOut, sigVars
<1>1. CASE WaitQueues(f)
  <2>1. /\ ~InQueue(f) /\ queue' = Append(queue, f) /\ signaller = Null
        /\ refs' = [refs EXCEPT ![f] = 2] /\ fut' = [fut EXCEPT ![f] = "waiting"]
        /\ UNCHANGED fval
    BY <1>1 DEF WaitQueues, InQueue, NodeRefs, Unlocked
  <2>2. /\ \A g : InQueue(g)' <=> InQueue(g) \/ g = f
        /\ \A i, j \in 1..Len(queue') : queue'[i] = queue'[j] => i = j
    BY <1>0, <2>1, AppendQueue DEF LinkedOnce, TypeOK
  <2>3. LinkedOnce' /\ snode = Null
    BY <1>0, <2>1, <2>2 DEF LinkedOnce
  <2>4. RefsCover'
    BY <1>0, <2>1, <2>2, <2>3 DEF RefsCover, Uses, Held, TypeOK
  <2> QED BY <2>3, <2>4
<1>2. CASE ~WaitQueues(f)
  <2>1. UNCHANGED queue
    BY <1>2 DEF Begin, Resume, WaitTakes, WaitReady, CleanupLoad, CleanupStore,
       WaitTimesOut, semVars
  <2>2. (\A g : InQueue(g)' <=> InQueue(g)) /\ (\A g : Held(g)' <=> Held(g))
    BY <1>0, <2>1 DEF InQueue, Held
  <2>3. LinkedOnce'
    BY <1>0, <2>1, <2>2 DEF LinkedOnce
  <2>4. RefsCover'
    <3>1. CASE WaitTakes(f) \/ WaitReady(f) \/ WaitTimesOut(f)
      BY <1>0, <2>2, <3>1 DEF WaitTakes, WaitReady, WaitTimesOut, RefsCover, Uses, TypeOK
    <3>2. CASE CleanupLoad(f)
      BY <1>0, <2>2, <3>2 DEF CleanupLoad, RefsCover, Uses, TypeOK
    <3>3. CASE CleanupStore(f)
      BY <1>0, <2>2, <3>3
         DEF CleanupStore, Dropped, RefsCover, Uses, TypeOK, LoadedPositive
    <3> QED BY <1>2, <3>1, <3>2, <3>3 DEF Begin, Resume
  <2> QED BY <2>3, <2>4
<1> QED BY <1>1, <1>2

LEMMA SignalKeepsNodes ==
  ASSUME NodeInv, NEW a \in Futures \cup Threads \cup {Event}, Signal(a)
  PROVE  LinkedOnce' /\ RefsCover'
<1> USE DEF NodeInv
<1>0. /\ TypeOK /\ signaller = Null /\ snode = Null /\ a # Null /\ UNCHANGED <<refs, fval>>
      /\ \A f \in Futures : f # Null
  BY SemaphoreAssumption
     DEF IInv, Signal, SignalAsync, SignalSync, SignalCounts, MaySignal, Unlocked, LinkedOnce
<1>1. \A f \in Futures : FutAfter(a)[f] = IF f = a THEN "idle" ELSE fut[f]
  BY DEF FutAfter
<1>2. CASE SignalAsync(a)
  <2> DEFINE f == Head(queue)
  <2>1. /\ queue # << >> /\ queue' = Tail(queue) /\ f \in Futures
        /\ snode' = f /\ signaller' = a /\ sval' = 0
    BY <1>0, <1>2 DEF SignalAsync, Unlinked, TypeOK
  <2>2. /\ InQueue(f)
        /\ \A g : InQueue(g)' <=> InQueue(g) /\ g # f
        /\ \A i, j \in 1..Len(queue') : queue'[i] = queue'[j] => i = j
    BY <1>0, <2>1, TailQueue DEF LinkedOnce, TypeOK
  <2>3. LinkedOnce'
    BY <1>0, <2>1, <2>2 DEF LinkedOnce, InQueue
  <2>4. \A g \in Futures : (Held(g)' <=> Held(g)) /\ g # snode
    BY <1>0, <2>1, <2>2 DEF Held
  <2>5. /\ \A g \in Futures : Uses(g)' => Uses(g)
        /\ \A g \in Futures : fut'[g] \in {"dropping", "lateDropping"} => fut[g] = fut'[g]
    <3>1. fut' = [FutAfter(a) EXCEPT ![f] = IF @ = "waiting" THEN "woken" ELSE @]
      BY <1>2 DEF SignalAsync
    <3>2. \A g \in Futures : \/ fut'[g] = FutAfter(a)[g]
                             \/ fut'[g] = "woken" /\ FutAfter(a)[g] = "waiting"
      BY <1>1, <2>1, <3>1 DEF FutAfter
    <3> QED BY <1>1, <3>2 DEF Uses
  <2> QED BY <1>0, <2>1, <2>3, <2>4, <2>5 DEF RefsCover, TypeOK
<1>3. CASE SignalSync(a) \/ SignalCounts(a)
  <2>1. /\ fut' = FutAfter(a) /\ UNCHANGED <<queue, snode, signaller, sval>>
    BY <1>3 DEF SignalSync, SignalCounts, sigVars
  <2>2. (\A g : InQueue(g)' <=> InQueue(g)) /\ (\A g : Held(g)' <=> Held(g))
    BY <2>1 DEF InQueue, Held
  <2>3. LinkedOnce'
    BY <2>1, <2>2 DEF LinkedOnce
  <2>4. RefsCover'
    BY <1>0, <1>1, <2>1, <2>2 DEF RefsCover, Uses, TypeOK
  <2> QED BY <2>3, <2>4
<1> QED BY <1>2, <1>3 DEF Signal

LEMMA SignalEndKeepsNodes ==
  ASSUME NodeInv, SignalNodeLoad \/ SignalNodeStore
  PROVE  LinkedOnce' /\ RefsCover'
<1> USE DEF NodeInv
<1>0. TypeOK /\ snode \in Futures /\ UNCHANGED <<queue, fut, fval>>
  BY DEF IInv, TypeOK, SignalNodeLoad, SignalNodeStore, semVars, futVars
<1>1. (\A g : InQueue(g)' <=> InQueue(g)) /\ (\A g : Uses(g)' <=> Uses(g))
  BY <1>0 DEF InQueue, Uses
<1>2. CASE SignalNodeLoad
  <2>1. /\ UNCHANGED <<snode, signaller, refs>> /\ sval' = refs[snode] /\ refs[snode] > 0
        /\ \A g : Held(g)' <=> Held(g)
    BY <1>1, <1>2 DEF SignalNodeLoad, futVars, Held
  <2>2. LinkedOnce'
    BY <1>0, <1>1, <2>1 DEF LinkedOnce
  <2>3. RefsCover'
    BY <1>0, <1>1, <2>1 DEF RefsCover, Held
  <2> QED BY <2>2, <2>3
<1>3. CASE SignalNodeStore
  <2>1. /\ snode' = Null /\ sval' = 0 /\ refs' = [refs EXCEPT ![snode] = sval - 1]
        /\ sval \in 1..2
    BY <1>0, <1>3 DEF SignalNodeStore, Dropped, TypeOK
  <2>2. LinkedOnce'
    BY <1>0, <2>1 DEF LinkedOnce
  <2>3. /\ \A g \in Futures : Held(g)' <=> Held(g) /\ g # snode
        /\ \A g \in Futures : g # Null
    BY <1>0, <1>1, <2>1, SemaphoreAssumption DEF Held, LinkedOnce
  <2>4. RefsCover'
    BY <1>0, <1>1, <2>1, <2>3 DEF RefsCover, TypeOK
  <2> QED BY <2>2, <2>4
<1> QED BY <1>2, <1>3

LEMMA OthersKeepNodes ==
  ASSUME NodeInv,
         (\E t \in Threads : BlockingWait(t) \/ BlockingReturns(t)) \/ UNCHANGED vars
  PROVE  LinkedOnce' /\ RefsCover'
<1>1. UNCHANGED <<queue, refs, fut, fval, signaller, snode, sval>>
  BY DEF BlockingWait, BlockingTakes, BlockingWaits, BlockingReturns, vars, semVars,
     futVars, sigVars
<1> QED BY <1>1 DEF NodeInv, LinkedOnce, RefsCover, InQueue, Uses, Held

LEMMA DropKeepsNodes ==
  ASSUME NodeInv, SemaphoreDrop
  PROVE  LinkedOnce' /\ RefsCover'
<1> USE DEF NodeInv
<1>1. /\ signaller = Null /\ snode = Null /\ queue' = << >>
      /\ UNCHANGED <<fut, fval, signaller, snode, sval>>
      /\ refs' = [f \in Futures |-> IF InQueue(f) THEN refs[f] - 1 ELSE refs[f]]
      /\ TypeOK
  BY DEF SemaphoreDrop, Unlocked, LinkedOnce, sigVars, InQueue, Dropped, IInv
<1>2. \A f : ~InQueue(f)'
  BY <1>1 DEF InQueue
<1>3. \A f \in Futures : ~Held(f)' /\ (Uses(f)' <=> Uses(f))
  BY <1>1, <1>2, SemaphoreAssumption DEF Held, Uses
<1>4. LinkedOnce'
  BY <1>1 DEF LinkedOnce
<1>5. \A f \in Futures : Uses(f) => refs'[f] >= 1
  BY <1>1 DEF RefsCover, Held, TypeOK
<1> QED BY <1>1, <1>3, <1>4, <1>5, SemaphoreAssumption DEF RefsCover

LEMMA NextKeepsNodes == NodeInv /\ [Next]_vars => NodeInv'
  BY NextKeepsIInv, FutureKeepsNodes, SignalKeepsNodes, SignalEndKeepsNodes,
     DropKeepsNodes, OthersKeepNodes DEF Next, NodeInv

LEMMA SpecNodeInv == Spec => []NodeInv
  BY InitNodeInv, NextKeepsNodes, PTL DEF Spec

LEMMA SpecIInv == Spec => []IInv
<1>1. NodeInv => IInv
  BY DEF NodeInv
<1> QED BY <1>1, SpecNodeInv, PTL

-----------------------------------------------------------------------------
(* The queue, when nobody gives up waiting (Timed = FALSE).                 *)

Waiting == {f \in Futures : fut[f] = "waiting"}

\* Whoever waits has its node in the queue, and nobody else.
QueueInv ==
  /\ \A f \in Futures : fut[f] \notin {"late", "lateDropping"}
  /\ \A f \in Futures : InQueue(f) <=> fut[f] = "waiting"
  /\ Len(queue) = Cardinality(Waiting)

LEMMA WaitingFinite == IsFiniteSet(Waiting) /\ Cardinality(Waiting) \in Nat
  BY SemaphoreAssumption, SubsetCounts DEF Waiting

LEMMA InitQueueInv == Init => QueueInv
<1> SUFFICES ASSUME Init PROVE QueueInv
  OBVIOUS
<1>1. Waiting = {} /\ Len(queue) = 0
  BY DEF Init, Waiting
<1> QED BY <1>1, FS_EmptySet DEF Init, QueueInv, InQueue

LEMMA FutureKeepsQueue ==
  ASSUME ~Timed, NodeInv, QueueInv, NEW f \in Futures, Begin(f) \/ Resume(f) \/ WaitTimesOut(f)
  PROVE  QueueInv'
<1>0. TypeOK /\ ~WaitTimesOut(f)
  BY DEF NodeInv, IInv, WaitTimesOut
<1>1. CASE WaitQueues(f)
  <2>1. /\ ~InQueue(f) /\ queue' = Append(queue, f) /\ fut' = [fut EXCEPT ![f] = "waiting"]
        /\ Len(queue') = Len(queue) + 1 /\ f \notin Waiting
    BY <1>0, <1>1 DEF WaitQueues, InQueue, TypeOK, Waiting
  <2>2. \A g : InQueue(g)' <=> InQueue(g) \/ g = f
    BY <1>0, <2>1, AppendQueue DEF NodeInv, LinkedOnce, TypeOK
  <2>3. Waiting' = Waiting \cup {f}
    BY <1>0, <2>1 DEF Waiting, TypeOK
  <2>4. Cardinality(Waiting') = Cardinality(Waiting) + 1
    BY <2>1, <2>3, WaitingFinite, FS_AddElement
  <2> QED BY <1>0, <2>1, <2>2, <2>4 DEF QueueInv, TypeOK
<1>2. CASE ~WaitQueues(f)
  <2>1. /\ UNCHANGED queue
        /\ \A g \in Futures : (fut'[g] = "waiting" <=> fut[g] = "waiting")
                              /\ fut'[g] \notin {"late", "lateDropping"}
    BY <1>0, <1>2 DEF Begin, Resume, WaitTakes, WaitReady, CleanupLoad, CleanupStore,
       semVars, QueueInv, TypeOK
  <2>2. Waiting' = Waiting
    BY <2>1 DEF Waiting
  <2> QED BY <2>1, <2>2 DEF QueueInv, InQueue
<1> QED BY <1>1, <1>2

LEMMA SignalKeepsQueue ==
  ASSUME NodeInv, QueueInv, NEW a \in Futures \cup Threads \cup {Event}, Signal(a)
  PROVE  QueueInv'
<1>0. TypeOK /\ MaySignal(a)
  BY DEF NodeInv, IInv, Signal, SignalAsync, SignalSync, SignalCounts
<1>1. /\ \A f \in Futures : FutAfter(a)[f] = IF f = a THEN "idle" ELSE fut[f]
      /\ \A f \in Futures : f = a => fut[f] = "owner"
  BY <1>0, SemaphoreAssumption DEF FutAfter, MaySignal
<1>2. CASE SignalAsync(a)
  <2> DEFINE f == Head(queue)
  <2>1. /\ queue # << >> /\ queue' = Tail(queue) /\ f \in Futures
        /\ Len(queue') = Len(queue) - 1
        /\ fut' = [FutAfter(a) EXCEPT ![f] = IF @ = "waiting" THEN "woken" ELSE @]
    BY <1>0, <1>2 DEF SignalAsync, Unlinked, TypeOK
  <2>2. /\ InQueue(f)
        /\ \A g : InQueue(g)' <=> InQueue(g) /\ g # f
    BY <1>0, <2>1, TailQueue DEF NodeInv, LinkedOnce, TypeOK
  <2>3. \A g \in Futures : fut'[g] = IF g = f THEN "woken" ELSE FutAfter(a)[g]
    BY <1>0, <1>1, <2>1, <2>2 DEF QueueInv, FutAfter
  <2>4. Waiting' = Waiting \ {f} /\ f \in Waiting
    BY <1>1, <2>1, <2>2, <2>3 DEF Waiting, QueueInv
  <2>5. Cardinality(Waiting') = Cardinality(Waiting) - 1
    BY <2>4, WaitingFinite, FS_RemoveElement
  <2> QED BY <1>0, <1>1, <2>1, <2>2, <2>3, <2>5 DEF QueueInv, TypeOK
<1>3. CASE SignalSync(a) \/ SignalCounts(a)
  <2>1. fut' = FutAfter(a) /\ UNCHANGED queue
    BY <1>3 DEF SignalSync, SignalCounts
  <2>2. Waiting' = Waiting
    BY <1>1, <2>1 DEF Waiting
  <2> QED BY <1>1, <2>1, <2>2 DEF QueueInv, InQueue
<1> QED BY <1>2, <1>3 DEF Signal

LEMMA OthersKeepQueue ==
  ASSUME QueueInv,
         \/ \E t \in Threads : BlockingWait(t) \/ BlockingReturns(t)
         \/ SignalNodeLoad \/ SignalNodeStore \/ UNCHANGED vars
  PROVE  QueueInv'
<1>1. UNCHANGED <<queue, fut>>
  BY DEF BlockingWait, BlockingTakes, BlockingWaits, BlockingReturns, vars, semVars,
     futVars, SignalNodeLoad, SignalNodeStore
<1> QED BY <1>1 DEF QueueInv, InQueue, Waiting

\* The drop finds nobody waiting.
LEMMA DropKeepsQueue ==
  ASSUME ~Timed, QueueInv, SemaphoreDrop
  PROVE  QueueInv'
<1>1. UNCHANGED <<queue, fut>>
  BY DEF SemaphoreDrop
<1> QED BY <1>1 DEF QueueInv, InQueue, Waiting

LEMMA NextKeepsQueue == ~Timed /\ NodeInv /\ QueueInv /\ [Next]_vars => QueueInv'
  BY FutureKeepsQueue, SignalKeepsQueue, DropKeepsQueue, OthersKeepQueue DEF Next

LEMMA SpecQueueInv == ASSUME ~Timed PROVE Spec => []QueueInv
  BY InitQueueInv, NextKeepsQueue, SpecNodeInv, PTL DEF Spec

-----------------------------------------------------------------------------
(* What follows.                                                            *)

\* Every variable keeps its type: blocking_wake_wait never exceeds the threads
\* there are, and no count of a node or of permits wraps below zero.
THEOREM TypeCorrect == Spec => []TypeOK
<1>1. IInv => TypeOK
  BY DEF IInv
<1> QED BY <1>1, SpecIInv, PTL

\* A permit is in the counter only while nobody waits (taskio_semaphore_wait(),
\* taskio_semaphore_blocking_wait() and taskio_semaphore_signal() together).
THEOREM NoPermitIdles == Spec => []NoIdlePermit
<1>1. IInv => NoIdlePermit
  BY DEF IInv
<1> QED BY <1>1, SpecIInv, PTL

\* The queues, handovers, timeouts and half-dropped nodes of semaphore.c
\* implement the counting semaphore: never more holders than permits issued.
THEOREM Implements == Spec => IsCountingSemaphore
<1>1. Init => Abstract!Init
  <2> SUFFICES ASSUME Init PROVE Abstract!Init
    OBVIOUS
  <2>1. Holders = {} /\ Permits + events = Permits
    BY SemaphoreAssumption DEF Init, Holders
  <2> QED BY <2>1 DEF Abstract!Init, Holders
<1>2. IInv /\ [Next]_vars => [Abstract!Next]_<<Permits + events, Holders>>
  BY NextMaps DEF AbstractStep
<1> QED BY <1>1, <1>2, SpecIInv, PTL DEF Spec, IsCountingSemaphore, Abstract!Spec, Holders

\* The future drops its reference to a node without the lock, the signaller
\* its own with it, each in a load and a store; whichever way they interleave
\* the node is not freed before both have stored.
THEOREM NodesAreKept == Spec => []NodeNotFreedInUse
<1>1. NodeInv => NodeNotFreedInUse
  BY DEF NodeInv, IInv, TypeOK, RefsCover, NodeNotFreedInUse, InQueue, Uses, Held
<1> QED BY <1>1, SpecNodeInv, PTL
=============================================================================
