----------------------------- MODULE MutexProofs -----------------------------
(***************************************************************************)
(* What Mutex inherits from the semaphore it is made of, for any number of *)
(* futures and threads, and that its one permit is not lost while no wait  *)
(* times out.                                                              *)
(***************************************************************************)
EXTENDS Mutex, SemaphoreProofs

MutexInv == NodeInv /\ trying \subseteq Threads

LEMMA InitMutexInv == MutexInit => MutexInv
  BY InitNodeInv DEF MutexInit, MutexInv

\* Every step of a mutex is a step of its semaphore, or one that only says
\* where in try_lock a thread is.
LEMMA MutexStepIsSemaphoreStep ==
  ASSUME [MutexNext]_mutexVars
  PROVE  [Next]_vars
<1>1. ASSUME NEW f \in Futures, FutureLock(f) PROVE Next
  BY <1>1 DEF FutureLock, Next
<1>2. ASSUME NEW t \in Threads, TryLock(t) \/ TryLockReturns(t) PROVE UNCHANGED vars
  BY <1>2 DEF TryLock, TryLockReturns
<1>3. ASSUME NEW t \in Threads, Lock(t) \/ BlockingReturns(t) PROVE Next
  BY <1>3 DEF Lock, Next
<1>4. ASSUME NEW a \in Futures \cup Threads, Unlock(a) PROVE Next
  BY <1>4 DEF Unlock, Next
<1>5. SignalNodeLoad \/ SignalNodeStore \/ MutexDrop => Next
  BY DEF MutexDrop, Next
<1>6. UNCHANGED mutexVars => UNCHANGED vars
  BY DEF mutexVars
<1> QED BY <1>1, <1>2, <1>3, <1>4, <1>5, <1>6 DEF MutexNext

LEMMA TryingKept ==
  ASSUME trying \subseteq Threads, [MutexNext]_mutexVars
  PROVE  trying' \subseteq Threads
BY DEF MutexNext, mutexVars, FutureLock, TryLock, Lock, TryLockReturns, Unlock, MutexDrop

LEMMA MutexNextKeepsInv == MutexInv /\ [MutexNext]_mutexVars => MutexInv'
  BY MutexStepIsSemaphoreStep, NextKeepsNodes, TryingKept DEF MutexInv

LEMMA MutexSpecInv == MutexSpec => []MutexInv
  BY InitMutexInv, MutexNextKeepsInv, PTL DEF MutexSpec

\* Whichever way they came in (taskio_mutex_lock(), timedlock(),
\* blocking_lock(), try_lock()), never two clients own the mutex.
THEOREM MutexExcludes == MutexSpec => []MutualExclusion
<1>1. MutexInv => MutualExclusion
  <2> SUFFICES ASSUME MutexInv PROVE Cardinality(Holders) <= 1
    BY DEF MutualExclusion, Holders
  <2>1. counter \in Nat /\ events = 0 /\ Permits = 1
    BY MutexAssumption DEF MutexInv, NodeInv, IInv, TypeOK
  <2>2. counter + Cardinality(Owners) <= 1
    BY <2>1 DEF MutexInv, NodeInv, IInv, NeverTooMany
  <2> QED BY <2>1, <2>2, HoldersCount, SetsFinite
<1> QED BY <1>1, MutexSpecInv, PTL

\* A mutex is a counting semaphore of one permit.
THEOREM MutexImplements == MutexSpec => IsCountingSemaphore
<1>1. MutexSpec => Spec
  BY MutexStepIsSemaphoreStep, PTL DEF MutexSpec, Spec, MutexInit
<1> QED BY <1>1, Implements, PTL

-----------------------------------------------------------------------------
(* The permit, when nobody gives up waiting (Timed = FALSE).                *)

LEMMA LockKeepsPermit ==
  ASSUME IInv, QueueInv, PermitsConserved,
         \/ \E f \in Futures : Begin(f) \/ Resume(f)
         \/ \E t \in Threads : BlockingWait(t) \/ BlockingReturns(t)
  PROVE  PermitsConserved'
<1> USE DEF IInv, TypeOK
<1>0. counter \in Nat /\ events \in Nat /\ Permits \in Nat /\ UNCHANGED events
  BY SemaphoreAssumption DEF Begin, Resume, WaitTakes, WaitQueues, WaitReady, CleanupLoad,
     CleanupStore, BlockingWait, BlockingTakes, BlockingWaits, BlockingReturns
<1>1. ASSUME NEW c, c \notin Owners, Owners' = Owners \cup {c}, counter' = counter - 1
      PROVE  PermitsConserved'
  <2>1. Cardinality(Owners') = Cardinality(Owners) + 1
    BY <1>1, SetsFinite, FS_AddElement
  <2> QED BY <1>0, <1>1, <2>1, SetsFinite DEF PermitsConserved
<1>2. ASSUME NEW f \in Futures, WaitQueues(f) \/ Resume(f) PROVE PermitsConserved'
  <2>1. Owners' = Owners /\ UNCHANGED counter
    BY <1>2 DEF WaitQueues, Resume, WaitReady, CleanupLoad, CleanupStore, Owners,
       QueueInv, semVars
  <2> QED BY <1>0, <2>1 DEF PermitsConserved
<1>3. ASSUME NEW t \in Threads, BlockingWaits(t) \/ BlockingReturns(t)
      PROVE  PermitsConserved'
  <2>1. Owners' = Owners /\ UNCHANGED counter
    BY <1>3 DEF BlockingWaits, BlockingReturns, Owners, futVars
  <2> QED BY <1>0, <2>1 DEF PermitsConserved
<1>4. ASSUME NEW f \in Futures, Begin(f) \/ Resume(f) PROVE PermitsConserved'
  <2>1. ASSUME WaitTakes(f) PROVE PermitsConserved'
    <3>1. Owners' = Owners \cup {f} /\ f \notin Owners /\ counter' = counter - 1
      BY <2>1, SemaphoreAssumption DEF WaitTakes, Owners
    <3> QED BY <1>1, <3>1
  <2> QED BY <1>2, <1>4, <2>1 DEF Begin
<1>5. ASSUME NEW t \in Threads, BlockingWait(t) \/ BlockingReturns(t) PROVE PermitsConserved'
  <2>1. ASSUME BlockingTakes(t) PROVE PermitsConserved'
    <3>1. Owners' = Owners \cup {t} /\ t \notin Owners /\ counter' = counter - 1
      BY <2>1, SemaphoreAssumption DEF BlockingTakes, Owners, futVars
    <3> QED BY <1>1, <3>1
  <2> QED BY <1>3, <1>5, <2>1 DEF BlockingWait
<1> QED BY <1>4, <1>5

\* A signal that finds blocking_wake_wait above 0 finds a thread in cnd_wait():
\* one that has been signalled would own the only permit beside the signaller.
LEMMA SomeoneIsBlocked ==
  ASSUME IInv, PermitsConserved, NEW a \in Futures \cup Threads, MaySignal(a),
         blocking_wake_wait > 0
  PROVE  \E t \in Threads : thr[t] = "blocked"
<1> SUFFICES ASSUME \A t \in Threads : thr[t] # "blocked" PROVE FALSE
  OBVIOUS
<1>1. counter \in Nat /\ Permits + events = 1 /\ Cardinality(Owners) <= 1
  BY MutexAssumption, SetsFinite DEF IInv, TypeOK, PermitsConserved
<1>2. PICK t \in Inside : TRUE
  <2>1. Cardinality(Inside) # 0
    BY SetsFinite DEF IInv, InsideCounted
  <2> QED BY <2>1, SetsFinite, FS_EmptySet
<1>3. t \in Threads /\ thr[t] = "signalled" /\ t # a /\ {a, t} \subseteq Owners
  BY <1>2, SemaphoreAssumption DEF Inside, Owners, MaySignal
<1>4. Owners \ {a} = {}
  <2>1. IsFiniteSet(Owners \ {a}) /\ Cardinality(Owners \ {a}) = Cardinality(Owners) - 1
        /\ Cardinality(Owners \ {a}) \in Nat
    BY <1>3, SetsFinite, FS_RemoveElement, FS_CardinalityType
  <2> QED BY <1>1, <2>1, SetsFinite, FS_EmptySet
<1> QED BY <1>3, <1>4

LEMMA UnlockKeepsPermit ==
  ASSUME IInv, QueueInv, PermitsConserved, NEW a \in Futures \cup Threads, Signal(a)
  PROVE  PermitsConserved'
<1>0. /\ MaySignal(a) /\ TypeOK /\ a # Event
      /\ counter \in Nat /\ events \in Nat /\ Permits \in Nat
  BY SemaphoreAssumption DEF Signal, SignalAsync, SignalSync, SignalCounts, IInv, TypeOK
<1>1. a \in Owners /\ EventsAfter(a) = events
  BY <1>0, SignallerGives
<1>2. /\ Cardinality(Owners \ {a}) = Cardinality(Owners) - 1
      /\ IsFiniteSet(Owners \ {a})
  BY <1>1, SetsFinite, FS_RemoveElement
<1>3. /\ \A f \in Futures : FutAfter(a)[f] = IF f = a THEN "idle" ELSE fut[f]
      /\ \A t \in Threads : ThrAfter(a)[t] = IF t = a THEN "idle" ELSE thr[t]
      /\ DOMAIN FutAfter(a) = Futures /\ DOMAIN ThrAfter(a) = Threads
  BY DEF FutAfter, ThrAfter
<1>4. ASSUME NEW x, x \notin Owners, Owners' = (Owners \ {a}) \cup {x},
             counter' = counter, events' = events
      PROVE  PermitsConserved'
  <2>1. Cardinality(Owners') = Cardinality(Owners)
    <3>1. Cardinality(Owners') = Cardinality(Owners \ {a}) + 1
      BY <1>2, <1>4, FS_AddElement
    <3> QED BY <1>2, <3>1, SetsFinite
  <2> QED BY <1>4, <2>1 DEF PermitsConserved
<1>5. CASE SignalAsync(a)
  <2> DEFINE f == Head(queue)
  <2>1. /\ f \in Futures /\ InQueue(f) /\ thr' = ThrAfter(a)
        /\ events' = events /\ counter' = counter
        /\ fut' = [FutAfter(a) EXCEPT ![f] = IF @ = "waiting" THEN "woken" ELSE @]
    BY <1>0, <1>1, <1>5 DEF SignalAsync, NotCounted, TypeOK, InQueue
  <2>2. fut[f] = "waiting" /\ f \notin Owners /\ f # a
    BY <1>0, <2>1, SemaphoreAssumption DEF QueueInv, Owners, MaySignal
  <2>3. \A g \in Futures : fut'[g] = IF g = f THEN "woken" ELSE FutAfter(a)[g]
    BY <1>3, <2>1, <2>2
  <2>4. Owners' = (Owners \ {a}) \cup {f}
    BY <1>3, <2>1, <2>3, SemaphoreAssumption DEF Owners
  <2> QED BY <1>4, <2>1, <2>2, <2>4
<1>6. CASE SignalSync(a)
  <2>1. PICK t \in Threads : thr[t] = "blocked" /\ thr' = [ThrAfter(a) EXCEPT ![t] = "signalled"]
    <3>1. {t \in Threads : thr[t] = "blocked"} # {}
      BY <1>0, <1>6, SomeoneIsBlocked DEF SignalSync
    <3> QED BY <1>6, <3>1 DEF SignalSync
  <2>2. fut' = FutAfter(a) /\ events' = events /\ counter' = counter
    BY <1>1, <1>6 DEF SignalSync, NotCounted
  <2>3. t \notin Owners /\ t # a
    BY <1>0, <2>1, SemaphoreAssumption DEF Owners, MaySignal
  <2>4. \A u \in Threads : thr'[u] = IF u = t THEN "signalled" ELSE ThrAfter(a)[u]
    BY <1>3, <2>1
  <2>5. Owners' = (Owners \ {a}) \cup {t}
    BY <1>3, <2>2, <2>4, SemaphoreAssumption DEF Owners
  <2> QED BY <1>4, <2>2, <2>3, <2>5
<1>7. CASE SignalCounts(a)
  <2>1. /\ fut' = FutAfter(a) /\ thr' = ThrAfter(a) /\ events' = events
        /\ counter' = counter + 1
    BY <1>1, <1>7 DEF SignalCounts
  <2>2. Owners' = Owners \ {a}
    BY <1>3, <2>1, SemaphoreAssumption DEF Owners
  <2> QED BY <1>0, <1>2, <2>1, <2>2, SetsFinite DEF PermitsConserved
<1> QED BY <1>5, <1>6, <1>7 DEF Signal

LEMMA NextKeepsPermit ==
  ASSUME ~Timed, MutexInv, QueueInv, PermitsConserved, [MutexNext]_mutexVars
  PROVE  PermitsConserved'
<1>1. ASSUME UNCHANGED vars PROVE PermitsConserved'
  BY <1>1 DEF PermitsConserved, Owners, vars, semVars, futVars
<1>2. ASSUME SignalNodeLoad \/ SignalNodeStore \/ MutexDrop PROVE PermitsConserved'
  BY <1>2 DEF PermitsConserved, Owners, SignalNodeLoad, SignalNodeStore, MutexDrop,
     SemaphoreDrop, semVars, futVars
<1>3. ASSUME NEW f \in Futures, FutureLock(f) PROVE PermitsConserved'
  BY <1>3, LockKeepsPermit DEF FutureLock, WaitTimesOut, MutexInv, NodeInv
<1>4. ASSUME NEW t \in Threads, Lock(t) \/ BlockingReturns(t) PROVE PermitsConserved'
  BY <1>4, LockKeepsPermit DEF Lock, MutexInv, NodeInv
<1>5. ASSUME NEW a \in Futures \cup Threads, Unlock(a) PROVE PermitsConserved'
  BY <1>5, UnlockKeepsPermit DEF Unlock, MutexInv, NodeInv
<1>6. (\E t \in Threads : TryLock(t) \/ TryLockReturns(t)) \/ UNCHANGED mutexVars
        => UNCHANGED vars
  BY DEF TryLock, TryLockReturns, mutexVars
<1> QED BY <1>1, <1>2, <1>3, <1>4, <1>5, <1>6 DEF MutexNext

\* While no wait times out the permit is never lost: it is in the counter, with
\* the owner, or on its way to one that a signal has woken.
THEOREM PermitIsKept == ASSUME ~Timed PROVE MutexSpec => []PermitsConserved
<1>1. MutexInit => PermitsConserved
  <2> SUFFICES ASSUME MutexInit PROVE PermitsConserved
    OBVIOUS
  <2>1. Owners = {} /\ counter = Permits /\ events = 0 /\ Permits = 1
    BY MutexAssumption DEF MutexInit, Init, Owners
  <2> QED BY <2>1, FS_EmptySet DEF PermitsConserved
<1>2. MutexSpec => []QueueInv
  <2>1. MutexSpec => Spec
    BY MutexStepIsSemaphoreStep, PTL DEF MutexSpec, Spec, MutexInit
  <2> QED BY <2>1, SpecQueueInv, PTL
<1>3. MutexInv /\ QueueInv /\ PermitsConserved /\ [MutexNext]_mutexVars => PermitsConserved'
  BY NextKeepsPermit
<1> QED BY <1>1, <1>2, <1>3, MutexSpecInv, PTL DEF MutexSpec
=============================================================================
