-------------------------------- MODULE Mutex --------------------------------
(***************************************************************************)
(* src/sync/mutex.c: a mutex is a semaphore of one permit.  Locking in a   *)
(* future, with or without a timeout, from a thread, and unlocking are the *)
(* calls of Semaphore; taskio_mutex_try_lock() is two of them.             *)
(***************************************************************************)
EXTENDS Semaphore

ASSUME MutexAssumption == Permits = 1 /\ MaxEvents = 0

VARIABLE trying  \* threads between the two calls of taskio_mutex_try_lock(),
                 \* or in the second one

mutexVars == <<vars, trying>>

\* taskio_semaphore_getvalue() is 0: the call returns false.  It is not: the
\* thread goes on to taskio_semaphore_blocking_wait().
TryLock(t) ==
  /\ Unlocked
  /\ thr[t] = "idle" /\ t \notin trying
  /\ counter > 0
  /\ trying' = trying \cup {t}
  /\ UNCHANGED vars

\* taskio_mutex_lock() and taskio_mutex_timedlock() await the semaphore.
FutureLock(f) == (Begin(f) \/ Resume(f) \/ WaitTimesOut(f)) /\ UNCHANGED trying

\* taskio_mutex_blocking_lock(), or the second call of try_lock.
Lock(t) == BlockingWait(t) /\ UNCHANGED trying

\* The lock is there: the call returns.
TryLockReturns(t) ==
  /\ t \in trying
  /\ thr[t] = "owner"
  /\ trying' = trying \ {t}
  /\ UNCHANGED vars

\* taskio_mutex_unlock(), by a client that has returned from its call.
Unlock(a) == a \notin trying /\ Signal(a) /\ UNCHANGED trying

\* taskio_mutex_drop(), while nobody is inside a call.
MutexDrop == trying = {} /\ SemaphoreDrop /\ UNCHANGED trying

MutexInit == Init /\ trying = {}

MutexNext ==
  \/ \E f \in Futures : FutureLock(f)
  \/ \E t \in Threads : \/ TryLock(t) \/ Lock(t) \/ TryLockReturns(t)
                        \/ BlockingReturns(t) /\ UNCHANGED trying
  \/ \E a \in Futures \cup Threads : Unlock(a)
  \/ (SignalNodeLoad \/ SignalNodeStore) /\ UNCHANGED trying
  \/ MutexDrop

MutexSpec == MutexInit /\ [][MutexNext]_mutexVars

\* Threads run, calls return, a poll that has begun ends, and whoever owns the
\* mutex unlocks it: strongly fair, for it may find the lock taken.  Nothing is
\* assumed of the executor: that a woken future is polled, WakeRace refutes.
MutexFairSpec ==
  /\ MutexSpec
  /\ \A f \in Futures :
       /\ WF_mutexVars((CleanupLoad(f) \/ CleanupStore(f)) /\ UNCHANGED trying)
       /\ SF_mutexVars(Unlock(f))
  /\ \A t \in Threads : /\ SF_mutexVars(BlockingReturns(t) /\ UNCHANGED trying)
                         /\ SF_mutexVars(Unlock(t)) /\ WF_mutexVars(TryLockReturns(t))
  /\ WF_mutexVars((SignalNodeLoad \/ SignalNodeStore) /\ UNCHANGED trying)

\* Never two in the critical section, whichever way each of them got in.
MutualExclusion ==
  Cardinality({f \in Futures : fut[f] = "owner"} \cup
              {t \in Threads : thr[t] = "owner"}) <= 1
=============================================================================
