\* Futures and threads, with try_lock.
CONSTANTS
  Futures = {f1, f2}
  Threads = {t1, t2}
  Event = Event
  Null = Null
  Permits = 1
  MaxEvents = 0
  Timed = FALSE
SPECIFICATION MutexFairSpec
INVARIANTS MutualExclusion PermitsConserved
PROPERTY FutureGetsPermit
CHECK_DEADLOCK FALSE
