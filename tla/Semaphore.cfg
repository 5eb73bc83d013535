\* Futures that time out, threads, and events: permits may get lost, never made up.
CONSTANTS
  Futures = {f1, f2, f3}
  Threads = {t1, t2, t3}
  Event = Event
  Null = Null
  Permits = 2
  MaxEvents = 2
  Timed = TRUE
SPECIFICATION Spec
SYMMETRY Interchangeable
INVARIANTS TypeOK NoIdlePermit NodeNotFreedInUse
PROPERTY IsCountingSemaphore
CHECK_DEADLOCK FALSE
