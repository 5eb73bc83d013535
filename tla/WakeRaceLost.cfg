\* A thread wakes a task while the loop goes to sleep.
CONSTANTS
  Tasks = {a, b}
  Threads = {w}
  Loop = Loop
  Null = Null
SPECIFICATION FairSpec
PROPERTY WokenIsPolled
CHECK_DEADLOCK FALSE
