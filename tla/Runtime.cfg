\* Clients that await one thing at a time and never abort.
CONSTANTS
  Main = main
  Tasks = {main, a, b}
  Null = Null
  MaxHandles = 2
  MaxWaiters = 2
  Features = {}
SPECIFICATION FairSpec
INVARIANTS TypeOK NoDanglingTask RefCountExact QueueHoldsScheduled
PROPERTIES ScheduledIsPolled JoinerResumes
CHECK_DEADLOCK FALSE
