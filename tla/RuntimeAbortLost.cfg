\* A suspended task is aborted.
CONSTANTS
  Main = main
  Tasks = {main, a}
  Null = Null
  MaxHandles = 1
  MaxWaiters = 1
  Features = {"abort"}
SPECIFICATION Spec
SYMMETRY Spawned
PROPERTY AbortTakesEffect
CHECK_DEADLOCK FALSE
