\* Clients that also abort handles and await several things at once.
CONSTANTS
  Main = main
  Tasks = {main, a, b}
  Null = Null
  MaxHandles = 1
  MaxWaiters = 1
  Features = {"abort", "select"}
SPECIFICATION Spec
SYMMETRY Spawned
INVARIANT WakeupNotLost
CHECK_DEADLOCK FALSE
