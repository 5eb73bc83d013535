\* The handles of one of two tasks are cloned.
CONSTANTS
  Tasks = {a, b}
  Workers = {w1, w2}
  Null = Null
  Loop = Loop
  Cloned = {b}
  MaxHandles = 2
  MaxJoins = 1
SPECIFICATION FairSpec
INVARIANTS TypeOK PopFindsTask OneOwner NoEarlyFree
PROPERTIES SpawnedIsServed EarlyJoinerIsWoken
CHECK_DEADLOCK FALSE
