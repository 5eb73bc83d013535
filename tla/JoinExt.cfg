\* A join or select of an async function, a leaf and a function that runs off its end.
CONSTANTS
  fn = fn
  inner = inner
  sleep = sleep
  wait = wait
  lone = lone
  Futures = {fn, inner, sleep, wait, lone}
  Null = Null
  Body <- SomeFunctions
  Awaits <- SomeAwaits
  SizeMax = 6
  Children <- ThreeChildren
  Modes = {"join", "select", "biased"}
  Drops = TRUE
SPECIFICATION FairSpec
INVARIANTS TypeOK NotReadyEarly ListsHoldDue FreedCleanly
PROPERTIES IsGather IsCoroutine WokenChildIsPolled
CHECK_DEADLOCK FALSE
