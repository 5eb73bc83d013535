\* Two threads and the loop wake two children, one of them as often as they like.
CONSTANTS
  x = x
  y = y
  Children <- TwoKids
  Nested = {y}
  Threads = {v, w}
  Loop = Loop
  Null = Null
SPECIFICATION Spec
SYMMETRY Interchangeable
INVARIANTS  ListIsServed OnlyTailRaces
CHECK_DEADLOCK FALSE
