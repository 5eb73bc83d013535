\* A thread and the loop wake three tasks.
CONSTANTS
  Tasks = {a, b, c}
  Threads = {w}
  Loop = Loop
  Null = Null
SPECIFICATION Spec
SYMMETRY Interchangeable
INVARIANTS TypeOK DoorbellNotStuck NoSpuriousPoll QuietWakeIsServed
CHECK_DEADLOCK FALSE
