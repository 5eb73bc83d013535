\* Two sleeps that may be aborted; delays on both sides of each wheel's round.
CONSTANTS
  Timers = {t1, t2}
  Sizes <- SmallWheels
  Delays = {0, 1, 2, 3, 5, 6, 7, 12}
  MaxTime = 17
  MaxExpirations = 2
  LenModulus = 8
  Aborts = TRUE
SPECIFICATION FairSpec
INVARIANTS TypeOK FiresAtExpiry SleepErrorBounded ArmedWhileHeld ReadDoesNotBlock
PROPERTY UnabortedFires
CHECK_DEADLOCK FALSE
