\* An abort that misses its timer disarms the timerfd under another timer.
CONSTANTS
  Timers = {t1, t2}
  Sizes <- SmallWheels
  Delays = {1, 2, 3, 5, 9}
  MaxTime = 11
  MaxExpirations = 1
  LenModulus = 8
  Aborts = TRUE
SPECIFICATION FairSpec
PROPERTY TimerEventuallyFires
CHECK_DEADLOCK FALSE
