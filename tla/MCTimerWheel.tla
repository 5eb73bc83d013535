----------------------------- MODULE MCTimerWheel -----------------------------
(* Model-checking instance of TimerWheel: three wheels of 2, 3 and 3 buckets, *)
(* so that a round of the middle one is 6 ticks and of the last one 18.       *)
EXTENDS TimerWheel

SmallWheels == <<2, 3, 3>>
=============================================================================
