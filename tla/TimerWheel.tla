----------------------------- MODULE TimerWheel -----------------------------
(***************************************************************************)
(* The hierarchical timing wheel: src/wheel.c, the timer functions of      *)
(* src/platform/linux/runtime_ext.c and runtime.c, and the handling of the *)
(* timerfd in worker_run().  A wheel is a ring of buckets; when a wheel    *)
(* comes round, the next wheel ticks and hands its timers down.            *)
(*                                                                         *)
(* The loop thread is the only one that touches the wheels and a timer's   *)
(* handler only queues a task, so futures add and abort timers between     *)
(* ticks, never in the middle of one.  They do so while tasks are polled   *)
(* for the eventfd: alone in its batch of events, or ahead of a timerfd    *)
(* that epoll_wait() has reported and worker_run() has not read yet.       *)
(* A definition marked (slip) is the mistake that shows that a property    *)
(* can fail (PROJECT.json, "mutants"), no part of the model.               *)
(***************************************************************************)
EXTENDS Naturals, Sequences, FiniteSets

CONSTANTS
  Timers,          \* ids of timers; next_timer_id gives each out once
  Sizes,           \* wheel_size of each wheel, lowest first
  Delays,          \* delays futures sleep for
  MaxTime,         \* bound: no timer is to expire after this tick of wheel 1
  MaxExpirations,  \* bound: expirations of the timerfd that are not read yet
  LenModulus,      \* bound: stands for the 2^64 at which timer_len wraps
  Aborts           \* whether futures abort their timers

Level == 1..Len(Sizes)

\* resolution of each wheel: one round of the wheel below it.
Resolution[l \in Level] == IF l = 1 THEN 1 ELSE Resolution[l - 1] * Sizes[l - 1]

\* The last wheel must not come round: _wheel_loop() would tick a ninth one.
ASSUME WheelAssumption ==
  /\ Sizes \in Seq(Nat \ {0, 1}) /\ Sizes # << >>
  /\ Delays \subseteq Nat
  /\ MaxTime \in Nat /\ MaxTime < Resolution[Len(Sizes)] * Sizes[Len(Sizes)]
  /\ MaxExpirations \in Nat \ {0} /\ LenModulus \in Nat \ {0, 1}
  /\ Aborts \in BOOLEAN

\* timer_len does not wrap: it counts objects in memory.
ASSUME CountAssumption == IsFiniteSet(Timers) /\ Cardinality(Timers) < LenModulus

VARIABLES
  tick,         \* wheels[l].tick
  buckets,      \* wheels[l].timer_buckets, each a sequence of timers
  timer_len,    \* hierarchy_wheel.timer_len, a size_t
  armed,        \* the timerfd is armed, with a period of one tick
  timer_fd,     \* the expirations the kernel has counted since it was last
                \* read or set
  reported,     \* the timerfd is in the batch of events that is handled, and
                \* its turn has not come
  expirations,  \* of the read() of the timerfd, still to be handled
  level,        \* wheel whose tick is in progress, 0 between ticks
  timers,       \* the bucket that tick has taken, timers still to be seen
  expiry,       \* timer->expiry_time
  state,        \* of each timer: "unused", "pending", "fired" or "aborted"
  start, delay, \* when it was added, by the lowest wheel, and for how long
  firedAt       \* the time of the tick that called its handler

fdVars == <<armed, timer_fd>>
wheelVars == <<tick, buckets, timer_len>>
tickVars == <<expirations, level, timers>>
timerVars == <<expiry, state, start, delay, firedAt>>
vars == <<wheelVars, fdVars, reported, tickVars, timerVars>>

TypeOK ==
  /\ tick \in [Level -> Nat]
  /\ \A l \in Level : buckets[l] \in [0..(Sizes[l] - 1) -> Seq(Timers)]
  /\ timer_len \in 0..(LenModulus - 1)
  /\ armed \in BOOLEAN /\ timer_fd \in 0..MaxExpirations
  /\ reported \in BOOLEAN
  /\ expirations \in 0..MaxExpirations
  /\ level \in Level \cup {0}
  /\ timers \in Seq(Timers)
  /\ state \in [Timers -> {"unused", "pending", "fired", "aborted"}]
  /\ \A f \in {expiry, start, delay, firedAt} : f \in [Timers -> Nat]

\* What the lowest wheel says the time is.
Now == tick[1]

-----------------------------------------------------------------------------
(* Which bucket.                                                            *)

\* _find_wheel(): the highest wheel whose resolution the delay reaches.
FindWheel(d) ==
  CHOOSE l \in Level :
    /\ l = 1 \/ Resolution[l] <= d
    /\ \A m \in Level : m > l => Resolution[m] > d

\* (slip) counted from the next tick
NextTickBucket(l, e) == (tick[l] + 1 + (e - tick[l] * Resolution[l]) \div Resolution[l]) % Sizes[l]
\* _find_bucket(), when the expiry time is ahead of the wheel.
FindBucket(l, e) == (tick[l] + (e - tick[l] * Resolution[l]) \div Resolution[l]) % Sizes[l]

\* taskio_vec_push_last(); the elements stay in order when the vector grows.
PushLast(vec, t) == Append(vec, t)
\* Where the timer with the id of t is, the first if there were several.
Found(vec, t) == CHOOSE k \in DOMAIN vec : vec[k] = t /\ \A j \in 1..(k - 1) : vec[j] # t
\* taskio_vec_remove_if() with _abort_predicate(): those behind it move up.
RemoveIf(vec, t) ==
  IF \A k \in DOMAIN vec : vec[k] # t THEN vec
  ELSE [k \in 1..(Len(vec) - 1) |-> vec[IF k < Found(vec, t) THEN k ELSE k + 1]]

\* taskio_wheel_timer_add_from()
Put(bs, l, t, e) == [bs EXCEPT ![l][FindBucket(l, e)] = PushLast(@, t)]
\* taskio_timer_abort(): nothing happens when the bucket does not hold it.
Without(bs, l, t, e) == [bs EXCEPT ![l][FindBucket(l, e)] = RemoveIf(@, t)]

-----------------------------------------------------------------------------
(* Calls of futures.                                                        *)

\* worker_run() is not in the middle of the expirations it has read.
BetweenTicks == level = 0 /\ expirations = 0

\* (slip) the next time the wheel ticks
NextWheelTime(l) == (tick[l] + 1) * Resolution[l]
\* What taskio_wheel_timer_add() adds the delay to: the last time the wheel
\* has ticked.
WheelTime(l) == tick[l] * Resolution[l]

\* (slip) the timerfd stays as it was
NeverSets == FALSE
\* (slip) every timer sets it
AlwaysSets == TRUE
\* timer_len goes up: the first timer arms the timerfd.
AddSets == timer_len = 0

\* timerfd_settime() forgets what it has counted.
SetTime(on) == armed' = on /\ timer_fd' = 0

\* _increase_timer_len()
TimerLenUp ==
  /\ timer_len' = (timer_len + 1) % LenModulus
  /\ IF AddSets THEN SetTime(TRUE) ELSE UNCHANGED fdVars

\* taskio_runtime_add_timer() from taskio_sleep().
AddTimer(t, d) ==
  /\ BetweenTicks
  /\ state[t] = "unused"
  /\ d > 0
  /\ LET l == FindWheel(d)
         e == WheelTime(l) + d
     IN /\ e <= MaxTime
        /\ expiry' = [expiry EXCEPT ![t] = e]
        /\ buckets' = Put(buckets, l, t, e)
  /\ state' = [state EXCEPT ![t] = "pending"]
  /\ start' = [start EXCEPT ![t] = Now]
  /\ delay' = [delay EXCEPT ![t] = d]
  /\ TimerLenUp
  /\ UNCHANGED <<tick, reported, tickVars, firedAt>>

\* The same for a delay of 0: the handler is called and no timer remains.
AddExpired(t) ==
  /\ BetweenTicks
  /\ state[t] = "unused"
  /\ 0 \in Delays
  /\ state' = [state EXCEPT ![t] = "fired"]
  /\ expiry' = [expiry EXCEPT ![t] = Now] /\ start' = [start EXCEPT ![t] = Now]
  /\ firedAt' = [firedAt EXCEPT ![t] = Now]
  /\ UNCHANGED <<wheelVars, fdVars, reported, tickVars, delay>>

\* _decrease_timer_len(), and the same in _wheel_expiry(): the last timer
\* disarms the timerfd.
TimerLenDown ==
  /\ timer_len' = (timer_len + LenModulus - 1) % LenModulus
  /\ IF timer_len = 1 THEN SetTime(FALSE) ELSE UNCHANGED fdVars

\* taskio_runtime_timer_abort() from the cleanup of taskio_sleep(): the timer
\* is looked for in the wheel of the delay that is left.
AbortTimer(t) ==
  /\ Aborts
  /\ BetweenTicks
  /\ state[t] = "pending"
  /\ Now < expiry[t]
  /\ buckets' = Without(buckets, FindWheel(expiry[t] - Now), t, expiry[t])
  /\ state' = [state EXCEPT ![t] = "aborted"]
  /\ TimerLenDown
  /\ UNCHANGED <<tick, reported, tickVars, expiry, start, delay, firedAt>>

-----------------------------------------------------------------------------
(* The timerfd.                                                             *)

\* The kernel counts another period.
Expire ==
  /\ armed
  /\ timer_fd < MaxExpirations /\ Now + expirations + timer_fd < MaxTime
  /\ timer_fd' = timer_fd + 1
  /\ UNCHANGED <<wheelVars, armed, reported, tickVars, timerVars>>

\* epoll_wait() returns it.
Report ==
  /\ BetweenTicks /\ ~reported
  /\ timer_fd > 0
  /\ reported' = TRUE
  /\ UNCHANGED <<wheelVars, fdVars, tickVars, timerVars>>

\* worker_run() reads how often it has expired since, and blocks the loop
\* until it has.
ReadTimerFd ==
  /\ reported /\ timer_fd > 0
  /\ expirations' = timer_fd
  /\ timer_fd' = 0
  /\ reported' = FALSE
  /\ UNCHANGED <<wheelVars, armed, level, timers, timerVars>>

\* The bucket taskio_wheel_timer_tick() of wheel l is about to take.
NextIndex(l) == (tick[l] + 1) % Sizes[l]

Take(l) ==
  /\ level' = l
  /\ timers' = buckets[l][NextIndex(l)]
  /\ buckets' = [buckets EXCEPT ![l][NextIndex(l)] = << >>]

\* (slip) the expiration is counted here too
CountedTwice == expirations - 1
\* The expirations left when a tick begins: it counts when it is done.
CountedLater == expirations

BeginTick ==
  /\ level = 0 /\ expirations > 0
  /\ Take(1)
  /\ expirations' = CountedLater
  /\ UNCHANGED <<tick, timer_len, fdVars, reported, timerVars>>

\* The time at which the tick in progress looks at its timers.
TickTime == (tick[level] + 1) * Resolution[level]

Fire ==
  /\ level > 0 /\ timers # << >>
  /\ LET t == Head(timers) IN
       /\ TickTime >= expiry[t]
       /\ firedAt' = [firedAt EXCEPT ![t] = Now + 1]
       /\ state' = [state EXCEPT ![t] = IF @ = "pending" THEN "fired" ELSE @]
  /\ timers' = Tail(timers)
  /\ TimerLenDown
  /\ UNCHANGED <<tick, buckets, reported, expirations, level, expiry, start, delay>>

\* The time from which taskio_runtime_add_timer_from() reschedules a timer.
RescheduleTime == Now + 1

\* (slip) is_rescheduling is not looked at
CountedAgain == (timer_len + 1) % LenModulus
\* A timer that is handed down has been counted.
CountedBefore == timer_len

\* _wheel_expiry(): a timer with time left goes down to a lower wheel.
HandDown ==
  /\ level > 0 /\ timers # << >>
  /\ LET t == Head(timers)
         l == FindWheel(expiry[t] - RescheduleTime)
     IN /\ TickTime < expiry[t]
        /\ RescheduleTime < expiry[t]  \* assert()
        /\ buckets' = Put(buckets, l, t, expiry[t])
  /\ timers' = Tail(timers)
  /\ timer_len' = CountedBefore
  /\ UNCHANGED <<tick, fdVars, reported, expirations, level, timerVars>>

\* The bucket is done and the wheel has come round: the next wheel ticks.
NextWheel ==
  /\ level > 0 /\ timers = << >>
  /\ NextIndex(level) = 0
  /\ level < Len(Sizes)
  /\ Take(level + 1)
  /\ UNCHANGED <<tick, timer_len, fdVars, reported, expirations, timerVars>>

\* It has not: every wheel whose tick is in progress counts it.
EndTick ==
  /\ level > 0 /\ timers = << >>
  /\ NextIndex(level) # 0
  /\ tick' = [l \in Level |-> IF l <= level THEN tick[l] + 1 ELSE tick[l]]
  /\ level' = 0
  /\ expirations' = expirations - 1
  /\ UNCHANGED <<buckets, timer_len, fdVars, reported, timers, timerVars>>

-----------------------------------------------------------------------------

Init ==
  /\ tick = [l \in Level |-> 0]
  /\ buckets = [l \in Level |-> [i \in 0..(Sizes[l] - 1) |-> << >>]]
  /\ timer_len = 0 /\ armed = FALSE /\ timer_fd = 0 /\ reported = FALSE
  /\ expirations = 0 /\ level = 0 /\ timers = << >>
  /\ state = [t \in Timers |-> "unused"]
  /\ expiry = [t \in Timers |-> 0] /\ start = [t \in Timers |-> 0]
  /\ delay = [t \in Timers |-> 0] /\ firedAt = [t \in Timers |-> 0]

Tick == BeginTick \/ Fire \/ HandDown \/ NextWheel \/ EndTick

Next ==
  \/ \E t \in Timers : AddExpired(t) \/ AbortTimer(t) \/ \E d \in Delays : AddTimer(t, d)
  \/ Expire \/ Report \/ ReadTimerFd
  \/ Tick

Spec == Init /\ [][Next]_vars

\* The kernel lets an armed timerfd expire, epoll_wait() returns, the worker
\* reads what was reported and handles what it has read.
FairSpec == Spec /\ WF_vars(Tick) /\ WF_vars(Expire) /\ WF_vars(Report) /\ WF_vars(ReadTimerFd)

-----------------------------------------------------------------------------
(* Properties.                                                              *)

\* In a wheel, or taken and still to be seen.
Held(t) ==
  \/ \E l \in Level : \E i \in DOMAIN buckets[l] : t \in {buckets[l][i][k] : k \in DOMAIN buckets[l][i]}
  \/ t \in {timers[k] : k \in DOMAIN timers}

\* A handler is called in the tick of its expiry time, neither before (a bucket
\* taken too soon) nor after (a timer handed to a bucket already taken).
FiresAtExpiry == \A t \in Timers : state[t] = "fired" => firedAt[t] = expiry[t]

\* A sleep is never late, and it is early by less than the resolution of the
\* wheel its delay is for, however far its timer is handed down: the expiry
\* time counts from the last tick of that wheel (taskio_wheel_timer_add()).
SleepErrorBounded ==
  \A t \in Timers : state[t] = "fired" =>
    /\ firedAt[t] <= start[t] + delay[t]
    /\ start[t] + delay[t] < firedAt[t] + Resolution[FindWheel(delay[t])]

NoneAborted == \A t \in Timers : state[t] # "aborted"

\* timer_len is the number of timers in the wheels ("count how many timers
\* there are in total") and the timerfd is armed while there are any ("disarms
\* the timer when there is no timers in the wheels"), as long as none has been
\* aborted.
ArmedWhileHeld ==
  NoneAborted => /\ timer_len = Cardinality({t \in Timers : Held(t)})
                 /\ armed <=> \E t \in Timers : Held(t)

\* The read() of a timerfd that epoll_wait() has reported does not block the
\* loop, whatever timers the tasks ahead of it in the batch have added, as long
\* as none has been aborted.
ReadDoesNotBlock == NoneAborted /\ reported => timer_fd > 0

\* Every timer that is added fires, as long as none has been aborted: the
\* timerfd keeps ticking until the last one is due, no timer is handed to a
\* bucket already taken, and the assertion of taskio_runtime_add_timer_from()
\* ("rescheduling should not happen when timer has expired") stops none.
UnabortedFires ==
  \A t \in Timers : state[t] = "pending" ~> (state[t] = "fired" \/ ~NoneAborted)

\* Every timer that is added fires or is aborted itself.
TimerEventuallyFires == \A t \in Timers : state[t] = "pending" ~> state[t] # "pending"
=============================================================================
