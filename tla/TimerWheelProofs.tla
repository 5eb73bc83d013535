-------------------------- MODULE TimerWheelProofs --------------------------
(***************************************************************************)
(* Proofs about TimerWheel, for any number and sizes of wheels, any timers *)
(* and any delays.                                                         *)
(***************************************************************************)
EXTENDS TimerWheel, ProofLemmas, FiniteSetTheorems, TLAPS

-----------------------------------------------------------------------------
(* Arithmetic.                                                              *)

LEMMA TimesPositive ==
  ASSUME NEW a \in Int, NEW b \in Int, NEW c \in Nat \ {0}
  PROVE  /\ a < b <=> a * c < b * c
         /\ a <= b <=> a * c <= b * c
         /\ a * c \in Int
  OBVIOUS

\* What the quotient is.
LEMMA DivBounds ==
  ASSUME NEW a \in Int, NEW b \in Nat \ {0}
  PROVE  /\ a \div b \in Int
         /\ (a \div b) * b <= a
         /\ a < (a \div b + 1) * b
  OBVIOUS

LEMMA DivUnique ==
  ASSUME NEW a \in Int, NEW b \in Nat \ {0}, NEW q \in Int,
         q * b <= a, a < (q + 1) * b
  PROVE  a \div b = q
<1>1. q < a \div b + 1
  BY DivBounds, TimesPositive
<1>2. a \div b < q + 1
  BY DivBounds, TimesPositive
<1> QED
  BY <1>1, <1>2, DivBounds

After(a, k, b, c) == a = k * b + c

LEMMA DivShift ==
  ASSUME NEW a \in Int, NEW c \in Int, NEW k \in Int, NEW b \in Nat \ {0}, After(a, k, b, c)
  PROVE  a \div b = k + c \div b
<1>0. a = k * b + c
  BY DEF After
<1>1. PICK q \in Int : q = c \div b /\ q * b <= c /\ c < (q + 1) * b
  BY DivBounds
<1>2. (k + q) * b <= a /\ a < (k + q + 1) * b /\ k + q \in Int
  <2>1. /\ (k + q) * b = k * b + q * b /\ (k + q + 1) * b = k * b + (q + 1) * b
        /\ k * b \in Int /\ q * b \in Int /\ (q + 1) * b \in Int
    OBVIOUS
  <2> QED
    BY <1>0, <1>1, <2>1
<1>3. a \div b = k + q
  BY <1>2, DivUnique
<1> QED
  BY <1>1, <1>3

Quotient(a, b) == a \div b

LEMMA QuotientShift ==
  ASSUME NEW a \in Int, NEW c \in Int, NEW k \in Int, NEW b \in Nat \ {0}, After(a, k, b, c)
  PROVE  Quotient(a, b) = k + Quotient(c, b)
BY DivShift DEF Quotient

LEMMA ModIs ==
  ASSUME NEW a \in Int, NEW b \in Nat \ {0}
  PROVE  /\ a % b \in 0..(b - 1)
         /\ a % b = a - (a \div b) * b
         /\ a \div b \in Int
<1>1. a % b \in 0..(b - 1)
  OBVIOUS
<1>2. a % b = a - b * (a \div b)
  OBVIOUS
<1>3. b * (a \div b) = (a \div b) * b
  OBVIOUS
<1> QED
  BY <1>1, <1>2, <1>3, DivBounds

LEMMA ModUnique ==
  ASSUME NEW b \in Nat \ {0}, NEW q \in Int, NEW r \in 0..(b - 1)
  PROVE  (q * b + r) % b = r
  OBVIOUS

\* Two numbers less than b apart that share the remainder are equal.
LEMMA ModWindow ==
  ASSUME NEW b \in Nat \ {0}, NEW c \in Int, NEW d \in Int,
         c % b = d % b, c <= d, d < c + b
  PROVE  c = d
<1>1. PICK p \in Int, q \in Int, r \in Int : c = p * b + r /\ d = q * b + r
  <2>1. PICK p \in Int : c % b = c - p * b
    BY ModIs
  <2>2. PICK q \in Int : d % b = d - q * b
    BY ModIs
  <2>3. PICK r \in Int : r = c % b
    BY ModIs
  <2>4. p * b \in Int /\ q * b \in Int
    OBVIOUS
  <2>5. r = c - p * b /\ r = d - q * b
    BY <2>1, <2>2, <2>3
  <2>6. c = p * b + r /\ d = q * b + r
    BY <2>4, <2>5
  <2> QED
    BY <2>6
<1>2. q * b < (p + 1) * b /\ p * b <= q * b
  BY <1>1
<1>3. q < p + 1 /\ p <= q
  BY <1>2, TimesPositive
<1> QED
  BY <1>1, <1>3

-----------------------------------------------------------------------------
(* Sequences of timers.                                                     *)

LEMMA PushElems ==
  ASSUME NEW S, NEW s \in Seq(S), NEW x \in S
  PROVE  /\ PushLast(s, x) \in Seq(S)
         /\ Elems(PushLast(s, x)) = Elems(s) \cup {x}
         /\ NoDup(s) /\ x \notin Elems(s) => NoDup(PushLast(s, x))
<1>1. PushLast(s, x) = Append(s, x)
  BY DEF PushLast
<1> QED
  BY <1>1, AppendElems

LEMMA RemoveElems ==
  ASSUME NEW S, NEW s \in Seq(S), NEW x, NoDup(s)
  PROVE  /\ RemoveIf(s, x) \in Seq(S)
         /\ Elems(RemoveIf(s, x)) = Elems(s) \ {x}
         /\ NoDup(RemoveIf(s, x))
<1>0. DOMAIN s = 1..Len(s) /\ Len(s) \in Nat /\ \A k \in 1..Len(s) : s[k] \in S
  OBVIOUS
<1>1. CASE \A k \in DOMAIN s : s[k] # x
  BY <1>0, <1>1 DEF RemoveIf, Elems
<1>2. CASE \E k \in DOMAIN s : s[k] = x
  <2>1. PICK n \in 1..Len(s) : s[n] = x /\ \A j \in 1..Len(s) : s[j] = x => j = n
    BY <1>0, <1>2 DEF NoDup
  <2>2. Found(s, x) = n
    <3>1. \A j \in 1..(n - 1) : s[j] # x
      BY <2>1, <1>0
    <3> QED
      BY <2>1, <3>1, <1>0 DEF Found
  <2> DEFINE r == [k \in 1..(Len(s) - 1) |-> s[IF k < n THEN k ELSE k + 1]]
  <2>3. RemoveIf(s, x) = r
    BY <1>2, <2>2 DEF RemoveIf
  <2>4. \A k \in 1..(Len(s) - 1) : (IF k < n THEN k ELSE k + 1) \in 1..Len(s)
    BY <1>0
  <2>5. r \in Seq(S) /\ Len(r) = Len(s) - 1
    <3>1. Len(s) - 1 \in Nat
      BY <1>0, <2>1
    <3>2. r \in [1..(Len(s) - 1) -> S]
      BY <2>4, <1>0
    <3> QED
      BY <3>1, <3>2
  <2>6. \A k \in 1..(Len(s) - 1) : r[k] = s[IF k < n THEN k ELSE k + 1]
    OBVIOUS
  <2> HIDE DEF r
  <2>7. Elems(r) \subseteq Elems(s) \ {x}
    <3> SUFFICES ASSUME NEW k \in 1..(Len(s) - 1) PROVE r[k] \in Elems(s) \ {x}
      BY <2>5 DEF Elems
    <3>1. (IF k < n THEN k ELSE k + 1) \in 1..Len(s) /\ (IF k < n THEN k ELSE k + 1) # n
      BY <2>4, <2>1
    <3> QED
      BY <3>1, <2>1, <2>6 DEF Elems
  <2>8. Elems(s) \ {x} \subseteq Elems(r)
    <3> SUFFICES ASSUME NEW k \in 1..Len(s), s[k] # x PROVE s[k] \in Elems(r)
      BY DEF Elems
    <3>1. k # n
      BY <2>1
    <3>2. CASE k < n
      <4>1. k \in 1..(Len(s) - 1) /\ r[k] = s[k]
        BY <3>2, <2>1, <2>6, <1>0
      <4> QED
        BY <4>1, <2>5 DEF Elems
    <3>3. CASE k > n
      <4>1. k - 1 \in 1..(Len(s) - 1) /\ ~(k - 1 < n) /\ (k - 1) + 1 = k
        BY <3>3, <2>1, <1>0
      <4>2. r[k - 1] = s[k]
        BY <4>1, <2>6
      <4> QED
        BY <4>1, <4>2, <2>5 DEF Elems
    <3> QED
      BY <3>1, <3>2, <3>3, <1>0
  <2>9. NoDup(r)
    <3> SUFFICES ASSUME NEW j \in 1..(Len(s) - 1), NEW k \in 1..(Len(s) - 1), r[j] = r[k]
                 PROVE  j = k
      BY <2>5 DEF NoDup
    <3>1. (IF j < n THEN j ELSE j + 1) = (IF k < n THEN k ELSE k + 1)
      BY <2>4, <2>6 DEF NoDup
    <3> QED
      BY <3>1, <1>0, <2>1
  <2> QED
    BY <2>3, <2>5, <2>7, <2>8, <2>9
<1> QED
  BY <1>1, <1>2

-----------------------------------------------------------------------------
(* The wheels.                                                              *)

LEMMA LevelIs ==
  /\ Len(Sizes) \in Nat \ {0} /\ 1 \in Level /\ Level \subseteq Nat \ {0}
  /\ \A l \in Level : Sizes[l] \in Nat \ {0, 1}
BY WheelAssumption DEF Level

LEMMA ConstantsAre ==
  /\ MaxTime \in Nat /\ MaxExpirations \in Nat \ {0} /\ LenModulus \in Nat \ {0, 1}
  /\ Delays \subseteq Nat
BY WheelAssumption

LEMMA LevelPositive == \A l \in Level : l \in Int /\ ~(l <= 0)
BY LevelIs

\* The recursive definition of the resolutions has a solution.
LEMMA ResolutionDef ==
  /\ Resolution \in [Level -> Nat \ {0}]
  /\ Resolution[1] = 1
  /\ \A l \in Level : l + 1 \in Level => Resolution[l + 1] = Resolution[l] * Sizes[l]
<1> DEFINE Solves(g, n) == \A l \in 1..n : g[l] = IF l = 1 THEN 1 ELSE g[l - 1] * Sizes[l - 1]
           Solved(n) == \E g \in [1..n -> Nat \ {0}] : Solves(g, n)
           Good == {n \in Nat : n <= Len(Sizes) => Solved(n)}
<1>0. \A x, y \in Nat \ {0} : x * y \in Nat \ {0}
  OBVIOUS
<1>1. Nat \subseteq Good
  <2>1. 0 \in Good
    <3>1. [l \in 1..0 |-> 1] \in [1..0 -> Nat \ {0}] /\ Solves([l \in 1..0 |-> 1], 0)
      OBVIOUS
    <3> QED
      BY <3>1
  <2>2. ASSUME NEW n \in Nat, n \in Good, n + 1 <= Len(Sizes)
        PROVE  Solved(n + 1)
    <3>1. PICK g \in [1..n -> Nat \ {0}] : Solves(g, n)
      BY <2>2, LevelIs
    <3> DEFINE new == IF n = 0 THEN 1 ELSE g[n] * Sizes[n]
               h == [l \in 1..(n + 1) |-> IF l = n + 1 THEN new ELSE g[l]]
    <3>2. new \in Nat \ {0}
      <4>1. ASSUME n # 0 PROVE g[n] \in Nat \ {0} /\ Sizes[n] \in Nat \ {0}
        BY <4>1, <2>2, LevelIs DEF Level
      <4> QED
        BY <4>1, <1>0
    <3>3. h \in [1..(n + 1) -> Nat \ {0}]
      BY <3>2
    <3>4. Solves(h, n + 1)
      BY <3>1
    <3> QED
      BY <3>3, <3>4
  <2>3. \A n \in Nat : n \in Good => n + 1 \in Good
    <3> HIDE DEF Solved
    <3> QED
      BY <2>2
  <2> HIDE DEF Good
  <2> QED
    BY <2>1, <2>3, SetInduction
<1>2. PICK g \in [Level -> Nat \ {0}] : Solves(g, Len(Sizes))
  <2>1. Len(Sizes) \in Good
    BY <1>1, LevelIs
  <2>2. \E g \in [1..Len(Sizes) -> Nat \ {0}] : Solves(g, Len(Sizes))
    BY <2>1, LevelIs
  <2> QED
    BY <2>2 DEF Level
<1>3. g = [l \in Level |-> IF l = 1 THEN 1 ELSE g[l - 1] * Sizes[l - 1]]
  BY <1>2 DEF Level
<1>4. Resolution = [l \in Level |-> IF l = 1 THEN 1 ELSE Resolution[l - 1] * Sizes[l - 1]]
  BY <1>3 DEF Resolution
<1> QED
  <2>1. \A l \in Level : Resolution[l] = IF l = 1 THEN 1 ELSE Resolution[l - 1] * Sizes[l - 1]
    BY <1>4
  <2>2. Resolution[1] = 1 /\ \A l \in Level : l + 1 \in Level => Resolution[l + 1] = Resolution[l] * Sizes[l]
    BY <2>1, LevelIs
  <2> DEFINE Positive == {n \in Nat : n + 1 \in Level => Resolution[n + 1] \in Nat \ {0}}
  <2>3. Nat \subseteq Positive
    <3>1. 0 \in Positive
      BY <2>2
    <3>2. ASSUME NEW n \in Nat, n \in Positive, n + 2 \in Level
          PROVE  Resolution[n + 2] \in Nat \ {0}
      <4>1. n + 1 \in Level
        BY <3>2, LevelIs DEF Level
      <4>2. Resolution[n + 2] = Resolution[n + 1] * Sizes[n + 1]
        BY <4>1, <3>2, <2>2
      <4> QED
        BY <4>1, <4>2, <3>2, <1>0, LevelIs
    <3>3. \A n \in Nat : n \in Positive => n + 1 \in Positive
      BY <3>2
    <3> HIDE DEF Positive
    <3> QED
      BY <3>1, <3>3, SetInduction
  <2>4. ASSUME NEW l \in Level PROVE Resolution[l] \in Nat \ {0}
    <3>1. l - 1 \in Positive /\ (l - 1) + 1 = l
      BY <2>3, LevelIs
    <3> QED
      BY <3>1
  <2> QED
    BY <2>2, <2>4, <1>4
\* The resolution of a wheel is a multiple of that of each wheel below it.
LEMMA Divides ==
  ASSUME NEW m \in Level, NEW l \in Level, m <= l
  PROVE  \E k \in Nat \ {0} : Resolution[l] = k * Resolution[m]
<1> DEFINE Good == {n \in Nat : m + n \in Level =>
                      \E k \in Nat \ {0} : Resolution[m + n] = k * Resolution[m]}
<1>1. 0 \in Good
  <2>1. Resolution[m + 0] = 1 * Resolution[m]
    BY ResolutionDef, LevelIs
  <2> QED
    BY <2>1
<1>2. ASSUME NEW n \in Nat, n \in Good, m + (n + 1) \in Level
      PROVE  \E k \in Nat \ {0} : Resolution[m + (n + 1)] = k * Resolution[m]
  <2>1. m + n \in Level /\ m + (n + 1) = (m + n) + 1
    BY <1>2, LevelIs DEF Level
  <2>2. PICK k \in Nat \ {0} : Resolution[m + n] = k * Resolution[m]
    BY <1>2, <2>1
  <2>3. Resolution[(m + n) + 1] = (k * Resolution[m]) * Sizes[m + n]
    BY <1>2, <2>1, <2>2, ResolutionDef
  <2>4. \A x, y, z \in Nat \ {0} : (x * y) * z = (x * z) * y /\ x * z \in Nat \ {0}
    OBVIOUS
  <2>5. /\ (k * Resolution[m]) * Sizes[m + n] = (k * Sizes[m + n]) * Resolution[m]
        /\ k * Sizes[m + n] \in Nat \ {0}
    <3>1. Sizes[m + n] \in Nat \ {0} /\ Resolution[m] \in Nat \ {0}
      BY <2>1, LevelIs, ResolutionDef
    <3> QED
      BY ONLY <3>1, <2>4
  <2> QED
    BY <2>1, <2>3, <2>5
<1>3. \A n \in Nat : n \in Good => n + 1 \in Good
  BY <1>2
<1>4. Nat \subseteq Good
  <2> HIDE DEF Good
  <2> QED
    BY <1>1, <1>3, SetInduction
<1>5. l - m \in Good /\ m + (l - m) = l
  BY <1>4, LevelIs
<1> QED
  BY <1>5

\* _find_wheel() finds a wheel.
LEMMA FindWheelIs ==
  ASSUME NEW d \in Int
  PROVE  /\ FindWheel(d) \in Level
         /\ FindWheel(d) = 1 \/ Resolution[FindWheel(d)] <= d
         /\ \A m \in Level : m > FindWheel(d) => Resolution[m] > d
<1> DEFINE Reached == {l \in Level : l = 1 \/ Resolution[l] <= d}
           Gaps == {Len(Sizes) - l : l \in Reached}
<1>1. Len(Sizes) - 1 \in Gaps /\ Gaps \subseteq Nat
  BY LevelIs DEF Level
<1>2. PICK g \in Gaps : \A h \in Gaps : g <= h
  <2> HIDE DEF Gaps
  <2> QED
    BY <1>1, LeastNumber
<1>3. PICK l \in Reached : g = Len(Sizes) - l
  BY <1>2
<1>4. \A m \in Level : m > l => Resolution[m] > d
  <2> SUFFICES ASSUME NEW m \in Level, m > l, ~(Resolution[m] > d) PROVE FALSE
    OBVIOUS
  <2>1. m \in Reached
    BY ResolutionDef
  <2>2. Len(Sizes) - l <= Len(Sizes) - m
    BY <1>2, <1>3, <2>1
  <2> QED
    BY <2>2, <1>3, LevelIs
<1> HIDE DEF Gaps
<1>5. \E n \in Level : (n = 1 \/ Resolution[n] <= d) /\ \A m \in Level : m > n => Resolution[m] > d
  BY <1>3, <1>4
<1> QED
  BY <1>5 DEF FindWheel

\* The ticks of a wheel that a delay takes there are fewer than its buckets.
LEMMA DelayInWheel ==
  ASSUME NEW d \in Nat \ {0}, d < Resolution[Len(Sizes)] * Sizes[Len(Sizes)]
  PROVE  /\ d \div Resolution[FindWheel(d)] >= 1
         /\ d \div Resolution[FindWheel(d)] < Sizes[FindWheel(d)]
<1>0. PICK l \in Level : /\ l = FindWheel(d)
                         /\ l = 1 \/ Resolution[l] <= d
                         /\ \A m \in Level : m > l => Resolution[m] > d
  <2>1. d \in Int
    OBVIOUS
  <2> QED
    BY <2>1, FindWheelIs
<1>1. l \in Nat /\ Resolution[l] \in Nat \ {0} /\ Sizes[l] \in Nat \ {0}
  BY ResolutionDef, LevelIs
<1>2. Resolution[l] <= d
  BY <1>0, ResolutionDef
<1>3. d < Resolution[l] * Sizes[l]
  <2>1. CASE l = Len(Sizes)
    BY <2>1
  <2>2. CASE l # Len(Sizes)
    <3>1. l + 1 \in Level /\ l + 1 > l
      BY <1>1, <2>2, LevelIs DEF Level
    <3>2. Resolution[l + 1] > d
      BY <3>1, <1>0
    <3>3. Resolution[l + 1] = Resolution[l] * Sizes[l] /\ Resolution[l + 1] \in Nat
      BY <3>1, ResolutionDef
    <3> QED
      BY <3>2, <3>3
  <2> QED
    BY <2>1, <2>2
<1>4. PICK r \in Nat \ {0}, s \in Nat \ {0} : r = Resolution[l] /\ s = Sizes[l]
  BY <1>1
<1>5. PICK q \in Int : q = d \div r /\ q * r <= d /\ d < (q + 1) * r
  <2>1. d \in Int /\ r \in Nat \ {0}
    OBVIOUS
  <2>2. d \div r \in Int /\ (d \div r) * r <= d /\ d < (d \div r + 1) * r
    BY ONLY <2>1, DivBounds
  <2> QED
    BY <2>2
<1>6. 0 * r < (q + 1) * r /\ 1 * r < (q + 1) * r /\ q * r < s * r
  <2>1. r <= d /\ d < s * r /\ 1 * r = r /\ 0 * r = 0
    BY <1>2, <1>3, <1>4
  <2> QED
    BY <2>1, <1>5, TimesPositive
<1>7. 1 < q + 1 /\ q < s
  BY <1>6, TimesPositive
<1> QED
  BY <1>0, <1>4, <1>5, <1>7

-----------------------------------------------------------------------------
(* The inductive invariant.                                                 *)

Slot(l) == 0..(Sizes[l] - 1)

\* The tick of wheel l in which a timer there is due.
Due(u, l) == expiry[u] \div Resolution[l]

\* The timerfd: what is not armed counts nothing, and what is reported is read
\* between ticks.
FdInv ==
  /\ ~armed => timer_fd = 0
  /\ level > 0 => expirations > 0
  /\ level = 0 => timers = << >>
  /\ reported => level = 0 /\ expirations = 0

\* The wheels agree about the time, and all that tick do so at the same time.
ClockInv ==
  \A l \in Level :
    /\ tick[l] * Resolution[l] <= Now
    /\ Now < (tick[l] + 1) * Resolution[l]
    /\ l <= level => (tick[l] + 1) * Resolution[l] = Now + 1

\* A timer is in the bucket of the tick it is due in, and that is the next time
\* the bucket is taken.
BucketInv ==
  \A l \in Level : \A i \in Slot(l) : \A u \in Elems(buckets[l][i]) :
    /\ Due(u, l) % Sizes[l] = i
    /\ (IF l <= level THEN tick[l] + 2 ELSE tick[l] + 1) <= Due(u, l)
    /\ Due(u, l) <= tick[l] + Sizes[l]
TakenInv == \A u \in Elems(timers) : Due(u, level) = tick[level] + 1

\* A timer is in one place at most, once.
OnceInv ==
  /\ NoDup(timers)
  /\ \A l \in Level : \A i \in Slot(l) :
       /\ NoDup(buckets[l][i])
       /\ \A u \in Elems(buckets[l][i]) :
            /\ u \notin Elems(timers)
            /\ \A m \in Level : \A j \in Slot(m) : u \in Elems(buckets[m][j]) => m = l /\ j = i

\* Those that have neither fired nor been aborted are in the wheels.
HeldInv ==
  \A t \in Timers :
    /\ state[t] = "pending" => Held(t)
    /\ Held(t) => state[t] \in {"pending", "aborted"}

SleepInv ==
  \A t \in Timers :
    /\ state[t] = "unused" => delay[t] = 0
    /\ state[t] # "unused" => /\ expiry[t] <= start[t] + delay[t]
                              /\ start[t] + delay[t] < expiry[t] + Resolution[FindWheel(delay[t])]

Pending == {t \in Timers : state[t] = "pending"}

CountInv ==
  NoneAborted => /\ timer_len = Cardinality(Pending)
                 /\ armed <=> timer_len # 0
                 /\ reported => timer_fd > 0

\* The bound on the time covers the expirations that are to come.
BoundInv == Now + expirations + timer_fd <= MaxTime

BucketsInv == DOMAIN buckets = Level /\ buckets = [l \in Level |-> buckets[l]]

IInv ==
  /\ TypeOK /\ BucketsInv /\ FdInv /\ ClockInv
  /\ BucketInv /\ TakenInv /\ OnceInv /\ HeldInv /\ SleepInv
  /\ FiresAtExpiry /\ CountInv /\ BoundInv

-----------------------------------------------------------------------------
(* The clock.                                                               *)

LEMMA MultipleIs ==
  ASSUME NEW a \in Int, NEW b \in Nat \ {0}
  PROVE  a % b = 0 <=> \E k \in Int : a = k * b
<1>1. ASSUME a % b = 0 PROVE a = (a \div b) * b /\ a \div b \in Int
  <2>1. PICK q \in Int : a % b = a - q * b /\ q = a \div b
    BY ModIs
  <2>2. q * b \in Int
    OBVIOUS
  <2> QED
    BY <2>1, <2>2, <1>1
<1>2. ASSUME NEW k \in Int, a = k * b PROVE a % b = 0
  <2>1. (k * b + 0) % b = 0 /\ k * b + 0 = a
    BY <1>2, ModUnique
  <2> QED
    BY <2>1
<1> QED
  BY <1>1, <1>2

LEMMA MultipleOf ==
  ASSUME NEW a \in Int, NEW b \in Nat \ {0}, a % b = 0
  PROVE  \E k \in Int : a = k * b
BY MultipleIs

\* A wheel of resolution r and size s that has not come round, and a wheel
\* whose resolution is n times its round.
LEMMA NoRoundIs ==
  ASSUME NEW r \in Nat \ {0}, NEW s \in Nat \ {0}, NEW n \in Nat \ {0}, NEW a \in Nat,
         NEW c \in Nat, NEW now \in Nat,
         (a + 1) * r = now + 1, now < (c + 1) * (n * (r * s)), (a + 1) % s # 0
  PROVE  now + 1 < (c + 1) * (n * (r * s))
<1>1. PICK p \in Nat : p = (c + 1) * (n * (r * s))
  OBVIOUS
<1>2. PICK k \in Int : k = (c + 1) * n
  OBVIOUS
<1>3. PICK m \in Int : m = k * s
  OBVIOUS
<1>4. p = m * r
  BY <1>1, <1>2, <1>3
<1>5. now + 1 # p
  <2> SUFFICES ASSUME now + 1 = p PROVE FALSE
    OBVIOUS
  <2>1. (a + 1) * r = m * r /\ a + 1 \in Int
    BY <1>4
  <2>2. a + 1 = m
    BY <2>1, TimesPositive
  <2> QED
    BY <2>1, <2>2, <1>3, MultipleIs
<1> QED
  BY <1>1, <1>5

\* The wheel above one that has come round ticks at the same time.
LEMMA ClockNextWheel ==
  ASSUME TypeOK, ClockInv, level \in Level, level + 1 \in Level, NextIndex(level) = 0
  PROVE  (tick[level + 1] + 1) * Resolution[level + 1] = Now + 1
<1>1. /\ Resolution[level] \in Nat \ {0} /\ Sizes[level] \in Nat \ {0}
      /\ Resolution[level + 1] = Resolution[level] * Sizes[level]
      /\ tick[level] \in Nat /\ tick[level + 1] \in Nat /\ Now \in Nat
      /\ level <= level
  BY ResolutionDef, LevelIs DEF TypeOK, Now
<1>2. /\ (tick[level] + 1) * Resolution[level] = Now + 1
      /\ tick[level + 1] * Resolution[level + 1] <= Now
      /\ Now < (tick[level + 1] + 1) * Resolution[level + 1]
  BY <1>1 DEF ClockInv
<1>3. (tick[level] + 1) % Sizes[level] = 0
  BY DEF NextIndex
<1>4. /\ tick[level + 1] * (Resolution[level] * Sizes[level]) <= Now
      /\ Now < (tick[level + 1] + 1) * (Resolution[level] * Sizes[level])
  BY <1>1, <1>2
<1>5. PICK r \in Nat \ {0}, s \in Nat \ {0}, a \in Nat, b \in Nat, now \in Nat :
        r = Resolution[level] /\ s = Sizes[level] /\ a = tick[level] /\ b = tick[level + 1] /\ now = Now
  BY <1>1
<1>6. (a + 1) * r = now + 1 /\ b * (r * s) <= now /\ now < (b + 1) * (r * s) /\ (a + 1) % s = 0
  BY <1>2, <1>3, <1>4, <1>5
<1>7. PICK k \in Int : a + 1 = k * s
  <2>1. a + 1 \in Int
    OBVIOUS
  <2> QED
    BY <1>6, <2>1, MultipleOf
<1>8. PICK u \in Nat \ {0} : u = r * s
  OBVIOUS
<1>9. (k * s) * r = k * u
  BY <1>8
<1>10. k * u = now + 1 /\ b * u <= now /\ now < (b + 1) * u
  BY <1>6, <1>7, <1>8, <1>9
<1>11. b * u < k * u /\ k * u <= (b + 1) * u
  BY <1>10
<1>12. b < k /\ k <= b + 1
  BY <1>11, TimesPositive
<1>13. k = b + 1
  BY <1>12
<1>14. (b + 1) * u = now + 1
  BY <1>10, <1>13
<1> QED
  BY <1>1, <1>5, <1>8, <1>14

\* The wheels above one that has not come round are not due.
LEMMA ClockEndTick ==
  ASSUME TypeOK, ClockInv, level \in Level, NextIndex(level) # 0, NEW l \in Level, l > level
  PROVE  Now + 1 < (tick[l] + 1) * Resolution[l]
<1>1. level + 1 \in Level /\ level + 1 <= l
  BY LevelIs DEF Level
<1>2. PICK n \in Nat \ {0} : Resolution[l] = n * Resolution[level + 1]
  BY <1>1, Divides
<1>3. /\ Resolution[level] \in Nat \ {0} /\ Sizes[level] \in Nat \ {0}
      /\ Resolution[l] = n * (Resolution[level] * Sizes[level])
      /\ tick[level] \in Nat /\ tick[l] \in Nat /\ Now \in Nat
      /\ level <= level
  <2>1. tick[level] \in Nat /\ tick[l] \in Nat /\ Now \in Nat
    BY LevelIs DEF TypeOK, Now
  <2>2. Resolution[level + 1] = Resolution[level] * Sizes[level]
    BY <1>1, ResolutionDef
  <2>3. Resolution[level] \in Nat \ {0} /\ Sizes[level] \in Nat \ {0} /\ level <= level
    BY ResolutionDef, LevelIs
  <2> QED
    BY <1>2, <2>1, <2>2, <2>3
<1>4. /\ (tick[level] + 1) * Resolution[level] = Now + 1
      /\ Now < (tick[l] + 1) * Resolution[l]
  BY <1>3 DEF ClockInv
<1>5. (tick[level] + 1) % Sizes[level] # 0
  BY DEF NextIndex
<1> QED
  BY <1>3, <1>4, <1>5, NoRoundIs

LEMMA ClockStep ==
  ASSUME TypeOK, FdInv, ClockInv, [Next]_vars
  PROVE  ClockInv'
<1>0. /\ tick \in [Level -> Nat] /\ Now \in Nat /\ level \in Level \cup {0}
      /\ Resolution[1] = 1 /\ 1 \in Level
      /\ \A l \in Level : l \in Nat \ {0} /\ Resolution[l] \in Nat \ {0}
  BY LevelIs, ResolutionDef DEF TypeOK, Now
<1>1. CASE BeginTick
  <2>1. tick' = tick /\ level' = 1 /\ Now' = Now
    BY <1>1 DEF BeginTick, Take, Now
  <2>2. \A l \in Level : l <= 1 => (tick[l] + 1) * Resolution[l] = Now + 1
    BY <1>0 DEF Now
  <2> QED
    BY <2>1, <2>2 DEF ClockInv
<1>2. CASE NextWheel
  <2>1. tick' = tick /\ level' = level + 1 /\ Now' = Now /\ level \in Level /\ level + 1 \in Level
    BY <1>2, <1>0, LevelIs DEF NextWheel, Take, Now, Level
  <2>2. (tick[level + 1] + 1) * Resolution[level + 1] = Now + 1
    BY <1>2, <2>1, ClockNextWheel DEF NextWheel
  <2>3. \A l \in Level : l <= level + 1 => l <= level \/ l = level + 1
    BY <1>0
  <2> QED
    BY <2>1, <2>2, <2>3 DEF ClockInv
<1>3. CASE EndTick
  <2>1. level \in Level /\ level' = 0 /\ tick' = [l \in Level |-> IF l <= level THEN tick[l] + 1 ELSE tick[l]]
        /\ NextIndex(level) # 0
    BY <1>3, <1>0 DEF EndTick
  <2>2. Now' = Now + 1
    BY <2>1, <1>0 DEF Now
  <2> SUFFICES ASSUME NEW l \in Level
               PROVE  /\ tick'[l] * Resolution[l] <= Now + 1
                      /\ Now + 1 < (tick'[l] + 1) * Resolution[l]
    BY <2>1, <2>2, <1>0 DEF ClockInv
  <2>3. CASE l <= level
    <3>1. tick'[l] = tick[l] + 1 /\ (tick[l] + 1) * Resolution[l] = Now + 1
      BY <2>1, <2>3 DEF ClockInv
    <3>2. (tick[l] + 1) * Resolution[l] < ((tick[l] + 1) + 1) * Resolution[l]
      BY <1>0, TimesPositive
    <3> QED
      BY <3>1, <3>2, <1>0
  <2>4. CASE l > level
    <3>1. Now + 1 < (tick[l] + 1) * Resolution[l]
      BY <2>1, <2>4, ClockEndTick
    <3>2. tick'[l] = tick[l]
      BY <2>1, <2>4, <1>0
    <3>3. tick[l] * Resolution[l] <= Now /\ tick[l] * Resolution[l] \in Int
      BY <1>0 DEF ClockInv
    <3> QED
      BY <3>1, <3>2, <3>3, <1>0
  <2> QED
    BY <2>3, <2>4, <2>1, <1>0
<1>4. CASE UNCHANGED <<tick, level>>
  BY <1>4 DEF ClockInv, Now
<1>5. UNCHANGED <<tick, level>> \/ BeginTick \/ NextWheel \/ EndTick
  BY DEF Next, Tick, AddTimer, AddExpired, AbortTimer, Expire, Report, ReadTimerFd, Fire, HandDown,
         vars, wheelVars, tickVars, TimerLenUp, TimerLenDown
<1> QED
  BY <1>1, <1>2, <1>3, <1>4, <1>5

-----------------------------------------------------------------------------
(* The buckets.                                                             *)

\* One bucket is replaced.
Replaced(l, b, s) == buckets' = [buckets EXCEPT ![l][b] = s]

LEMMA BucketChange ==
  ASSUME TypeOK, BucketsInv, NEW l \in Level, NEW b \in Slot(l), NEW s \in Seq(Timers),
         Replaced(l, b, s)
  PROVE  /\ BucketsInv'
         /\ \A m \in Level : buckets'[m] \in [Slot(m) -> Seq(Timers)]
         /\ buckets'[l][b] = s
         /\ \A m \in Level : \A i \in Slot(m) :
              (m # l \/ i # b) => buckets'[m][i] = buckets[m][i]
<1>1. \A m \in Level : buckets[m] \in [Slot(m) -> Seq(Timers)]
  BY DEF TypeOK, Slot
<1>2. buckets' = [m \in Level |-> IF m = l THEN [buckets[l] EXCEPT ![b] = s] ELSE buckets[m]]
  BY DEF BucketsInv, Replaced
<1>3. [buckets[l] EXCEPT ![b] = s] \in [Slot(l) -> Seq(Timers)]
  BY <1>1
<1>4. BucketsInv'
  BY <1>2 DEF BucketsInv
<1>5. \A m \in Level : buckets'[m] \in [Slot(m) -> Seq(Timers)]
  BY <1>1, <1>2, <1>3
<1>6. buckets'[l] = [buckets[l] EXCEPT ![b] = s] /\ DOMAIN buckets[l] = Slot(l)
  BY <1>1, <1>2
<1>7. \A m \in Level : m # l => buckets'[m] = buckets[m]
  BY <1>2
<1> QED
  BY <1>4, <1>5, <1>6, <1>7

LEMMA IndexIsSlot ==
  ASSUME TypeOK, NEW l \in Level
  PROVE  /\ NextIndex(l) \in Slot(l)
         /\ \A e \in Int : FindBucket(l, e) \in Slot(l)
<1>1. /\ tick[l] \in Nat /\ Sizes[l] \in Nat \ {0} /\ Resolution[l] \in Nat \ {0}
  BY LevelIs, ResolutionDef DEF TypeOK
<1>2. \A a \in Int : a % Sizes[l] \in 0..(Sizes[l] - 1)
  BY <1>1, ModIs
<1>3. ASSUME NEW e \in Int PROVE FindBucket(l, e) \in Slot(l)
  <2>1. tick[l] * Resolution[l] \in Int
    BY <1>1
  <2>2. e - tick[l] * Resolution[l] \in Int
    BY <2>1
  <2>3. (e - tick[l] * Resolution[l]) \div Resolution[l] \in Int
    BY <1>1, <2>2, ModIs
  <2>4. tick[l] + (e - tick[l] * Resolution[l]) \div Resolution[l] \in Int
    BY <1>1, <2>3
  <2> QED
    BY <1>2, <2>4 DEF FindBucket, Slot
<1>4. NextIndex(l) \in Slot(l)
  <2>1. tick[l] + 1 \in Int
    BY <1>1
  <2> QED
    BY <1>2, <2>1 DEF NextIndex, Slot
<1> QED
  BY <1>3, <1>4

\* The bucket of an expiry time is that of the tick it is due in.
LEMMA FindBucketIs ==
  ASSUME TypeOK, NEW l \in Level, NEW e \in Int
  PROVE  FindBucket(l, e) = (e \div Resolution[l]) % Sizes[l]
<1>1. PICK r \in Nat \ {0}, a \in Nat, d \in Int :
        r = Resolution[l] /\ a = tick[l] /\ d = e - a * r
  BY ResolutionDef DEF TypeOK
<1>2. e = a * r + d
  <2>1. a * r \in Int
    OBVIOUS
  <2> QED
    BY <2>1, <1>1
<1>3. a \in Int /\ After(e, a, r, d)
  BY <1>2 DEF After
<1>4. e \div r = a + d \div r
  BY <1>3, DivShift
<1> QED
  BY <1>1, <1>4 DEF FindBucket

\* The bucket with a timer more, and with one less.
LEMMA PutIs ==
  ASSUME TypeOK, NEW l \in Level, NEW e \in Int, NEW t \in Timers, NEW b,
         b = FindBucket(l, e), buckets' = Put(buckets, l, t, e)
  PROVE  /\ b \in Slot(l) /\ buckets[l][b] \in Seq(Timers)
         /\ Replaced(l, b, PushLast(buckets[l][b], t))
         /\ PushLast(buckets[l][b], t) \in Seq(Timers)
<1>1. b \in Slot(l) /\ buckets[l][b] \in Seq(Timers)
  BY IndexIsSlot DEF TypeOK, Slot
<1> QED
  BY <1>1, PushElems DEF Put, Replaced

LEMMA WithoutIs ==
  ASSUME TypeOK, OnceInv, NEW l \in Level, NEW e \in Int, NEW t \in Timers, NEW b,
         b = FindBucket(l, e), buckets' = Without(buckets, l, t, e)
  PROVE  /\ b \in Slot(l) /\ buckets[l][b] \in Seq(Timers)
         /\ Replaced(l, b, RemoveIf(buckets[l][b], t))
         /\ RemoveIf(buckets[l][b], t) \in Seq(Timers)
<1>1. b \in Slot(l) /\ buckets[l][b] \in Seq(Timers)
  BY IndexIsSlot DEF TypeOK, Slot
<1>2. NoDup(buckets[l][b])
  BY <1>1 DEF OnceInv
<1> QED
  BY <1>1, <1>2, RemoveElems DEF Without, Replaced

InBuckets(u) == \E l \in Level : \E i \in Slot(l) : u \in Elems(buckets[l][i])
IsWithout(l, b, t, e) == b = FindBucket(l, e) /\ buckets' = Without(buckets, l, t, e)
IsTake(l, b) == b = NextIndex(l) /\ Take(l)
IsPut(l, b, t, e) == b = FindBucket(l, e) /\ buckets' = Put(buckets, l, t, e)

\* What the three changes of the buckets do to the timers they hold.
BucketsNext ==
  /\ BucketsInv'
  /\ \A m \in Level : buckets'[m] \in [Slot(m) -> Seq(Timers)]
  /\ \A m \in Level : \A i \in Slot(m) : NoDup(buckets'[m][i])
Added(l, b, t) ==
  /\ b \in Slot(l)
  /\ \A m \in Level : \A i \in Slot(m) : \A u :
       u \in Elems(buckets'[m][i]) <=> u \in Elems(buckets[m][i]) \/ (u = t /\ m = l /\ i = b)
Removed(l, b, t) ==
  \A m \in Level : \A i \in Slot(m) : \A u :
    u \in Elems(buckets'[m][i]) <=> u \in Elems(buckets[m][i]) /\ ~(u = t /\ m = l /\ i = b)
Emptied(l, b) ==
  /\ b \in Slot(l)
  /\ \A m \in Level : \A i \in Slot(m) : \A u :
       u \in Elems(buckets'[m][i]) <=> u \in Elems(buckets[m][i]) /\ ~(m = l /\ i = b)

LEMMA PutHolds ==
  ASSUME TypeOK, BucketsInv, OnceInv, NEW l \in Level, NEW e \in Int, NEW t \in Timers, NEW b,
         IsPut(l, b, t, e), ~InBuckets(t)
  PROVE  BucketsNext /\ Added(l, b, t)
<1>0. b = FindBucket(l, e) /\ buckets' = Put(buckets, l, t, e)
  BY DEF IsPut
<1>1. PICK s \in Seq(Timers) : s = PushLast(buckets[l][b], t) /\ Replaced(l, b, s)
  BY <1>0, PutIs
<1>2. b \in Slot(l) /\ buckets[l][b] \in Seq(Timers)
  BY <1>0, PutIs
<1>5. t \notin Elems(buckets[l][b])
  BY <1>2 DEF InBuckets
<1>3. /\ BucketsInv'
      /\ \A m \in Level : buckets'[m] \in [Slot(m) -> Seq(Timers)]
      /\ buckets'[l][b] = s
      /\ \A m \in Level : \A i \in Slot(m) : (m # l \/ i # b) => buckets'[m][i] = buckets[m][i]
  BY <1>1, <1>2, BucketChange
<1>4. Elems(s) = Elems(buckets[l][b]) \cup {t} /\ NoDup(s)
  BY <1>1, <1>2, <1>5, PushElems DEF OnceInv
<1> QED
  BY <1>2, <1>3, <1>4 DEF OnceInv, BucketsNext, Added

LEMMA WithoutHolds ==
  ASSUME TypeOK, BucketsInv, OnceInv, NEW l \in Level, NEW e \in Int, NEW t \in Timers, NEW b,
         IsWithout(l, b, t, e)
  PROVE  BucketsNext /\ Removed(l, b, t)
<1>0. b = FindBucket(l, e) /\ buckets' = Without(buckets, l, t, e)
  BY DEF IsWithout
<1>1. PICK s \in Seq(Timers) : s = RemoveIf(buckets[l][b], t) /\ Replaced(l, b, s)
  BY <1>0, WithoutIs
<1>2. b \in Slot(l) /\ buckets[l][b] \in Seq(Timers)
  BY <1>0, WithoutIs
<1>3. /\ BucketsInv'
      /\ \A m \in Level : buckets'[m] \in [Slot(m) -> Seq(Timers)]
      /\ buckets'[l][b] = s
      /\ \A m \in Level : \A i \in Slot(m) : (m # l \/ i # b) => buckets'[m][i] = buckets[m][i]
  BY <1>1, <1>2, BucketChange
<1>4. Elems(s) = Elems(buckets[l][b]) \ {t} /\ NoDup(s)
  BY <1>1, <1>2, RemoveElems DEF OnceInv
<1> QED
  BY <1>2, <1>3, <1>4 DEF OnceInv, BucketsNext, Removed

LEMMA TakeHolds ==
  ASSUME TypeOK, BucketsInv, OnceInv, NEW l \in Level, NEW b, IsTake(l, b)
  PROVE  /\ BucketsNext /\ Emptied(l, b)
         /\ timers' \in Seq(Timers) /\ NoDup(timers') /\ timers' = buckets[l][b]
<1>1. PICK s \in Seq(Timers) : s = << >> /\ Replaced(l, b, s)
  <2>1. << >> \in Seq(Timers)
    OBVIOUS
  <2> QED
    BY <2>1 DEF IsTake, Take, Replaced
<1>2. b \in Slot(l) /\ buckets[l][b] \in Seq(Timers) /\ timers' = buckets[l][b]
  BY IndexIsSlot DEF IsTake, TypeOK, Slot, Take
<1>3. /\ BucketsInv'
      /\ \A m \in Level : buckets'[m] \in [Slot(m) -> Seq(Timers)]
      /\ buckets'[l][b] = s
      /\ \A m \in Level : \A i \in Slot(m) : (m # l \/ i # b) => buckets'[m][i] = buckets[m][i]
  BY <1>1, <1>2, BucketChange
<1>4. Elems(s) = {} /\ NoDup(s)
  BY <1>1 DEF Elems, NoDup
<1> QED
  BY <1>2, <1>3, <1>4 DEF OnceInv, BucketsNext, Emptied

-----------------------------------------------------------------------------
(* Where a timer is put.                                                    *)

LEMMA AddDue ==
  ASSUME TypeOK, ClockInv, NEW d \in Nat \ {0}, NEW l, l = FindWheel(d),
         NEW e, e = WheelTime(l) + d, e <= MaxTime
  PROVE  /\ l \in Level /\ e \in Nat
         /\ tick[l] + 1 <= e \div Resolution[l]
         /\ e \div Resolution[l] <= tick[l] + Sizes[l]
<1>0. d \in Int
  OBVIOUS
<1>1. l \in Level
  BY <1>0, FindWheelIs
<1>2. PICK r \in Nat \ {0}, s \in Nat \ {0}, a \in Nat :
        r = Resolution[l] /\ s = Sizes[l] /\ a = tick[l]
  BY <1>1, ResolutionDef, LevelIs DEF TypeOK
<1>3. a * r \in Nat /\ e = a * r + d
  BY <1>2 DEF WheelTime
<1>4. d < Resolution[Len(Sizes)] * Sizes[Len(Sizes)]
  <2>1. Len(Sizes) \in Level
    BY LevelIs DEF Level
  <2>2. PICK m \in Int : m = Resolution[Len(Sizes)] * Sizes[Len(Sizes)]
    BY <2>1, ResolutionDef, LevelIs
  <2>3. MaxTime < m /\ MaxTime \in Nat
    BY <2>2, WheelAssumption
  <2> QED
    BY <2>2, <2>3, <1>3
<1>5. 1 <= d \div r /\ d \div r < s
  BY <1>2, <1>4, DelayInWheel
<1>6. e \div r = a + d \div r
  <2>1. e \in Int /\ a \in Int /\ d \in Int /\ After(e, a, r, d)
    BY <1>3 DEF After
  <2> QED
    BY <2>1, DivShift
<1>7. d \div r \in Int
  BY <1>0, DivBounds
<1> QED
  BY <1>1, <1>2, <1>3, <1>5, <1>6, <1>7

LEMMA HandDue ==
  ASSUME TypeOK, ClockInv, level \in Level, NEW e \in Nat, Now + 1 < e,
         e \div Resolution[level] = tick[level] + 1, NEW l, l = FindWheel(e - RescheduleTime)
  PROVE  /\ l \in Level /\ l < level
         /\ tick[l] + 2 <= e \div Resolution[l]
         /\ e \div Resolution[l] <= tick[l] + Sizes[l]
<1>1. PICK now \in Nat, d \in Nat \ {0} : now = Now /\ d = e - (now + 1) /\ e = (now + 1) + d
  <2>1. Now \in Nat
    BY LevelIs DEF TypeOK, Now
  <2>2. e - (Now + 1) \in Nat \ {0} /\ e = (Now + 1) + (e - (Now + 1))
    BY <2>1
  <2> QED
    BY <2>1, <2>2
<1>2. d \in Int /\ l = FindWheel(d)
  BY <1>1 DEF RescheduleTime
<1>3. /\ l \in Level
      /\ l = 1 \/ Resolution[l] <= d
  BY <1>2, FindWheelIs
<1>4. PICK p \in Nat \ {0}, q \in Nat : p = Resolution[level] /\ q = tick[level]
  BY ResolutionDef DEF TypeOK
<1>5. (q + 1) * p = now + 1
  <2>1. level <= level
    BY LevelIs
  <2> QED
    BY <1>1, <1>4, <2>1 DEF ClockInv
<1>6. d < p
  <2>1. e \in Int
    OBVIOUS
  <2>2. e < (e \div p + 1) * p
    BY <2>1, DivBounds
  <2>3. (e \div p + 1) * p = (q + 1) * p + p
    <3>1. e \div p = q + 1
      BY <1>4
    <3>2. ((q + 1) + 1) * p = (q + 1) * p + p
      OBVIOUS
    <3> QED
      BY <3>1, <3>2
  <2> QED
    BY <2>2, <2>3, <1>1, <1>5
<1>7. l < level
  <2> SUFFICES ASSUME level <= l PROVE FALSE
    BY <1>3, LevelIs
  <2>1. PICK k \in Nat \ {0} : Resolution[l] = k * p
    BY <1>3, <1>4, Divides
  <2>2. p <= Resolution[l]
    <3>1. 1 * p <= k * p
      BY TimesPositive
    <3> QED
      BY <2>1, <3>1
  <2>3. l = 1
    BY <1>3, <1>4, <1>6, <2>2, ResolutionDef
  <2>4. p = 1
    BY <2>3, <1>4, LevelIs, ResolutionDef
  <2> QED
    BY <2>4, <1>6
<1>8. PICK r \in Nat \ {0}, s \in Nat \ {0}, a \in Nat :
        r = Resolution[l] /\ s = Sizes[l] /\ a = tick[l]
  BY <1>3, ResolutionDef, LevelIs DEF TypeOK
<1>9. (a + 1) * r = now + 1
  <2>1. l <= level
    BY <1>3, <1>7, LevelIs
  <2> QED
    BY <1>1, <1>3, <1>8, <2>1 DEF ClockInv
<1>10. e \div r = (a + 1) + d \div r
  <2>1. PICK k \in Int : k = a + 1
    OBVIOUS
  <2>2. e \in Int /\ d \in Int /\ k \in Int /\ r \in Nat \ {0} /\ After(e, k, r, d)
    BY <2>1, <1>1, <1>9 DEF After
  <2>3. e \div r = k + d \div r
    <3>1. Quotient(e, r) = k + Quotient(d, r)
      BY ONLY <2>2, QuotientShift
    <3> QED
      BY ONLY <3>1 DEF Quotient
  <2> QED
    BY <2>1, <2>3
<1>11. d < Resolution[Len(Sizes)] * Sizes[Len(Sizes)]
  <2>1. Len(Sizes) \in Level /\ level <= Len(Sizes)
    BY LevelIs DEF Level
  <2>2. PICK k \in Nat \ {0} : Resolution[Len(Sizes)] = k * p
    BY <2>1, <1>4, Divides
  <2>3. PICK m \in Nat \ {0} : m = k * Sizes[Len(Sizes)]
    BY <2>1, LevelIs
  <2>4. Resolution[Len(Sizes)] * Sizes[Len(Sizes)] = m * p
    BY <2>1, <2>2, <2>3, LevelIs
  <2>5. 1 * p <= m * p
    BY TimesPositive
  <2> QED
    BY <1>6, <2>4, <2>5
<1>12. 1 <= d \div r /\ d \div r < s
  BY <1>2, <1>8, <1>11, DelayInWheel
<1>13. d \div r \in Int
  BY <1>2, DivBounds
<1> QED
  BY <1>3, <1>7, <1>8, <1>10, <1>12, <1>13

-----------------------------------------------------------------------------
(* The timers in the wheels, step by step.                                  *)

LEMMA HeldIs ==
  ASSUME NEW bs, NEW ts \in Seq(Timers), NEW t,
         \A l \in Level : bs[l] \in [Slot(l) -> Seq(Timers)]
  PROVE  /\ (\E l \in Level : \E i \in DOMAIN bs[l] : t \in {bs[l][i][k] : k \in DOMAIN bs[l][i]})
              <=> \E l \in Level : \E i \in Slot(l) : t \in Elems(bs[l][i])
         /\ t \in {ts[k] : k \in DOMAIN ts} <=> t \in Elems(ts)
<1>1. \A s \in Seq(Timers) : DOMAIN s = 1..Len(s)
  OBVIOUS
<1>2. \A l \in Level : DOMAIN bs[l] = Slot(l) /\ \A i \in Slot(l) : bs[l][i] \in Seq(Timers)
  OBVIOUS
<1> QED
  BY <1>1, <1>2 DEF Elems

\* A timer is held by a bucket or by the tick in progress.
InWheels(t) == (\E l \in Level : \E i \in Slot(l) : t \in Elems(buckets[l][i])) \/ t \in Elems(timers)

LEMMA HeldNow == TypeOK => \A t : Held(t) <=> InWheels(t)
<1> SUFFICES ASSUME TypeOK, NEW t PROVE Held(t) <=> InWheels(t)
  OBVIOUS
<1>1. \A l \in Level : buckets[l] \in [Slot(l) -> Seq(Timers)]
  BY DEF TypeOK, Slot
<1>2. timers \in Seq(Timers)
  BY DEF TypeOK
<1> QED
  BY <1>1, <1>2, HeldIs DEF Held, InWheels

LEMMA HeldNext == TypeOK' => \A t : Held(t)' <=> InWheels(t)'
<1> SUFFICES ASSUME TypeOK', NEW CONSTANT t PROVE Held(t)' <=> InWheels(t)'
  OBVIOUS
<1>1. \A l \in Level : buckets'[l] \in [Slot(l) -> Seq(Timers)]
  BY DEF TypeOK, Slot
<1>2. timers' \in Seq(Timers)
  BY DEF TypeOK
<1> QED
  BY <1>1, <1>2, HeldIs DEF Held, InWheels

\* What a step must show of the wheels.
WheelInv ==
  /\ TypeOK /\ BucketsInv /\ FdInv /\ BucketInv /\ TakenInv /\ OnceInv /\ HeldInv

LEMMA LenMod ==
  ASSUME NEW n \in Int
  PROVE  n % LenModulus \in 0..(LenModulus - 1)
BY ModIs, WheelAssumption

LEMMA LenUpType ==
  ASSUME TypeOK, TimerLenUp
  PROVE  timer_len' \in 0..(LenModulus - 1) /\ armed' \in BOOLEAN /\ timer_fd' \in 0..MaxExpirations
<1>1. timer_len + 1 \in Int /\ timer_len' = (timer_len + 1) % LenModulus
  BY WheelAssumption DEF TypeOK, TimerLenUp
<1>2. timer_len' \in 0..(LenModulus - 1)
  BY <1>1, LenMod
<1>3. 0 \in 0..MaxExpirations /\ armed \in BOOLEAN /\ timer_fd \in 0..MaxExpirations
  BY WheelAssumption DEF TypeOK
<1>4. (armed' = TRUE /\ timer_fd' = 0) \/ (armed' = armed /\ timer_fd' = timer_fd)
  BY DEF TimerLenUp, SetTime, fdVars, AddSets
<1>5. armed' \in BOOLEAN
  BY <1>3, <1>4
<1>6. timer_fd' \in 0..MaxExpirations
  BY <1>3, <1>4
<1> QED
  BY <1>2, <1>5, <1>6

LEMMA LenDownType ==
  ASSUME TypeOK, TimerLenDown
  PROVE  timer_len' \in 0..(LenModulus - 1) /\ armed' \in BOOLEAN /\ timer_fd' \in 0..MaxExpirations
<1>1. /\ timer_len + LenModulus - 1 \in Int
      /\ timer_len' = (timer_len + LenModulus - 1) % LenModulus
  BY WheelAssumption DEF TypeOK, TimerLenDown
<1>2. timer_len' \in 0..(LenModulus - 1)
  BY <1>1, LenMod
<1>3. 0 \in 0..MaxExpirations /\ armed \in BOOLEAN /\ timer_fd \in 0..MaxExpirations
  BY WheelAssumption DEF TypeOK
<1>4. (armed' = FALSE /\ timer_fd' = 0) \/ (armed' = armed /\ timer_fd' = timer_fd)
  BY DEF TimerLenDown, SetTime, fdVars
<1>5. armed' \in BOOLEAN
  BY <1>3, <1>4
<1>6. timer_fd' \in 0..MaxExpirations
  BY <1>3, <1>4
<1> QED
  BY <1>2, <1>5, <1>6

LEMMA FieldsIn ==
  ASSUME TypeOK
  PROVE  /\ tick \in [Level -> Nat]
         /\ timer_len \in Nat /\ timer_fd \in Nat /\ expirations \in Nat
         /\ armed \in BOOLEAN /\ reported \in BOOLEAN
         /\ state \in [Timers -> {"unused", "pending", "fired", "aborted"}]
         /\ level > 0 => level \in Level /\ 1 <= level
<1>1. /\ timer_len \in 0..(LenModulus - 1) /\ timer_fd \in 0..MaxExpirations
      /\ expirations \in 0..MaxExpirations
  BY DEF TypeOK
<1>2. timer_len \in Nat /\ timer_fd \in Nat /\ expirations \in Nat
  BY <1>1, ConstantsAre
<1>3. level \in Level \cup {0}
  BY DEF TypeOK
<1>4. level > 0 => level \in Level /\ 1 <= level
  BY <1>3, LevelIs
<1> QED
  BY <1>2, <1>4 DEF TypeOK

LEMMA TimersIn ==
  ASSUME TypeOK
  PROVE  /\ \A l \in Level : \A i \in Slot(l) : Elems(buckets[l][i]) \subseteq Timers
         /\ Elems(timers) \subseteq Timers
         /\ Now \in Nat
<1>1. \A s \in Seq(Timers) : Elems(s) \subseteq Timers
  BY DEF Elems
<1>2. \A l \in Level : \A i \in Slot(l) : buckets[l][i] \in Seq(Timers)
  BY DEF TypeOK, Slot
<1>3. timers \in Seq(Timers)
  BY DEF TypeOK
<1>4. Now \in Nat
  BY LevelIs DEF TypeOK, Now
<1> QED
  BY <1>1, <1>2, <1>3, <1>4

\* The invariants of the next state, spelt out.
LEMMA BucketNext ==
  ASSUME \A l \in Level : \A i \in Slot(l) : \A u \in Elems(buckets'[l][i]) :
           /\ (expiry'[u] \div Resolution[l]) % Sizes[l] = i
           /\ (IF l <= level' THEN tick'[l] + 2 ELSE tick'[l] + 1) <= expiry'[u] \div Resolution[l]
           /\ expiry'[u] \div Resolution[l] <= tick'[l] + Sizes[l]
  PROVE  BucketInv'
BY DEF BucketInv, Due

LEMMA OnceNext ==
  ASSUME NoDup(timers'),
         \A l \in Level : \A i \in Slot(l) : NoDup(buckets'[l][i]),
         \A l \in Level : \A i \in Slot(l) : \A u \in Elems(buckets'[l][i]) : u \notin Elems(timers'),
         \A l \in Level : \A i \in Slot(l) : \A m \in Level : \A j \in Slot(m) :
           \A u \in Elems(buckets'[l][i]) : u \in Elems(buckets'[m][j]) => m = l /\ j = i
  PROVE  OnceInv'
BY DEF OnceInv

LEMMA NoElems == Elems(<< >>) = {} /\ NoDup(<< >>)
BY DEF Elems, NoDup

LEMMA AddTimerWheels ==
  ASSUME WheelInv, ClockInv, NEW t \in Timers, NEW d \in Delays, AddTimer(t, d)
  PROVE  WheelInv'
<1>0. TypeOK /\ BucketsInv /\ OnceInv /\ d \in Nat \ {0} /\ d \in Int
  BY WheelAssumption DEF WheelInv, AddTimer
<1>1. PICK l \in Level, e \in Int : l = FindWheel(d) /\ e = WheelTime(l) + d
  <2>1. FindWheel(d) \in Level
    BY <1>0, FindWheelIs
  <2>2. tick[FindWheel(d)] \in Int /\ Resolution[FindWheel(d)] \in Int
    BY <1>0, <2>1, ResolutionDef DEF TypeOK
  <2>3. WheelTime(FindWheel(d)) + d \in Int
    BY <1>0, <2>2 DEF WheelTime
  <2> QED
    BY <2>1, <2>3
<1>2. /\ e <= MaxTime
      /\ buckets' = Put(buckets, l, t, e)
      /\ expiry' = [expiry EXCEPT ![t] = e]
  BY <1>1 DEF AddTimer
<1>3. /\ l \in Level /\ e \in Nat
      /\ tick[l] + 1 <= e \div Resolution[l]
      /\ e \div Resolution[l] <= tick[l] + Sizes[l]
  BY <1>0, <1>1, <1>2, AddDue
<1>4. PICK b : b = FindBucket(l, e)
  OBVIOUS
<1>5. state[t] = "unused" /\ ~InWheels(t)
  BY HeldNow DEF WheelInv, HeldInv, AddTimer
<1>6. /\ state' = [state EXCEPT ![t] = "pending"]
      /\ start' = [start EXCEPT ![t] = Now] /\ delay' = [delay EXCEPT ![t] = d]
      /\ tick' = tick /\ reported' = reported /\ expirations' = expirations /\ firedAt' = firedAt
      /\ level = 0 /\ timers = << >> /\ level' = 0 /\ timers' = << >>
      /\ TimerLenUp
  BY DEF AddTimer, BetweenTicks, tickVars, WheelInv, FdInv
<1>7. ~InBuckets(t)
  BY <1>5 DEF InWheels, InBuckets
<1>8. e \in Int /\ IsPut(l, b, t, e)
  BY <1>2, <1>3, <1>4 DEF IsPut
<1>17. BucketsNext /\ Added(l, b, t)
  BY <1>0, <1>7, <1>8, PutHolds
<1>9. /\ BucketsInv' /\ b \in Slot(l)
      /\ \A m \in Level : buckets'[m] \in [Slot(m) -> Seq(Timers)]
      /\ \A m \in Level : \A i \in Slot(m) : NoDup(buckets'[m][i])
      /\ \A m \in Level : \A i \in Slot(m) : \A u :
           u \in Elems(buckets'[m][i]) <=> u \in Elems(buckets[m][i]) \/ (u = t /\ m = l /\ i = b)
  BY <1>17 DEF BucketsNext, Added
<1>10. b = (e \div Resolution[l]) % Sizes[l]
  BY <1>0, <1>3, <1>4, <1>8, FindBucketIs
<1>11. /\ expiry \in [Timers -> Nat] /\ expiry' \in [Timers -> Nat] /\ expiry'[t] = e
       /\ \A u \in Timers : u # t => expiry'[u] = expiry[u]
  BY <1>0, <1>2, <1>3 DEF TypeOK
<1>12. TypeOK'
  <2>1. /\ state' \in [Timers -> {"unused", "pending", "fired", "aborted"}]
        /\ expiry' \in [Timers -> Nat] /\ start' \in [Timers -> Nat]
        /\ delay' \in [Timers -> Nat] /\ firedAt' \in [Timers -> Nat]
    BY <1>0, <1>6, <1>11, TimersIn DEF TypeOK
  <2> QED
    BY <1>0, <1>6, <1>9, <2>1, LenUpType DEF TypeOK, Slot
<1>13. FdInv'
  BY <1>6 DEF FdInv, WheelInv, TimerLenUp, SetTime, fdVars, AddSets
<1>14. BucketInv'
  <2> SUFFICES ASSUME NEW m \in Level, NEW i \in Slot(m), NEW u \in Elems(buckets'[m][i])
               PROVE  /\ (expiry'[u] \div Resolution[m]) % Sizes[m] = i
                      /\ tick[m] + 1 <= expiry'[u] \div Resolution[m]
                      /\ expiry'[u] \div Resolution[m] <= tick[m] + Sizes[m]
    <3>1. \A m \in Level : ~(m <= level')
      BY <1>6, LevelPositive
    <3> QED
      BY <3>1, <1>6, BucketNext
  <2>1. CASE u \in Elems(buckets[m][i])
    <3>1. u # t /\ expiry'[u] = expiry[u]
      BY <1>0, <1>7, <1>11, <2>1, TimersIn DEF InBuckets
    <3>2. ~(m <= level)
      BY <1>6, LevelPositive
    <3> QED
      BY <2>1, <3>1, <3>2 DEF WheelInv, BucketInv, Due
  <2>2. CASE u = t /\ m = l /\ i = b
    BY <2>2, <1>3, <1>10, <1>11
  <2> QED
    BY <1>9, <2>1, <2>2
<1>15. TakenInv' /\ OnceInv'
  <2>1. Elems(timers') = {} /\ NoDup(timers')
    BY <1>6, NoElems
  <2>2. TakenInv'
    BY <2>1 DEF TakenInv
  <2>3. ASSUME NEW m \in Level, NEW i \in Slot(m), NEW n \in Level, NEW j \in Slot(n),
               NEW u \in Elems(buckets'[m][i]), u \in Elems(buckets'[n][j])
        PROVE  n = m /\ j = i
    <3>1. u \in Elems(buckets[m][i]) \/ (u = t /\ m = l /\ i = b)
      BY <1>9
    <3>2. u \in Elems(buckets[n][j]) \/ (u = t /\ n = l /\ j = b)
      BY <1>9, <2>3
    <3>3. u = t => u \notin Elems(buckets[m][i]) /\ u \notin Elems(buckets[n][j])
      BY <1>7 DEF InBuckets
    <3> QED
      BY <3>1, <3>2, <3>3, <1>0 DEF OnceInv
  <2> QED
    BY <2>1, <2>2, <2>3, <1>9, OnceNext
<1>16. HeldInv'
  <2>1. \A u : InWheels(u)' <=> InWheels(u) \/ u = t
    BY <1>3, <1>6, <1>9 DEF InWheels
  <2>2. state'[t] = "pending" /\ \A u \in Timers : u # t => state'[u] = state[u]
    BY <1>0, <1>6 DEF TypeOK
  <2>3. \A u \in Timers : /\ state[u] = "pending" => InWheels(u)
                          /\ InWheels(u) => state[u] \in {"pending", "aborted"}
    BY HeldNow DEF WheelInv, HeldInv
  <2> QED
    BY <2>1, <2>2, <2>3, <1>12, HeldNext DEF HeldInv
<1> QED
  BY <1>9, <1>12, <1>13, <1>14, <1>15, <1>16 DEF WheelInv

\* The timers held are those of the next state.
LEMMA HeldAfter ==
  ASSUME TypeOK',
         \A u \in Timers : /\ state'[u] = "pending" => InWheels(u)'
                           /\ InWheels(u)' => state'[u] \in {"pending", "aborted"}
  PROVE  HeldInv'
BY HeldNext DEF HeldInv

LEMMA HeldBefore ==
  ASSUME WheelInv
  PROVE  \A u \in Timers : /\ state[u] = "pending" => InWheels(u)
                           /\ InWheels(u) => state[u] \in {"pending", "aborted"}
BY HeldNow DEF WheelInv, HeldInv

\* Steps that leave the wheels alone.
LEMMA SameWheels ==
  ASSUME WheelInv, TypeOK', FdInv', UNCHANGED <<tick, buckets, level, timers>>,
         \A u \in Timers : InWheels(u) => expiry'[u] = expiry[u],
         \A u \in Timers : /\ state'[u] = "pending" => InWheels(u)
                           /\ InWheels(u) => state'[u] \in {"pending", "aborted"}
  PROVE  WheelInv'
<1>1. TypeOK
  BY DEF WheelInv
<1>2. BucketInv'
  <2>1. \A l \in Level : \A i \in Slot(l) : \A u \in Elems(buckets[l][i]) : expiry'[u] = expiry[u]
    BY <1>1, TimersIn DEF InWheels
  <2> QED
    BY <2>1, BucketNext DEF WheelInv, BucketInv, Due
<1>3. TakenInv'
  <2>1. \A u \in Elems(timers) : expiry'[u] = expiry[u]
    BY <1>1, TimersIn DEF InWheels
  <2> QED
    BY <2>1 DEF WheelInv, TakenInv, Due
<1>4. OnceInv' /\ BucketsInv'
  BY DEF OnceInv, BucketsInv, WheelInv
<1>5. \A u : InWheels(u)' <=> InWheels(u)
  BY DEF InWheels
<1>6. HeldInv'
  BY <1>5, HeldAfter
<1> QED
  BY <1>2, <1>3, <1>4, <1>6 DEF WheelInv

LEMMA AddExpiredWheels ==
  ASSUME WheelInv, NEW t \in Timers, AddExpired(t)
  PROVE  WheelInv'
<1>0. TypeOK
  BY DEF WheelInv
<1>1. /\ state[t] = "unused" /\ ~InWheels(t)
  BY HeldBefore DEF AddExpired
<1>2. /\ state' = [state EXCEPT ![t] = "fired"]
      /\ expiry' = [expiry EXCEPT ![t] = Now] /\ start' = [start EXCEPT ![t] = Now]
      /\ firedAt' = [firedAt EXCEPT ![t] = Now] /\ delay' = delay
      /\ UNCHANGED <<tick, buckets, timer_len, armed, timer_fd, reported, expirations, level, timers>>
  BY DEF AddExpired, wheelVars, fdVars, tickVars
<1>3. /\ state' \in [Timers -> {"unused", "pending", "fired", "aborted"}]
      /\ expiry' \in [Timers -> Nat] /\ start' \in [Timers -> Nat]
      /\ delay' \in [Timers -> Nat] /\ firedAt' \in [Timers -> Nat]
  BY <1>0, <1>2, TimersIn DEF TypeOK
<1>4. TypeOK'
  BY <1>0, <1>2, <1>3 DEF TypeOK
<1>5. FdInv'
  BY <1>2 DEF FdInv, WheelInv
<1>6. \A u \in Timers : u # t => expiry'[u] = expiry[u] /\ state'[u] = state[u]
  BY <1>0, <1>2 DEF TypeOK
<1>7. state'[t] = "fired"
  BY <1>0, <1>2 DEF TypeOK
<1> QED
  BY <1>1, <1>2, <1>4, <1>5, <1>6, <1>7, HeldBefore, SameWheels

LEMMA FdWheels ==
  ASSUME WheelInv, Expire \/ Report \/ ReadTimerFd \/ UNCHANGED vars
  PROVE  WheelInv'
<1>0. TypeOK /\ FdInv
  BY DEF WheelInv
<1>1. /\ UNCHANGED <<tick, buckets, timer_len, armed, level, timers>>
      /\ UNCHANGED <<expiry, state, start, delay, firedAt>>
  BY DEF Expire, Report, ReadTimerFd, vars, wheelVars, fdVars, tickVars, timerVars
<1>2. /\ timer_fd' \in 0..MaxExpirations /\ expirations' \in 0..MaxExpirations /\ reported' \in BOOLEAN
      /\ FdInv'
  <2>1. CASE Expire
    <3>1. timer_fd' = timer_fd + 1 /\ timer_fd < MaxExpirations /\ armed /\ UNCHANGED <<reported, expirations>>
      BY <2>1 DEF Expire, tickVars
    <3>2. timer_fd' \in 0..MaxExpirations
      BY <3>1, <1>0, WheelAssumption DEF TypeOK
    <3>3. expirations' \in 0..MaxExpirations /\ reported' \in BOOLEAN
      BY <3>1, <1>0 DEF TypeOK
    <3>4. FdInv'
      BY <3>1, <1>0, <1>1 DEF FdInv
    <3> QED
      BY <3>2, <3>3, <3>4
  <2>2. CASE Report
    <3>1. UNCHANGED <<timer_fd, expirations>> /\ reported' = TRUE /\ level = 0 /\ expirations = 0
      BY <2>2 DEF Report, fdVars, tickVars, BetweenTicks
    <3>2. FdInv'
      BY <3>1, <1>0, <1>1 DEF FdInv
    <3> QED
      BY <3>1, <3>2, <1>0 DEF TypeOK
  <2>3. CASE ReadTimerFd
    <3>1. timer_fd' = 0 /\ expirations' = timer_fd /\ reported' = FALSE /\ reported
      BY <2>3 DEF ReadTimerFd
    <3>2. FdInv'
      BY <3>1, <1>0, <1>1 DEF FdInv
    <3>3. timer_fd' \in 0..MaxExpirations
      BY <3>1, WheelAssumption
    <3> QED
      BY <3>1, <3>2, <3>3, <1>0 DEF TypeOK
  <2>4. CASE UNCHANGED vars
    <3>1. UNCHANGED <<timer_fd, expirations, reported>>
      BY <2>4 DEF vars, fdVars, tickVars
    <3>2. FdInv'
      BY <3>1, <1>0, <1>1 DEF FdInv
    <3> QED
      BY <3>1, <3>2, <1>0 DEF TypeOK
  <2> QED
    BY <2>1, <2>2, <2>3, <2>4
<1>3. TypeOK'
  BY <1>0, <1>1, <1>2 DEF TypeOK
<1> QED
  BY <1>1, <1>2, <1>3, HeldBefore, SameWheels

\* Timers leave the buckets, and nothing else of the wheels changes.
LEMMA FewerInBuckets ==
  ASSUME WheelInv, UNCHANGED <<tick, expiry, level, timers>>,
         \A m \in Level : \A i \in Slot(m) : NoDup(buckets'[m][i]),
         \A m \in Level : \A i \in Slot(m) : \A u :
           u \in Elems(buckets'[m][i]) => u \in Elems(buckets[m][i])
  PROVE  BucketInv' /\ TakenInv' /\ OnceInv'
<1>1. BucketInv'
  BY BucketNext DEF WheelInv, BucketInv, Due
<1>2. TakenInv'
  BY DEF WheelInv, TakenInv, Due
<1>3. OnceInv'
  <2>0. OnceInv
    BY DEF WheelInv
  <2>1. ASSUME NEW m \in Level, NEW i \in Slot(m), NEW u \in Elems(buckets'[m][i])
        PROVE  u \notin Elems(timers')
    BY <2>0 DEF OnceInv
  <2>2. ASSUME NEW m \in Level, NEW i \in Slot(m), NEW k \in Level, NEW j \in Slot(k),
               NEW u \in Elems(buckets'[m][i]), u \in Elems(buckets'[k][j])
        PROVE  k = m /\ j = i
    <3>1. u \in Elems(buckets[m][i]) /\ u \in Elems(buckets[k][j])
      BY <2>2
    <3> QED
      BY <3>1, <2>0 DEF OnceInv
  <2>3. NoDup(timers')
    BY <2>0 DEF OnceInv
  <2> QED
    BY <2>1, <2>2, <2>3, OnceNext
<1> QED
  BY <1>1, <1>2, <1>3

LEMMA AbortTimerWheels ==
  ASSUME WheelInv, NEW t \in Timers, AbortTimer(t)
  PROVE  WheelInv'
<1>0. TypeOK /\ BucketsInv /\ OnceInv
  BY DEF WheelInv
<1>1. PICK l \in Level, e \in Int : /\ e = expiry[t]
                                   /\ buckets' = Without(buckets, l, t, e)
  <2>0. expiry[t] \in Nat /\ Now \in Nat
    BY <1>0, TimersIn DEF TypeOK
  <2>1. expiry[t] \in Int /\ expiry[t] - Now \in Int
    BY <2>0
  <2>2. FindWheel(expiry[t] - Now) \in Level
    BY <2>1, FindWheelIs
  <2> QED
    BY <2>1, <2>2 DEF AbortTimer
<1>2. PICK b : IsWithout(l, b, t, e)
  BY <1>1 DEF IsWithout
<1>3. BucketsNext /\ Removed(l, b, t)
  BY <1>0, <1>2, WithoutHolds
<1>4. /\ BucketsInv'
      /\ \A m \in Level : buckets'[m] \in [Slot(m) -> Seq(Timers)]
      /\ \A m \in Level : \A i \in Slot(m) : NoDup(buckets'[m][i])
      /\ \A m \in Level : \A i \in Slot(m) : \A u :
           /\ u \in Elems(buckets'[m][i]) => u \in Elems(buckets[m][i])
           /\ u # t /\ u \in Elems(buckets[m][i]) => u \in Elems(buckets'[m][i])
  BY <1>3 DEF BucketsNext, Removed
<1>5. /\ state[t] = "pending" /\ state' = [state EXCEPT ![t] = "aborted"]
      /\ level = 0 /\ timers = << >>
      /\ UNCHANGED <<tick, reported, expirations, level, timers, expiry, start, delay, firedAt>>
      /\ TimerLenDown
  BY DEF AbortTimer, BetweenTicks, tickVars, WheelInv, FdInv
<1>6. state' \in [Timers -> {"unused", "pending", "fired", "aborted"}]
  BY <1>0, <1>5 DEF TypeOK
<1>7. TypeOK'
  BY <1>0, <1>4, <1>5, <1>6, LenDownType DEF TypeOK, Slot
<1>8. FdInv'
  BY <1>5 DEF FdInv, WheelInv, TimerLenDown, SetTime, fdVars
<1>9. BucketInv' /\ TakenInv' /\ OnceInv'
  BY <1>4, <1>5, FewerInBuckets
<1>10. HeldInv'
  <2>1. \A u : /\ InWheels(u)' => InWheels(u)
               /\ u # t /\ InWheels(u) => InWheels(u)'
    BY <1>4, <1>5 DEF InWheels
  <2>2. state'[t] = "aborted" /\ \A u \in Timers : u # t => state'[u] = state[u]
    BY <1>0, <1>5 DEF TypeOK
  <2> QED
    BY <2>1, <2>2, <1>7, HeldBefore, HeldAfter
<1> QED
  BY <1>4, <1>7, <1>8, <1>9, <1>10 DEF WheelInv

\* A wheel ticks: the bucket it takes holds the timers that are due in this
\* tick and no others.
LEMMA TakeWheels ==
  ASSUME WheelInv, NEW l \in Level, l = level + 1, timers = << >>, expirations > 0, ~reported, Take(l),
         UNCHANGED <<tick, timer_len, fdVars, reported, expirations, timerVars>>
  PROVE  WheelInv'
<1>0. TypeOK /\ BucketsInv /\ OnceInv
  BY DEF WheelInv
<1>1. PICK b : IsTake(l, b)
  BY DEF IsTake
<1>2. /\ BucketsNext /\ Emptied(l, b)
      /\ timers' \in Seq(Timers) /\ NoDup(timers') /\ timers' = buckets[l][b]
  BY <1>0, <1>1, TakeHolds
<1>3. /\ BucketsInv' /\ b \in Slot(l)
      /\ \A m \in Level : buckets'[m] \in [Slot(m) -> Seq(Timers)]
      /\ \A m \in Level : \A i \in Slot(m) : NoDup(buckets'[m][i])
      /\ \A m \in Level : \A i \in Slot(m) : \A u :
           u \in Elems(buckets'[m][i]) <=> u \in Elems(buckets[m][i]) /\ ~(m = l /\ i = b)
  BY <1>2 DEF BucketsNext, Emptied
<1>4. /\ level' = l
      /\ UNCHANGED <<tick, timer_len, armed, timer_fd, reported, expirations>>
      /\ UNCHANGED <<expiry, state, start, delay, firedAt>>
  BY DEF Take, fdVars, timerVars
<1>5. PICK a \in Int, n \in Nat \ {0} : a = tick[l] + 1 /\ n = Sizes[l] /\ b = a % n
  <2>1. tick[l] + 1 \in Int /\ Sizes[l] \in Nat \ {0}
    BY <1>0, LevelIs DEF TypeOK
  <2> QED
    BY <2>1, <1>1 DEF IsTake, NextIndex
<1>6. \A u \in Timers : \A m \in Level : expiry[u] \div Resolution[m] \in Int
  <2>1. \A u \in Timers : expiry[u] \in Int
    BY <1>0 DEF TypeOK
  <2>2. \A m \in Level : Resolution[m] \in Nat \ {0}
    BY ResolutionDef
  <2> QED
    BY <2>1, <2>2, DivBounds
<1>7. ~(l <= level) /\ \A m \in Level : m <= l => m <= level \/ m = l
  BY <1>0, LevelIs DEF TypeOK
<1>8. TypeOK'
  BY <1>0, <1>2, <1>3, <1>4 DEF TypeOK, Slot
<1>9. FdInv'
  BY <1>4, LevelPositive DEF WheelInv, FdInv
<1>10. BucketInv'
  <2> SUFFICES ASSUME NEW m \in Level, NEW i \in Slot(m), NEW u \in Elems(buckets'[m][i])
               PROVE  /\ (expiry[u] \div Resolution[m]) % Sizes[m] = i
                      /\ (IF m <= l THEN tick[m] + 2 ELSE tick[m] + 1) <= expiry[u] \div Resolution[m]
                      /\ expiry[u] \div Resolution[m] <= tick[m] + Sizes[m]
    BY <1>4, BucketNext
  <2>1. /\ u \in Elems(buckets[m][i]) /\ ~(m = l /\ i = b)
        /\ u \in Timers
    BY <1>0, <1>3, TimersIn
  <2>2. PICK due \in Int, k \in Int : due = expiry[u] \div Resolution[m] /\ k = tick[m]
    BY <1>0, <1>6, <2>1 DEF TypeOK
  <2>3. /\ due % Sizes[m] = i
        /\ IF m <= level THEN k + 2 <= due ELSE k + 1 <= due
        /\ due <= k + Sizes[m]
    BY <2>1, <2>2 DEF WheelInv, BucketInv, Due
  <2>4. CASE m = l
    <3>1. due # a
      BY <2>1, <2>3, <2>4, <1>5
    <3>2. k + 2 <= due
      BY <3>1, <2>2, <2>3, <2>4, <1>5, <1>7
    <3> QED
      BY <3>2, <2>2, <2>3
  <2>5. CASE m # l
    BY <2>2, <2>3, <2>5, <1>7
  <2> QED
    BY <2>4, <2>5
<1>11. TakenInv'
  <2> SUFFICES ASSUME NEW u \in Elems(buckets[l][b])
               PROVE  expiry[u] \div Resolution[l] = tick[l] + 1
    BY <1>2, <1>4 DEF TakenInv, Due
  <2>1. u \in Timers
    BY <1>0, <1>3, TimersIn
  <2>2. PICK due \in Int : due = expiry[u] \div Resolution[l]
    BY <1>6, <2>1
  <2>3. due % n = b /\ a <= due /\ due <= tick[l] + n
    BY <1>3, <1>5, <1>7, <2>2 DEF WheelInv, BucketInv, Due
  <2>4. a % n = due % n /\ due < a + n /\ tick[l] \in Int
    BY <1>0, <1>5, <2>3 DEF TypeOK
  <2> QED
    BY <2>2, <2>3, <2>4, <1>5, ModWindow
<1>12. OnceInv'
  <2>1. ASSUME NEW m \in Level, NEW i \in Slot(m), NEW u \in Elems(buckets'[m][i])
        PROVE  u \notin Elems(timers')
    <3>1. u \in Elems(buckets[m][i]) /\ ~(m = l /\ i = b)
      BY <1>3
    <3>2. u \notin Elems(buckets[l][b])
      BY <3>1, <1>0, <1>3 DEF OnceInv
    <3> QED
      BY <3>2, <1>2
  <2>2. ASSUME NEW m \in Level, NEW i \in Slot(m), NEW k \in Level, NEW j \in Slot(k),
               NEW u \in Elems(buckets'[m][i]), u \in Elems(buckets'[k][j])
        PROVE  k = m /\ j = i
    <3>1. u \in Elems(buckets[m][i]) /\ u \in Elems(buckets[k][j])
      BY <2>2, <1>3
    <3> QED
      BY <3>1, <1>0 DEF OnceInv
  <2> QED
    BY <2>1, <2>2, <1>2, <1>3, OnceNext
<1>13. HeldInv'
  <2>1. Elems(timers) = {}
    BY NoElems
  <2>2. ASSUME NEW u PROVE InWheels(u)' <=> InWheels(u)
    BY <2>1, <1>2, <1>3 DEF InWheels
  <2> QED
    BY <2>2, <1>4, <1>8, HeldBefore, HeldAfter
<1> QED
  BY <1>3, <1>8, <1>9, <1>10, <1>11, <1>12, <1>13 DEF WheelInv

\* The timer that is seen leaves the bucket that was taken.
LEMMA HeadLeaves ==
  ASSUME WheelInv, timers # << >>, NEW t, t = Head(timers), timers' = Tail(timers)
  PROVE  /\ t \in Timers /\ t \in Elems(timers) /\ ~InBuckets(t) /\ t \notin Elems(timers')
         /\ timers' \in Seq(Timers) /\ NoDup(timers')
         /\ Elems(timers) = Elems(timers') \cup {t}
<1>1. timers \in Seq(Timers) /\ NoDup(timers)
  BY DEF WheelInv, TypeOK, OnceInv
<1>2. /\ t \in Timers /\ t \in Elems(timers) /\ t \notin Elems(timers')
      /\ timers' \in Seq(Timers) /\ NoDup(timers')
      /\ Elems(timers) = Elems(timers') \cup {t}
  BY <1>1, TailElems
<1> QED
  BY <1>2 DEF WheelInv, OnceInv, InBuckets

LEMMA FireWheels ==
  ASSUME WheelInv, Fire
  PROVE  WheelInv'
<1>0. TypeOK
  BY DEF WheelInv
<1>1. PICK t : t = Head(timers)
  OBVIOUS
<1>2. /\ timers # << >> /\ timers' = Tail(timers) /\ level > 0
      /\ state' = [state EXCEPT ![t] = IF @ = "pending" THEN "fired" ELSE @]
      /\ firedAt' = [firedAt EXCEPT ![t] = Now + 1]
      /\ UNCHANGED <<tick, buckets, reported, expirations, level, expiry, start, delay>>
      /\ TimerLenDown
  BY <1>1 DEF Fire
<1>3. /\ t \in Timers /\ t \in Elems(timers) /\ ~InBuckets(t) /\ t \notin Elems(timers')
      /\ timers' \in Seq(Timers) /\ NoDup(timers')
      /\ Elems(timers) = Elems(timers') \cup {t}
  BY <1>1, <1>2, HeadLeaves
<1>4. /\ state' \in [Timers -> {"unused", "pending", "fired", "aborted"}]
      /\ firedAt' \in [Timers -> Nat]
  <2>1. Now + 1 \in Nat /\ firedAt \in [Timers -> Nat]
    BY <1>0, TimersIn DEF TypeOK
  <2>2. firedAt' \in [Timers -> Nat]
    BY <1>2, <2>1
  <2>3. state \in [Timers -> {"unused", "pending", "fired", "aborted"}]
    BY <1>0 DEF TypeOK
  <2>4. state' \in [Timers -> {"unused", "pending", "fired", "aborted"}]
    BY <1>2, <1>3, <2>3
  <2> QED
    BY <2>2, <2>4
<1>5. TypeOK'
  <2>1. timer_len' \in 0..(LenModulus - 1) /\ armed' \in BOOLEAN /\ timer_fd' \in 0..MaxExpirations
    BY <1>0, <1>2, LenDownType
  <2>2. UNCHANGED <<tick, buckets, reported, expirations, level, expiry, start, delay>>
    BY <1>2
  <2> QED
    BY <1>0, <1>3, <1>4, <2>1, <2>2 DEF TypeOK
<1>6. FdInv'
  BY <1>0, <1>2 DEF TypeOK, FdInv, WheelInv, TimerLenDown, SetTime, fdVars
<1>7. BucketsInv' /\ BucketInv'
  <2>1. BucketsInv'
    BY <1>2 DEF WheelInv, BucketsInv
  <2> QED
    BY <2>1, <1>2, BucketNext DEF WheelInv, BucketInv, Due
<1>8. TakenInv'
  BY <1>2, <1>3 DEF WheelInv, TakenInv, Due
<1>9. OnceInv'
  <2>1. OnceInv
    BY DEF WheelInv
  <2>2. ASSUME NEW m \in Level, NEW i \in Slot(m), NEW u \in Elems(buckets[m][i])
        PROVE  /\ NoDup(buckets[m][i])
               /\ u \notin Elems(timers')
               /\ \A k \in Level : \A j \in Slot(k) : u \in Elems(buckets[k][j]) => k = m /\ j = i
    BY <2>1, <1>3 DEF OnceInv
  <2>3. \A m \in Level : \A i \in Slot(m) : NoDup(buckets[m][i])
    BY <2>1 DEF OnceInv
  <2>4. buckets' = buckets /\ NoDup(timers')
    BY <1>2, <1>3
  <2> QED
    BY <2>2, <2>3, <2>4 DEF OnceInv
<1>10. HeldInv'
  <2>1. \A u : InWheels(u)' <=> InWheels(u) /\ u # t
    BY <1>2, <1>3 DEF InWheels, InBuckets
  <2>2. \A u \in Timers : u # t => state'[u] = state[u]
    BY <1>0, <1>2 DEF TypeOK
  <2>3. state'[t] # "pending"
    BY <1>0, <1>2, <1>3 DEF TypeOK
  <2> QED
    BY <2>1, <2>2, <2>3, <1>5, HeldBefore, HeldAfter
<1> QED
  BY <1>5, <1>6, <1>7, <1>8, <1>9, <1>10 DEF WheelInv

LEMMA HandDownWheels ==
  ASSUME WheelInv, ClockInv, HandDown
  PROVE  WheelInv'
<1>0. TypeOK /\ BucketsInv /\ OnceInv
  BY DEF WheelInv
<1>1. PICK t : t = Head(timers)
  OBVIOUS
<1>2. /\ timers # << >> /\ timers' = Tail(timers) /\ level \in Level
      /\ Now + 1 < expiry[t]
      /\ buckets' = Put(buckets, FindWheel(expiry[t] - RescheduleTime), t, expiry[t])
      /\ timer_len' = timer_len
      /\ UNCHANGED <<tick, armed, timer_fd, reported, expirations, level>>
      /\ UNCHANGED <<expiry, state, start, delay, firedAt>>
  BY <1>0, <1>1 DEF HandDown, CountedBefore, RescheduleTime, TypeOK, fdVars, timerVars
<1>3. /\ t \in Timers /\ t \in Elems(timers) /\ ~InBuckets(t) /\ t \notin Elems(timers')
      /\ timers' \in Seq(Timers) /\ NoDup(timers')
      /\ Elems(timers) = Elems(timers') \cup {t}
  BY <1>1, <1>2, HeadLeaves
<1>4. PICK e \in Nat : e = expiry[t]
  BY <1>0, <1>3 DEF TypeOK
<1>5. PICK l : l = FindWheel(e - RescheduleTime)
  OBVIOUS
<1>6. /\ l \in Level /\ l < level
      /\ tick[l] + 2 <= e \div Resolution[l]
      /\ e \div Resolution[l] <= tick[l] + Sizes[l]
  <2>1. e \div Resolution[level] = tick[level] + 1
    BY <1>3, <1>4 DEF WheelInv, TakenInv, Due
  <2> QED
    BY <2>1, <1>0, <1>2, <1>4, <1>5, HandDue
<1>7. PICK f \in Int, b \in {FindBucket(l, e)} : f = e /\ IsPut(l, b, t, f)
  BY <1>2, <1>4, <1>5 DEF IsPut
<1>8. BucketsNext /\ Added(l, b, t)
  BY <1>0, <1>3, <1>6, <1>7, PutHolds
<1>9. /\ BucketsInv' /\ b \in Slot(l)
      /\ \A m \in Level : buckets'[m] \in [Slot(m) -> Seq(Timers)]
      /\ \A m \in Level : \A i \in Slot(m) : NoDup(buckets'[m][i])
      /\ \A m \in Level : \A i \in Slot(m) : \A u :
           u \in Elems(buckets'[m][i]) <=> u \in Elems(buckets[m][i]) \/ (u = t /\ m = l /\ i = b)
  BY <1>8 DEF BucketsNext, Added
<1>10. b = (e \div Resolution[l]) % Sizes[l]
  <2>1. b = FindBucket(l, f)
    BY <1>7 DEF IsPut
  <2> QED
    BY <2>1, <1>0, <1>6, <1>7, FindBucketIs
<1>11. TypeOK'
  BY <1>0, <1>2, <1>3, <1>9 DEF TypeOK, Slot
<1>12. FdInv'
  BY <1>0, <1>2, LevelPositive DEF TypeOK, FdInv, WheelInv
<1>13. BucketInv'
  <2> SUFFICES ASSUME NEW m \in Level, NEW i \in Slot(m), NEW u \in Elems(buckets'[m][i])
               PROVE  /\ (expiry[u] \div Resolution[m]) % Sizes[m] = i
                      /\ (IF m <= level THEN tick[m] + 2 ELSE tick[m] + 1) <= expiry[u] \div Resolution[m]
                      /\ expiry[u] \div Resolution[m] <= tick[m] + Sizes[m]
    BY <1>2, BucketNext
  <2>1. CASE u \in Elems(buckets[m][i])
    BY <2>1 DEF WheelInv, BucketInv, Due
  <2>2. CASE u = t /\ m = l /\ i = b
    <3>1. l <= level
      BY <1>2, <1>6, LevelPositive
    <3> QED
      BY <3>1, <2>2, <1>4, <1>6, <1>10
  <2> QED
    BY <1>9, <2>1, <2>2
<1>14. TakenInv'
  BY <1>2, <1>3 DEF WheelInv, TakenInv, Due
<1>15. OnceInv'
  <2>1. ASSUME NEW m \in Level, NEW i \in Slot(m), NEW u \in Elems(buckets'[m][i])
        PROVE  u \notin Elems(timers')
    <3>1. u \in Elems(buckets[m][i]) \/ u = t
      BY <1>9
    <3>2. u \in Elems(buckets[m][i]) => u \notin Elems(timers)
      BY <1>0 DEF OnceInv
    <3> QED
      BY <3>1, <3>2, <1>3
  <2>2. ASSUME NEW m \in Level, NEW i \in Slot(m), NEW n \in Level, NEW j \in Slot(n),
               NEW u \in Elems(buckets'[m][i]), u \in Elems(buckets'[n][j])
        PROVE  n = m /\ j = i
    <3>1. u \in Elems(buckets[m][i]) \/ (u = t /\ m = l /\ i = b)
      BY <1>9
    <3>2. u \in Elems(buckets[n][j]) \/ (u = t /\ n = l /\ j = b)
      BY <1>9, <2>2
    <3>3. u = t => u \notin Elems(buckets[m][i]) /\ u \notin Elems(buckets[n][j])
      BY <1>3 DEF InBuckets
    <3> QED
      BY <3>1, <3>2, <3>3, <1>0 DEF OnceInv
  <2> QED
    BY <2>1, <2>2, <1>3, <1>9, OnceNext
<1>16. HeldInv'
  <2>1. ASSUME NEW u PROVE InWheels(u)' <=> InWheels(u)
    BY <1>3, <1>6, <1>9 DEF InWheels
  <2> QED
    BY <2>1, <1>2, <1>11, HeldBefore, HeldAfter
<1> QED
  BY <1>9, <1>11, <1>12, <1>13, <1>14, <1>15, <1>16 DEF WheelInv

LEMMA EndTickWheels ==
  ASSUME WheelInv, EndTick
  PROVE  WheelInv'
<1>0. TypeOK /\ OnceInv
  BY DEF WheelInv
<1>1. /\ level \in Level /\ timers = << >> /\ level' = 0 /\ expirations' = expirations - 1
      /\ tick' = [l \in Level |-> IF l <= level THEN tick[l] + 1 ELSE tick[l]]
      /\ UNCHANGED <<buckets, timer_len, armed, timer_fd, reported, timers>>
      /\ UNCHANGED <<expiry, state, start, delay, firedAt>>
  BY <1>0 DEF EndTick, TypeOK, fdVars, timerVars
<1>2. expirations > 0 /\ reported = FALSE
  BY <1>0, <1>1, LevelPositive DEF TypeOK, WheelInv, FdInv
<1>3. TypeOK'
  <2>1. tick' \in [Level -> Nat]
    BY <1>0, <1>1 DEF TypeOK
  <2>2. expirations' \in 0..MaxExpirations
    BY <1>0, <1>1, <1>2, WheelAssumption DEF TypeOK
  <2> QED
    BY <2>1, <2>2, <1>0, <1>1 DEF TypeOK
<1>4. FdInv'
  BY <1>1, <1>2 DEF WheelInv, FdInv
<1>5. BucketInv'
  <2> SUFFICES ASSUME NEW m \in Level, NEW i \in Slot(m), NEW u \in Elems(buckets[m][i])
               PROVE  /\ (expiry[u] \div Resolution[m]) % Sizes[m] = i
                      /\ tick'[m] + 1 <= expiry[u] \div Resolution[m]
                      /\ expiry[u] \div Resolution[m] <= tick'[m] + Sizes[m]
    BY <1>1, LevelPositive, BucketNext
  <2>1. PICK due \in Int, k \in Int : due = expiry[u] \div Resolution[m] /\ k = tick[m]
    <3>1. u \in Timers
      BY <1>0, TimersIn
    <3>2. expiry[u] \in Int /\ Resolution[m] \in Nat \ {0} /\ tick[m] \in Int
      BY <3>1, <1>0, ResolutionDef DEF TypeOK
    <3> QED
      BY <3>2, DivBounds
  <2>2. /\ due % Sizes[m] = i
        /\ IF m <= level THEN k + 2 <= due ELSE k + 1 <= due
        /\ due <= k + Sizes[m]
    BY <2>1 DEF WheelInv, BucketInv, Due
  <2>3. tick'[m] = (IF m <= level THEN k + 1 ELSE k) /\ Sizes[m] \in Nat
    BY <2>1, <1>1, LevelIs
  <2> QED
    BY <2>1, <2>2, <2>3
<1>6. TakenInv' /\ OnceInv' /\ BucketsInv'
  <2>1. Elems(timers') = {}
    BY <1>1, NoElems
  <2>2. TakenInv'
    BY <2>1 DEF TakenInv
  <2> QED
    BY <2>2, <1>0, <1>1 DEF OnceInv, WheelInv, BucketsInv
<1>7. HeldInv'
  <2>1. \A u : InWheels(u)' <=> InWheels(u)
    BY <1>1 DEF InWheels
  <2> QED
    BY <2>1, <1>1, <1>3, HeldBefore, HeldAfter
<1> QED
  BY <1>3, <1>4, <1>5, <1>6, <1>7 DEF WheelInv

LEMMA WheelStep ==
  ASSUME WheelInv, ClockInv, [Next]_vars
  PROVE  WheelInv'
<1>0. TypeOK
  BY DEF WheelInv
<1>1. ASSUME NEW t \in Timers, AddExpired(t) PROVE WheelInv'
  BY <1>1, AddExpiredWheels
<1>2. ASSUME NEW t \in Timers, AbortTimer(t) PROVE WheelInv'
  BY <1>2, AbortTimerWheels
<1>3. ASSUME NEW t \in Timers, NEW d \in Delays, AddTimer(t, d) PROVE WheelInv'
  BY <1>3, AddTimerWheels
<1>4. CASE Expire \/ Report \/ ReadTimerFd \/ UNCHANGED vars
  BY <1>4, FdWheels
<1>5. CASE BeginTick
  <2>1. 1 \in Level /\ 1 = level + 1 /\ timers = << >> /\ expirations > 0 /\ ~reported
    BY <1>5, LevelIs DEF BeginTick, WheelInv, FdInv
  <2>2. Take(1) /\ UNCHANGED <<tick, timer_len, fdVars, reported, expirations, timerVars>>
    BY <1>5 DEF BeginTick, CountedLater
  <2> QED
    BY <2>1, <2>2, TakeWheels
<1>6. CASE NextWheel
  <2>1. level \in Level
    BY <1>0, <1>6 DEF NextWheel, TypeOK
  <2>2. PICK l \in Level : l = level + 1
    BY <2>1, <1>6, LevelIs DEF NextWheel, Level
  <2>3. timers = << >> /\ expirations > 0 /\ ~reported
    BY <2>1, <1>6, LevelPositive DEF NextWheel, WheelInv, FdInv
  <2>4. Take(l) /\ UNCHANGED <<tick, timer_len, fdVars, reported, expirations, timerVars>>
    BY <1>6, <2>2 DEF NextWheel
  <2> QED
    BY <2>2, <2>3, <2>4, TakeWheels
<1>7. CASE Fire
  BY <1>7, FireWheels
<1>8. CASE HandDown
  BY <1>8, HandDownWheels
<1>9. CASE EndTick
  BY <1>9, EndTickWheels
<1> QED
  BY <1>1, <1>2, <1>3, <1>4, <1>5, <1>6, <1>7, <1>8, <1>9 DEF Next, Tick

-----------------------------------------------------------------------------
(* When timers fire.                                                        *)

\* A handler is called in the tick of its expiry time: the bucket was taken in
\* the tick it is due in, so the expiry time is not before the time of that
\* tick, and the guard says that it is not after it.
LEMMA FireTime ==
  ASSUME WheelInv, ClockInv, Fire, NEW t, t = Head(timers)
  PROVE  t \in Timers /\ t \in Elems(timers) /\ expiry[t] = Now + 1
<1>1. /\ timers # << >> /\ level \in Level /\ TickTime >= expiry[t]
      /\ timers \in Seq(Timers) /\ TypeOK
  <2>1. TypeOK
    BY DEF WheelInv
  <2>2. timers # << >> /\ level # 0 /\ TickTime >= expiry[t]
    <3>1. level > 0 => level # 0
      OBVIOUS
    <3> QED
      BY <3>1 DEF Fire
  <2>3. level \in Level /\ timers \in Seq(Timers)
    BY <2>1, <2>2 DEF TypeOK
  <2> QED
    BY <2>1, <2>2, <2>3
<1>2. t \in Timers /\ t \in Elems(timers)
  BY <1>1, TailElems
<1>3. PICK e \in Int, r \in Nat \ {0}, a \in Nat, now \in Nat :
        e = expiry[t] /\ r = Resolution[level] /\ a = tick[level] /\ now = Now
  <2>1. expiry[t] \in Int /\ tick[level] \in Nat
    BY <1>1, <1>2 DEF TypeOK
  <2>2. Resolution[level] \in Nat \ {0} /\ Now \in Nat
    BY <1>1, ResolutionDef, TimersIn
  <2> QED
    BY <2>1, <2>2
<1>4. (a + 1) * r = now + 1
  <2>1. level <= level
    BY <1>1, LevelPositive
  <2> QED
    BY <1>1, <1>3, <2>1 DEF ClockInv
<1>5. e \div r = a + 1
  BY <1>2, <1>3 DEF WheelInv, TakenInv, Due
<1>6. (e \div r) * r <= e
  BY DivBounds
<1>7. e <= now + 1
  BY <1>1, <1>3, <1>4 DEF TickTime
<1> QED
  BY <1>2, <1>3, <1>4, <1>5, <1>6, <1>7

LEMMA FiresStep ==
  ASSUME WheelInv, ClockInv, FiresAtExpiry, [Next]_vars
  PROVE  FiresAtExpiry'
<1>0. /\ state \in [Timers -> {"unused", "pending", "fired", "aborted"}]
      /\ expiry \in [Timers -> Nat] /\ firedAt \in [Timers -> Nat]
  BY DEF WheelInv, TypeOK
<1>1. ASSUME NEW t \in Timers, AddExpired(t) PROVE FiresAtExpiry'
  BY <1>0, <1>1 DEF AddExpired, FiresAtExpiry
<1>2. ASSUME NEW t \in Timers, AbortTimer(t) PROVE FiresAtExpiry'
  BY <1>0, <1>2 DEF AbortTimer, FiresAtExpiry
<1>3. ASSUME NEW t \in Timers, NEW d \in Delays, AddTimer(t, d) PROVE FiresAtExpiry'
  <2>1. /\ state' = [state EXCEPT ![t] = "pending"] /\ firedAt' = firedAt
        /\ \A u \in Timers : u # t => expiry'[u] = expiry[u]
    BY <1>0, <1>3 DEF AddTimer
  <2> QED
    BY <1>0, <2>1 DEF FiresAtExpiry
<1>4. CASE Fire
  <2>1. PICK t : t = Head(timers)
    OBVIOUS
  <2>2. t \in Timers /\ expiry[t] = Now + 1
    BY <1>4, <2>1, FireTime
  <2>3. /\ firedAt' = [firedAt EXCEPT ![t] = Now + 1] /\ expiry' = expiry
        /\ \A u \in Timers : u # t => state'[u] = state[u]
    BY <1>0, <1>4, <2>1 DEF Fire
  <2> QED
    BY <1>0, <2>2, <2>3 DEF FiresAtExpiry
<1>5. CASE UNCHANGED timerVars
  BY <1>5 DEF timerVars, FiresAtExpiry
<1> QED
  BY <1>1, <1>2, <1>3, <1>4, <1>5
     DEF Next, Tick, Expire, Report, ReadTimerFd, BeginTick, HandDown, NextWheel, EndTick, vars

LEMMA SleepStep ==
  ASSUME WheelInv, ClockInv, SleepInv, [Next]_vars
  PROVE  SleepInv'
<1>0. /\ state \in [Timers -> {"unused", "pending", "fired", "aborted"}]
      /\ expiry \in [Timers -> Nat] /\ start \in [Timers -> Nat] /\ delay \in [Timers -> Nat]
      /\ TypeOK /\ Now \in Nat
  BY TimersIn DEF WheelInv, TypeOK
<1>1. ASSUME NEW t \in Timers, AddExpired(t) PROVE SleepInv'
  <2>1. /\ state[t] = "unused" /\ state' = [state EXCEPT ![t] = "fired"]
        /\ expiry' = [expiry EXCEPT ![t] = Now] /\ start' = [start EXCEPT ![t] = Now]
        /\ delay' = delay
    BY <1>1 DEF AddExpired
  <2>2. delay[t] = 0
    BY <2>1 DEF SleepInv
  <2>3. Resolution[FindWheel(0)] \in Nat \ {0}
    BY FindWheelIs, ResolutionDef
  <2>4. /\ state'[t] = "fired" /\ expiry'[t] = Now /\ start'[t] = Now /\ delay'[t] = 0
        /\ \A u \in Timers : u # t => /\ state'[u] = state[u] /\ expiry'[u] = expiry[u]
                                       /\ start'[u] = start[u] /\ delay'[u] = delay[u]
    BY <1>0, <2>1, <2>2
  <2>5. /\ expiry'[t] <= start'[t] + delay'[t]
        /\ start'[t] + delay'[t] < expiry'[t] + Resolution[FindWheel(delay'[t])]
    BY <1>0, <2>3, <2>4
  <2> QED
    BY <2>4, <2>5 DEF SleepInv
<1>2. ASSUME NEW t \in Timers, AbortTimer(t) PROVE SleepInv'
  <2>1. /\ state[t] = "pending" /\ state' = [state EXCEPT ![t] = "aborted"]
        /\ UNCHANGED <<expiry, start, delay>>
    BY <1>2 DEF AbortTimer
  <2>2. \A u \in Timers : /\ state'[u] = "unused" => state[u] = "unused"
                          /\ state'[u] # "unused" => state[u] # "unused"
    BY <1>0, <2>1
  <2> QED
    BY <2>1, <2>2 DEF SleepInv
<1>3. ASSUME NEW t \in Timers, NEW d \in Delays, AddTimer(t, d) PROVE SleepInv'
  <2>1. d \in Nat \ {0} /\ d \in Int
    BY <1>3, WheelAssumption DEF AddTimer
  <2>2. PICK l \in Level : l = FindWheel(d)
    BY <2>1, FindWheelIs
  <2>3. PICK a \in Int, r \in Nat \ {0} :
          a = tick[l] * Resolution[l] /\ r = Resolution[l] /\ a <= Now /\ Now < a + r
    <3>1. PICK k \in Nat, r \in Nat \ {0} : k = tick[l] /\ r = Resolution[l]
      BY <1>0, ResolutionDef DEF TypeOK
    <3>2. k * r <= Now /\ Now < (k + 1) * r
      BY <3>1 DEF ClockInv
    <3>3. k * r \in Int /\ (k + 1) * r = k * r + r
      OBVIOUS
    <3> QED
      BY <3>1, <3>2, <3>3
  <2>4. /\ state' = [state EXCEPT ![t] = "pending"] /\ start' = [start EXCEPT ![t] = Now]
        /\ delay' = [delay EXCEPT ![t] = d] /\ expiry' = [expiry EXCEPT ![t] = a + d]
    BY <1>3, <2>2, <2>3 DEF AddTimer, WheelTime
  <2>5. /\ state'[t] = "pending" /\ expiry'[t] = a + d /\ start'[t] = Now /\ delay'[t] = d
        /\ \A u \in Timers : u # t => /\ state'[u] = state[u] /\ expiry'[u] = expiry[u]
                                       /\ start'[u] = start[u] /\ delay'[u] = delay[u]
    BY <1>0, <2>4
  <2>6. Resolution[FindWheel(delay'[t])] = r
    BY <2>2, <2>3, <2>5
  <2>7. /\ expiry'[t] <= start'[t] + delay'[t]
        /\ start'[t] + delay'[t] < expiry'[t] + r
    BY <1>0, <2>1, <2>3, <2>5
  <2> QED
    BY <2>5, <2>6, <2>7 DEF SleepInv
<1>4. CASE Fire
  <2>1. UNCHANGED <<expiry, start, delay>>
    BY <1>4 DEF Fire
  <2>2. \A u \in Timers : /\ state'[u] = "unused" => state[u] = "unused"
                          /\ state'[u] # "unused" => state[u] # "unused"
    BY <1>0, <1>4 DEF Fire
  <2> QED
    BY <2>1, <2>2 DEF SleepInv
<1>5. CASE UNCHANGED timerVars
  BY <1>5 DEF timerVars, SleepInv
<1> QED
  BY <1>1, <1>2, <1>3, <1>4, <1>5
     DEF Next, Tick, Expire, Report, ReadTimerFd, BeginTick, HandDown, NextWheel, EndTick, vars

-----------------------------------------------------------------------------
(* How many timers there are.                                               *)

LEMMA PendingFinite ==
  /\ IsFiniteSet(Pending) /\ Cardinality(Pending) \in 0..(LenModulus - 1)
  /\ \A t \in Timers : IsFiniteSet(Pending \cup {t}) /\ Cardinality(Pending \cup {t}) < LenModulus
<1>1. \A S \in SUBSET Timers : IsFiniteSet(S) /\ Cardinality(S) \in Nat /\ Cardinality(S) <= Cardinality(Timers)
  BY CountAssumption, FS_Subset, FS_CardinalityType
<1>2. Cardinality(Timers) \in Nat /\ Cardinality(Timers) < LenModulus /\ LenModulus \in Nat
  BY CountAssumption, WheelAssumption, FS_CardinalityType
<1>3. Pending \in SUBSET Timers /\ \A t \in Timers : Pending \cup {t} \in SUBSET Timers
  BY DEF Pending
<1>4. IsFiniteSet(Pending) /\ Cardinality(Pending) \in 0..(LenModulus - 1)
  BY <1>1, <1>2, <1>3
<1>5. ASSUME NEW t \in Timers
      PROVE  IsFiniteSet(Pending \cup {t}) /\ Cardinality(Pending \cup {t}) < LenModulus
  <2>1. Pending \cup {t} \in SUBSET Timers
    BY <1>3
  <2>2. /\ IsFiniteSet(Pending \cup {t}) /\ Cardinality(Pending \cup {t}) \in Nat
        /\ Cardinality(Pending \cup {t}) <= Cardinality(Timers)
    BY <1>1, <2>1
  <2> QED
    BY <1>2, <2>2
<1> QED
  BY <1>4, <1>5

\* A timer more, a timer less.
LEMMA PendingUp ==
  ASSUME NEW t \in Timers, t \notin Pending
  PROVE  Cardinality(Pending \cup {t}) = (Cardinality(Pending) + 1) % LenModulus
<1>1. PICK n \in Nat : n = Cardinality(Pending)
  BY PendingFinite
<1>2. Cardinality(Pending \cup {t}) = n + 1
  BY <1>1, PendingFinite, FS_AddElement
<1>3. n + 1 < LenModulus /\ LenModulus \in Nat \ {0}
  BY <1>2, PendingFinite, WheelAssumption
<1>4. (0 * LenModulus + (n + 1)) % LenModulus = n + 1
  <2>1. n + 1 \in 0..(LenModulus - 1)
    BY <1>3
  <2> QED
    BY <1>3, <2>1, ModUnique
<1>5. 0 * LenModulus + (n + 1) = n + 1
  BY <1>3
<1> QED
  BY <1>1, <1>2, <1>4, <1>5

LEMMA PendingDown ==
  ASSUME NEW t \in Pending
  PROVE  /\ Cardinality(Pending \ {t}) = (Cardinality(Pending) + LenModulus - 1) % LenModulus
         /\ Cardinality(Pending \ {t}) = Cardinality(Pending) - 1
         /\ Cardinality(Pending) # 0
<1>1. PICK n \in Nat, m \in Nat \ {0} : n = Cardinality(Pending) /\ m = LenModulus /\ n <= m - 1
  BY PendingFinite, WheelAssumption
<1>2. Cardinality(Pending \ {t}) = n - 1 /\ n # 0
  <2>1. Cardinality(Pending \ {t}) = n - 1
    BY <1>1, PendingFinite, FS_RemoveElement
  <2>2. Cardinality(Pending) = 0 <=> Pending = {}
    BY PendingFinite, FS_EmptySet
  <2> QED
    BY <1>1, <2>1, <2>2
<1>3. (1 * m + (n - 1)) % m = n - 1
  <2>1. n - 1 \in 0..(m - 1)
    BY <1>1, <1>2
  <2> QED
    BY <2>1, ModUnique
<1>4. 1 * m + (n - 1) = n + m - 1
  OBVIOUS
<1> QED
  BY <1>1, <1>2, <1>3, <1>4

LEMMA CountStep ==
  ASSUME WheelInv, ClockInv, CountInv, [Next]_vars
  PROVE  CountInv'
<1> SUFFICES ASSUME NoneAborted'
             PROVE  /\ timer_len' = Cardinality(Pending')
                    /\ armed' <=> timer_len' # 0
                    /\ reported' => timer_fd' > 0
  BY DEF CountInv
<1>0. /\ state \in [Timers -> {"unused", "pending", "fired", "aborted"}]
      /\ armed \in BOOLEAN /\ timer_fd \in Nat /\ timer_len \in Nat /\ reported \in BOOLEAN
      /\ TypeOK /\ FdInv
  BY FieldsIn DEF WheelInv
<1>1. NoneAborted
  <2>1. ASSUME NEW t \in Timers, AbortTimer(t) PROVE FALSE
    <3>1. state' = [state EXCEPT ![t] = "aborted"]
      BY <2>1 DEF AbortTimer
    <3>2. state'[t] = "aborted"
      BY <3>1, <1>0
    <3> QED
      BY <3>2 DEF NoneAborted
  <2>2. ASSUME NEW t \in Timers, AddExpired(t) PROVE NoneAborted
    BY <2>2, <1>0 DEF AddExpired, NoneAborted
  <2>3. ASSUME NEW t \in Timers, NEW d \in Delays, AddTimer(t, d) PROVE NoneAborted
    <3>1. state' = [state EXCEPT ![t] = "pending"] /\ state[t] = "unused"
      BY <2>3 DEF AddTimer
    <3> QED
      BY <3>1, <1>0 DEF NoneAborted
  <2>4. CASE Fire
    <3>1. \A u \in Timers : state[u] = "aborted" => state'[u] = "aborted"
      BY <2>4, <1>0 DEF Fire
    <3> QED
      BY <3>1 DEF NoneAborted
  <2>5. CASE UNCHANGED timerVars
    BY <2>5 DEF timerVars, NoneAborted
  <2> QED
    BY <2>1, <2>2, <2>3, <2>4, <2>5
       DEF Next, Tick, Expire, Report, ReadTimerFd, BeginTick, HandDown, NextWheel, EndTick, vars
<1>2. timer_len = Cardinality(Pending) /\ (armed <=> timer_len # 0) /\ (reported => timer_fd > 0)
  BY <1>1 DEF CountInv
<1>3. ASSUME NEW t \in Timers, AddExpired(t)
      PROVE  timer_len' = Cardinality(Pending') /\ (armed' <=> timer_len' # 0) /\ (reported' => timer_fd' > 0)
  <2>1. /\ UNCHANGED <<timer_len, armed, timer_fd, reported>>
        /\ state[t] = "unused" /\ state' = [state EXCEPT ![t] = "fired"]
    BY <1>3 DEF AddExpired, wheelVars, fdVars
  <2>2. Pending' = Pending
    BY <2>1, <1>0 DEF Pending
  <2> QED
    BY <2>1, <2>2, <1>2
<1>4. ASSUME NEW t \in Timers, NEW d \in Delays, AddTimer(t, d)
      PROVE  timer_len' = Cardinality(Pending') /\ (armed' <=> timer_len' # 0) /\ (reported' => timer_fd' > 0)
  <2>1. /\ state[t] = "unused" /\ state' = [state EXCEPT ![t] = "pending"] /\ reported' = reported
        /\ timer_len' = (timer_len + 1) % LenModulus
    BY <1>4 DEF AddTimer, TimerLenUp
  <2>2. /\ timer_len = 0 => armed' = TRUE /\ timer_fd' = 0
        /\ timer_len # 0 => UNCHANGED <<armed, timer_fd>>
    BY <1>4 DEF AddTimer, TimerLenUp, AddSets, SetTime, fdVars
  <2>3. Pending' = Pending \cup {t} /\ t \notin Pending
    BY <2>1, <1>0 DEF Pending
  <2>4. timer_len' = Cardinality(Pending')
    BY <2>1, <2>3, <1>2, PendingUp
  <2>5. timer_len' # 0
    BY <2>3, <2>4, PendingFinite, FS_EmptySet
  <2>6. armed' <=> timer_len' # 0
    BY <2>2, <2>5, <1>2
  <2>7. reported' => timer_fd' > 0
    BY <2>1, <2>2, <1>2, <1>0 DEF FdInv
  <2> QED
    BY <2>4, <2>6, <2>7
<1>5. CASE Fire
  <2>1. PICK t : t = Head(timers)
    OBVIOUS
  <2>2. t \in Timers /\ t \in Elems(timers)
    BY <1>5, <2>1, FireTime
  <2>3. t \in Pending
    <3>1. InWheels(t)
      BY <2>2 DEF InWheels
    <3> QED
      BY <3>1, <2>2, <1>1, HeldBefore DEF NoneAborted, Pending
  <2>4. /\ level # 0 /\ timer_len' = (timer_len + LenModulus - 1) % LenModulus /\ reported' = reported
        /\ state' = [state EXCEPT ![t] = IF @ = "pending" THEN "fired" ELSE @]
    BY <1>5, <1>0, <2>1 DEF Fire, FdInv, TypeOK, TimerLenDown
  <2>5. Pending' = Pending \ {t}
    BY <2>3, <2>4, <1>0 DEF Pending
  <2>6. timer_len' = Cardinality(Pending') /\ timer_len' = timer_len - 1 /\ timer_len # 0
    BY <2>3, <2>4, <2>5, <1>2, PendingDown
  <2>7. armed
    BY <2>6, <1>2
  <2>8. /\ timer_len = 1 => armed' = FALSE
        /\ timer_len # 1 => armed' = armed
    BY <1>5 DEF Fire, TimerLenDown, SetTime, fdVars
  <2>9. armed' <=> timer_len' # 0
    <3>1. timer_len = 1 <=> timer_len' = 0
      BY <2>6, <1>0
    <3> QED
      BY <3>1, <2>7, <2>8
  <2>10. ~reported'
    BY <2>4, <1>0 DEF FdInv
  <2> QED
    BY <2>6, <2>9, <2>10
<1>6. ASSUME state' = state, timer_len' = timer_len, armed' = armed, reported' => timer_fd' > 0
      PROVE  timer_len' = Cardinality(Pending') /\ (armed' <=> timer_len' # 0) /\ (reported' => timer_fd' > 0)
  <2>1. Pending' = Pending
    BY <1>6 DEF Pending
  <2> QED
    BY <2>1, <1>2, <1>6
<1>7. CASE Expire
  <2>1. timer_fd' = timer_fd + 1 /\ UNCHANGED <<state, timer_len, armed>>
    BY <1>7 DEF Expire, wheelVars, timerVars
  <2>2. timer_fd' > 0
    BY <2>1, <1>0
  <2> QED
    BY <2>1, <2>2, <1>6
<1>8. CASE Report
  <2>1. timer_fd > 0 /\ UNCHANGED <<state, timer_len, armed, timer_fd>>
    BY <1>8 DEF Report, wheelVars, timerVars, fdVars
  <2> QED
    BY <2>1, <1>6
<1>9. CASE ReadTimerFd
  BY <1>6, <1>9 DEF ReadTimerFd, wheelVars, timerVars
<1>10. CASE BeginTick \/ HandDown \/ NextWheel \/ EndTick \/ UNCHANGED vars
  <2>1. UNCHANGED <<state, timer_len, armed, timer_fd, reported>>
    BY <1>10 DEF BeginTick, HandDown, NextWheel, EndTick, CountedBefore, vars, wheelVars, fdVars, timerVars
  <2> QED
    BY <2>1, <1>2, <1>6
<1>11. ASSUME NEW t \in Timers, AbortTimer(t) PROVE FALSE
  <2>1. state' = [state EXCEPT ![t] = "aborted"]
    BY <1>11 DEF AbortTimer
  <2>2. state'[t] = "aborted"
    BY <2>1, <1>0
  <2> QED
    BY <2>2 DEF NoneAborted
<1> QED
  BY <1>3, <1>4, <1>5, <1>7, <1>8, <1>9, <1>10, <1>11 DEF Next, Tick

LEMMA BoundStep ==
  ASSUME WheelInv, BoundInv, [Next]_vars
  PROVE  BoundInv'
<1>0. /\ Now \in Nat /\ expirations \in Nat /\ timer_fd \in Nat /\ MaxTime \in Nat /\ FdInv
      /\ tick \in [Level -> Nat] /\ 1 \in Level
      /\ level > 0 => level \in Level /\ 1 <= level
  BY ConstantsAre, FieldsIn, TimersIn, LevelIs DEF WheelInv
<1>1. CASE EndTick
  <2>1. /\ level \in Level /\ 1 <= level /\ expirations' = expirations - 1 /\ timer_fd' = timer_fd
        /\ tick' = [l \in Level |-> IF l <= level THEN tick[l] + 1 ELSE tick[l]]
    BY <1>0, <1>1 DEF EndTick, fdVars
  <2>2. Now' = Now + 1
    BY <1>0, <2>1 DEF Now
  <2> QED
    BY <1>0, <2>1, <2>2 DEF BoundInv
<1>2. CASE Expire
  BY <1>0, <1>2 DEF Expire, wheelVars, tickVars, BoundInv, Now
<1>3. CASE ReadTimerFd
  <2>1. UNCHANGED tick /\ expirations' = timer_fd /\ timer_fd' = 0 /\ expirations = 0
    BY <1>0, <1>3 DEF ReadTimerFd, wheelVars, FdInv
  <2> QED
    BY <1>0, <2>1 DEF BoundInv, Now
<1>4. ASSUME UNCHANGED <<tick, expirations>>, timer_fd' = timer_fd \/ timer_fd' = 0
      PROVE  BoundInv'
  BY <1>0, <1>4 DEF BoundInv, Now
<1>5. ASSUME NEW t \in Timers, NEW d \in Delays, AddTimer(t, d) PROVE BoundInv'
  BY <1>4, <1>5 DEF AddTimer, tickVars, TimerLenUp, SetTime, fdVars
<1>6. ASSUME NEW t \in Timers, AbortTimer(t) PROVE BoundInv'
  BY <1>4, <1>6 DEF AbortTimer, tickVars, TimerLenDown, SetTime, fdVars
<1>7. CASE Fire
  BY <1>4, <1>7 DEF Fire, TimerLenDown, SetTime, fdVars
<1>8. CASE BeginTick \/ HandDown \/ NextWheel \/ Report \/ UNCHANGED vars
  BY <1>4, <1>8 DEF BeginTick, CountedLater, HandDown, NextWheel, Report, vars, wheelVars, tickVars, fdVars
<1>9. ASSUME NEW t \in Timers, AddExpired(t) PROVE BoundInv'
  BY <1>4, <1>9 DEF AddExpired, wheelVars, tickVars, fdVars
<1> QED
  BY <1>1, <1>2, <1>3, <1>5, <1>6, <1>7, <1>8, <1>9 DEF Next, Tick

-----------------------------------------------------------------------------
(* The theorems.                                                            *)

LEMMA InitType == Init => TypeOK /\ BucketsInv
<1> SUFFICES ASSUME Init PROVE TypeOK /\ BucketsInv
  OBVIOUS
<1>1. << >> \in Seq(Timers)
  OBVIOUS
<1>2. \A l \in Level : buckets[l] = [i \in 0..(Sizes[l] - 1) |-> << >>]
  BY DEF Init
<1>3. \A l \in Level : buckets[l] \in [0..(Sizes[l] - 1) -> Seq(Timers)]
  BY <1>1, <1>2
<1>4. tick \in [Level -> Nat] /\ timers \in Seq(Timers)
  BY <1>1 DEF Init
<1>5. state \in [Timers -> {"unused", "pending", "fired", "aborted"}]
  BY DEF Init
<1>6. /\ expiry \in [Timers -> Nat] /\ start \in [Timers -> Nat]
      /\ delay \in [Timers -> Nat] /\ firedAt \in [Timers -> Nat]
  BY DEF Init
<1>7. /\ timer_len \in 0..(LenModulus - 1) /\ timer_fd \in 0..MaxExpirations
      /\ expirations \in 0..MaxExpirations
  BY WheelAssumption DEF Init
<1>8. armed \in BOOLEAN /\ reported \in BOOLEAN /\ level \in Level \cup {0}
  BY DEF Init
<1>9. BucketsInv
  BY DEF Init, BucketsInv
<1> QED
  BY <1>3, <1>4, <1>5, <1>6, <1>7, <1>8, <1>9 DEF TypeOK

LEMMA InitIInv == Init => IInv
<1> SUFFICES ASSUME Init PROVE IInv
  OBVIOUS
<1>1. TypeOK /\ BucketsInv
  BY InitType
<1>2. FdInv
  BY DEF Init, FdInv
<1>3. ClockInv
  <2> SUFFICES ASSUME NEW l \in Level
               PROVE  /\ tick[l] * Resolution[l] <= Now
                      /\ Now < (tick[l] + 1) * Resolution[l]
                      /\ ~(l <= level)
    BY DEF ClockInv
  <2>1. tick[l] = 0 /\ Now = 0 /\ level = 0
    BY LevelIs DEF Init, Now
  <2>2. PICK r \in Nat \ {0} : r = Resolution[l]
    BY ResolutionDef
  <2>3. 0 * r = 0 /\ (0 + 1) * r = r
    OBVIOUS
  <2> QED
    BY <2>1, <2>2, <2>3, LevelPositive
<1>4. /\ Elems(timers) = {} /\ NoDup(timers)
      /\ \A l \in Level : \A i \in Slot(l) : Elems(buckets[l][i]) = {} /\ NoDup(buckets[l][i])
  <2>1. timers = << >>
    BY DEF Init
  <2>2. \A l \in Level : \A i \in Slot(l) : buckets[l][i] = << >>
    BY DEF Init, Slot
  <2> QED
    BY <2>1, <2>2, NoElems
<1>5. BucketInv /\ TakenInv /\ OnceInv
  BY <1>4 DEF BucketInv, TakenInv, OnceInv
<1>6. \A t \in Timers : state[t] = "unused" /\ delay[t] = 0
  BY DEF Init
<1>7. HeldInv
  <2>1. \A t : ~InWheels(t)
    BY <1>4 DEF InWheels
  <2> QED
    BY <2>1, <1>1, <1>6, HeldNow DEF HeldInv
<1>8. SleepInv /\ FiresAtExpiry
  BY <1>6 DEF SleepInv, FiresAtExpiry
<1>9. CountInv
  <2>1. Pending = {}
    BY <1>6 DEF Pending
  <2> QED
    BY <2>1, FS_EmptySet DEF CountInv, Init
<1>10. BoundInv
  <2>1. Now = 0 /\ expirations = 0 /\ timer_fd = 0
    BY LevelIs DEF Init, Now
  <2> QED
    BY <2>1, WheelAssumption DEF BoundInv
<1> QED
  BY <1>1, <1>2, <1>3, <1>5, <1>7, <1>8, <1>9, <1>10 DEF IInv

LEMMA NextKeepsIInv == IInv /\ [Next]_vars => IInv'
<1> SUFFICES ASSUME IInv, [Next]_vars PROVE IInv'
  OBVIOUS
<1>1. WheelInv /\ ClockInv /\ SleepInv /\ FiresAtExpiry /\ CountInv /\ BoundInv
  BY DEF IInv, WheelInv
<1>2. ClockInv'
  BY <1>1, ClockStep DEF WheelInv
<1>3. WheelInv'
  BY <1>1, WheelStep
<1>4. SleepInv' /\ FiresAtExpiry'
  BY <1>1, SleepStep, FiresStep
<1>5. CountInv' /\ BoundInv'
  BY <1>1, CountStep, BoundStep
<1> QED
  BY <1>2, <1>3, <1>4, <1>5 DEF IInv, WheelInv

LEMMA SpecIInv == Spec => []IInv
BY InitIInv, NextKeepsIInv, PTL DEF Spec

\* The variables keep their types: no counter wraps, no index leaves a ring.
THEOREM TypeCorrect == Spec => []TypeOK
<1>1. IInv => TypeOK
  BY DEF IInv
<1> QED
  BY <1>1, SpecIInv, PTL

\* taskio_wheel_timer_tick() calls a timer's handler in the tick of its expiry
\* time, however many wheels it was handed down through: for any number of
\* wheels of any sizes.
THEOREM FiresOnTime == Spec => []FiresAtExpiry
<1>1. IInv => FiresAtExpiry
  BY DEF IInv
<1> QED
  BY <1>1, SpecIInv, PTL

\* A sleep ends at most one tick of the wheel of its delay too early, because
\* taskio_wheel_timer_add() counts from the last tick of that wheel, and never
\* too late by the clock of the lowest wheel.
THEOREM SleepError == Spec => []SleepErrorBounded
<1>1. IInv => SleepErrorBounded
  <2> SUFFICES ASSUME IInv, NEW t \in Timers, state[t] = "fired"
               PROVE  /\ firedAt[t] <= start[t] + delay[t]
                      /\ start[t] + delay[t] < firedAt[t] + Resolution[FindWheel(delay[t])]
    BY DEF SleepErrorBounded
  <2>1. firedAt[t] = expiry[t]
    BY DEF IInv, FiresAtExpiry
  <2>2. /\ expiry[t] <= start[t] + delay[t]
        /\ start[t] + delay[t] < expiry[t] + Resolution[FindWheel(delay[t])]
    BY DEF IInv, SleepInv
  <2> QED
    BY <2>1, <2>2
<1> QED
  BY <1>1, SpecIInv, PTL

\* Until a timer is aborted, timer_len counts the timers in the wheels, so
\* that the timerfd is armed exactly while there are any.
THEOREM ArmedCorrect == Spec => []ArmedWhileHeld
<1>1. IInv => ArmedWhileHeld
  <2> SUFFICES ASSUME IInv, NoneAborted
               PROVE  /\ timer_len = Cardinality({t \in Timers : Held(t)})
                      /\ armed <=> \E t \in Timers : Held(t)
    BY DEF ArmedWhileHeld
  <2>1. \A t \in Timers : Held(t) <=> state[t] = "pending"
    BY DEF IInv, HeldInv, NoneAborted
  <2>2. {t \in Timers : Held(t)} = Pending
    BY <2>1 DEF Pending
  <2>3. timer_len = Cardinality(Pending) /\ (armed <=> timer_len # 0)
    BY DEF IInv, CountInv
  <2>4. Cardinality(Pending) = 0 <=> Pending = {}
    BY PendingFinite, FS_EmptySet
  <2> QED
    BY <2>2, <2>3, <2>4
<1> QED
  BY <1>1, SpecIInv, PTL

\* Until a timer is aborted, the read() of a timerfd that epoll_wait() has
\* reported does not block the loop.
THEOREM ReadCorrect == Spec => []ReadDoesNotBlock
<1>1. IInv => ReadDoesNotBlock
  BY DEF IInv, CountInv, ReadDoesNotBlock
<1> QED
  BY <1>1, SpecIInv, PTL

\* Nothing stops a tick halfway: the assertion that a timer which is handed
\* down is not due ("rescheduling should not happen when timer has expired")
\* holds, and the last wheel does not come round within the bound.
TickGoesOn ==
  level > 0 =>
    /\ timers # << >> /\ TickTime < expiry[Head(timers)] => RescheduleTime < expiry[Head(timers)]
    /\ timers = << >> /\ NextIndex(level) = 0 => level < Len(Sizes)

\* A tick that has begun goes on to its end, whatever timers it meets.
THEOREM TickNotStuck == Spec => []TickGoesOn
<1>1. IInv => TickGoesOn
  <2> SUFFICES ASSUME IInv, level \in Level PROVE TickGoesOn
    BY LevelPositive DEF IInv, TypeOK, TickGoesOn
  <2>0. TypeOK /\ ClockInv /\ FdInv /\ BoundInv /\ Now \in Nat
    BY TimersIn DEF IInv
  <2>1. TickTime = RescheduleTime
    <3>1. level <= level
      BY LevelPositive
    <3> QED
      BY <3>1, <2>0 DEF ClockInv, TickTime, RescheduleTime
  <2>2. level # Len(Sizes) => level < Len(Sizes)
    BY LevelIs DEF Level
  <2>3. ASSUME level = Len(Sizes), NextIndex(level) = 0 PROVE FALSE
    <3>1. PICK r \in Nat \ {0}, n \in Nat \ {0}, a \in Nat, now \in Nat :
            r = Resolution[level] /\ n = Sizes[level] /\ a = tick[level] /\ now = Now
      BY <2>0, ResolutionDef, LevelIs DEF TypeOK
    <3>2. (a + 1) * r = now + 1
      <4>1. level <= level
        BY LevelPositive
      <4> QED
        BY <2>0, <3>1, <4>1 DEF ClockInv
    <3>3. now + 1 < n * r
      <4>1. expirations \in Nat \ {0} /\ timer_fd \in Nat
        BY <2>0, LevelPositive DEF TypeOK, FdInv
      <4>2. now + 1 <= MaxTime /\ MaxTime < r * n /\ MaxTime \in Nat
        BY <2>0, <2>3, <3>1, <4>1, WheelAssumption DEF BoundInv
      <4>3. r * n = n * r /\ r * n \in Int
        OBVIOUS
      <4> QED
        BY <4>2, <4>3
    <3>4. a + 1 < n
      <4>1. PICK k \in Int : k = a + 1
        OBVIOUS
      <4>2. k * r < n * r
        BY <3>2, <3>3, <4>1
      <4> QED
        BY <4>1, <4>2, TimesPositive
    <3>5. (0 * n + (a + 1)) % n = a + 1
      <4>1. a + 1 \in 0..(n - 1)
        BY <3>4
      <4> QED
        BY <4>1, ModUnique
    <3>6. (a + 1) % n = 0 /\ 0 * n + (a + 1) = a + 1
      BY <2>3, <3>1 DEF NextIndex
    <3> QED
      BY <3>5, <3>6
  <2> QED
    BY <2>1, <2>2, <2>3 DEF TickGoesOn
<1> QED
  BY <1>1, SpecIInv, PTL

=============================================================================
