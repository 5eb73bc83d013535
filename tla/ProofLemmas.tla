----------------------------- MODULE ProofLemmas -----------------------------
(***************************************************************************)
(* Facts that the proofs of several modules need: induction over the       *)
(* natural numbers, in a form the provers can use, and sequences taken as  *)
(* queues.                                                                 *)
(***************************************************************************)
EXTENDS Integers, Sequences, FiniteSets, FiniteSetTheorems, WellFoundedInduction, TLAPS

\* The least-number principle and induction, for sets: the library's theorems
\* have an operator as a parameter.
LEMMA LeastNumber ==
  ASSUME NEW T, T \subseteq Nat, NEW n \in T
  PROVE  \E m \in T : \A k \in T : m <= k
<1> DEFINE U == {1..k : k \in {m \in T : m <= n}}
<1>1. IsFiniteSet(1..n)
  BY FS_Interval
<1>2. U \subseteq SUBSET (1..n) /\ U # {}
  OBVIOUS
<1>3. IsWellFoundedOn(StrictSubsetOrdering(1..n), SUBSET (1..n))
  BY <1>1, FS_StrictSubsetOrderingWellFounded, FS_FiniteSubsetsOfFinite
<1>4. PICK x \in U : \A y \in U : ~ (<<y, x>> \in StrictSubsetOrdering(1..n))
  BY <1>2, <1>3, WFMin
<1>5. PICK m \in T : m <= n /\ x = 1..m
  OBVIOUS
<1>6. ASSUME NEW k \in T, k < m
      PROVE  FALSE
  <2>1. 1..k \in U /\ 1..k \subseteq 1..m /\ m \in 1..m /\ m \notin 1..k
    BY <1>5, <1>6
  <2> QED
    BY <2>1, <1>4, <1>5, <1>2 DEF StrictSubsetOrdering
<1> QED
  BY <1>6

LEMMA SetInduction ==
  ASSUME NEW S, 0 \in S, \A n \in Nat : n \in S => n + 1 \in S
  PROVE  Nat \subseteq S
<1> SUFFICES ASSUME NEW n \in Nat \ S PROVE FALSE
  OBVIOUS
<1>1. PICK m \in Nat \ S : \A k \in Nat \ S : m <= k
  <2>1. Nat \ S \subseteq Nat
    OBVIOUS
  <2> QED
    BY <2>1, LeastNumber
<1>2. m # 0 /\ m - 1 \in Nat
  BY <1>1
<1>3. m - 1 \in S
  BY <1>1, <1>2
<1> QED
  BY <1>1, <1>2, <1>3

-----------------------------------------------------------------------------
(* Sequences.                                                               *)

Elems(s) == {s[k] : k \in 1..Len(s)}
NoDup(s) == \A j, k \in 1..Len(s) : s[j] = s[k] => j = k

LEMMA AppendElems ==
  ASSUME NEW S, NEW s \in Seq(S), NEW x \in S
  PROVE  /\ Append(s, x) \in Seq(S)
         /\ Elems(Append(s, x)) = Elems(s) \cup {x}
         /\ NoDup(s) /\ x \notin Elems(s) => NoDup(Append(s, x))
<1>1. /\ Append(s, x) \in Seq(S) /\ Len(Append(s, x)) = Len(s) + 1 /\ Len(s) \in Nat
      /\ Append(s, x)[Len(s) + 1] = x
      /\ \A k \in 1..Len(s) : Append(s, x)[k] = s[k]
  OBVIOUS
<1>2. 1..(Len(s) + 1) = (1..Len(s)) \cup {Len(s) + 1}
  BY <1>1
<1>3. Elems(Append(s, x)) = Elems(s) \cup {x}
  BY <1>1, <1>2 DEF Elems
<1>4. NoDup(s) /\ x \notin Elems(s) => NoDup(Append(s, x))
  BY <1>1, <1>2 DEF Elems, NoDup
<1> QED
  BY <1>1, <1>3, <1>4

LEMMA TailElems ==
  ASSUME NEW S, NEW s \in Seq(S), s # << >>
  PROVE  /\ Tail(s) \in Seq(S) /\ Head(s) \in S /\ Head(s) \in Elems(s)
         /\ Elems(s) = Elems(Tail(s)) \cup {Head(s)}
         /\ NoDup(s) => NoDup(Tail(s)) /\ Head(s) \notin Elems(Tail(s))
<1>1. /\ Tail(s) \in Seq(S) /\ Len(Tail(s)) = Len(s) - 1 /\ Len(s) \in Nat \ {0}
      /\ Head(s) = s[1]
      /\ \A k \in 1..(Len(s) - 1) : Tail(s)[k] = s[k + 1]
      /\ \A k \in 1..Len(s) : s[k] \in S
  OBVIOUS
<1>2. \A k \in 1..Len(s) : k = 1 \/ (k - 1 \in 1..(Len(s) - 1) /\ s[k] = Tail(s)[k - 1])
  BY <1>1
<1>3. Head(s) \in S /\ Head(s) \in Elems(s)
  BY <1>1 DEF Elems
<1>4. Elems(s) \subseteq Elems(Tail(s)) \cup {Head(s)}
  BY <1>1, <1>2 DEF Elems
<1>5. Elems(Tail(s)) \subseteq Elems(s)
  <2> SUFFICES ASSUME NEW k \in 1..(Len(s) - 1) PROVE Tail(s)[k] \in Elems(s)
    BY <1>1 DEF Elems
  <2>1. k + 1 \in 1..Len(s) /\ Tail(s)[k] = s[k + 1]
    BY <1>1
  <2> QED
    BY <2>1 DEF Elems
<1>6. ASSUME NoDup(s) PROVE NoDup(Tail(s)) /\ Head(s) \notin Elems(Tail(s))
  <2>1. \A k \in 1..(Len(s) - 1) : k + 1 \in 1..Len(s) /\ 1 \in 1..Len(s) /\ k + 1 # 1
    BY <1>1
  <2> QED
    BY <1>1, <1>6, <2>1 DEF NoDup, Elems
<1> QED
  BY <1>1, <1>3, <1>4, <1>5, <1>6


LEMMA ConcatElems ==
  ASSUME NEW S, NEW a \in Seq(S), NEW b \in Seq(S)
  PROVE  /\ a \o b \in Seq(S) /\ Len(a \o b) = Len(a) + Len(b)
         /\ \A k \in 1..Len(a) : (a \o b)[k] = a[k]
         /\ \A k \in 1..Len(b) : (a \o b)[Len(a) + k] = b[k]
         /\ Elems(a \o b) = Elems(a) \cup Elems(b)
<1>1. a \o b \in Seq(S) /\ Len(a \o b) = Len(a) + Len(b) /\ Len(a) \in Nat /\ Len(b) \in Nat
  OBVIOUS
<1>2. \A k \in 1..Len(a) : (a \o b)[k] = a[k]
  OBVIOUS
<1>3. \A k \in 1..Len(b) : (a \o b)[Len(a) + k] = b[k]
  <2> SUFFICES ASSUME NEW k \in 1..Len(b) PROVE (a \o b)[Len(a) + k] = b[k]
    OBVIOUS
  <2>1. Len(a) + k \in 1..(Len(a) + Len(b)) /\ Len(a) + k > Len(a)
    BY <1>1
  <2> QED
    BY <1>1, <2>1
<1>4. Elems(a \o b) \subseteq Elems(a) \cup Elems(b)
  <2> SUFFICES ASSUME NEW k \in 1..(Len(a) + Len(b)) PROVE (a \o b)[k] \in Elems(a) \cup Elems(b)
    BY <1>1 DEF Elems
  <2>1. CASE k \in 1..Len(a)
    BY <1>2, <2>1 DEF Elems
  <2>2. CASE k > Len(a)
    <3>1. k - Len(a) \in 1..Len(b) /\ Len(a) + (k - Len(a)) = k
      BY <1>1, <2>2
    <3> QED
      BY <1>3, <3>1 DEF Elems
  <2> QED
    BY <1>1, <2>1, <2>2
<1>5. Elems(a) \cup Elems(b) \subseteq Elems(a \o b)
  <2>1. \A k \in 1..Len(a) : k \in 1..Len(a \o b)
    BY <1>1
  <2>2. \A k \in 1..Len(b) : Len(a) + k \in 1..Len(a \o b)
    BY <1>1
  <2> QED
    BY <1>2, <1>3, <2>1, <2>2 DEF Elems
<1> QED
  BY <1>1, <1>2, <1>3, <1>4, <1>5
=============================================================================
