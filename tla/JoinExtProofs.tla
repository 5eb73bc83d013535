---------------------------- MODULE JoinExtProofs ----------------------------
(***************************************************************************)
(* Proofs about JoinExt, for any children and whatever their code does.    *)
(* First a join or select keeps the promise of Gather.  Then the inductive *)
(* invariant, IInv, part by part: who is on the stack (FrameInv), who has  *)
(* the waker of a child (TokenInv), what the two lists hold (ListInv), what*)
(* has been cleaned up (CleanInv) and where the counters stand             *)
(* (CounterInv); it gives the invariants of JoinExt.  Last, the futures    *)
(* keep the promise of Coroutine.                                          *)
(***************************************************************************)
EXTENDS JoinExt, ProofLemmas, FiniteSetTheorems, TLAPS

\* What the children that have ended leave behind: each is in the list once,
\* and those that are not are there to be polled and cleaned up.
EndedInv ==
  /\ mode \in {"join", "select", "biased"}
  /\ picked \in Seq(Kids)
  /\ present = Kids \ {picked[k] : k \in 1..Len(picked)}
  /\ completed_len = Len(picked)
  /\ completed_len + Cardinality(present) = Cardinality(Kids)

\* The answer is open until the future is over, and the child in hand is present.
AnswerInv ==
  /\ jpc \in {"idle", "loop", "child"} => answer = "open"
  /\ jpc = "child" => join_task \in present

GatherInv == EndedInv /\ AnswerInv

LEMMA CountTo == \A n \in Nat : IsFiniteSet(1..n) /\ Cardinality(1..n) = n
BY FS_Interval

\* The children are as many as the arguments.
LEMMA KidsCounted == IsFiniteSet(Kids) /\ Cardinality(Kids) = Len(Children) /\ Kids # {}
<1>1. /\ Children \in Seq(Futures) /\ Len(Children) \in Nat /\ DOMAIN Children = 1..Len(Children)
      /\ Len(Children) # 0
  BY JoinAssumption
<1>2. IsFiniteSet(1..Len(Children)) /\ Cardinality(1..Len(Children)) = Len(Children)
  BY <1>1, CountTo
<1>3. ExistsBijection(1..Len(Children), Kids)
  <2>1. [i \in 1..Len(Children) |-> Children[i]] \in Bijection(1..Len(Children), Kids)
    BY <1>1, JoinAssumption DEF Kids, Bijection, Injection, Surjection, IsInjective
  <2> QED
    BY <2>1 DEF ExistsBijection
<1>4. 1 \in DOMAIN Children
  BY <1>1
<1> QED
  BY <1>1, <1>2, <1>3, <1>4, FS_Bijection DEF Kids

LEMMA InitInv == Init => GatherInv
<1> SUFFICES ASSUME Init PROVE GatherInv
  OBVIOUS
<1> QED
  BY JoinAssumption, KidsCounted DEF Init, GatherInv, EndedInv, AnswerInv

\* A child that ends was not in the list.
LEMMA ReadyStep ==
  ASSUME GatherInv, ChildReady
  PROVE  /\ GatherInv'
         /\ join_task \in Kids /\ join_task \notin {picked[k] : k \in 1..Len(picked)}
         /\ answer = "open" /\ UNCHANGED <<mode, answer>>
         /\ picked' = Append(picked, join_task)
<1>1. /\ join_task \in present /\ jpc = "child" /\ jpc' = "loop"
      /\ answer = "open" /\ UNCHANGED <<mode, answer>>
      /\ picked' = Append(picked, join_task)
      /\ completed_len' = completed_len + 1
      /\ present' = present \ {join_task}
  BY DEF GatherInv, AnswerInv, ChildReady, LoopOn, OnReady
<1>2. /\ picked \in Seq(Kids) /\ completed_len = Len(picked)
      /\ present = Kids \ {picked[k] : k \in 1..Len(picked)}
      /\ completed_len + Cardinality(present) = Cardinality(Kids)
      /\ mode \in {"join", "select", "biased"}
  BY DEF GatherInv, EndedInv
<1>3. /\ picked' \in Seq(Kids) /\ Len(picked') = Len(picked) + 1
      /\ \A k \in 1..Len(picked) : picked'[k] = picked[k]
      /\ picked'[Len(picked) + 1] = join_task
  BY <1>1, <1>2
<1>4. present' = Kids \ {picked'[k] : k \in 1..Len(picked')}
  BY <1>1, <1>2, <1>3
<1>5. IsFiniteSet(present) /\ Cardinality(present') = Cardinality(present) - 1
      /\ Cardinality(present) \in Nat
  BY <1>1, <1>2, KidsCounted, FS_Subset, FS_RemoveElement, FS_CardinalityType
<1>6. completed_len' + Cardinality(present') = Cardinality(Kids)
  BY <1>1, <1>2, <1>5
<1>7. EndedInv'
  BY <1>1, <1>2, <1>3, <1>4, <1>6 DEF EndedInv
<1>8. AnswerInv'
  BY <1>1 DEF AnswerInv
<1> QED
  BY <1>1, <1>2, <1>7, <1>8 DEF GatherInv

\* The answer is one of those that have ended, or all have.
LEMMA FinishStep ==
  ASSUME GatherInv, JoinFinish
  PROVE  GatherInv' /\ ((\E f \in Kids : G!Answer(f)) \/ G!Joined \/ UNCHANGED <<mode, picked, answer>>)
<1>1. /\ jpc = "loop" /\ answer = "open"
      /\ UNCHANGED <<mode, present, completed_len, picked>>
  BY DEF JoinFinish, GatherInv, AnswerInv, childVars
<1>2. EndedInv'
  BY <1>1 DEF GatherInv, EndedInv
<1>3. picked \in Seq(Kids) /\ DOMAIN picked = 1..Len(picked)
  BY DEF GatherInv, EndedInv
<1>4. CASE answer' \in OnFinish /\ jpc' = "over"
  <2>1. /\ mode # "join"
        /\ \E k \in 1..Len(picked) : answer' = picked[k] /\ (mode = "biased" => k = 1)
    BY <1>3, <1>4 DEF OnFinish
  <2>2. \E f \in Kids : G!Answer(f)
    <3>1. PICK k \in 1..Len(picked) : answer' = picked[k] /\ (mode = "biased" => k = 1)
      BY <2>1
    <3>2. picked[k] \in Kids
      BY <1>3, <3>1
    <3> QED
      BY <1>1, <2>1, <3>1, <3>2 DEF G!Answer, G!Ended
  <2> QED
    BY <1>2, <1>4, <2>2 DEF GatherInv, AnswerInv
<1>5. CASE OnFinish = {} /\ AllCompleted /\ jpc' = "over" /\ answer' = "joined"
  <2>1. Cardinality(present) = 0 /\ Len(picked) # 0
    <3>1. /\ completed_len = Cardinality(Kids) /\ completed_len = Len(picked)
          /\ completed_len + Cardinality(present) = Cardinality(Kids)
          /\ present \subseteq Kids
      BY <1>5, KidsCounted DEF AllCompleted, GatherInv, EndedInv
    <3>2. Cardinality(present) \in Nat /\ Cardinality(Kids) \in Nat /\ Cardinality(Kids) # 0
      BY <3>1, KidsCounted, FS_Subset, FS_CardinalityType, FS_EmptySet
    <3> QED
      BY <3>1, <3>2
  <2>2. present = {}
    BY <2>1, KidsCounted, FS_Subset, FS_EmptySet DEF GatherInv, EndedInv
  <2>3. mode = "join"
    <3>1. 1 \in DOMAIN picked
      BY <1>3, <2>1
    <3>2. mode # "join" => picked[1] \in OnFinish
      BY <3>1 DEF OnFinish
    <3> QED
      BY <1>5, <3>2
  <2>4. G!Ended = Kids
    BY <1>3, <2>2 DEF G!Ended, GatherInv, EndedInv
  <2>5. G!Joined
    BY <1>1, <1>5, <2>3, <2>4 DEF G!Joined
  <2> QED
    BY <1>2, <1>5, <2>5 DEF GatherInv, AnswerInv
<1>6. CASE jpc' = "idle" /\ UNCHANGED answer
  BY <1>1, <1>2, <1>6 DEF GatherInv, AnswerInv
<1> QED
  BY <1>4, <1>5, <1>6 DEF JoinFinish

\* Each step maps to a step of Gather or a stutter.
LEMMA NextStep ==
  ASSUME GatherInv, [Next]_vars
  PROVE  GatherInv' /\ [G!Next]_(G!vars)
<1>1. CASE ChildReady
  BY <1>1, ReadyStep DEF G!Next, G!End, G!Ended
<1>2. CASE JoinFinish
  BY <1>2, FinishStep DEF G!Next, G!vars
<1>3. CASE Cleanup
  BY <1>3 DEF Cleanup, GatherInv, EndedInv, AnswerInv, childVars, G!Next, G!Drop, G!vars
<1>4. CASE PollJoin \/ TaskWoken \/ PollChild \/ ChildPending \/ ChildStep \/ UNCHANGED vars
           \/ \E f \in Futures : FireWaker(f)
  <2>1. UNCHANGED <<mode, present, completed_len, picked, answer>>
    BY <1>4 DEF PollJoin, TaskWoken, PollChild, ChildPending, LoopOn, ChildStep, FireWaker,
         vars, childVars, loopVars
  <2>2. EndedInv'
    BY <2>1 DEF GatherInv, EndedInv
  <2>3. AnswerInv'
    BY <1>4, <2>1 DEF GatherInv, AnswerInv, PollJoin, TaskWoken, PollChild, ChildPending, LoopOn,
         ChildStep, FireWaker, vars, childVars, loopVars
  <2> QED
    BY <2>1, <2>2, <2>3 DEF GatherInv, G!vars
<1> QED
  BY <1>1, <1>2, <1>3, <1>4 DEF Next, Loop

\* A join or select of any children ends each at most once; a join is ready
\* when all have ended, and a select answers one that has, the first if biased.
THEOREM Implements == Spec => IsGather
<1>1. Init => G!Init
  BY JoinAssumption DEF Init, G!Init
<1> QED
  BY <1>1, InitInv, NextStep, PTL DEF Spec, IsGather, G!Spec

\* Those left to be found are all that have not ended.
LEMMA LeftIs ==
  ASSUME GatherInv
  PROVE  Left = present
<1> DEFINE Before(j) == {k \in 1..j : Children[k] \in present}
<1>1. /\ Children \in Seq(Futures) /\ Len(Children) \in Nat /\ DOMAIN Children = 1..Len(Children)
      /\ \A i, j \in 1..Len(Children) : Children[i] = Children[j] => i = j
  BY JoinAssumption
<1>2. present \subseteq Kids /\ IsFiniteSet(present)
      /\ Cardinality(present) = Len(Children) - completed_len
  <2>1. /\ present \subseteq Kids /\ completed_len = Len(picked) /\ picked \in Seq(Kids)
        /\ completed_len + Cardinality(present) = Cardinality(Kids)
    BY DEF GatherInv, EndedInv
  <2>2. IsFiniteSet(present) /\ Cardinality(present) \in Nat /\ Cardinality(Kids) = Len(Children)
    BY <2>1, KidsCounted, FS_Subset, FS_CardinalityType
  <2> QED
    BY <1>1, <2>1, <2>2
<1>3. ASSUME NEW j \in 1..Len(Children)
      PROVE  Cardinality(Before(j)) <= Cardinality(present)
  <2>1. IsFiniteSet(1..Len(Children))
    BY <1>1, CountTo
  <2>2. IsFiniteSet(Before(j)) /\ Before(j) \subseteq 1..Len(Children)
    BY <1>1, <2>1, FS_Subset
  <2> DEFINE Met == {Children[k] : k \in Before(j)}
  <2>3. ExistsBijection(Before(j), Met)
    <3>1. [k \in Before(j) |-> Children[k]] \in Bijection(Before(j), Met)
      BY <1>1, <2>2 DEF Bijection, Injection, Surjection, IsInjective
    <3> QED
      BY <3>1 DEF ExistsBijection
  <2>4. Cardinality(Met) = Cardinality(Before(j)) /\ Met \subseteq present
    BY <2>2, <2>3, FS_Bijection
  <2> HIDE DEF Met
  <2> QED
    BY <1>2, <2>4, FS_Subset
<1>4. Left = {Children[i] : i \in {j \in 1..Len(Children) : Children[j] \in present}}
  <2>1. \A j \in DOMAIN Children :
          Cardinality({k \in 1..j : Children[k] \in present}) <= Len(Children) - completed_len
    BY <1>1, <1>2, <1>3
  <2> QED
    BY <1>1, <2>1 DEF Left
<1> QED
  BY <1>1, <1>2, <1>4 DEF Kids

\* The cleanup stops after as many children as have not completed, and by then
\* it has met all of them.
THEOREM CleanupReachesAll == Spec => [](Left = present)
<1>1. GatherInv => Left = present
  BY LeftIs
<1>2. Init => GatherInv
  BY InitInv
<1>3. GatherInv /\ [Next]_vars => GatherInv'
  BY NextStep
<1> QED
  BY <1>1, <1>2, <1>3, PTL DEF Spec

-----------------------------------------------------------------------------
(* The tree of futures.                                                     *)

\* How deep a future is in the environments of others.
Depth == CHOOSE depth \in [Futures -> 0..Cardinality(Futures)] :
           \A f \in Futures : \A g \in Awaits[f] : depth[f] < depth[g]

LEMMA DepthIs ==
  /\ Depth \in [Futures -> Nat]
  /\ \A f \in Futures : Depth[f] <= Cardinality(Futures)
  /\ Cardinality(Futures) \in Nat
  /\ \A f \in Futures : \A g \in Awaits[f] : g \in Futures /\ Depth[f] < Depth[g]
<1>1. Cardinality(Futures) \in Nat
  BY TreeAssumption, FS_CardinalityType
<1>2. /\ Depth \in [Futures -> 0..Cardinality(Futures)]
      /\ \A f \in Futures : \A g \in Awaits[f] : Depth[f] < Depth[g]
  BY TreeAssumption DEF Depth
<1>3. \A f \in Futures : \A g \in Awaits[f] : g \in Futures
  BY FutureAssumption
<1> QED
  BY <1>1, <1>2, <1>3

\* The futures in the environment of c, however deep.
Closed(S) == \A f \in S : Awaits[f] \subseteq S
Under(c) == {f \in Futures : \A S \in SUBSET Futures : c \in S /\ Closed(S) => f \in S}

\* The child a future belongs to, if any.
Owner == [f \in Futures |->
            IF \E c \in Kids : f \in Under(c) THEN CHOOSE c \in Kids : f \in Under(c) ELSE Null]

LEMMA KidsAre == Kids \subseteq Futures /\ Null \notin Kids /\ Null \notin Futures
<1>1. Children \in Seq(Futures) /\ DOMAIN Children = 1..Len(Children)
  BY JoinAssumption
<1> QED
  BY <1>1, FutureAssumption DEF Kids

LEMMA UnderIs ==
  ASSUME NEW c \in Kids
  PROVE  /\ c \in Under(c) /\ Closed(Under(c)) /\ Under(c) \subseteq Futures
         /\ \A S \in SUBSET Futures : c \in S /\ Closed(S) => Under(c) \subseteq S
<1>1. c \in Futures
  BY KidsAre
<1>2. ASSUME NEW f \in Under(c), NEW g \in Awaits[f]
      PROVE  g \in Under(c)
  <2>1. g \in Futures /\ f \in Futures
    BY <1>2, DepthIs DEF Under
  <2>2. ASSUME NEW S \in SUBSET Futures, c \in S, Closed(S)
        PROVE  g \in S
    BY <1>2, <2>2 DEF Under, Closed
  <2> QED
    BY <2>1, <2>2 DEF Under
<1> QED
  BY <1>1, <1>2 DEF Under, Closed

\* Nobody awaits a child, and each other future only one does.
LEMMA UnderApart ==
  ASSUME NEW c \in Kids, NEW d \in Kids, NEW f \in Under(c), f \in Under(d)
  PROVE  c = d
<1> SUFFICES ASSUME c # d PROVE FALSE
  OBVIOUS
<1>1. c \notin Under(d)
  <2> DEFINE S == Under(d) \ {c}
  <2>1. S \in SUBSET Futures /\ d \in S
    BY UnderIs
  <2>2. Closed(S)
    <3>1. Closed(Under(d)) /\ Under(d) \subseteq Futures
      BY UnderIs
    <3>2. \A g \in Futures : c \notin Awaits[g]
      BY JoinAssumption
    <3> QED
      BY <3>1, <3>2 DEF Closed
  <2> HIDE DEF S
  <2>3. Under(d) \subseteq S
    BY <2>1, <2>2, UnderIs
  <2> QED
    BY <2>3 DEF S
<1>2. Closed(Futures \ Under(d))
  <2> SUFFICES ASSUME NEW g \in Futures \ Under(d), NEW h \in Awaits[g], h \in Under(d)
               PROVE  FALSE
    BY DepthIs DEF Closed
  <2> DEFINE S == Under(d) \ {h}
  <2>1. S \in SUBSET Futures /\ d \in S
    BY UnderIs, JoinAssumption
  <2>2. Closed(S)
    <3>1. Closed(Under(d)) /\ Under(d) \subseteq Futures
      BY UnderIs
    <3>2. \A k \in Under(d) : h \notin Awaits[k]
      BY <3>1, TreeAssumption
    <3> QED
      BY <3>1, <3>2 DEF Closed
  <2> HIDE DEF S
  <2>3. Under(d) \subseteq S
    BY <2>1, <2>2, UnderIs
  <2> QED
    BY <2>3 DEF S
<1>3. Under(c) \subseteq Futures \ Under(d)
  <2>1. c \in Futures \ Under(d) /\ Futures \ Under(d) \in SUBSET Futures
    BY <1>1, KidsAre
  <2> QED
    BY <2>1, <1>2, UnderIs
<1> QED
  BY <1>3

LEMMA OwnerIs ==
  /\ Owner \in [Futures -> Kids \cup {Null}]
  /\ \A c \in Kids : Owner[c] = c
  /\ \A f \in Futures : \A g \in Awaits[f] : Owner[g] = Owner[f]
<1>1. ASSUME NEW c \in Kids, NEW f \in Under(c)
      PROVE  Owner[f] = c
  <2>1. f \in Futures
    BY UnderIs
  <2>2. \E k \in Kids : f \in Under(k)
    BY <1>1
  <2>3. Owner[f] = CHOOSE k \in Kids : f \in Under(k)
    BY <2>1, <2>2 DEF Owner
  <2>4. Owner[f] \in Kids /\ f \in Under(Owner[f])
    BY <2>2, <2>3
  <2> QED
    BY <2>4, UnderApart
<1>2. ASSUME NEW f \in Futures, \A c \in Kids : f \notin Under(c)
      PROVE  Owner[f] = Null
  BY <1>2 DEF Owner
<1>3. ASSUME NEW f \in Futures, NEW g \in Awaits[f], NEW c \in Kids, g \in Under(c)
      PROVE  f \in Under(c)
  <2> SUFFICES ASSUME f \notin Under(c) PROVE FALSE
    OBVIOUS
  <2> DEFINE S == Under(c) \ {g}
  <2>1. S \in SUBSET Futures /\ c \in S
    BY UnderIs, JoinAssumption
  <2>2. Closed(S)
    <3>1. Closed(Under(c)) /\ Under(c) \subseteq Futures
      BY UnderIs
    <3>2. \A k \in Under(c) : g \notin Awaits[k]
      BY <3>1, TreeAssumption
    <3> QED
      BY <3>1, <3>2 DEF Closed
  <2> HIDE DEF S
  <2>3. Under(c) \subseteq S
    BY <2>1, <2>2, UnderIs
  <2> QED
    BY <2>3, <1>3 DEF S
<1>4. ASSUME NEW f \in Futures, NEW g \in Awaits[f]
      PROVE  Owner[g] = Owner[f]
  <2>1. g \in Futures
    BY DepthIs
  <2>2. CASE \E c \in Kids : f \in Under(c)
    <3>1. PICK c \in Kids : f \in Under(c)
      BY <2>2
    <3>2. g \in Under(c)
      BY <3>1, UnderIs DEF Closed
    <3> QED
      BY <3>1, <3>2, <1>1
  <2>3. CASE \A c \in Kids : f \notin Under(c)
    BY <2>1, <2>3, <1>2, <1>3
  <2> QED
    BY <2>2, <2>3
<1>5. Owner \in [Futures -> Kids \cup {Null}]
  BY DEF Owner
<1> QED
  BY <1>1, <1>4, <1>5, UnderIs

-----------------------------------------------------------------------------
(* The stack.                                                               *)

Frames == [fut : Futures, scope : Nat]

\* What the steps do to it: a poll begins, the top moves to a scope or out of
\* all, and a poll returns to its caller.
Pushed(g) ==
  /\ stack' \in Seq(Frames) /\ Len(stack') = Len(stack) + 1
  /\ \A i \in 1..Len(stack) : stack'[i] = stack[i]
  /\ stack'[Len(stack) + 1].fut = g /\ stack'[Len(stack) + 1].scope = 0

Rescoped(n) ==
  /\ stack' \in Seq(Frames) /\ Len(stack') = Len(stack)
  /\ \A i \in 1..Len(stack) :
       /\ stack'[i].fut = stack[i].fut
       /\ stack'[i].scope = IF i = Len(stack) THEN n ELSE stack[i].scope

PoppedOne ==
  /\ stack' \in Seq(Frames) /\ Len(stack') = Len(stack) - 1 /\ Len(stack) > 1
  /\ \A i \in 1..(Len(stack) - 1) :
       /\ stack'[i].fut = stack[i].fut
       /\ stack'[i].scope = IF i = Len(stack) - 1 THEN 0 ELSE stack[i].scope

LEMMA PushShape ==
  ASSUME stack \in Seq(Frames), NEW g \in Futures, stack' = Append(stack, Frame(g))
  PROVE  Pushed(g)
<1>1. Frame(g) \in Frames
  BY DEF Frame, Frames
<1> QED
  BY <1>1 DEF Pushed, Frame

LEMMA ScopeShape ==
  ASSUME stack \in Seq(Frames), stack # << >>, NEW n \in Nat, stack' = WithScope(n)
  PROVE  Rescoped(n)
<1>1. /\ Len(stack) \in Nat /\ DOMAIN stack = 1..Len(stack)
      /\ \A i \in 1..Len(stack) : stack[i] \in Frames
  OBVIOUS
<1>2. stack' = [i \in 1..Len(stack) |-> IF i = Len(stack) THEN [stack[i] EXCEPT !.scope = n] ELSE stack[i]]
  BY <1>1 DEF WithScope
<1>3. \A r \in Frames : [r EXCEPT !.scope = n] \in Frames /\ [r EXCEPT !.scope = n].fut = r.fut
                        /\ [r EXCEPT !.scope = n].scope = n
  BY DEF Frames
<1>4. stack' \in [1..Len(stack) -> Frames]
  BY <1>1, <1>2, <1>3
<1>5. stack' \in Seq(Frames) /\ Len(stack') = Len(stack)
  <2>1. PICK m \in Nat : m = Len(stack) /\ stack' \in [1..m -> Frames]
    BY <1>1, <1>4
  <2> QED
    BY <2>1
<1> QED
  BY <1>1, <1>2, <1>3, <1>5 DEF Rescoped

LEMMA PopShape ==
  ASSUME stack \in Seq(Frames), Len(stack) > 1,
         stack' = PoppedOut \/ (stack' = Popped /\ stack[Len(stack) - 1].scope = 0)
  PROVE  PoppedOne
<1>1. /\ Len(stack) \in Nat /\ DOMAIN stack = 1..Len(stack)
      /\ \A i \in 1..Len(stack) : stack[i] \in Frames
  OBVIOUS
<1>2. PICK m \in Nat : m = Len(stack) - 1 /\ m > 0
  <2>1. Len(stack) - 1 \in Nat /\ Len(stack) - 1 > 0
    BY <1>1
  <2> QED
    BY <2>1
<1>3. Popped \in Seq(Frames) /\ Len(Popped) = m /\ \A i \in 1..m : Popped[i] = stack[i]
  BY <1>1, <1>2 DEF Popped
<1>4. CASE stack' = Popped /\ stack[Len(stack) - 1].scope = 0
  BY <1>1, <1>2, <1>3, <1>4 DEF PoppedOne
<1>5. CASE stack' = PoppedOut
  <2>1. DOMAIN Popped = 1..m
    BY <1>3
  <2>2. stack' = [i \in 1..m |-> IF i = m THEN [Popped[i] EXCEPT !.scope = 0] ELSE Popped[i]]
    BY <1>3, <1>5, <2>1 DEF PoppedOut
  <2>3. \A r \in Frames : [r EXCEPT !.scope = 0] \in Frames /\ [r EXCEPT !.scope = 0].fut = r.fut
                          /\ [r EXCEPT !.scope = 0].scope = 0
    BY DEF Frames
  <2>4. \A i \in 1..m : Popped[i] = stack[i] /\ stack[i] \in Frames
    BY <1>1, <1>2, <1>3
  <2>5. stack' \in [1..m -> Frames]
    BY <2>2, <2>3, <2>4
  <2>6. stack' \in Seq(Frames) /\ Len(stack') = m
    BY <1>2, <2>5
  <2>7. \A i \in 1..m : stack'[i].fut = stack[i].fut
                        /\ stack'[i].scope = IF i = m THEN 0 ELSE stack[i].scope
    BY <2>2, <2>3, <2>4
  <2> QED
    BY <1>2, <2>6, <2>7 DEF PoppedOne
<1> QED
  BY <1>4, <1>5

\* A cleanup that reaches the futures of S.
CleanedUp(S) ==
  /\ counter' \in [Futures -> Int] /\ cleaned' \in [Futures -> 0..2]
  /\ held' \in [Futures -> Futures \cup {Null}]
  /\ \A f \in Futures :
       /\ counter'[f] = IF f \in S THEN SizeMax ELSE counter[f]
       /\ cleaned'[f] = IF f \in S /\ cleaned[f] < 2 THEN cleaned[f] + 1 ELSE cleaned[f]
       /\ held'[f] = held[f] \/ held'[f] = Null

-----------------------------------------------------------------------------
(* The types, but for the bound of the counters.                            *)

FutureType ==
  /\ counter \in [Futures -> Int]
  /\ await_future \in [Futures -> Futures \cup {Null}]
  /\ held \in [Futures -> Futures \cup {Null}]
  /\ cleaned \in [Futures -> 0..2]
  /\ stack \in Seq(Frames)
  /\ pc \in {"idle", "run", "body", "return"}
  /\ pc = "idle" <=> stack = << >>
  /\ result \in {"pending", "ready", "undefined"}

JoinType ==
  /\ present \subseteq Kids
  /\ next \in [Kids -> Kids \cup {Null}]
  /\ poll_head \in Kids \cup {Null} /\ poll_tail \in Kids \cup {Null}
  /\ join_task \in Kids \cup {Null} /\ next_join_task \in Kids \cup {Null}
  /\ jpc \in {"idle", "loop", "child", "over", "freed"}
  /\ answer \in {"open", "joined", "dropped"} \cup Kids
  /\ woken \in BOOLEAN /\ due \subseteq Kids

TypeInv == FutureType /\ JoinType

LEMMA CleanupShape ==
  ASSUME FutureType, NEW fs, FutureCleanup(fs)
  PROVE  CleanedUp(UNION {Chain(f) : f \in fs})
<1>1. PICK S : S = UNION {CleansUp(f) : f \in fs}
  OBVIOUS
<1>2. S = UNION {Chain(f) : f \in fs}
  BY <1>1 DEF CleansUp
<1>3. /\ counter' = [f \in Futures |-> IF f \in S THEN SizeMax ELSE counter[f]]
      /\ cleaned' = [f \in Futures |-> IF f \in S /\ cleaned[f] < 2 THEN cleaned[f] + 1 ELSE cleaned[f]]
      /\ \E fs2 \in SUBSET Futures :
           held' = [f \in Futures |-> IF f \in fs2 THEN Null ELSE held[f]]
  <2>1. /\ counter' = [f \in Futures |-> IF f \in S THEN SizeMax ELSE counter[f]]
        /\ cleaned' = [f \in Futures |-> IF f \in S /\ cleaned[f] < 2 THEN cleaned[f] + 1 ELSE cleaned[f]]
        /\ \E fs2 \in SUBSET {f \in S : held[f] # Null} :
             held' = [f \in Futures |-> IF f \in fs2 THEN Null ELSE held[f]]
    BY <1>1 DEF FutureCleanup
  <2>2. PICK fs2 : held' = [f \in Futures |-> IF f \in fs2 THEN Null ELSE held[f]]
    BY <2>1
  <2>3. held' = [f \in Futures |-> IF f \in fs2 \cap Futures THEN Null ELSE held[f]]
    BY <2>2
  <2> QED
    BY <2>1, <2>3
<1>4. SizeMax \in Int /\ counter \in [Futures -> Int] /\ cleaned \in [Futures -> 0..2]
      /\ held \in [Futures -> Futures \cup {Null}]
  BY FutureAssumption DEF FutureType
<1>5. counter' \in [Futures -> Int]
  BY <1>3, <1>4
<1>6. cleaned' \in [Futures -> 0..2]
  BY <1>3, <1>4
<1>7. /\ held' \in [Futures -> Futures \cup {Null}]
      /\ \A f \in Futures : held'[f] = held[f] \/ held'[f] = Null
  BY <1>3, <1>4
<1>8. CleanedUp(S)
  BY <1>3, <1>5, <1>6, <1>7 DEF CleanedUp
<1> QED
  BY <1>2, <1>8

LEMMA FrameIn == \A g \in Futures : Frame(g) \in Frames
BY DEF Frame, Frames

\* The poll in progress.
LEMMA TopIs ==
  ASSUME FutureType, stack # << >>
  PROVE  /\ Len(stack) \in Nat \ {0} /\ Top \in Futures /\ Scope \in Nat /\ Root \in Futures
         /\ \A i \in 1..Len(stack) : stack[i].fut \in Futures /\ stack[i].scope \in Nat
         /\ Top = stack[Len(stack)].fut /\ Scope = stack[Len(stack)].scope /\ Root = stack[1].fut
<1>1. Len(stack) \in Nat \ {0} /\ \A i \in 1..Len(stack) : stack[i] \in Frames
  BY DEF FutureType
<1>2. \A i \in 1..Len(stack) : stack[i].fut \in Futures /\ stack[i].scope \in Nat
  BY <1>1 DEF Frames
<1> QED
  BY <1>1, <1>2 DEF Top, Scope, Root

LEMMA KindIs ==
  ASSUME NEW f \in Futures, NEW n \in Int, Kind(f, n) # "none"
  PROVE  n \in DOMAIN Body[f] /\ n \in 1..Len(Body[f]) /\ n \in Nat
<1>1. n \in DOMAIN Body[f]
  BY DEF Kind
<1>2. DOMAIN Body[f] = 1..Len(Body[f])
  BY FutureAssumption
<1> QED
  BY <1>1, <1>2

-----------------------------------------------------------------------------
(* What each step of a future does, with the type.                          *)

LEMMA DoPollAwaited ==
  ASSUME FutureType, PollAwaited
  PROVE  /\ FutureType' /\ stack # << >> /\ pc = "run" /\ await_future[Top] \in Futures
         /\ Pushed(await_future[Top])
         /\ \A f \in Futures : counter'[f] = IF f = await_future[Top] THEN counter[f] + 1 ELSE counter[f]
         /\ UNCHANGED <<await_future, held, cleaned, pc, result>>
<1>1. stack # << >> /\ pc = "run" /\ await_future[Top] # Null
  BY DEF FutureType, PollAwaited
<1>2. PICK g \in Futures : g = await_future[Top]
  BY <1>1, TopIs DEF FutureType
<1>3. /\ counter' = [counter EXCEPT ![g] = counter[g] + 1]
      /\ stack' = Append(stack, Frame(g))
      /\ UNCHANGED <<await_future, held, cleaned, pc, result>>
  BY <1>2 DEF PollAwaited
<1>4. Pushed(g)
  BY <1>2, <1>3, PushShape DEF FutureType
<1>5. counter' \in [Futures -> Int] /\ \A f \in Futures : counter'[f] = IF f = g THEN counter[f] + 1 ELSE counter[f]
  BY <1>3 DEF FutureType
<1>6. stack' # << >>
  BY <1>4 DEF Pushed, FutureType
<1>7. FutureType'
  BY <1>1, <1>3, <1>4, <1>5, <1>6 DEF FutureType, Pushed
<1> QED
  BY <1>1, <1>2, <1>3, <1>4, <1>5, <1>7

\* A scope is entered.
\* The counter of f while the body of its scope n runs.
Passed(f, n) == IF Kind(f, n) = "while" THEN n - 1 ELSE n

LEMMA DoEnter ==
  ASSUME FutureType, EnterScope \/ EnterLoop
  PROVE  /\ FutureType' /\ stack # << >> /\ pc = "run" /\ pc' = "body" /\ await_future[Top] = Null
         /\ counter[Top] \in DOMAIN Body[Top] /\ counter[Top] \in 1..Len(Body[Top])
         /\ Rescoped(counter[Top])
         /\ \A f \in Futures : f # Top => counter'[f] = counter[f]
         /\ counter'[Top] = Passed(Top, counter[Top])
         /\ UNCHANGED <<await_future, held, cleaned, result>>
<1>1. /\ stack # << >> /\ pc = "run" /\ pc' = "body" /\ await_future[Top] = Null
      /\ Kind(Top, counter[Top]) # "none"
      /\ UNCHANGED <<await_future, held, cleaned, result>>
      /\ stack' = WithScope(counter[Top])
  BY DEF FutureType, EnterScope, EnterLoop, AtScope
<1>2. Top \in Futures /\ counter[Top] \in Int
  BY <1>1, TopIs DEF FutureType
<1>3. counter[Top] \in DOMAIN Body[Top] /\ counter[Top] \in 1..Len(Body[Top]) /\ counter[Top] \in Nat
  BY <1>1, <1>2, KindIs
<1>4. Rescoped(counter[Top])
  BY <1>1, <1>3, ScopeShape DEF FutureType
<1>5. /\ counter' \in [Futures -> Int]
      /\ \A f \in Futures : f # Top => counter'[f] = counter[f]
      /\ counter'[Top] = Passed(Top, counter[Top])
  <2>1. CASE EnterScope
    BY <2>1, <1>2 DEF EnterScope, AtScope, FutureType, Passed
  <2>2. CASE EnterLoop
    <3>1. counter' = [counter EXCEPT ![Top] = counter[Top] - 1]
      BY <2>2 DEF EnterLoop, AgainCounter
    <3> QED
      BY <2>2, <3>1, <1>2 DEF EnterLoop, AtScope, FutureType, Passed
  <2> QED
    BY <2>1, <2>2
<1>6. stack' # << >>
  BY <1>1, <1>4 DEF Rescoped, FutureType
<1>7. FutureType'
  BY <1>1, <1>4, <1>5, <1>6 DEF FutureType, Rescoped
<1> QED
  BY <1>1, <1>3, <1>4, <1>5, <1>7

LEMMA DoLoopEnds ==
  ASSUME FutureType, LoopEnds
  PROVE  /\ FutureType' /\ stack # << >> /\ pc = "run" /\ await_future[Top] = Null
         /\ counter[Top] \in 1..Len(Body[Top])
         /\ \A f \in Futures : counter'[f] = IF f = Top THEN counter[f] + 1 ELSE counter[f]
         /\ UNCHANGED <<await_future, held, cleaned, stack, pc, result>>
<1>1. /\ stack # << >> /\ pc = "run" /\ await_future[Top] = Null
      /\ Kind(Top, counter[Top]) # "none"
      /\ counter' = [counter EXCEPT ![Top] = counter[Top] + 1]
      /\ UNCHANGED <<await_future, held, cleaned, stack, pc, result>>
  BY DEF FutureType, LoopEnds, AtScope
<1>2. Top \in Futures /\ counter[Top] \in Int
  BY <1>1, TopIs DEF FutureType
<1>3. counter[Top] \in 1..Len(Body[Top])
  BY <1>1, <1>2, KindIs
<1>4. /\ counter' \in [Futures -> Int]
      /\ \A f \in Futures : counter'[f] = IF f = Top THEN counter[f] + 1 ELSE counter[f]
  BY <1>1, <1>2 DEF FutureType
<1>5. FutureType'
  BY <1>1, <1>4 DEF FutureType
<1> QED
  BY <1>1, <1>3, <1>4, <1>5

LEMMA DoNoScope ==
  ASSUME FutureType, NoScope
  PROVE  /\ FutureType' /\ stack # << >> /\ pc = "run" /\ pc' = "return" /\ result' = "undefined"
         /\ UNCHANGED <<counter, await_future, held, cleaned, stack>>
BY DEF FutureType, NoScope, AtScope

\* A body ends, but for an await.
LEMMA DoEnd ==
  ASSUME FutureType, Yield \/ Break \/ Suspend \/ Return \/ RunOff
  PROVE  /\ FutureType' /\ stack # << >> /\ pc = "body" /\ pc' = "return"
         /\ Rescoped(0)
         /\ \A f \in Futures : counter'[f] = IF f = Top /\ Break THEN counter[f] + 1 ELSE counter[f]
         /\ \A f \in Futures : held'[f] = IF f = Top /\ Suspend THEN Root ELSE held[f]
         /\ Yield \/ Break \/ Suspend => result' = "pending"
         /\ RunOff => result' = "undefined"
         /\ UNCHANGED <<await_future, cleaned>>
<1>1. /\ stack # << >> /\ pc = "body" /\ pc' = "return"
      /\ stack' = WithScope(0)
      /\ result' \in {"pending", "ready", "undefined"}
      /\ UNCHANGED <<await_future, cleaned>>
  BY DEF FutureType, Yield, Break, Suspend, Return, RunOff, Ends, ReturnWith
<1>2. Top \in Futures /\ Root \in Futures
  BY <1>1, TopIs
<1>3. Rescoped(0)
  BY <1>1, ScopeShape DEF FutureType
<1>4. /\ counter' \in [Futures -> Int]
      /\ \A f \in Futures : counter'[f] = IF f = Top /\ Break THEN counter[f] + 1 ELSE counter[f]
  <2>1. CASE Break
    <3>1. counter' = [counter EXCEPT ![Top] = counter[Top] + 1]
      BY <2>1 DEF Break
    <3> QED
      BY <2>1, <3>1, <1>2 DEF FutureType
  <2>2. CASE ~Break
    BY <2>2 DEF FutureType, Yield, Suspend, Return, RunOff
  <2> QED
    BY <2>1, <2>2
<1>5. /\ held' \in [Futures -> Futures \cup {Null}]
      /\ \A f \in Futures : held'[f] = IF f = Top /\ Suspend THEN Root ELSE held[f]
  <2>1. CASE ~Suspend
    <3>1. held' = held
      BY <2>1 DEF Yield, Break, Return, RunOff
    <3> QED
      BY <2>1, <3>1 DEF FutureType
  <2>2. CASE Suspend
    <3>1. held' = [held EXCEPT ![Top] = Root]
      BY <2>2 DEF Suspend
    <3> QED
      BY <2>2, <3>1, <1>2 DEF FutureType
  <2> QED
    BY <2>1, <2>2
<1>6. /\ Yield \/ Break \/ Suspend => result' = "pending"
      /\ RunOff => result' = "undefined"
  BY DEF Yield, Break, Suspend, RunOff, ReturnWith
<1>7. stack' # << >>
  BY <1>1, <1>3 DEF Rescoped, FutureType
<1>8. FutureType'
  BY <1>1, <1>3, <1>4, <1>5, <1>7 DEF FutureType, Rescoped
<1> QED
  BY <1>1, <1>3, <1>4, <1>5, <1>6, <1>8

LEMMA DoAwait ==
  ASSUME FutureType, NEW g \in Futures, Await(g)
  PROVE  /\ FutureType' /\ stack # << >> /\ pc = "body" /\ pc' = "run"
         /\ g \in Awaits[Top] /\ g # Top
         /\ Pushed(g)
         /\ \A f \in Futures : await_future'[f] = IF f = Top THEN g ELSE IF f = g THEN Null ELSE await_future[f]
         /\ \A f \in Futures : counter'[f] = IF f = g THEN 1 ELSE counter[f]
         /\ \A f \in Futures : cleaned'[f] = IF f = g THEN 0 ELSE cleaned[f]
         /\ UNCHANGED <<held, result>>
<1>1. /\ stack # << >> /\ pc = "body" /\ pc' = "run"
      /\ g \in Awaits[Top]
      /\ stack' = Append(stack, Frame(g))
      /\ UNCHANGED <<held, result>>
  BY DEF FutureType, Await, Ends
<1>2. /\ await_future' = [await_future EXCEPT ![Top] = g, ![g] = Null]
      /\ counter' = [counter EXCEPT ![g] = 1]
      /\ cleaned' = [cleaned EXCEPT ![g] = 0]
  BY DEF Await, FirstCounter
<1>3. Top \in Futures
  BY <1>1, TopIs
<1>4. g # Top
  BY <1>1, <1>3, DepthIs
<1>5. Pushed(g)
  BY <1>1, PushShape DEF FutureType
<1>6. /\ await_future' \in [Futures -> Futures \cup {Null}]
      /\ \A f \in Futures : await_future'[f] = IF f = Top THEN g ELSE IF f = g THEN Null ELSE await_future[f]
  BY <1>2, <1>3, <1>4 DEF FutureType
<1>7. /\ counter' \in [Futures -> Int]
      /\ \A f \in Futures : counter'[f] = IF f = g THEN 1 ELSE counter[f]
  BY <1>2 DEF FutureType
<1>8. /\ cleaned' \in [Futures -> 0..2]
      /\ \A f \in Futures : cleaned'[f] = IF f = g THEN 0 ELSE cleaned[f]
  BY <1>2 DEF FutureType
<1>9. stack' # << >>
  BY <1>5 DEF Pushed, FutureType
<1>10. FutureType'
  BY <1>1, <1>5, <1>6, <1>7, <1>8, <1>9 DEF FutureType, Pushed
<1> QED
  BY <1>1, <1>4, <1>5, <1>6, <1>7, <1>8, <1>10

\* The caller is the frame below the top.
LEMMA CallerIs ==
  ASSUME FutureType, Returned
  PROVE  /\ stack # << >> /\ pc = "return" /\ Len(stack) - 1 \in 1..Len(stack) /\ Len(stack) > 1
         /\ Caller = stack[Len(stack) - 1].fut /\ Caller \in Futures
<1>1. stack # << >> /\ pc = "return" /\ Len(stack) > 1
  BY DEF Returned, FutureType
<1>2. Len(stack) - 1 \in 1..Len(stack)
  BY <1>1, TopIs
<1> QED
  BY <1>1, <1>2, TopIs DEF Caller

LEMMA DoStillAwaits ==
  ASSUME FutureType, StillAwaits
  PROVE  /\ FutureType' /\ Returned /\ result # "ready" /\ result' = "pending"
         /\ PoppedOne
         /\ \A f \in Futures : counter'[f] = IF f = Caller /\ ToBegin THEN counter[f] - 1 ELSE counter[f]
         /\ UNCHANGED <<await_future, held, cleaned, pc>>
<1>1. /\ Returned /\ result # "ready" /\ result' = "pending"
      /\ stack' = PoppedOut
      /\ counter' = IF ToBegin THEN [counter EXCEPT ![Caller] = counter[Caller] - 1] ELSE counter
      /\ UNCHANGED <<await_future, held, cleaned, pc>>
  BY DEF StillAwaits
<1>2. PoppedOne
  BY <1>1, CallerIs, PopShape DEF FutureType
<1>3. counter' \in [Futures -> Int] /\ \A f \in Futures : counter'[f] = IF f = Caller /\ ToBegin THEN counter[f] - 1 ELSE counter[f]
  <2>1. CASE ToBegin
    BY <1>1, <2>1, CallerIs DEF FutureType
  <2>2. CASE ~ToBegin
    BY <1>1, <2>2, CallerIs DEF FutureType
  <2> QED
    BY <2>1, <2>2
<1>4. stack' # << >> /\ stack # << >>
  BY <1>1, <1>2, CallerIs DEF PoppedOne
<1>5. FutureType'
  BY <1>1, <1>2, <1>3, <1>4 DEF FutureType, PoppedOne
<1> QED
  BY <1>1, <1>2, <1>3, <1>5

\* An await is over: what was awaited is cleaned up.
LEMMA DoAwaited ==
  ASSUME FutureType, AwaitedBefore \/ AwaitedAtOnce
  PROVE  /\ FutureType' /\ Returned /\ result = "ready"
         /\ PoppedOne
         /\ CleanedUp(Chain(Top))
         /\ \A f \in Futures : await_future'[f] = IF f = Caller THEN Null ELSE await_future[f]
         /\ AwaitedBefore => ToBegin /\ pc' = "run"
         /\ AwaitedAtOnce => ToBody /\ pc' = "return" /\ result' = "pending"
<1>1. /\ Returned /\ result = "ready"
      /\ FutureCleanup({Top})
      /\ await_future' = [await_future EXCEPT ![Caller] = Null]
      /\ AwaitedBefore => ToBegin /\ pc' = "run" /\ stack' = Popped /\ UNCHANGED result
      /\ AwaitedAtOnce => ToBody /\ pc' = "return" /\ stack' = PoppedOut /\ result' = "pending"
  BY DEF AwaitedBefore, AwaitedAtOnce, ToBegin, ToBody, Returned, AwaitOver
<1>2. CleanedUp(Chain(Top))
  <2>1. UNION {Chain(f) : f \in {Top}} = Chain(Top)
    OBVIOUS
  <2> QED
    BY <1>1, <2>1, CleanupShape
<1>3. PoppedOne
  <2>1. stack' = PoppedOut \/ (stack' = Popped /\ stack[Len(stack) - 1].scope = 0)
    BY <1>1 DEF ToBegin
  <2> QED
    BY <1>1, <2>1, CallerIs, PopShape DEF FutureType
<1>4. /\ await_future' \in [Futures -> Futures \cup {Null}]
      /\ \A f \in Futures : await_future'[f] = IF f = Caller THEN Null ELSE await_future[f]
  BY <1>1, CallerIs DEF FutureType
<1>5. stack' # << >> /\ stack # << >>
  BY <1>1, <1>3, CallerIs DEF PoppedOne
<1>6. /\ pc' \in {"run", "return"} /\ result' \in {"pending", "ready", "undefined"}
      /\ counter' \in [Futures -> Int] /\ cleaned' \in [Futures -> 0..2]
      /\ held' \in [Futures -> Futures \cup {Null}] /\ stack' \in Seq(Frames)
  BY <1>1, <1>2, <1>3 DEF CleanedUp, PoppedOne
<1>7. FutureType'
  BY <1>4, <1>5, <1>6 DEF FutureType
<1> QED
  BY <1>1, <1>2, <1>3, <1>4, <1>7

-----------------------------------------------------------------------------
(* What each step of the join does, with the types.                         *)

LEMMA DoPollChild ==
  ASSUME TypeInv, PollChild
  PROVE  /\ TypeInv' /\ jpc = "loop" /\ jpc' = "child" /\ pc = "idle" /\ pc' = "run"
         /\ stack = << >> /\ join_task \in present /\ join_task \in Kids
         /\ stack' \in Seq(Frames) /\ Len(stack') = 1 /\ stack'[1].fut = join_task /\ stack'[1].scope = 0
         /\ \A f \in Futures : counter'[f] = IF f = join_task THEN counter[f] + 1 ELSE counter[f]
         /\ next_join_task' = next[join_task]
         /\ due' = due \ {join_task}
         /\ UNCHANGED <<await_future, held, cleaned, result, linkVars, childVars, join_task, answer, woken>>
<1>1. /\ jpc = "loop" /\ jpc' = "child" /\ pc = "idle" /\ pc' = "run"
      /\ stack = << >> /\ join_task \in present /\ join_task \in Kids
      /\ counter' = [counter EXCEPT ![join_task] = counter[join_task] + 1]
      /\ stack' = <<Frame(join_task)>>
      /\ next_join_task' = next[join_task]
      /\ due' = due \ {join_task}
      /\ UNCHANGED <<await_future, held, cleaned, result, linkVars, childVars, join_task, answer, woken>>
  BY DEF TypeInv, FutureType, JoinType, PollChild, StartPoll
<1>2. join_task \in Futures
  BY <1>1, KidsAre
<1>3. Frame(join_task) \in Frames
  BY <1>2, FrameIn
<1>4. /\ stack' \in Seq(Frames) /\ Len(stack') = 1 /\ stack'[1].fut = join_task
      /\ stack'[1].scope = 0 /\ stack' # << >>
  BY <1>1, <1>3 DEF Frame
<1>5. /\ counter' \in [Futures -> Int]
      /\ \A f \in Futures : counter'[f] = IF f = join_task THEN counter[f] + 1 ELSE counter[f]
  BY <1>1, <1>2 DEF TypeInv, FutureType
<1>6. FutureType'
  BY <1>1, <1>4, <1>5 DEF TypeInv, FutureType
<1>7. next_join_task' \in Kids \cup {Null}
  BY <1>1 DEF TypeInv, JoinType
<1>8. JoinType'
  BY <1>1, <1>7 DEF TypeInv, JoinType, linkVars, childVars
<1> QED
  BY <1>1, <1>4, <1>5, <1>6, <1>8 DEF TypeInv

\* The waker of a child is called.
LEMMA DoJoinWake ==
  ASSUME JoinType, NEW c \in Kids, JoinWake(c)
  PROVE  /\ next' \in [Kids -> Kids \cup {Null}]
         /\ \A f \in Kids : next'[f] = IF f = poll_tail THEN c ELSE IF f = c THEN Null ELSE next[f]
         /\ poll_head' = IF poll_tail = Null THEN c ELSE poll_head
         /\ poll_tail' = c /\ woken' = TRUE /\ due' = due \cup {c}
<1>1. next \in [Kids -> Kids \cup {Null}] /\ Null \notin Kids /\ poll_tail \in Kids \cup {Null}
  BY KidsAre DEF JoinType
<1>2. /\ next' = IF poll_tail = Null THEN [next EXCEPT ![c] = Null]
                 ELSE [next EXCEPT ![c] = Null, ![poll_tail] = c]
      /\ poll_head' = IF poll_tail = Null THEN c ELSE poll_head
      /\ poll_tail' = c /\ woken' = TRUE /\ due' = due \cup {c}
  BY DEF JoinWake, NewTail
<1>3. CASE poll_tail = Null
  <2>1. next' = [next EXCEPT ![c] = Null]
    BY <1>2, <1>3
  <2>2. /\ next' \in [Kids -> Kids \cup {Null}]
        /\ \A f \in Kids : next'[f] = IF f = c THEN Null ELSE next[f]
    BY <1>1, <2>1
  <2> QED
    BY <1>1, <1>2, <1>3, <2>2
<1>4. CASE poll_tail \in Kids
  <2>1. next' = [next EXCEPT ![c] = Null, ![poll_tail] = c]
    BY <1>1, <1>2, <1>4
  <2>2. /\ next' \in [Kids -> Kids \cup {Null}]
        /\ \A f \in Kids : next'[f] = IF f = poll_tail THEN c ELSE IF f = c THEN Null ELSE next[f]
    BY <1>1, <1>4, <2>1
  <2> QED
    BY <1>2, <2>2
<1> QED
  BY <1>1, <1>3, <1>4

LEMMA WakeType ==
  ASSUME JoinType, NEW c \in Kids, JoinWake(c), UNCHANGED <<childVars, loopVars>>
  PROVE  JoinType'
<1>1. /\ next' \in [Kids -> Kids \cup {Null}]
      /\ poll_head' \in Kids \cup {Null} /\ poll_tail' \in Kids
      /\ woken' \in BOOLEAN /\ due' \subseteq Kids
  <2>1. /\ next' \in [Kids -> Kids \cup {Null}]
        /\ poll_head' = IF poll_tail = Null THEN c ELSE poll_head
        /\ poll_tail' = c /\ woken' = TRUE /\ due' = due \cup {c}
    BY DoJoinWake
  <2> QED
    BY <2>1 DEF JoinType
<1> QED
  BY <1>1 DEF JoinType, childVars, loopVars

LEMMA DoLoopOn ==
  ASSUME TypeInv, ChildPending \/ ChildReady
  PROVE  /\ TypeInv' /\ jpc = "child" /\ jpc' = "loop" /\ pc = "return" /\ Len(stack) = 1
         /\ stack # << >> /\ stack' = << >> /\ pc' = "idle"
         /\ join_task' = next_join_task
         /\ ChildPending => result # "ready" /\ UNCHANGED <<counter, held, cleaned, present>>
         /\ ChildReady => /\ result = "ready" /\ present' = present \ {join_task}
                          /\ CleanedUp(Chain(join_task))
         /\ UNCHANGED <<await_future, linkVars, mode, next_join_task, answer, woken, due, result>>
<1>1. /\ jpc = "child" /\ jpc' = "loop" /\ pc = "return" /\ Len(stack) = 1
      /\ stack # << >> /\ stack' = << >> /\ pc' = "idle"
      /\ join_task' = next_join_task
      /\ ChildPending => result # "ready" /\ UNCHANGED <<counter, held, cleaned, present>>
      /\ ChildReady => /\ result = "ready" /\ present' = present \ {join_task}
                       /\ FutureCleanup({join_task})
      /\ UNCHANGED <<await_future, linkVars, mode, next_join_task, answer, woken, due, result>>
  BY DEF TypeInv, FutureType, ChildPending, ChildReady, LoopOn
<1>2. ASSUME ChildReady PROVE CleanedUp(Chain(join_task))
  <2>1. UNION {Chain(f) : f \in {join_task}} = Chain(join_task)
    OBVIOUS
  <2>2. FutureCleanup({join_task})
    BY <1>1, <1>2
  <2> QED
    BY <2>1, <2>2, CleanupShape DEF TypeInv
<1>3. /\ counter' \in [Futures -> Int] /\ cleaned' \in [Futures -> 0..2]
      /\ held' \in [Futures -> Futures \cup {Null}]
  BY <1>1, <1>2 DEF TypeInv, FutureType, CleanedUp
<1>4. stack' \in Seq(Frames)
  BY <1>1
<1>5. FutureType'
  BY <1>1, <1>3, <1>4 DEF TypeInv, FutureType
<1>6. JoinType'
  BY <1>1 DEF TypeInv, JoinType, linkVars
<1> QED
  BY <1>1, <1>2, <1>5, <1>6 DEF TypeInv

LEMMA DoFireWaker ==
  ASSUME TypeInv, NEW f \in Futures, held[f] \in Kids, FireWaker(f)
  PROVE  /\ TypeInv'
         /\ \A g \in Futures : held'[g] = IF g = f THEN Null ELSE held[g]
         /\ JoinWake(held[f])
         /\ UNCHANGED <<counter, await_future, cleaned, stack, pc, result, childVars, loopVars>>
<1>1. /\ held' = [held EXCEPT ![f] = Null]
      /\ JoinWake(held[f])
      /\ UNCHANGED <<counter, await_future, cleaned, stack, pc, result, childVars, loopVars>>
  BY DEF FireWaker
<1>2. /\ held' \in [Futures -> Futures \cup {Null}]
      /\ \A g \in Futures : held'[g] = IF g = f THEN Null ELSE held[g]
  BY <1>1 DEF TypeInv, FutureType
<1>3. FutureType'
  BY <1>1, <1>2 DEF TypeInv, FutureType
<1>4. JoinType'
  BY <1>1, WakeType DEF TypeInv
<1> QED
  BY <1>1, <1>2, <1>3, <1>4 DEF TypeInv

LEMMA DoCleanup ==
  ASSUME TypeInv, Cleanup
  PROVE  /\ TypeInv' /\ jpc \in {"idle", "over"} /\ jpc' = "freed"
         /\ CleanedUp(UNION {Chain(f) : f \in Left})
         /\ UNCHANGED <<await_future, stack, pc, result, linkVars, childVars, join_task, next_join_task, woken, due>>
<1>1. /\ jpc \in {"idle", "over"} /\ jpc' = "freed"
      /\ answer' \in {answer, "dropped"}
      /\ FutureCleanup(Left)
      /\ UNCHANGED <<await_future, stack, pc, result, linkVars, childVars, join_task, next_join_task, woken, due>>
  BY DEF Cleanup
<1>2. CleanedUp(UNION {Chain(f) : f \in Left})
  BY <1>1, CleanupShape DEF TypeInv
<1>3. FutureType'
  BY <1>1, <1>2 DEF TypeInv, FutureType, CleanedUp
<1>4. JoinType'
  BY <1>1 DEF TypeInv, JoinType, linkVars, childVars
<1> QED
  BY <1>1, <1>2, <1>3, <1>4 DEF TypeInv

LEMMA DoJoinFinish ==
  ASSUME TypeInv, EndedInv, JoinFinish
  PROVE  /\ TypeInv' /\ jpc = "loop" /\ jpc' \in {"idle", "over"} /\ join_task = Null
         /\ UNCHANGED <<futureVars, linkVars, childVars, join_task, next_join_task, woken, due>>
<1>1. /\ jpc = "loop" /\ jpc' \in {"idle", "over"} /\ join_task = Null
      /\ answer' \in OnFinish \cup {"joined", answer}
      /\ UNCHANGED <<futureVars, linkVars, childVars, join_task, next_join_task, woken, due>>
  BY DEF JoinFinish
<1>2. OnFinish \subseteq Kids
  <2>1. picked \in Seq(Kids) /\ DOMAIN picked = 1..Len(picked)
    BY DEF EndedInv
  <2> QED
    BY <2>1 DEF OnFinish
<1>3. FutureType'
  BY <1>1 DEF TypeInv, FutureType, futureVars
<1>4. JoinType'
  BY <1>1, <1>2 DEF TypeInv, JoinType, linkVars, childVars
<1> QED
  BY <1>1, <1>3, <1>4 DEF TypeInv

LEMMA DoPollJoin ==
  ASSUME TypeInv, PollJoin \/ TaskWoken
  PROVE  /\ TypeInv' /\ jpc = "idle"
         /\ UNCHANGED <<futureVars, next, childVars, next_join_task, answer, due>>
         /\ PollJoin => /\ jpc' = "loop" /\ join_task' = poll_head
                        /\ poll_head' = Null /\ poll_tail' = Null
         /\ TaskWoken => UNCHANGED <<linkVars, loopVars>>
<1>1. /\ jpc = "idle" /\ woken' \in BOOLEAN
      /\ UNCHANGED <<futureVars, next, childVars, next_join_task, answer, due>>
      /\ PollJoin => /\ jpc' = "loop" /\ join_task' = poll_head
                     /\ poll_head' = Null /\ poll_tail' = Null
      /\ TaskWoken => UNCHANGED <<linkVars, loopVars>>
  BY DEF PollJoin, TaskWoken, FirstWoken, TakenTail, linkVars, loopVars
<1>2. FutureType'
  BY <1>1 DEF TypeInv, FutureType, futureVars
<1>3. JoinType'
  BY <1>1 DEF TypeInv, JoinType, linkVars, childVars, loopVars
<1> QED
  BY <1>1, <1>2, <1>3 DEF TypeInv

-----------------------------------------------------------------------------
(* The polls in progress: each future is awaited by the one below it.       *)

AwaitInv == \A f \in Futures : await_future[f] \in Awaits[f] \cup {Null}

StackInv ==
  /\ jpc = "child" <=> stack # << >>
  /\ stack # << >> => stack[1].fut = join_task
  /\ \A i \in 1..Len(stack) : Owner[stack[i].fut] = join_task
  /\ \A i, j \in 1..Len(stack) : i < j => Depth[stack[i].fut] < Depth[stack[j].fut]
  /\ \A i \in 1..Len(stack) : i < Len(stack) => await_future[stack[i].fut] = stack[i + 1].fut
  /\ \A i \in 1..Len(stack) : stack[i].scope # 0 => stack[i].scope \in 1..Len(Body[stack[i].fut])

\* A future that runs its body, or that is ready, awaits nothing.
PcInv ==
  /\ pc = "body" => Scope # 0 /\ await_future[Top] = Null
  /\ pc \in {"run", "return"} => Scope = 0
  /\ pc = "return" /\ result = "ready" => await_future[Top] = Null

FrameInv == AwaitInv /\ StackInv /\ PcInv

\* A future is on the stack once.
LEMMA OnceOnStack ==
  ASSUME FutureType, StackInv, NEW i \in 1..Len(stack), NEW j \in 1..Len(stack),
         stack[i].fut = stack[j].fut
  PROVE  i = j
<1>1. Len(stack) \in Nat /\ \A k \in 1..Len(stack) : Depth[stack[k].fut] \in Nat
  <2>1. stack # << >>
    BY DEF FutureType
  <2> QED
    BY <2>1, TopIs, DepthIs
<1>2. i < j => Depth[stack[i].fut] < Depth[stack[j].fut]
  BY DEF StackInv
<1>3. j < i => Depth[stack[j].fut] < Depth[stack[i].fut]
  BY DEF StackInv
<1> QED
  BY <1>1, <1>2, <1>3

\* What the top awaits, or may, is not on the stack.
LEMMA Deeper ==
  ASSUME FutureType, StackInv, stack # << >>, NEW g \in Awaits[Top]
  PROVE  /\ g \in Futures
         /\ \A i \in 1..Len(stack) : Depth[stack[i].fut] < Depth[g] /\ stack[i].fut # g
         /\ Owner[g] = join_task
<1>1. /\ Len(stack) \in Nat \ {0} /\ Top \in Futures /\ Top = stack[Len(stack)].fut
      /\ \A i \in 1..Len(stack) : stack[i].fut \in Futures
  BY TopIs
<1>2. g \in Futures /\ Depth[Top] < Depth[g] /\ Depth \in [Futures -> Nat]
  BY <1>1, DepthIs
<1>3. ASSUME NEW i \in 1..Len(stack)
      PROVE  Depth[stack[i].fut] < Depth[g]
  <2>1. i < Len(stack) => Depth[stack[i].fut] < Depth[Top]
    BY <1>1 DEF StackInv
  <2>2. i = Len(stack) => Depth[stack[i].fut] = Depth[Top]
    BY <1>1
  <2>3. Depth[stack[i].fut] \in Nat /\ Depth[Top] \in Nat /\ Depth[g] \in Nat
    BY <1>1, <1>2
  <2> QED
    BY <1>1, <1>2, <2>1, <2>2, <2>3
<1>4. Owner[g] = join_task
  BY <1>1, OwnerIs DEF StackInv
<1>5. Depth[g] \in Nat
  BY <1>2
<1> QED
  BY <1>2, <1>3, <1>4, <1>5

LEMMA FramePush ==
  ASSUME FutureType, FutureType', FrameInv, stack # << >>, NEW g \in Awaits[Top], Pushed(g),
         AwaitInv', pc' = "run", UNCHANGED <<jpc, join_task>>,
         await_future'[Top] = g,
         \A f \in Futures : f # Top /\ f # g => await_future'[f] = await_future[f]
  PROVE  FrameInv'
<1>1. PICK m \in Nat \ {0} : m = Len(stack)
  BY TopIs
<1>2. /\ Len(stack') = m + 1
      /\ \A i \in 1..m : stack'[i] = stack[i]
      /\ stack'[m + 1].fut = g /\ stack'[m + 1].scope = 0
  BY <1>1 DEF Pushed
<1>3. \A i \in 1..(m + 1) : i \in 1..m \/ i = m + 1
  BY <1>1
<1>4. \A i \in 1..m : stack[i].fut \in Futures /\ stack[i].fut # g /\ Depth[stack[i].fut] < Depth[g]
  BY <1>1, Deeper, TopIs DEF FrameInv
<1>5. /\ jpc' = "child" <=> stack' # << >>
      /\ stack' # << >> => stack'[1].fut = join_task'
  BY <1>1, <1>2 DEF FrameInv, StackInv
<1>6. \A i \in 1..(m + 1) : Owner[stack'[i].fut] = join_task'
  <2>1. Owner[g] = join_task
    BY Deeper DEF FrameInv
  <2> QED
    BY <2>1, <1>1, <1>2, <1>3 DEF FrameInv, StackInv
<1>7. \A i, j \in 1..(m + 1) : i < j => Depth[stack'[i].fut] < Depth[stack'[j].fut]
  <2> SUFFICES ASSUME NEW i \in 1..(m + 1), NEW j \in 1..(m + 1), i < j
               PROVE  Depth[stack'[i].fut] < Depth[stack'[j].fut]
    OBVIOUS
  <2>1. i \in 1..m
    OBVIOUS
  <2>2. CASE j \in 1..m
    BY <2>1, <2>2, <1>1, <1>2 DEF FrameInv, StackInv
  <2>3. CASE j = m + 1
    BY <2>1, <2>3, <1>2, <1>4
  <2> QED
    BY <1>3, <2>2, <2>3
<1>8. \A i \in 1..(m + 1) : i < m + 1 => await_future'[stack'[i].fut] = stack'[i + 1].fut
  <2> SUFFICES ASSUME NEW i \in 1..m
               PROVE  await_future'[stack[i].fut] = stack'[i + 1].fut
    BY <1>2
  <2>1. CASE i = m
    BY <2>1, <1>1, <1>2, TopIs
  <2>2. CASE i < m
    <3>1. i + 1 \in 1..m /\ m \in 1..Len(stack)
      BY <2>2, <1>1
    <3>2. stack[i].fut # Top
      BY <2>2, <3>1, <1>1, TopIs, OnceOnStack DEF FrameInv
    <3>3. await_future[stack[i].fut] = stack[i + 1].fut
      BY <2>2, <1>1 DEF FrameInv, StackInv
    <3> QED
      BY <3>1, <3>2, <3>3, <1>2, <1>4
  <2> QED
    BY <2>1, <2>2
<1>9. \A i \in 1..(m + 1) : stack'[i].scope # 0 => stack'[i].scope \in 1..Len(Body[stack'[i].fut])
  <2>1. \A i \in 1..m : stack[i].scope # 0 => stack[i].scope \in 1..Len(Body[stack[i].fut])
    BY <1>1 DEF FrameInv, StackInv
  <2> QED
    BY <2>1, <1>2, <1>3
<1>10. StackInv'
  BY <1>2, <1>5, <1>6, <1>7, <1>8, <1>9 DEF StackInv
<1>11. Scope' = 0
  BY <1>2 DEF Scope
<1> QED
  BY <1>10, <1>11 DEF FrameInv, PcInv

LEMMA FrameScope ==
  ASSUME FutureType, FutureType', FrameInv, stack # << >>, NEW n \in Nat, Rescoped(n),
         UNCHANGED <<jpc, join_task, await_future>>,
         n # 0 => n \in 1..Len(Body[Top])
  PROVE  /\ StackInv' /\ AwaitInv' /\ Top' = Top /\ Scope' = n
<1>1. PICK m \in Nat \ {0} : m = Len(stack)
  BY TopIs
<1>2. /\ Len(stack') = m
      /\ \A i \in 1..m : stack'[i].fut = stack[i].fut /\ stack'[i].scope = IF i = m THEN n ELSE stack[i].scope
  BY <1>1 DEF Rescoped
<1>3. /\ jpc' = "child" <=> stack' # << >>
      /\ stack' # << >> => stack'[1].fut = join_task'
  BY <1>1, <1>2 DEF FrameInv, StackInv
<1>4. /\ \A i \in 1..m : Owner[stack'[i].fut] = join_task'
      /\ \A i, j \in 1..m : i < j => Depth[stack'[i].fut] < Depth[stack'[j].fut]
  BY <1>1, <1>2 DEF FrameInv, StackInv
<1>5. \A i \in 1..m : i < m => await_future'[stack'[i].fut] = stack'[i + 1].fut
  <2> SUFFICES ASSUME NEW i \in 1..m, i < m PROVE await_future[stack[i].fut] = stack'[i + 1].fut
    BY <1>2
  <2>1. i + 1 \in 1..m
    OBVIOUS
  <2> QED
    BY <2>1, <1>1, <1>2 DEF FrameInv, StackInv
<1>6. \A i \in 1..m : stack'[i].scope # 0 => stack'[i].scope \in 1..Len(Body[stack'[i].fut])
  <2>1. \A i \in 1..m : stack[i].scope # 0 => stack[i].scope \in 1..Len(Body[stack[i].fut])
    BY <1>1 DEF FrameInv, StackInv
  <2> QED
    BY <2>1, <1>1, <1>2, TopIs
<1>7. StackInv'
  BY <1>2, <1>3, <1>4, <1>5, <1>6 DEF StackInv
<1> QED
  BY <1>1, <1>2, <1>7 DEF FrameInv, AwaitInv, Top, Scope

LEMMA OneLess == \A n \in Nat : n > 1 => n - 1 \in Nat \ {0}
OBVIOUS

LEMMA FramePop ==
  ASSUME FutureType, FutureType', FrameInv, PoppedOne,
         UNCHANGED <<jpc, join_task>>,
         \A f \in Futures : await_future'[f] = await_future[f] \/ (f = Caller /\ await_future'[f] = Null)
  PROVE  /\ StackInv' /\ AwaitInv' /\ Top' = Caller /\ Scope' = 0
<1>1. PICK m \in Nat \ {0} : m = Len(stack) - 1
  <2>1. Len(stack) \in Nat /\ Len(stack) > 1
    BY DEF PoppedOne, FutureType
  <2> QED
    BY <2>1, OneLess
<1>2. /\ Len(stack') = m /\ Len(stack) = m + 1 /\ stack # << >>
      /\ \A i \in 1..m : stack'[i].fut = stack[i].fut /\ stack'[i].scope = IF i = m THEN 0 ELSE stack[i].scope
  BY <1>1 DEF PoppedOne, FutureType
<1>3. \A i \in 1..m : i \in 1..(m + 1) /\ i < m + 1
  OBVIOUS
<1>4. /\ jpc' = "child" <=> stack' # << >>
      /\ stack' # << >> => stack'[1].fut = join_task'
  BY <1>1, <1>2 DEF FrameInv, StackInv
<1>5. /\ \A i \in 1..m : Owner[stack'[i].fut] = join_task'
      /\ \A i, j \in 1..m : i < j => Depth[stack'[i].fut] < Depth[stack'[j].fut]
  BY <1>1, <1>2, <1>3 DEF FrameInv, StackInv
<1>6. \A i \in 1..m : i < m => await_future'[stack'[i].fut] = stack'[i + 1].fut
  <2> SUFFICES ASSUME NEW i \in 1..m, i < m PROVE await_future'[stack[i].fut] = stack'[i + 1].fut
    BY <1>2
  <2>1. i + 1 \in 1..m /\ m \in 1..Len(stack) /\ i \in 1..Len(stack)
    BY <1>2
  <2>2. Caller = stack[m].fut
    BY <1>1 DEF Caller
  <2>3. stack[i].fut # Caller /\ stack[i].fut \in Futures
    BY <2>1, <2>2, <1>2, OnceOnStack, TopIs DEF FrameInv
  <2>4. await_future[stack[i].fut] = stack[i + 1].fut
    BY <1>2, <1>3 DEF FrameInv, StackInv
  <2> QED
    BY <2>1, <2>3, <2>4, <1>2
<1>7. \A i \in 1..m : stack'[i].scope # 0 => stack'[i].scope \in 1..Len(Body[stack'[i].fut])
  <2>1. \A i \in 1..m : stack[i].scope # 0 => stack[i].scope \in 1..Len(Body[stack[i].fut])
    BY <1>2, <1>3 DEF FrameInv, StackInv
  <2> QED
    BY <2>1, <1>2
<1>8. StackInv'
  BY <1>2, <1>4, <1>5, <1>6, <1>7 DEF StackInv
<1>9. AwaitInv'
  BY DEF FrameInv, AwaitInv
<1> QED
  BY <1>1, <1>2, <1>8, <1>9 DEF Top, Scope, Caller

LEMMA FrameChild ==
  ASSUME TypeInv, FrameInv, ChildStep
  PROVE  FrameInv' /\ FutureType'
<1>0. FutureType /\ jpc = "child" /\ UNCHANGED <<jpc, join_task>>
  BY DEF TypeInv, ChildStep, loopVars
<1>1. CASE PollAwaited
  <2>1. await_future[Top] \in Awaits[Top] /\ AwaitInv'
    <3>1. Top \in Futures /\ await_future[Top] # Null /\ await_future' = await_future
      BY <1>0, <1>1, DoPollAwaited, TopIs, KidsAre
    <3> QED
      BY <3>1 DEF FrameInv, AwaitInv
  <2>2. PICK g \in Awaits[Top] : g = await_future[Top]
    BY <2>1
  <2>3. Pushed(g) /\ pc' = "run" /\ await_future' = await_future /\ stack # << >> /\ FutureType'
    BY <1>0, <1>1, <2>2, DoPollAwaited
  <2> QED
    BY <1>0, <2>1, <2>2, <2>3, FramePush
<1>2. CASE EnterScope \/ EnterLoop
  <2>1. PICK n \in Nat : n = counter[Top] /\ n # 0 /\ n \in 1..Len(Body[Top])
    <3>1. counter[Top] \in 1..Len(Body[Top])
      BY <1>0, <1>2, DoEnter
    <3>2. counter[Top] \in Nat \ {0}
      BY <3>1
    <3> QED
      BY <3>1, <3>2
  <2>2. /\ FutureType' /\ stack # << >> /\ pc' = "body" /\ await_future[Top] = Null
        /\ Rescoped(n) /\ await_future' = await_future
    BY <1>0, <1>2, <2>1, DoEnter
  <2>3. StackInv' /\ AwaitInv' /\ Top' = Top /\ Scope' = n
    BY <1>0, <2>1, <2>2, FrameScope
  <2> QED
    BY <2>1, <2>2, <2>3 DEF FrameInv, PcInv
<1>3. CASE LoopEnds
  <2>1. /\ FutureType' /\ UNCHANGED <<await_future, stack, pc, result>>
    BY <1>0, <1>3, DoLoopEnds
  <2> QED
    BY <1>0, <2>1 DEF FrameInv, PcInv, StackInv, AwaitInv, Scope, Top
<1>4. CASE NoScope
  <2>1. /\ FutureType' /\ pc = "run" /\ pc' = "return" /\ result' = "undefined"
        /\ UNCHANGED <<await_future, stack>>
    BY <1>0, <1>4, DoNoScope
  <2> QED
    BY <1>0, <2>1 DEF FrameInv, PcInv, StackInv, AwaitInv, Scope, Top
<1>5. CASE Yield \/ Break \/ Suspend \/ Return \/ RunOff
  <2>1. /\ FutureType' /\ stack # << >> /\ pc = "body" /\ pc' = "return"
        /\ Rescoped(0) /\ await_future' = await_future
    BY <1>0, <1>5, DoEnd
  <2>2. StackInv' /\ AwaitInv' /\ Top' = Top /\ Scope' = 0
    BY <1>0, <2>1, FrameScope
  <2> QED
    BY <2>1, <2>2 DEF FrameInv, PcInv
<1>6. ASSUME NEW g \in Futures, Await(g)
      PROVE  FrameInv' /\ FutureType'
  <2>1. /\ FutureType' /\ stack # << >> /\ pc' = "run" /\ g \in Awaits[Top] /\ g # Top /\ Pushed(g)
        /\ \A f \in Futures : await_future'[f] = IF f = Top THEN g ELSE IF f = g THEN Null ELSE await_future[f]
    BY <1>0, <1>6, DoAwait
  <2>2. AwaitInv'
    BY <2>1 DEF FrameInv, AwaitInv
  <2>3. await_future'[Top] = g /\ \A f \in Futures : f # Top /\ f # g => await_future'[f] = await_future[f]
    BY <1>0, <2>1, TopIs
  <2> QED
    BY <1>0, <2>1, <2>2, <2>3, FramePush
<1>7. CASE StillAwaits
  <2>1. /\ FutureType' /\ PoppedOne /\ result' = "pending" /\ pc' = "return"
        /\ await_future' = await_future
    BY <1>0, <1>7, DoStillAwaits, CallerIs
  <2>2. StackInv' /\ AwaitInv' /\ Scope' = 0
    BY <1>0, <2>1, FramePop
  <2> QED
    BY <2>1, <2>2 DEF FrameInv, PcInv
<1>8. CASE AwaitedBefore \/ AwaitedAtOnce
  <2>1. /\ FutureType' /\ PoppedOne
        /\ pc' = "run" \/ (pc' = "return" /\ result' = "pending")
        /\ \A f \in Futures : await_future'[f] = IF f = Caller THEN Null ELSE await_future[f]
    BY <1>0, <1>8, DoAwaited
  <2>2. \A f \in Futures : await_future'[f] = await_future[f] \/ (f = Caller /\ await_future'[f] = Null)
    BY <2>1
  <2>3. StackInv' /\ AwaitInv' /\ Scope' = 0
    BY <1>0, <2>1, <2>2, FramePop
  <2> QED
    BY <2>1, <2>3 DEF FrameInv, PcInv
<1> QED
  BY <1>1, <1>2, <1>3, <1>4, <1>5, <1>6, <1>7, <1>8 DEF ChildStep, QuietStep, WakingStep

LEMMA FrameJoin ==
  ASSUME TypeInv, FrameInv, GatherInv, [Next]_vars, ~ChildStep
  PROVE  FrameInv'
<1>1. CASE PollChild
  <2>1. /\ jpc' = "child" /\ pc' = "run" /\ stack = << >> /\ join_task \in Kids
        /\ stack' \in Seq(Frames) /\ Len(stack') = 1 /\ stack'[1].fut = join_task /\ stack'[1].scope = 0
        /\ UNCHANGED <<await_future, join_task>>
    BY <1>1, DoPollChild
  <2>2. Owner[join_task] = join_task
    BY <2>1, OwnerIs
  <2>3. StackInv'
    <3>1. \A i \in 1..Len(stack') : i = 1
      BY <2>1
    <3> QED
      BY <2>1, <2>2, <3>1 DEF StackInv
  <2>4. PcInv'
    BY <2>1 DEF PcInv, Scope
  <2> QED
    BY <2>1, <2>3, <2>4 DEF FrameInv, AwaitInv
<1>2. CASE ChildPending \/ ChildReady
  <2>1. jpc' = "loop" /\ stack' = << >> /\ pc' = "idle" /\ UNCHANGED await_future
    BY <1>2, DoLoopOn
  <2>2. \A i \in 1..Len(stack') : FALSE
    BY <2>1
  <2> QED
    BY <2>1, <2>2 DEF FrameInv, AwaitInv, StackInv, PcInv
<1>3. CASE UNCHANGED <<await_future, stack, pc, result>> /\ jpc # "child" /\ jpc' # "child"
  <2>1. stack = << >> /\ pc = "idle" /\ \A i \in 1..Len(stack) : FALSE
    BY <1>3 DEF FrameInv, StackInv, TypeInv, FutureType
  <2> QED
    BY <1>3, <2>1 DEF FrameInv, AwaitInv, StackInv, PcInv
<1>4. CASE UNCHANGED <<await_future, stack, pc, result, jpc, join_task>>
  BY <1>4 DEF FrameInv, AwaitInv, StackInv, PcInv, Top, Scope
<1>5. CASE PollJoin \/ TaskWoken \/ JoinFinish \/ Cleanup
  <2>1. UNCHANGED <<await_future, stack, pc, result>> /\ jpc # "child" /\ jpc' # "child"
    BY <1>5, DoPollJoin, DoJoinFinish, DoCleanup DEF futureVars, loopVars, GatherInv
  <2> QED
    BY <1>3, <2>1
<1>6. ASSUME NEW f \in Futures, FireWaker(f)
      PROVE  UNCHANGED <<await_future, stack, pc, result, jpc, join_task>>
  BY <1>6 DEF FireWaker, loopVars
<1>7. UNCHANGED vars => UNCHANGED <<await_future, stack, pc, result, jpc, join_task>>
  BY DEF vars, futureVars, loopVars
<1> QED
  BY <1>1, <1>2, <1>4, <1>5, <1>6, <1>7 DEF Next, Loop

-----------------------------------------------------------------------------
(* Wakers: of each child there is one, or it is to be polled, or neither,   *)
(* and the last while it is being polled, until it is handed out.           *)

Token(c) == c \in due \/ \E f \in Futures : held[f] = c

HeldInv ==
  /\ due \subseteq present
  /\ \A f \in Futures : held[f] # Null => held[f] = Owner[f] /\ held[f] \in present /\ held[f] \notin due
  /\ \A f, g \in Futures : held[f] = held[g] /\ held[f] # Null => f = g

TokenInv ==
  /\ HeldInv
  /\ stack # << >> /\ Token(join_task) => pc = "return" /\ result # "ready"

\* Wakers are only given up.
LEMMA HeldLess ==
  ASSUME HeldInv, due' = due, \A f \in Futures : held'[f] = held[f] \/ held'[f] = Null,
         present' = present \/ \E c : ~Token(c) /\ present' = present \ {c}
  PROVE  HeldInv' /\ \A c \in Kids : Token(c)' => Token(c)
<1>1. \A c \in Kids : Token(c)' => Token(c)
  BY KidsAre DEF Token
<1>2. CASE present' = present
  BY <1>1, <1>2 DEF HeldInv
<1>3. ASSUME NEW c, ~Token(c), present' = present \ {c}
      PROVE  HeldInv'
  BY <1>3 DEF HeldInv, Token
<1> QED
  BY <1>1, <1>2, <1>3

LEMMA HeldWake ==
  ASSUME TypeInv, HeldInv, NEW c \in present, c \notin due, JoinWake(c), present' = present,
         \A f \in Futures : held'[f] = held[f] \/ held'[f] = Null,
         \A f \in Futures : held'[f] # c
  PROVE  HeldInv' /\ \A d \in Kids : Token(d)' => Token(d) \/ d = c
<1>1. c \in Kids
  BY DEF TypeInv, JoinType
<1>2. due' = due \cup {c}
  BY <1>1, DoJoinWake DEF TypeInv
<1>3. HeldInv'
  <2>1. due' \subseteq present'
    BY <1>2 DEF HeldInv
  <2>2. \A f \in Futures : held'[f] # Null => held'[f] = Owner[f] /\ held'[f] \in present' /\ held'[f] \notin due'
    BY <1>2 DEF HeldInv
  <2>3. \A f, g \in Futures : held'[f] = held'[g] /\ held'[f] # Null => f = g
    BY DEF HeldInv
  <2> QED
    BY <2>1, <2>2, <2>3 DEF HeldInv
<1>4. \A d \in Kids : Token(d)' => Token(d) \/ d = c
  BY <1>2, KidsAre DEF Token
<1> QED
  BY <1>3, <1>4

LEMMA TokenChild ==
  ASSUME TypeInv, FrameInv, GatherInv, TokenInv, ChildStep
  PROVE  TokenInv'
<1>0. /\ FutureType /\ jpc = "child" /\ UNCHANGED <<jpc, join_task, present>>
      /\ join_task \in present /\ join_task \in Kids /\ stack # << >> /\ Root = join_task
      /\ Top \in Futures /\ Owner[Top] = join_task
  <2>1. /\ FutureType /\ jpc = "child" /\ UNCHANGED <<jpc, join_task, present>>
        /\ join_task \in present /\ join_task \in Kids /\ stack # << >>
    BY DEF TypeInv, JoinType, ChildStep, loopVars, childVars, GatherInv, AnswerInv, FrameInv, StackInv
  <2>2. Len(stack) \in 1..Len(stack) /\ 1 \in 1..Len(stack)
    BY <2>1, TopIs
  <2> QED
    BY <2>1, <2>2, TopIs DEF FrameInv, StackInv
<1>1. CASE /\ pc # "return" \/ result = "ready"
           /\ UNCHANGED <<held, due>>
  <2>1. ~Token(join_task)
    BY <1>0, <1>1 DEF TokenInv
  <2>2. HeldInv' /\ ~Token(join_task)'
    BY <1>0, <1>1, <2>1, HeldLess DEF TokenInv
  <2> QED
    BY <1>0, <2>2 DEF TokenInv
<1>2. CASE QuietStep /\ UNCHANGED <<linkVars, woken, due>>
  <2>1. CASE PollAwaited \/ EnterScope \/ EnterLoop \/ LoopEnds \/ NoScope \/ Return \/ RunOff
             \/ \E g \in Futures : Await(g)
    <3>1. pc # "return" /\ UNCHANGED held
      BY <2>1 DEF PollAwaited, EnterScope, EnterLoop, LoopEnds, NoScope, Return, RunOff, Await, AtScope, Ends
    <3> QED
      BY <1>1, <1>2, <3>1
  <2>2. CASE StillAwaits
    <3>1. pc' = "return" /\ result' = "pending" /\ UNCHANGED held
      BY <1>0, <2>2, DoStillAwaits DEF Returned
    <3>2. HeldInv'
      BY <1>0, <1>2, <3>1, HeldLess DEF TokenInv
    <3> QED
      BY <3>1, <3>2 DEF TokenInv
  <2>3. CASE AwaitedBefore
    <3>1. /\ pc = "return" /\ result = "ready"
          /\ \A f \in Futures : held'[f] = held[f] \/ held'[f] = Null
      BY <1>0, <2>3, DoAwaited DEF Returned, CleanedUp
    <3>2. ~Token(join_task)
      BY <1>0, <3>1 DEF TokenInv
    <3>3. HeldInv' /\ ~Token(join_task)'
      BY <1>0, <1>2, <3>1, <3>2, HeldLess DEF TokenInv
    <3> QED
      BY <1>0, <3>3 DEF TokenInv
  <2>4. CASE Suspend
    <3>1. /\ pc = "body" /\ pc' = "return" /\ result' = "pending"
          /\ \A f \in Futures : held'[f] = IF f = Top THEN Root ELSE held[f]
      BY <1>0, <2>4, DoEnd
    <3>2. ~Token(join_task)
      BY <1>0, <3>1 DEF TokenInv
    <3>3. HeldInv'
      <4>1. due' \subseteq present'
        BY <1>0, <1>2 DEF TokenInv, HeldInv
      <4>2. ASSUME NEW f \in Futures, held'[f] # Null
            PROVE  held'[f] = Owner[f] /\ held'[f] \in present' /\ held'[f] \notin due'
        <5>1. CASE f = Top
          BY <1>0, <1>2, <3>1, <3>2, <5>1 DEF Token
        <5>2. CASE f # Top
          BY <1>0, <1>2, <3>1, <4>2, <5>2 DEF TokenInv, HeldInv
        <5> QED
          BY <5>1, <5>2
      <4>3. \A f, g \in Futures : held'[f] = held'[g] /\ held'[f] # Null => f = g
        BY <1>0, <3>1, <3>2 DEF TokenInv, HeldInv, Token
      <4> QED
        BY <4>1, <4>2, <4>3 DEF HeldInv
    <3> QED
      BY <3>1, <3>3 DEF TokenInv
  <2> QED
    BY <1>2, <2>1, <2>2, <2>3, <2>4 DEF QuietStep
<1>3. CASE WakingStep /\ JoinWake(Root)
  <2>1. /\ pc # "return" \/ result = "ready"
        /\ pc' = "return" /\ result' = "pending"
        /\ \A f \in Futures : held'[f] = held[f] \/ held'[f] = Null
    <3>1. CASE Yield \/ Break
      <4>1. held' = held
        BY <3>1 DEF Yield, Break
      <4> QED
        BY <1>0, <3>1, <4>1, DoEnd
    <3>2. CASE AwaitedAtOnce
      BY <1>0, <3>2, DoAwaited DEF CleanedUp
    <3> QED
      BY <1>3, <3>1, <3>2 DEF WakingStep
  <2>2. ~Token(join_task)
    BY <1>0, <2>1 DEF TokenInv
  <2>3. /\ join_task \notin due /\ \A f \in Futures : held'[f] # join_task
        /\ JoinWake(join_task)
    BY <1>0, <1>3, <2>1, <2>2, KidsAre DEF Token
  <2>4. HeldInv'
    BY <1>0, <2>1, <2>3, HeldWake DEF TokenInv
  <2> QED
    BY <2>1, <2>4 DEF TokenInv
<1> QED
  BY <1>2, <1>3 DEF ChildStep

LEMMA TokenJoin ==
  ASSUME TypeInv, FrameInv, GatherInv, TokenInv, [Next]_vars, ~ChildStep,
         jpc = "loop" /\ join_task # Null => join_task \in due
  PROVE  TokenInv'
<1>1. CASE PollChild
  <2>1. /\ jpc = "loop" /\ join_task \in Kids
        /\ due' = due \ {join_task}
        /\ UNCHANGED <<held, present, join_task>>
    BY <1>1, DoPollChild DEF childVars
  <2>2. join_task \in due /\ \A f \in Futures : held[f] # join_task
    BY <2>1, KidsAre DEF TokenInv, HeldInv
  <2>3. HeldInv'
    BY <2>1 DEF TokenInv, HeldInv
  <2>4. ~Token(join_task)'
    BY <2>1, <2>2 DEF Token
  <2> QED
    BY <2>3, <2>4 DEF TokenInv
<1>2. CASE ChildPending
  <2>1. stack' = << >> /\ UNCHANGED <<held, due, present>>
    BY <1>2, DoLoopOn
  <2> QED
    BY <2>1 DEF TokenInv, HeldInv
<1>3. CASE ChildReady
  <2>1. /\ stack # << >> /\ stack' = << >> /\ result = "ready" /\ due' = due
        /\ present' = present \ {join_task}
        /\ \A f \in Futures : held'[f] = held[f] \/ held'[f] = Null
    BY <1>3, DoLoopOn DEF CleanedUp
  <2>2. ~Token(join_task)
    BY <2>1 DEF TokenInv
  <2>3. HeldInv'
    BY <2>1, <2>2, HeldLess DEF TokenInv
  <2> QED
    BY <2>1, <2>3 DEF TokenInv
<1>4. CASE Cleanup
  <2>1. /\ stack = << >> /\ stack' = << >> /\ due' = due /\ present' = present
        /\ \A f \in Futures : held'[f] = held[f] \/ held'[f] = Null
    BY <1>4, DoCleanup DEF CleanedUp, childVars, FrameInv, StackInv
  <2>2. HeldInv'
    BY <2>1, HeldLess DEF TokenInv
  <2> QED
    BY <2>1, <2>2 DEF TokenInv
<1>5. CASE PollJoin \/ TaskWoken \/ JoinFinish
  <2>1. stack = << >> /\ UNCHANGED <<stack, held, due, present>>
    BY <1>5, DoPollJoin, DoJoinFinish DEF GatherInv, futureVars, childVars, FrameInv, StackInv
  <2> QED
    BY <2>1 DEF TokenInv, HeldInv
<1>6. ASSUME NEW f \in Futures, FireWaker(f)
      PROVE  TokenInv'
  <2>0. held[f] # Null
    BY <1>6 DEF FireWaker
  <2>1. PICK c \in present : c = held[f] /\ c \notin due /\ c \in Kids
    BY <2>0 DEF TokenInv, HeldInv, TypeInv, JoinType
  <2>2. /\ \A g \in Futures : held'[g] = IF g = f THEN Null ELSE held[g]
        /\ JoinWake(c)
        /\ UNCHANGED <<stack, pc, result, present, join_task>>
    BY <1>6, <2>1, DoFireWaker DEF childVars, loopVars
  <2>3. \A g \in Futures : held'[g] # c
    BY <2>0, <2>1, <2>2, KidsAre DEF TokenInv, HeldInv
  <2>4. HeldInv' /\ \A d \in Kids : Token(d)' => Token(d) \/ d = c
    BY <2>1, <2>2, <2>3, HeldWake DEF TokenInv
  <2>5. Token(c)
    BY <2>1 DEF Token
  <2>6. stack # << >> => join_task \in Kids
    <3>1. stack # << >> => join_task \in present
      BY DEF FrameInv, StackInv, GatherInv, AnswerInv
    <3> QED
      BY <3>1 DEF TypeInv, JoinType
  <2> QED
    BY <2>2, <2>4, <2>5, <2>6 DEF TokenInv
<1>7. CASE UNCHANGED vars
  BY <1>7 DEF vars, futureVars, childVars, loopVars, TokenInv, HeldInv, Token
<1> QED
  BY <1>1, <1>2, <1>3, <1>4, <1>5, <1>6, <1>7 DEF Next, Loop

\* A future that runs its body has not handed out the waker, nor has another of
\* the same child.
LEMMA BodyHasNoWaker ==
  ASSUME TypeInv, FrameInv, TokenInv
  PROVE  NotReadyEarly
<1> SUFFICES ASSUME pc = "body", held[Top] # Null PROVE FALSE
  BY DEF NotReadyEarly
<1>1. stack # << >> /\ FutureType
  BY DEF TypeInv, FutureType
<1>2. Top \in Futures /\ Owner[Top] = join_task
  BY <1>1, TopIs DEF FrameInv, StackInv
<1>3. held[Top] = join_task
  BY <1>2 DEF TokenInv, HeldInv
<1> QED
  BY <1>1, <1>2, <1>3 DEF TokenInv, Token

-----------------------------------------------------------------------------
(* The two lists, the one taken over and the one since, share the links.    *)

\* s is the list linked from f on.
IsList(s, f) ==
  /\ s \in Seq(Kids) /\ NoDup(s)
  /\ f = IF s = << >> THEN Null ELSE s[1]
  /\ \A k \in 1..Len(s) : next[s[k]] = IF k < Len(s) THEN s[k + 1] ELSE Null

RestHead == IF jpc = "loop" THEN join_task ELSE IF jpc = "child" THEN next_join_task ELSE Null

Lists(a, b) ==
  /\ IsList(a, RestHead) /\ IsList(b, poll_head)
  /\ poll_tail = IF b = << >> THEN Null ELSE b[Len(b)]
  /\ Elems(a) \cap Elems(b) = {} /\ Elems(a) \cup Elems(b) = due

ListInv == jpc \notin {"over", "freed"} => \E a, b \in Seq(Kids) : Lists(a, b)

LEMMA NoElems == Elems(<< >>) = {} /\ NoDup(<< >>)
BY DEF Elems, NoDup

LEMMA EmptyList ==
  ASSUME NEW s, IsList(s, Null)
  PROVE  s = << >>
<1> SUFFICES ASSUME s # << >> PROVE FALSE
  OBVIOUS
<1>1. s[1] \in Kids /\ s[1] = Null
  BY DEF IsList
<1> QED
  BY <1>1, KidsAre

LEMMA ElemIs ==
  ASSUME NEW s \in Seq(Kids)
  PROVE  \A k \in 1..Len(s) : s[k] \in Kids /\ s[k] \in Elems(s)
BY DEF Elems

\* A waker links its child behind the others.
LEMMA WakeLinks ==
  ASSUME TypeInv, ListInv, jpc \notin {"over", "freed"},
         NEW c \in Kids, c \notin due, JoinWake(c), UNCHANGED loopVars
  PROVE  ListInv'
<1>1. PICK a \in Seq(Kids), b \in Seq(Kids) : Lists(a, b)
  BY DEF ListInv
<1>2. c \notin Elems(a) /\ c \notin Elems(b)
  BY <1>1 DEF Lists
<1>3. /\ \A f \in Kids : next'[f] = IF f = poll_tail THEN c ELSE IF f = c THEN Null ELSE next[f]
      /\ poll_head' = IF poll_tail = Null THEN c ELSE poll_head
      /\ poll_tail' = c /\ due' = due \cup {c}
  BY DoJoinWake DEF TypeInv
<1>4. /\ NoDup(a) /\ NoDup(b)
      /\ poll_tail = IF b = << >> THEN Null ELSE b[Len(b)]
      /\ Elems(a) \cap Elems(b) = {} /\ Elems(a) \cup Elems(b) = due
  BY <1>1 DEF Lists, IsList
<1>5. b # << >> => Len(b) \in 1..Len(b)
  OBVIOUS
<1>6. poll_tail \notin Elems(a)
  <2>1. CASE b = << >>
    <3>1. poll_tail = Null
      BY <2>1, <1>4
    <3> QED
      BY <3>1, ElemIs, KidsAre DEF Elems
  <2>2. CASE b # << >>
    BY <2>2, <1>4, <1>5, ElemIs
  <2> QED
    BY <2>1, <2>2
<1>7. IsList(a, RestHead)'
  <2>1. /\ RestHead = IF a = << >> THEN Null ELSE a[1]
        /\ \A k \in 1..Len(a) : next[a[k]] = IF k < Len(a) THEN a[k + 1] ELSE Null
    BY <1>1 DEF Lists, IsList
  <2>2. RestHead' = RestHead
    BY DEF loopVars, RestHead
  <2>3. \A k \in 1..Len(a) : a[k] \in Kids /\ a[k] # poll_tail /\ a[k] # c
    BY <1>2, <1>6, ElemIs
  <2>4. \A k \in 1..Len(a) : next'[a[k]] = IF k < Len(a) THEN a[k + 1] ELSE Null
    BY <1>3, <2>1, <2>3
  <2> QED
    BY <1>4, <2>1, <2>2, <2>4 DEF IsList
<1>8. PICK b2 \in Seq(Kids) : /\ b2 = Append(b, c) /\ NoDup(b2) /\ Elems(b2) = Elems(b) \cup {c}
                              /\ Len(b2) = Len(b) + 1 /\ b2[Len(b) + 1] = c
                              /\ \A k \in 1..Len(b) : b2[k] = b[k]
  <2>1. Append(b, c) \in Seq(Kids) /\ NoDup(Append(b, c)) /\ Elems(Append(b, c)) = Elems(b) \cup {c}
    BY <1>2, <1>4, AppendElems
  <2>2. /\ Len(Append(b, c)) = Len(b) + 1 /\ Append(b, c)[Len(b) + 1] = c
        /\ \A k \in 1..Len(b) : Append(b, c)[k] = b[k]
    OBVIOUS
  <2> QED
    BY <2>1, <2>2
<1>9. IsList(b2, poll_head)'
  <2>1. /\ poll_head = IF b = << >> THEN Null ELSE b[1]
        /\ \A k \in 1..Len(b) : next[b[k]] = IF k < Len(b) THEN b[k + 1] ELSE Null
        /\ \A k \in 1..Len(b) : b[k] \in Kids /\ b[k] # c
    BY <1>1, <1>2, ElemIs DEF Lists, IsList
  <2>2. b2 # << >> /\ Len(b) \in Nat
    BY <1>8
  <2>3. poll_head' = b2[1]
    <3>1. CASE b = << >>
      BY <3>1, <1>3, <1>4, <1>8
    <3>2. CASE b # << >>
      <4>1. poll_tail # Null /\ 1 \in 1..Len(b)
        BY <3>2, <1>4, <1>5, ElemIs, KidsAre
      <4> QED
        BY <4>1, <3>2, <1>3, <1>8, <2>1
    <3> QED
      BY <3>1, <3>2
  <2>4. next'[c] = Null
    <3>1. c # poll_tail
      <4>1. CASE b = << >>
        BY <4>1, <1>4, KidsAre
      <4>2. CASE b # << >>
        BY <4>2, <1>4, <1>5, <1>2, ElemIs
      <4> QED
        BY <4>1, <4>2
    <3> QED
      BY <3>1, <1>3
  <2>5. ASSUME NEW k \in 1..(Len(b) + 1)
        PROVE  next'[b2[k]] = IF k < Len(b) + 1 THEN b2[k + 1] ELSE Null
    <3>1. CASE k = Len(b) + 1
      BY <3>1, <1>8, <2>4
    <3>2. CASE k = Len(b) /\ b # << >>
      <4>1. b[k] = poll_tail /\ b2[k] = b[k] /\ b[k] \in Kids
        BY <3>2, <1>4, <1>5, <1>8, <2>1
      <4> QED
        BY <3>2, <4>1, <1>3, <1>8, <2>2
    <3>3. CASE k < Len(b)
      <4>1. k \in 1..Len(b) /\ k + 1 \in 1..Len(b) /\ Len(b) \in 1..Len(b) /\ b # << >>
        BY <3>3, <2>2
      <4>2. b[k] # poll_tail
        BY <3>3, <4>1, <1>4 DEF NoDup
      <4>3. next'[b[k]] = b[k + 1]
        BY <3>3, <4>1, <4>2, <1>3, <2>1
      <4> QED
        BY <3>3, <4>1, <4>3, <1>8
    <3>4. k = Len(b) + 1 \/ (k = Len(b) /\ b # << >>) \/ k < Len(b)
      BY <2>2
    <3> QED
      BY <3>1, <3>2, <3>3, <3>4
  <2> QED
    BY <1>8, <2>2, <2>3, <2>5 DEF IsList
<1>10. Elems(a) \cap Elems(b2) = {} /\ Elems(a) \cup Elems(b2) = due'
  BY <1>2, <1>3, <1>4, <1>8
<1>11. poll_tail' = IF b2 = << >> THEN Null ELSE b2[Len(b2)]
  BY <1>3, <1>8
<1>12. Lists(a, b2)'
  BY <1>7, <1>9, <1>10, <1>11 DEF Lists
<1> QED
  BY <1>12 DEF ListInv

\* The loop takes the list of the wakes over.
LEMMA ListsPollJoin ==
  ASSUME TypeInv, ListInv, PollJoin
  PROVE  ListInv'
<1>1. /\ jpc = "idle" /\ jpc' = "loop" /\ join_task' = poll_head
      /\ poll_head' = Null /\ poll_tail' = Null /\ next' = next /\ due' = due
  BY DoPollJoin
<1>2. PICK a \in Seq(Kids), b \in Seq(Kids) : Lists(a, b)
  BY <1>1 DEF ListInv
<1>3. a = << >>
  BY <1>1, <1>2, EmptyList DEF Lists, RestHead
<1>4. IsList(b, RestHead)'
  <2>1. RestHead' = poll_head
    BY <1>1 DEF RestHead
  <2> QED
    BY <1>1, <1>2, <2>1 DEF Lists, IsList
<1>5. IsList(<< >>, poll_head)' /\ << >> \in Seq(Kids)
  BY <1>1, NoElems DEF IsList
<1>6. Lists(b, << >>)'
  BY <1>1, <1>2, <1>3, <1>4, <1>5, NoElems DEF Lists
<1> QED
  BY <1>5, <1>6 DEF ListInv

\* What it polls is the head of its list.
LEMMA LoopHead ==
  ASSUME TypeInv, ListInv, jpc = "loop", join_task # Null
  PROVE  join_task \in due
<1>1. PICK a \in Seq(Kids), b \in Seq(Kids) : Lists(a, b)
  BY DEF ListInv
<1>2. a # << >> /\ a[1] = join_task /\ 1 \in 1..Len(a)
  BY <1>1 DEF Lists, IsList, RestHead
<1> QED
  BY <1>1, <1>2, ElemIs DEF Lists

LEMMA ListsPollChild ==
  ASSUME TypeInv, ListInv, PollChild
  PROVE  ListInv'
<1>1. /\ jpc = "loop" /\ jpc' = "child" /\ join_task \in Kids
      /\ next_join_task' = next[join_task] /\ due' = due \ {join_task}
      /\ UNCHANGED <<next, poll_head, poll_tail>>
  BY DoPollChild DEF linkVars
<1>2. PICK a \in Seq(Kids), b \in Seq(Kids) : Lists(a, b)
  BY <1>1 DEF ListInv
<1>3. /\ a # << >> /\ a[1] = join_task /\ NoDup(a)
      /\ \A k \in 1..Len(a) : next[a[k]] = IF k < Len(a) THEN a[k + 1] ELSE Null
  BY <1>1, <1>2, KidsAre DEF Lists, IsList, RestHead
<1>4. PICK t \in Seq(Kids) : /\ t = Tail(a) /\ Elems(a) = Elems(t) \cup {join_task}
                             /\ NoDup(t) /\ join_task \notin Elems(t)
                             /\ Len(t) = Len(a) - 1
                             /\ \A k \in 1..(Len(a) - 1) : t[k] = a[k + 1]
  <2>1. Head(a) = join_task
    BY <1>3
  <2>2. /\ Tail(a) \in Seq(Kids) /\ Elems(a) = Elems(Tail(a)) \cup {join_task}
        /\ NoDup(Tail(a)) /\ join_task \notin Elems(Tail(a))
    BY <1>3, <2>1, TailElems
  <2>3. Len(Tail(a)) = Len(a) - 1 /\ \A k \in 1..(Len(a) - 1) : Tail(a)[k] = a[k + 1]
    BY <1>3
  <2> QED
    BY <2>2, <2>3
<1>5. IsList(t, RestHead)'
  <2>1. PICK m \in Nat : Len(t) = m /\ Len(a) = m + 1
    <3>1. Len(t) \in Nat /\ Len(a) \in Nat /\ Len(t) = Len(a) - 1
      BY <1>4
    <3>2. Len(a) = Len(t) + 1
      BY <3>1
    <3> QED
      BY <3>1, <3>2
  <2>2. RestHead' = next[join_task]
    BY <1>1 DEF RestHead
  <2>3. next[join_task] = IF t = << >> THEN Null ELSE t[1]
    <3>1. 1 \in 1..Len(a) /\ next[a[1]] = IF 1 < Len(a) THEN a[2] ELSE Null
      BY <1>3, <2>1
    <3>2. CASE m = 0
      <4>1. t = << >>
        BY <3>2, <2>1
      <4> QED
        BY <4>1, <3>1, <3>2, <2>1, <1>3
    <3>3. CASE m # 0
      <4>1. 1 \in 1..(Len(a) - 1)
        BY <3>3, <2>1
      <4>2. t # << >> /\ t[1] = a[1 + 1]
        BY <4>1, <3>3, <2>1, <1>4
      <4> QED
        BY <4>2, <3>1, <3>3, <2>1, <1>3
    <3> QED
      BY <3>2, <3>3
  <2>4. ASSUME NEW k \in 1..m
        PROVE  next[t[k]] = IF k < m THEN t[k + 1] ELSE Null
    <3>1. k + 1 \in 1..Len(a) /\ t[k] = a[k + 1] /\ k \in 1..(Len(a) - 1)
      BY <2>1, <1>4
    <3>2. next[a[k + 1]] = IF k + 1 < Len(a) THEN a[(k + 1) + 1] ELSE Null
      BY <3>1, <1>3
    <3>3. k < m => t[k + 1] = a[(k + 1) + 1]
      BY <2>1, <1>4
    <3> QED
      BY <3>1, <3>2, <3>3, <2>1
  <2> QED
    BY <1>1, <1>4, <2>1, <2>2, <2>3, <2>4 DEF IsList
<1>6. IsList(b, poll_head)'
  BY <1>1, <1>2 DEF Lists, IsList
<1>7. Elems(t) \cap Elems(b) = {} /\ Elems(t) \cup Elems(b) = due'
  <2>1. Elems(a) \cap Elems(b) = {} /\ Elems(a) \cup Elems(b) = due
    BY <1>2 DEF Lists
  <2> QED
    BY <1>1, <1>4, <2>1
<1>8. Lists(t, b)'
  BY <1>1, <1>2, <1>5, <1>6, <1>7 DEF Lists
<1> QED
  BY <1>8 DEF ListInv

LEMMA ListsSame ==
  ASSUME ListInv, UNCHANGED <<next, poll_head, poll_tail, due>>, RestHead' = RestHead,
         jpc' \notin {"over", "freed"} => jpc \notin {"over", "freed"}
  PROVE  ListInv'
<1> SUFFICES ASSUME jpc' \notin {"over", "freed"} PROVE \E a, b \in Seq(Kids) : Lists(a, b)'
  BY DEF ListInv
<1>1. PICK a \in Seq(Kids), b \in Seq(Kids) : Lists(a, b)
  BY DEF ListInv
<1> QED
  BY <1>1 DEF Lists, IsList

LEMMA ListsStep ==
  ASSUME TypeInv, FrameInv, GatherInv, TokenInv, ListInv, [Next]_vars
  PROVE  ListInv'
<1>1. CASE PollJoin
  BY <1>1, ListsPollJoin
<1>2. CASE PollChild
  BY <1>2, ListsPollChild
<1>3. CASE ChildPending \/ ChildReady
  <2>1. /\ jpc = "child" /\ jpc' = "loop" /\ join_task' = next_join_task
        /\ UNCHANGED <<next, poll_head, poll_tail, due>>
    BY <1>3, DoLoopOn DEF linkVars
  <2> QED
    BY <2>1, ListsSame DEF RestHead
<1>4. CASE JoinFinish
  <2>1. /\ jpc = "loop" /\ jpc' \in {"idle", "over"} /\ join_task = Null
        /\ UNCHANGED <<next, poll_head, poll_tail, due>>
    BY <1>4, DoJoinFinish DEF linkVars, GatherInv
  <2> QED
    BY <2>1, ListsSame DEF RestHead
<1>5. CASE Cleanup
  BY <1>5, DoCleanup DEF ListInv
<1>6. CASE TaskWoken \/ UNCHANGED vars
  <2>1. UNCHANGED <<next, poll_head, poll_tail, due, jpc, join_task, next_join_task>>
    BY <1>6, DoPollJoin DEF vars, linkVars, loopVars
  <2> QED
    BY <2>1, ListsSame DEF RestHead
<1>7. CASE ChildStep
  <2>1. jpc = "child" /\ UNCHANGED loopVars
    BY <1>7 DEF ChildStep
  <2>2. CASE QuietStep /\ UNCHANGED <<linkVars, woken, due>>
    BY <2>1, <2>2, ListsSame DEF linkVars, loopVars, RestHead
  <2>3. CASE WakingStep /\ JoinWake(Root)
    <3>1. stack # << >> /\ Root = join_task /\ join_task \in Kids
      <4>1. stack # << >> /\ FutureType /\ join_task \in Kids
        BY <2>1 DEF FrameInv, StackInv, TypeInv, JoinType, GatherInv, AnswerInv
      <4> QED
        BY <4>1, TopIs DEF FrameInv, StackInv
    <3>2. pc # "return" \/ result = "ready"
      BY <2>3 DEF WakingStep, Yield, Break, AwaitedAtOnce, Ends
    <3>3. join_task \notin due
      BY <3>1, <3>2 DEF TokenInv, Token
    <3> QED
      BY <2>1, <2>3, <3>1, <3>3, WakeLinks
  <2> QED
    BY <1>7, <2>2, <2>3 DEF ChildStep
<1>8. ASSUME NEW f \in Futures, FireWaker(f)
      PROVE  ListInv'
  <2>0. held[f] # Null
    BY <1>8 DEF FireWaker
  <2>1. PICK c \in Kids : c = held[f] /\ c \notin due
    BY <2>0 DEF TokenInv, HeldInv, TypeInv, JoinType
  <2>2. JoinWake(c) /\ UNCHANGED loopVars
    BY <1>8, <2>1 DEF FireWaker
  <2>3. CASE jpc \in {"over", "freed"}
    BY <2>2, <2>3 DEF loopVars, ListInv
  <2>4. CASE jpc \notin {"over", "freed"}
    BY <2>1, <2>2, <2>4, WakeLinks
  <2> QED
    BY <2>3, <2>4
<1> QED
  BY <1>1, <1>2, <1>3, <1>4, <1>5, <1>6, <1>7, <1>8 DEF Next, Loop

\* A list of children has each once.
LEMMA ListLength ==
  ASSUME NEW s \in Seq(Kids), NoDup(s)
  PROVE  /\ IsFiniteSet(Elems(s)) /\ Cardinality(Elems(s)) = Len(s) /\ Len(s) <= Len(Children)
<1>1. Len(s) \in Nat
  OBVIOUS
<1>2. IsFiniteSet(1..Len(s)) /\ Cardinality(1..Len(s)) = Len(s)
  BY <1>1, CountTo
<1>3. ExistsBijection(1..Len(s), Elems(s))
  <2>1. [i \in 1..Len(s) |-> s[i]] \in Bijection(1..Len(s), Elems(s))
    BY DEF Elems, NoDup, Bijection, Injection, Surjection, IsInjective
  <2> QED
    BY <2>1 DEF ExistsBijection
<1>4. IsFiniteSet(Elems(s)) /\ Cardinality(Elems(s)) = Len(s)
  BY <1>2, <1>3, FS_Bijection
<1>5. Elems(s) \subseteq Kids
  BY ElemIs DEF Elems
<1>6. Cardinality(Elems(s)) <= Cardinality(Kids)
  BY <1>5, KidsCounted, FS_Subset
<1> QED
  BY <1>4, <1>6, KidsCounted

LEMMA LinkedIs ==
  ASSUME NEW f, NEW s, IsList(s, f)
  PROVE  Linked(f) = s
<1> DEFINE D == 1..(Len(Children) + 1)
           nth[n \in 1..(Len(Children) + 1)] ==
             IF n = 1 THEN f ELSE LET g == nth[n - 1] IN IF g = Null THEN Null ELSE next[g]
           val == [n \in D |-> IF n <= Len(s) THEN s[n] ELSE Null]
<1>0. /\ s \in Seq(Kids) /\ Len(s) \in Nat /\ Len(s) <= Len(Children) /\ Len(Children) \in Nat
      /\ f = IF s = << >> THEN Null ELSE s[1]
      /\ \A k \in 1..Len(s) : next[s[k]] = IF k < Len(s) THEN s[k + 1] ELSE Null
      /\ \A k \in 1..Len(s) : s[k] \in Kids /\ s[k] # Null
  BY ListLength, KidsAre, ElemIs, JoinAssumption DEF IsList
<1>1. \A n \in D : val[n] = IF n = 1 THEN f ELSE LET g == val[n - 1] IN IF g = Null THEN Null ELSE next[g]
  <2> SUFFICES ASSUME NEW n \in D
               PROVE  val[n] = IF n = 1 THEN f ELSE IF val[n - 1] = Null THEN Null ELSE next[val[n - 1]]
    OBVIOUS
  <2>1. CASE n = 1
    BY <2>1, <1>0
  <2>2. CASE n # 1
    <3>1. n - 1 \in D /\ (n - 1) + 1 = n
      BY <2>2, <1>0
    <3>2. CASE n - 1 <= Len(s)
      <4>1. val[n - 1] = s[n - 1] /\ n - 1 \in 1..Len(s)
        BY <3>1, <3>2, <2>2, <1>0
      <4>2. next[s[n - 1]] = IF n - 1 < Len(s) THEN s[(n - 1) + 1] ELSE Null
        BY <4>1, <1>0
      <4>3. val[n] = IF n - 1 < Len(s) THEN s[n] ELSE Null
        BY <1>0
      <4> QED
        BY <4>1, <4>2, <4>3, <3>1, <1>0, <2>2
    <3>3. CASE ~(n - 1 <= Len(s))
      <4>1. val[n - 1] = Null /\ val[n] = Null
        BY <3>1, <3>3, <1>0
      <4> QED
        BY <4>1, <2>2
    <3> QED
      BY <3>2, <3>3
  <2> QED
    BY <2>1, <2>2
<1>2. val = [n \in D |-> IF n = 1 THEN f ELSE LET g == val[n - 1] IN IF g = Null THEN Null ELSE next[g]]
  BY <1>1
<1>3. nth = [n \in D |-> IF n = 1 THEN f ELSE LET g == nth[n - 1] IN IF g = Null THEN Null ELSE next[g]]
  BY <1>2
<1>4. \A n \in D : nth[n] = IF n = 1 THEN f ELSE LET g == nth[n - 1] IN IF g = Null THEN Null ELSE next[g]
  BY <1>3
<1> DEFINE Good == {n \in Nat : n + 1 \in D => nth[n + 1] = val[n + 1]}
<1>5. Nat \subseteq Good
  <2>1. 0 \in Good
    BY <1>1, <1>4
  <2>2. ASSUME NEW n \in Nat, n \in Good, (n + 1) + 1 \in D
        PROVE  nth[(n + 1) + 1] = val[(n + 1) + 1]
    <3> HIDE DEF nth, val
    <3>1. n + 1 \in D /\ ((n + 1) + 1) - 1 = n + 1 /\ (n + 1) + 1 # 1
      BY <2>2, <1>0
    <3>2. nth[n + 1] = val[n + 1]
      BY <2>2, <3>1
    <3> QED
      BY <1>1, <1>4, <2>2, <3>1, <3>2
  <2>3. \A n \in Nat : n \in Good => n + 1 \in Good
    <3> HIDE DEF nth, val, D
    <3> QED
      BY <2>2
  <2> HIDE DEF Good
  <2> QED
    BY <2>1, <2>3, SetInduction
<1>6. \A n \in D : nth[n] = IF n <= Len(s) THEN s[n] ELSE Null
  <2> HIDE DEF nth
  <2>1. ASSUME NEW n \in D PROVE nth[n] = val[n]
    <3> HIDE DEF val, Good
    <3>1. n - 1 \in Nat /\ (n - 1) + 1 = n
      BY <1>0
    <3>2. n - 1 \in Good
      BY <1>5, <3>1
    <3> QED
      BY <3>1, <3>2 DEF Good
  <2> QED
    BY <2>1
<1>7. Linked(f) = [k \in 1..Cardinality({n \in 1..(Len(Children) + 1) : nth[n] # Null}) |-> nth[k]]
  BY DEF Linked
<1>8. {n \in 1..(Len(Children) + 1) : nth[n] # Null} = 1..Len(s)
  <2> HIDE DEF nth
  <2> QED
    BY <1>0, <1>6
<1>9. Cardinality(1..Len(s)) = Len(s)
  <2>1. Len(s) \in Nat
    BY <1>0
  <2> HIDE DEF nth, val
  <2> QED
    BY <2>1, CountTo
<1>10. Linked(f) = [k \in 1..Len(s) |-> s[k]]
  <2> HIDE DEF nth
  <2>1. \A k \in 1..Len(s) : nth[k] = s[k]
    BY <1>0, <1>6
  <2> QED
    BY <1>7, <1>8, <1>9, <2>1
<1> QED
  BY <1>0, <1>10

\* The lists hold the children that are to be polled.
LEMMA ListsHold ==
  ASSUME TypeInv, TokenInv, ListInv
  PROVE  ListsHoldDue
<1> SUFFICES ASSUME jpc \notin {"over", "freed"}
             PROVE  LET lists == Rest \o Linked(poll_head) IN
                      /\ {lists[i] : i \in DOMAIN lists} = due
                      /\ Len(lists) = Cardinality(due)
                      /\ due \subseteq present
                      /\ poll_head # Null => poll_tail = Linked(poll_head)[Len(Linked(poll_head))]
  BY DEF ListsHoldDue
<1>1. PICK a \in Seq(Kids), b \in Seq(Kids) : Lists(a, b)
  BY DEF ListInv
<1>2. Rest = a
  <2>1. IsList(a, RestHead)
    BY <1>1 DEF Lists
  <2>2. RestHead = Null => a = << >>
    BY <2>1, EmptyList
  <2> QED
    BY <2>1, <2>2, LinkedIs DEF Rest, RestHead
<1>3. Linked(poll_head) = b
  BY <1>1, LinkedIs DEF Lists
<1>4. PICK s \in Seq(Kids) : /\ s = a \o b /\ Len(s) = Len(a) + Len(b)
                             /\ \A k \in 1..Len(a) : s[k] = a[k]
                             /\ \A k \in 1..Len(b) : s[Len(a) + k] = b[k]
  <2>1. /\ a \o b \in Seq(Kids) /\ Len(a \o b) = Len(a) + Len(b)
        /\ \A k \in 1..Len(a) : (a \o b)[k] = a[k]
        /\ \A k \in 1..Len(b) : (a \o b)[Len(a) + k] = b[k]
    BY ConcatElems
  <2> QED
    BY <2>1
<1>5. Elems(s) = Elems(a) \cup Elems(b) /\ DOMAIN s = 1..Len(s)
  BY <1>4, ConcatElems
<1>6. /\ Elems(a) \cap Elems(b) = {} /\ Elems(a) \cup Elems(b) = due
      /\ NoDup(a) /\ NoDup(b)
      /\ poll_tail = IF b = << >> THEN Null ELSE b[Len(b)]
      /\ poll_head = IF b = << >> THEN Null ELSE b[1]
  BY <1>1 DEF Lists, IsList
<1>7. Len(s) = Cardinality(due)
  <2>1. /\ IsFiniteSet(Elems(a)) /\ Cardinality(Elems(a)) = Len(a)
        /\ IsFiniteSet(Elems(b)) /\ Cardinality(Elems(b)) = Len(b)
    BY <1>6, ListLength
  <2>2. Cardinality(Elems(a) \cup Elems(b)) = Len(a) + Len(b) - Cardinality(Elems(a) \cap Elems(b))
    BY <2>1, FS_Union
  <2>3. Cardinality(Elems(a) \cap Elems(b)) = 0
    BY <1>6, FS_EmptySet
  <2>4. Cardinality(due) = Len(a) + Len(b) - 0
    BY <1>6, <2>2, <2>3
  <2>5. Len(a) \in Nat /\ Len(b) \in Nat
    OBVIOUS
  <2> QED
    BY <1>4, <2>4, <2>5
<1>8. {s[i] : i \in DOMAIN s} = due
  BY <1>5, <1>6 DEF Elems
<1>9. due \subseteq present
  BY DEF TokenInv, HeldInv
<1> QED
  BY <1>2, <1>3, <1>4, <1>6, <1>7, <1>8, <1>9

-----------------------------------------------------------------------------
(* What a cleanup reaches.                                                  *)

\* The least set that holds f and what each of its futures awaits.
Follows(S) == \A g \in S : await_future[g] # Null => await_future[g] \in S
Reach(f) == {x \in Futures : \A S \in SUBSET Futures : f \in S /\ Follows(S) => x \in S}

LEMMA ReachIs ==
  ASSUME FutureType, NEW f \in Futures
  PROVE  /\ f \in Reach(f) /\ Reach(f) \subseteq Futures /\ Follows(Reach(f))
         /\ \A S \in SUBSET Futures : f \in S /\ Follows(S) => Reach(f) \subseteq S
<1>1. ASSUME NEW g \in Reach(f), await_future[g] # Null
      PROVE  await_future[g] \in Reach(f)
  <2>1. await_future[g] \in Futures
    BY <1>1 DEF Reach, FutureType
  <2>2. ASSUME NEW S \in SUBSET Futures, f \in S, Follows(S)
        PROVE  await_future[g] \in S
    BY <1>1, <2>2 DEF Reach, Follows
  <2> QED
    BY <2>1, <2>2 DEF Reach
<1> QED
  BY <1>1 DEF Reach, Follows

LEMMA ReachStep ==
  ASSUME FutureType, NEW f \in Futures
  PROVE  Reach(f) = {f} \cup IF await_future[f] = Null THEN {} ELSE Reach(await_future[f])
<1>1. CASE await_future[f] = Null
  <2>1. Follows({f}) /\ {f} \in SUBSET Futures
    BY <1>1 DEF Follows
  <2>2. Reach(f) \subseteq {f}
    BY <2>1, ReachIs
  <2> QED
    BY <1>1, <2>2, ReachIs
<1>2. CASE await_future[f] # Null
  <2>1. PICK g \in Futures : g = await_future[f]
    BY <1>2 DEF FutureType
  <2>2. Follows({f} \cup Reach(g)) /\ {f} \cup Reach(g) \in SUBSET Futures
    <3>1. g \in Reach(g) /\ Reach(g) \subseteq Futures /\ Follows(Reach(g))
      BY ReachIs
    <3> QED
      BY <2>1, <3>1 DEF Follows
  <2>3. Reach(f) \subseteq {f} \cup Reach(g)
    BY <2>2, ReachIs
  <2>4. f \in Reach(f) /\ Reach(f) \in SUBSET Futures /\ Follows(Reach(f))
    BY ReachIs
  <2>5. g \in Reach(f)
    BY <1>2, <2>1, <2>4 DEF Follows
  <2>6. Reach(g) \subseteq Reach(f)
    BY <2>4, <2>5, ReachIs
  <2> QED
    BY <1>2, <2>1, <2>3, <2>4, <2>6
<1> QED
  BY <1>1, <1>2

\* Of a set of futures, one is the deepest.
LEMMA Deepest ==
  ASSUME NEW B \in SUBSET Futures, NEW b \in B
  PROVE  \E f \in B : \A g \in B : ~(Depth[f] < Depth[g])
<1> DEFINE up(f) == Cardinality(Futures) - Depth[f]
           T == {up(f) : f \in B}
<1>1. \A f \in B : Depth[f] \in Nat /\ Depth[f] <= Cardinality(Futures) /\ Cardinality(Futures) \in Nat
  BY DepthIs
<1>2. \A f \in B : up(f) \in Nat
  BY <1>1
<1>3. T \subseteq Nat /\ up(b) \in T
  BY <1>2
<1>4. PICK m \in T : \A k \in T : m <= k
  <2> HIDE DEF T
  <2> QED
    BY <1>3, LeastNumber
<1>5. PICK f \in B : m = up(f)
  OBVIOUS
<1>6. ASSUME NEW g \in B PROVE ~(Depth[f] < Depth[g])
  <2>1. up(f) <= up(g)
    BY <1>4, <1>5
  <2> QED
    BY <2>1, <1>1
<1> QED
  BY <1>6

LEMMA ChainIs ==
  ASSUME FutureType, AwaitInv
  PROVE  \A f \in Futures : Chain(f) = Reach(f)
<1> DEFINE chain[g \in Futures] ==
             {g} \cup IF await_future[g] = Null THEN {} ELSE chain[await_future[g]]
           val == [g \in Futures |-> Reach(g)]
<1>1. val = [g \in Futures |-> {g} \cup IF await_future[g] = Null THEN {} ELSE val[await_future[g]]]
  <2>1. ASSUME NEW g \in Futures
        PROVE  Reach(g) = {g} \cup IF await_future[g] = Null THEN {} ELSE val[await_future[g]]
    <3>1. CASE await_future[g] = Null
      BY <3>1, ReachStep
    <3>2. CASE await_future[g] # Null
      <4>1. await_future[g] \in Futures
        BY <3>2 DEF FutureType
      <4> QED
        BY <3>2, <4>1, ReachStep
    <3> QED
      BY <3>1, <3>2
  <2> QED
    BY <2>1
<1>2. chain = [g \in Futures |-> {g} \cup IF await_future[g] = Null THEN {} ELSE chain[await_future[g]]]
  <2> HIDE DEF val
  <2> QED
    BY <1>1
<1>3. \A g \in Futures : chain[g] = {g} \cup IF await_future[g] = Null THEN {} ELSE chain[await_future[g]]
  BY <1>2
<1> HIDE DEF chain, val
<1>4. \A g \in Futures : chain[g] = Reach(g)
  <2> DEFINE B == {g \in Futures : chain[g] # Reach(g)}
  <2> SUFFICES ASSUME NEW b \in B PROVE FALSE
    OBVIOUS
  <2>1. PICK f \in B : \A g \in B : ~(Depth[f] < Depth[g])
    <3>1. B \in SUBSET Futures
      OBVIOUS
    <3> HIDE DEF B
    <3> QED
      BY <3>1, Deepest
  <2>2. CASE await_future[f] = Null
    BY <2>1, <2>2, <1>3, ReachStep
  <2>3. CASE await_future[f] # Null
    <3>1. await_future[f] \in Futures /\ Depth[f] < Depth[await_future[f]]
      BY <2>3, DepthIs DEF AwaitInv
    <3>2. chain[await_future[f]] = Reach(await_future[f])
      BY <2>1, <3>1
    <3>3. chain[f] = Reach(f)
      BY <2>3, <3>2, <1>3, ReachStep
    <3> QED
      BY <3>3
  <2> QED
    BY <2>2, <2>3
<1>5. \A f : Chain(f) = chain[f]
  BY DEF Chain, chain
<1> QED
  BY <1>4, <1>5

LEMMA ChainAlone ==
  ASSUME FutureType, AwaitInv, NEW f \in Futures, await_future[f] = Null
  PROVE  Chain(f) = {f}
BY ChainIs, ReachStep

-----------------------------------------------------------------------------
(* What has been cleaned up.                                                *)

Attached(f) == \E h \in Futures : await_future[h] = f

\* A future and the one it awaits are cleaned up together; what nobody awaits
\* has not been called or has been cleaned up, except for the children.
LinksClean ==
  /\ \A f \in Futures : cleaned[f] \in {0, 1}
  /\ \A f \in Futures : await_future[f] # Null => (cleaned[f] = 0 <=> cleaned[await_future[f]] = 0)
  /\ \A f \in Futures : f \notin Kids /\ cleaned[f] = 0 /\ ~Attached(f) => counter[f] = 0 /\ await_future[f] = Null

PollsClean ==
  /\ jpc # "freed" => \A f \in Kids : cleaned[f] = 0 <=> f \in present
  /\ \A i \in 1..Len(stack) : cleaned[stack[i].fut] = 0
  /\ jpc = "freed" => \A f \in Futures : counter[f] # 0 => cleaned[f] = 1

CleanInv == LinksClean /\ PollsClean

\* Only one awaits a future.
LEMMA AwaitedByOne ==
  ASSUME AwaitInv, NEW f \in Futures, NEW h \in Futures, NEW k \in Futures,
         await_future[f] = k, await_future[h] = k
  PROVE  f = h
<1>1. k \in Awaits[f] /\ k \in Awaits[h]
  BY KidsAre DEF AwaitInv
<1> QED
  BY <1>1, TreeAssumption

LEMMA NoKidAwaited == ASSUME AwaitInv PROVE \A f \in Kids : ~Attached(f)
<1> SUFFICES ASSUME NEW f \in Kids, NEW h \in Futures, await_future[h] = f PROVE FALSE
  BY DEF Attached
<1>1. f \in Awaits[h]
  BY KidsAre DEF AwaitInv
<1> QED
  BY <1>1, JoinAssumption

\* A future that is being polled is a child or awaited by the one below it.
LEMMA StackAttached ==
  ASSUME FutureType, StackInv, AwaitInv, join_task \in Kids, NEW i \in 1..Len(stack)
  PROVE  /\ i = 1 => stack[i].fut \in Kids
         /\ i # 1 => /\ i - 1 \in 1..Len(stack) /\ Attached(stack[i].fut) /\ stack[i].fut \notin Kids
                     /\ await_future[stack[i - 1].fut] = stack[i].fut
<1>1. stack # << >> /\ Len(stack) \in Nat
  BY DEF FutureType
<1>2. CASE i = 1
  BY <1>1, <1>2 DEF StackInv
<1>3. CASE i # 1
  <2>1. i - 1 \in 1..Len(stack) /\ i - 1 < Len(stack) /\ (i - 1) + 1 = i
    BY <1>1, <1>3
  <2>2. await_future[stack[i - 1].fut] = stack[i].fut
    BY <2>1 DEF StackInv
  <2>3. stack[i - 1].fut \in Futures
    BY <1>1, <2>1, TopIs
  <2>4. Attached(stack[i].fut)
    BY <2>2, <2>3 DEF Attached
  <2> QED
    BY <1>3, <2>1, <2>2, <2>4, NoKidAwaited
<1> QED
  BY <1>2, <1>3

LEMMA CleanSame ==
  ASSUME CleanInv, UNCHANGED <<await_future, cleaned, present>>,
         \A f \in Futures : counter'[f] = counter[f] \/ f \in Kids \/ Attached(f),
         \A i \in 1..Len(stack') : cleaned[stack'[i].fut] = 0,
         jpc # "freed", jpc' # "freed"
  PROVE  CleanInv'
<1>1. \A f : Attached(f)' <=> Attached(f)
  BY DEF Attached
<1>2. LinksClean'
  BY <1>1 DEF CleanInv, LinksClean
<1>3. PollsClean'
  BY DEF CleanInv, PollsClean
<1> QED
  BY <1>2, <1>3 DEF CleanInv

\* Awaiting a future again drops what it awaited when it was called before:
\* both had been cleaned up.
LEMMA CleanAwait ==
  ASSUME FutureType, FutureType', FrameInv, CleanInv, join_task \in Kids,
         jpc = "child", jpc' = "child", present' = present,
         NEW g \in Futures, Await(g)
  PROVE  CleanInv'
<1>1. /\ stack # << >> /\ pc = "body" /\ g \in Awaits[Top] /\ g # Top /\ Pushed(g)
      /\ \A f \in Futures : await_future'[f] = IF f = Top THEN g ELSE IF f = g THEN Null ELSE await_future[f]
      /\ \A f \in Futures : counter'[f] = IF f = g THEN 1 ELSE counter[f]
      /\ \A f \in Futures : cleaned'[f] = IF f = g THEN 0 ELSE cleaned[f]
  BY DoAwait
<1>2. /\ Top \in Futures /\ Len(stack) \in 1..Len(stack) /\ Top = stack[Len(stack)].fut
      /\ await_future[Top] = Null /\ cleaned[Top] = 0 /\ g \notin Kids
      /\ \A i \in 1..Len(stack) : stack[i].fut # g
  <2>1. /\ Top \in Futures /\ Len(stack) \in 1..Len(stack) /\ Top = stack[Len(stack)].fut
    BY <1>1, TopIs
  <2>2. await_future[Top] = Null /\ cleaned[Top] = 0
    BY <1>1, <2>1 DEF FrameInv, PcInv, CleanInv, PollsClean
  <2> QED
    BY <1>1, <2>1, <2>2, Deeper, JoinAssumption DEF FrameInv
<1>3. \A h \in Futures : await_future[h] # g
  <2> SUFFICES ASSUME NEW h \in Futures, await_future[h] = g PROVE FALSE
    OBVIOUS
  <2>1. g \in Awaits[h]
    BY KidsAre DEF FrameInv, AwaitInv
  <2>2. h = Top
    BY <1>1, <1>2, <2>1, TreeAssumption
  <2> QED
    BY <1>2, <2>2, KidsAre
<1>4. \A f \in Futures : cleaned'[f] \in {0, 1}
  BY <1>1 DEF CleanInv, LinksClean
<1>5. ASSUME NEW f \in Futures, await_future'[f] # Null
      PROVE  cleaned'[f] = 0 <=> cleaned'[await_future'[f]] = 0
  <2>1. CASE f = Top
    BY <2>1, <1>1, <1>2
  <2>2. CASE f # Top
    <3>1. f # g /\ await_future'[f] = await_future[f]
      BY <2>2, <1>1, <1>5
    <3>2. await_future[f] \in Futures /\ await_future[f] # g
      BY <3>1, <1>3, <1>5 DEF FutureType
    <3> QED
      BY <3>1, <3>2, <1>1, <1>5 DEF CleanInv, LinksClean
  <2> QED
    BY <2>1, <2>2
<1>6. ASSUME NEW f \in Futures, f \notin Kids, cleaned'[f] = 0, ~Attached(f)'
      PROVE  counter'[f] = 0 /\ await_future'[f] = Null
  <2>1. f # g
    BY <1>1, <1>2, <1>6 DEF Attached
  <2>2. f # Top
    <3> SUFFICES ASSUME f = Top PROVE FALSE
      OBVIOUS
    <3>1. PICK i \in 1..Len(stack) : i = Len(stack) /\ stack[i].fut = Top
      BY <1>2
    <3>2. i # 1 /\ i - 1 \in 1..Len(stack) /\ await_future[stack[i - 1].fut] = Top
      BY <3>1, <1>6, StackAttached DEF FrameInv
    <3>3. stack[i - 1].fut \in Futures /\ stack[i - 1].fut # g /\ stack[i - 1].fut # Top
      BY <1>1, <1>2, <3>2, TopIs, KidsAre
    <3>4. await_future'[stack[i - 1].fut] = Top
      BY <1>1, <3>2, <3>3
    <3> QED
      BY <1>6, <3>3, <3>4 DEF Attached
  <2>3. ~Attached(f)
    <3> SUFFICES ASSUME NEW h \in Futures, await_future[h] = f PROVE FALSE
      BY DEF Attached
    <3>1. h # Top
      BY <1>2, KidsAre
    <3>2. CASE h = g
      <4>1. cleaned[f] = 0
        BY <1>1, <1>6, <2>1
      <4>2. cleaned[g] = 0
        BY <3>2, <4>1, KidsAre DEF CleanInv, LinksClean
      <4>3. ~Attached(g)
        BY <1>3 DEF Attached
      <4>4. await_future[g] = Null
        BY <4>2, <4>3, <1>2 DEF CleanInv, LinksClean
      <4> QED
        BY <3>2, <4>4, KidsAre
    <3>3. CASE h # g
      <4>1. await_future'[h] = f
        BY <1>1, <3>1, <3>3
      <4> QED
        BY <4>1, <1>6 DEF Attached
    <3> QED
      BY <3>2, <3>3
  <2>4. cleaned[f] = 0 /\ counter'[f] = counter[f] /\ await_future'[f] = await_future[f]
    BY <1>1, <1>6, <2>1, <2>2
  <2> QED
    BY <1>6, <2>3, <2>4 DEF CleanInv, LinksClean
<1>7. LinksClean'
  BY <1>4, <1>5, <1>6 DEF LinksClean
<1>8. \A f \in Kids : cleaned'[f] = 0 <=> f \in present'
  BY <1>1, <1>2, KidsAre DEF CleanInv, PollsClean
<1>9. \A i \in 1..Len(stack') : cleaned'[stack'[i].fut] = 0
  <2>1. \A i \in 1..Len(stack) : stack[i].fut \in Futures /\ cleaned'[stack[i].fut] = 0
    BY <1>1, <1>2, TopIs DEF CleanInv, PollsClean
  <2>2. /\ \A i \in 1..Len(stack) : stack'[i] = stack[i]
        /\ stack'[Len(stack) + 1].fut = g /\ Len(stack') = Len(stack) + 1 /\ Len(stack) \in Nat
    BY <1>1 DEF Pushed, FutureType
  <2>3. \A i \in 1..Len(stack') : i \in 1..Len(stack) \/ i = Len(stack) + 1
    BY <2>2
  <2> QED
    BY <1>1, <2>1, <2>2, <2>3
<1>10. PollsClean'
  BY <1>8, <1>9 DEF PollsClean
<1> QED
  BY <1>7, <1>10 DEF CleanInv

\* A future that is ready awaits nothing: it alone is cleaned up.
LEMMA CleanAwaited ==
  ASSUME FutureType, FrameInv, CleanInv, join_task \in Kids,
         jpc = "child", jpc' = "child", present' = present,
         AwaitedBefore \/ AwaitedAtOnce
  PROVE  CleanInv'
<1>1. /\ Returned /\ result = "ready" /\ PoppedOne
      /\ CleanedUp(Chain(Top))
      /\ \A f \in Futures : await_future'[f] = IF f = Caller THEN Null ELSE await_future[f]
  BY DoAwaited
<1>2. /\ Top \in Futures /\ Top = stack[Len(stack)].fut /\ Len(stack) \in 1..Len(stack)
      /\ Caller = stack[Len(stack) - 1].fut /\ Caller \in Futures /\ Len(stack) > 1
      /\ pc = "return"
  BY <1>1, TopIs, CallerIs
<1>3. await_future[Top] = Null /\ cleaned[Top] = 0 /\ await_future[Caller] = Top /\ Top \notin Kids
  <2>1. await_future[Top] = Null /\ cleaned[Top] = 0
    BY <1>1, <1>2 DEF FrameInv, PcInv, CleanInv, PollsClean
  <2>2. PICK i \in 1..Len(stack) : i = Len(stack) /\ i # 1
    BY <1>2
  <2>3. await_future[Caller] = Top /\ Top \notin Kids
    BY <1>2, <2>2, StackAttached DEF FrameInv
  <2> QED
    BY <2>1, <2>3
<1>4. Chain(Top) = {Top}
  BY <1>2, <1>3, ChainAlone DEF FrameInv
<1>5. \A f \in Futures : /\ cleaned'[f] = IF f = Top THEN 1 ELSE cleaned[f]
                         /\ counter'[f] = IF f = Top THEN SizeMax ELSE counter[f]
  BY <1>1, <1>3, <1>4 DEF CleanedUp
<1>6. \A f \in Futures : await_future[f] = Top => f = Caller
  BY <1>2, <1>3, AwaitedByOne DEF FrameInv
<1>7. \A f \in Futures : cleaned'[f] \in {0, 1}
  BY <1>5 DEF CleanInv, LinksClean
<1>8. ASSUME NEW f \in Futures, await_future'[f] # Null
      PROVE  cleaned'[f] = 0 <=> cleaned'[await_future'[f]] = 0
  <2>1. f # Caller /\ f # Top /\ await_future'[f] = await_future[f]
    BY <1>1, <1>2, <1>3, <1>8
  <2>2. await_future[f] \in Futures /\ await_future[f] # Top
    BY <2>1, <1>6, <1>8 DEF FutureType
  <2> QED
    BY <2>1, <2>2, <1>5, <1>8 DEF CleanInv, LinksClean
<1>9. ASSUME NEW f \in Futures, f \notin Kids, cleaned'[f] = 0, ~Attached(f)'
      PROVE  counter'[f] = 0 /\ await_future'[f] = Null
  <2>1. f # Top /\ cleaned[f] = 0 /\ counter'[f] = counter[f]
    BY <1>5, <1>9
  <2>2. ~Attached(f)
    <3> SUFFICES ASSUME NEW h \in Futures, await_future[h] = f PROVE FALSE
      BY DEF Attached
    <3>1. h # Caller
      BY <1>3, <2>1
    <3>2. await_future'[h] = f
      BY <1>1, <3>1
    <3> QED
      BY <3>2, <1>9 DEF Attached
  <2>3. counter[f] = 0 /\ await_future[f] = Null
    BY <1>9, <2>1, <2>2 DEF CleanInv, LinksClean
  <2> QED
    BY <1>1, <2>1, <2>3
<1>10. LinksClean'
  BY <1>7, <1>8, <1>9 DEF LinksClean
<1>11. \A f \in Kids : cleaned'[f] = 0 <=> f \in present'
  BY <1>3, <1>5, KidsAre DEF CleanInv, PollsClean
<1>12. \A i \in 1..Len(stack') : cleaned'[stack'[i].fut] = 0
  <2> SUFFICES ASSUME NEW i \in 1..Len(stack') PROVE cleaned'[stack'[i].fut] = 0
    OBVIOUS
  <2>1. /\ i \in 1..Len(stack) /\ i # Len(stack) /\ stack'[i].fut = stack[i].fut
    BY <1>1, <1>2 DEF PoppedOne
  <2>2. stack[i].fut # Top /\ stack[i].fut \in Futures
    BY <1>2, <2>1, OnceOnStack, TopIs DEF FrameInv
  <2> QED
    BY <1>5, <2>1, <2>2 DEF CleanInv, PollsClean
<1>13. PollsClean'
  BY <1>11, <1>12 DEF PollsClean
<1> QED
  BY <1>10, <1>13 DEF CleanInv

LEMMA CleanChild ==
  ASSUME TypeInv, FrameInv, GatherInv, CleanInv, ChildStep
  PROVE  CleanInv'
<1>0. /\ FutureType /\ FutureType' /\ jpc = "child" /\ jpc' = "child" /\ present' = present
      /\ join_task \in Kids /\ stack # << >> /\ Len(stack) \in 1..Len(stack)
      /\ Top \in Futures /\ Top = stack[Len(stack)].fut
  <2>1. /\ FutureType /\ FutureType' /\ jpc = "child" /\ jpc' = "child" /\ present' = present
        /\ join_task \in Kids /\ stack # << >>
    BY FrameChild DEF TypeInv, JoinType, ChildStep, loopVars, childVars, GatherInv, AnswerInv, FrameInv, StackInv
  <2> QED
    BY <2>1, TopIs
<1>1. \A i \in 1..Len(stack) : stack[i].fut \in Kids \/ Attached(stack[i].fut)
  BY <1>0, StackAttached DEF FrameInv
<1>2. \A i \in 1..Len(stack) : cleaned[stack[i].fut] = 0
  BY DEF CleanInv, PollsClean
<1>3. CASE PollAwaited
  <2>1. /\ Pushed(await_future[Top]) /\ await_future[Top] \in Futures
        /\ \A f \in Futures : counter'[f] = IF f = await_future[Top] THEN counter[f] + 1 ELSE counter[f]
        /\ UNCHANGED <<await_future, cleaned>>
    BY <1>0, <1>3, DoPollAwaited
  <2>2. cleaned[await_future[Top]] = 0
    BY <1>0, <1>2, <2>1, KidsAre DEF CleanInv, LinksClean
  <2>3. \A i \in 1..Len(stack') : cleaned[stack'[i].fut] = 0
    <3>1. \A i \in 1..Len(stack') : i \in 1..Len(stack) \/ i = Len(stack) + 1
      BY <1>0, <2>1 DEF Pushed
    <3> QED
      BY <1>2, <2>1, <2>2, <3>1 DEF Pushed
  <2>4. \A f \in Futures : counter'[f] = counter[f] \/ Attached(f)
    BY <1>0, <2>1 DEF Attached
  <2> QED
    BY <1>0, <2>1, <2>3, <2>4, CleanSame
<1>4. CASE EnterScope \/ EnterLoop
  <2>1. /\ Rescoped(counter[Top]) /\ UNCHANGED <<await_future, cleaned>>
        /\ \A f \in Futures : counter'[f] = counter[f] \/ f = Top
    BY <1>0, <1>4, DoEnter
  <2>2. \A i \in 1..Len(stack') : cleaned[stack'[i].fut] = 0
    BY <1>2, <2>1 DEF Rescoped
  <2> QED
    BY <1>0, <1>1, <2>1, <2>2, CleanSame
<1>5. CASE LoopEnds \/ NoScope
  <2>1. /\ UNCHANGED <<await_future, cleaned, stack>>
        /\ \A f \in Futures : counter'[f] = counter[f] \/ f = Top
    <3>1. LoopEnds => UNCHANGED <<await_future, cleaned, stack>>
                      /\ \A f \in Futures : counter'[f] = counter[f] \/ f = Top
      BY <1>0, DoLoopEnds
    <3>2. NoScope => UNCHANGED <<await_future, cleaned, stack, counter>>
      BY <1>0, DoNoScope
    <3> QED
      BY <1>5, <3>1, <3>2
  <2> QED
    BY <1>0, <1>1, <1>2, <2>1, CleanSame
<1>6. CASE Yield \/ Break \/ Suspend \/ Return \/ RunOff
  <2>1. /\ Rescoped(0) /\ UNCHANGED <<await_future, cleaned>>
        /\ \A f \in Futures : counter'[f] = counter[f] \/ f = Top
    BY <1>0, <1>6, DoEnd
  <2>2. \A i \in 1..Len(stack') : cleaned[stack'[i].fut] = 0
    BY <1>2, <2>1 DEF Rescoped
  <2> QED
    BY <1>0, <1>1, <2>1, <2>2, CleanSame
<1>7. ASSUME NEW g \in Futures, Await(g)
      PROVE  CleanInv'
  BY <1>0, <1>7, CleanAwait
<1>8. CASE StillAwaits
  <2>1. /\ PoppedOne /\ UNCHANGED <<await_future, cleaned>>
        /\ \A f \in Futures : counter'[f] = counter[f] \/ f = Caller
        /\ Len(stack) - 1 \in 1..Len(stack) /\ Caller = stack[Len(stack) - 1].fut
    BY <1>0, <1>8, DoStillAwaits, CallerIs
  <2>2. \A i \in 1..Len(stack') : cleaned[stack'[i].fut] = 0
    <3>1. \A i \in 1..Len(stack') : i \in 1..Len(stack) /\ stack'[i].fut = stack[i].fut
      BY <1>0, <2>1 DEF PoppedOne
    <3> QED
      BY <1>2, <3>1
  <2>3. \A f \in Futures : counter'[f] = counter[f] \/ f \in Kids \/ Attached(f)
    BY <1>1, <2>1
  <2> QED
    BY <1>0, <2>1, <2>2, <2>3, CleanSame
<1>9. CASE AwaitedBefore \/ AwaitedAtOnce
  BY <1>0, <1>9, CleanAwaited
<1> QED
  BY <1>3, <1>4, <1>5, <1>6, <1>7, <1>8, <1>9 DEF ChildStep, QuietStep, WakingStep

LEMMA CleanReady ==
  ASSUME TypeInv, FrameInv, GatherInv, CleanInv, ChildReady
  PROVE  CleanInv'
<1>1. /\ jpc = "child" /\ jpc' = "loop" /\ pc = "return" /\ Len(stack) = 1 /\ stack # << >> /\ stack' = << >>
      /\ result = "ready" /\ present' = present \ {join_task}
      /\ CleanedUp(Chain(join_task)) /\ await_future' = await_future
  BY DoLoopOn
<1>2. Top = join_task /\ join_task \in present /\ join_task \in Kids /\ join_task \in Futures
  BY <1>1, KidsAre DEF Top, FrameInv, StackInv, GatherInv, AnswerInv, TypeInv, JoinType
<1>3. Chain(join_task) = {join_task}
  BY <1>1, <1>2, ChainAlone DEF TypeInv, FrameInv, PcInv
<1>4. cleaned[join_task] = 0
  BY <1>1, <1>2 DEF CleanInv, PollsClean
<1>5. \A f \in Futures : /\ cleaned'[f] = IF f = join_task THEN 1 ELSE cleaned[f]
                         /\ counter'[f] = IF f = join_task THEN SizeMax ELSE counter[f]
  BY <1>1, <1>3, <1>4 DEF CleanedUp
<1>6. await_future[join_task] = Null /\ \A f \in Futures : await_future[f] # join_task
  BY <1>1, <1>2, NoKidAwaited DEF FrameInv, PcInv, Attached
<1>7. \A f \in Futures : cleaned'[f] \in {0, 1}
  BY <1>5 DEF CleanInv, LinksClean
<1>8. ASSUME NEW f \in Futures, await_future'[f] # Null
      PROVE  cleaned'[f] = 0 <=> cleaned'[await_future'[f]] = 0
  <2>1. f # join_task /\ await_future[f] \in Futures /\ await_future[f] # join_task
    BY <1>1, <1>6, <1>8 DEF TypeInv, FutureType
  <2> QED
    BY <1>1, <1>5, <1>8, <2>1 DEF CleanInv, LinksClean
<1>9. ASSUME NEW f \in Futures, f \notin Kids, cleaned'[f] = 0, ~Attached(f)'
      PROVE  counter'[f] = 0 /\ await_future'[f] = Null
  <2>1. f # join_task /\ ~Attached(f)
    BY <1>1, <1>2, <1>9 DEF Attached
  <2> QED
    BY <1>1, <1>5, <1>9, <2>1 DEF CleanInv, LinksClean
<1>10. LinksClean'
  BY <1>7, <1>8, <1>9 DEF LinksClean
<1>11. \A f \in Kids : cleaned'[f] = 0 <=> f \in present'
  BY <1>1, <1>5, KidsAre DEF CleanInv, PollsClean
<1>12. PollsClean'
  <2>1. \A i \in 1..Len(stack') : FALSE
    BY <1>1
  <2> QED
    BY <1>1, <1>11, <2>1 DEF PollsClean
<1> QED
  BY <1>10, <1>12 DEF CleanInv

\* Of a set of futures, one is the least deep.
LEMMA Shallowest ==
  ASSUME NEW B \in SUBSET Futures, NEW b \in B
  PROVE  \E f \in B : \A g \in B : ~(Depth[g] < Depth[f])
<1>1. \A f \in B : Depth[f] \in Nat
  BY DepthIs
<1>2. PICK T : T = {Depth[f] : f \in B}
  OBVIOUS
<1>3. T \subseteq Nat /\ Depth[b] \in T
  BY <1>1, <1>2
<1>4. PICK m \in T : \A k \in T : m <= k
  BY <1>3, LeastNumber
<1>5. PICK f \in B : m = Depth[f]
  BY <1>2
<1>6. ASSUME NEW g \in B PROVE ~(Depth[g] < Depth[f])
  <2>1. Depth[f] <= Depth[g]
    BY <1>2, <1>4, <1>5
  <2> QED
    BY <2>1, <1>1
<1> QED
  BY <1>6

\* The cleanup of the join reaches every future that has been called and has
\* not been cleaned up yet.
LEMMA CleanFreed ==
  ASSUME TypeInv, FrameInv, CleanInv, Left = present, Cleanup
  PROVE  CleanInv'
<1>1. /\ jpc # "freed" /\ jpc' = "freed" /\ stack = << >> /\ stack' = << >>
      /\ UNCHANGED <<await_future, present>>
      /\ CleanedUp(UNION {Chain(f) : f \in present})
  BY DoCleanup DEF childVars, FrameInv, StackInv
<1>2. PICK S : S = UNION {Chain(f) : f \in present}
  OBVIOUS
<1>3. FutureType /\ AwaitInv /\ present \subseteq Kids /\ Kids \subseteq Futures
  BY KidsAre DEF TypeInv, JoinType, FrameInv
<1>4. /\ S \subseteq Futures /\ present \subseteq S
      /\ \A f \in S : await_future[f] # Null => await_future[f] \in S
  <2>1. \A c \in present : Chain(c) \subseteq Futures /\ c \in Chain(c) /\ Follows(Chain(c))
    BY <1>3, ChainIs, ReachIs
  <2> QED
    BY <1>2, <2>1 DEF Follows
\* all it reaches is alive
<1>5. \A f \in S : cleaned[f] = 0
  <2> DEFINE L == {f \in Futures : cleaned[f] = 0}
  <2>1. Follows(L) /\ L \in SUBSET Futures
    <3>1. \A f \in Futures : await_future[f] # Null => await_future[f] \in Futures
      BY <1>3 DEF FutureType
    <3> QED
      BY <3>1 DEF CleanInv, LinksClean, Follows
  <2>2. ASSUME NEW c \in present PROVE Chain(c) \subseteq L
    <3>1. c \in L
      BY <1>1, <1>3 DEF CleanInv, PollsClean
    <3> HIDE DEF L
    <3> QED
      BY <2>1, <3>1, <1>3, ChainIs, ReachIs
  <2> HIDE DEF L
  <2>3. S \subseteq L
    BY <1>2, <2>2
  <2> QED
    BY <2>3 DEF L
\* it reaches all that is alive
<1>6. \A f \in Futures : cleaned[f] = 0 /\ (f \in Kids \/ Attached(f)) => f \in S
  <2> DEFINE B == {f \in Futures : f \notin S /\ cleaned[f] = 0 /\ (f \in Kids \/ Attached(f))}
  <2> SUFFICES ASSUME NEW x \in B PROVE FALSE
    OBVIOUS
  <2>1. PICK f \in B : \A g \in B : ~(Depth[g] < Depth[f])
    <3>1. B \in SUBSET Futures
      OBVIOUS
    <3> HIDE DEF B
    <3> QED
      BY <3>1, Shallowest
  <2>2. f \notin Kids
    BY <1>1, <1>4 DEF CleanInv, PollsClean
  <2>3. PICK h \in Futures : await_future[h] = f /\ await_future[h] # Null
    BY <2>2, KidsAre DEF Attached
  <2>4. cleaned[h] = 0 /\ h \notin S /\ Depth[h] < Depth[f]
    <3>1. Depth[h] < Depth[f]
      BY <2>3, <1>3, DepthIs DEF AwaitInv
    <3> QED
      BY <2>3, <3>1, <1>4 DEF CleanInv, LinksClean
  <2>5. h \in Kids \/ Attached(h)
    BY <2>3, <2>4 DEF CleanInv, LinksClean
  <2> QED
    BY <2>1, <2>4, <2>5
<1>7. \A f \in Futures : /\ cleaned'[f] = IF f \in S THEN 1 ELSE cleaned[f]
                         /\ counter'[f] = IF f \in S THEN SizeMax ELSE counter[f]
  BY <1>1, <1>2, <1>5 DEF CleanedUp
<1>8. \A f \in Futures : cleaned'[f] \in {0, 1}
  BY <1>7 DEF CleanInv, LinksClean
<1>9. ASSUME NEW f \in Futures, await_future'[f] # Null
      PROVE  cleaned'[f] # 0 /\ cleaned'[await_future'[f]] # 0
  <2>1. PICK k \in Futures : k = await_future[f] /\ k = await_future'[f]
    BY <1>1, <1>3, <1>9 DEF FutureType
  <2>2. cleaned[f] = 0 => f \in S
    BY <1>1, <1>6, <1>9 DEF CleanInv, LinksClean
  <2>3. cleaned[k] = 0 => k \in S
    BY <1>6, <2>1 DEF Attached
  <2> QED
    BY <1>7, <2>1, <2>2, <2>3
<1>10. ASSUME NEW f \in Futures, f \notin Kids, cleaned'[f] = 0, ~Attached(f)'
       PROVE  counter'[f] = 0 /\ await_future'[f] = Null
  <2>1. f \notin S /\ cleaned[f] = 0 /\ counter'[f] = counter[f] /\ ~Attached(f)
    BY <1>1, <1>7, <1>10 DEF Attached
  <2> QED
    BY <1>1, <1>10, <2>1 DEF CleanInv, LinksClean
<1>11. LinksClean'
  BY <1>8, <1>9, <1>10 DEF LinksClean
<1>12. ASSUME NEW f \in Futures, counter'[f] # 0
       PROVE  cleaned'[f] = 1
  <2>1. cleaned[f] = 0 /\ f \notin S => counter[f] = 0
    BY <1>6 DEF CleanInv, LinksClean
  <2> QED
    BY <1>7, <1>8, <1>12, <2>1
<1>13. \A i \in 1..Len(stack') : FALSE
  BY <1>1
<1> QED
  BY <1>1, <1>11, <1>12, <1>13 DEF CleanInv, PollsClean

LEMMA CleanStep ==
  ASSUME TypeInv, FrameInv, GatherInv, CleanInv, [Next]_vars
  PROVE  CleanInv'
<1>1. CASE PollChild
  <2>1. /\ jpc = "loop" /\ jpc' = "child" /\ join_task \in present /\ join_task \in Kids
        /\ Len(stack') = 1 /\ stack'[1].fut = join_task
        /\ \A f \in Futures : counter'[f] = IF f = join_task THEN counter[f] + 1 ELSE counter[f]
        /\ UNCHANGED <<await_future, cleaned, present>>
    BY <1>1, DoPollChild DEF childVars
  <2>2. \A i \in 1..Len(stack') : cleaned[stack'[i].fut] = 0
    <3>1. \A i \in 1..Len(stack') : i = 1
      BY <2>1
    <3>2. cleaned[join_task] = 0
      BY <2>1 DEF CleanInv, PollsClean
    <3> QED
      BY <2>1, <3>1, <3>2
  <2> QED
    BY <2>1, <2>2, CleanSame
<1>2. CASE ChildPending
  <2>1. /\ jpc = "child" /\ jpc' = "loop" /\ stack' = << >>
        /\ UNCHANGED <<await_future, cleaned, present, counter>>
    BY <1>2, DoLoopOn
  <2>2. \A i \in 1..Len(stack') : cleaned[stack'[i].fut] = 0
    BY <2>1
  <2> QED
    BY <2>1, <2>2, CleanSame
<1>3. CASE ChildReady
  BY <1>3, CleanReady
<1>4. CASE Cleanup
  BY <1>4, CleanFreed, LeftIs
<1>5. CASE ChildStep
  BY <1>5, CleanChild
<1>6. CASE UNCHANGED <<await_future, cleaned, present, counter, stack>> /\ jpc # "freed" /\ jpc' # "freed"
  <2>1. \A i \in 1..Len(stack') : cleaned[stack'[i].fut] = 0
    BY <1>6 DEF CleanInv, PollsClean
  <2> QED
    BY <1>6, <2>1, CleanSame
<1>7. CASE PollJoin \/ TaskWoken \/ JoinFinish
  <2>1. UNCHANGED <<await_future, cleaned, present, counter, stack>> /\ jpc # "freed" /\ jpc' # "freed"
    BY <1>7, DoPollJoin, DoJoinFinish DEF GatherInv, futureVars, childVars, loopVars
  <2> QED
    BY <1>6, <2>1
<1>8. CASE UNCHANGED <<await_future, cleaned, present, counter, stack, jpc>>
  BY <1>8 DEF CleanInv, LinksClean, PollsClean, Attached
<1>9. ASSUME NEW f \in Futures, FireWaker(f)
      PROVE  CleanInv'
  BY <1>8, <1>9 DEF FireWaker, childVars, loopVars
<1>10. CASE UNCHANGED vars
  BY <1>8, <1>10 DEF vars, futureVars, childVars, loopVars
<1> QED
  BY <1>1, <1>2, <1>3, <1>4, <1>5, <1>7, <1>9, <1>10 DEF Next, Loop

\* When the join tasks are gone, so are the wakers of those that have ended.
LEMMA CleanFreedly ==
  ASSUME TypeInv, TokenInv, GatherInv, CleanInv
  PROVE  FreedCleanly
<1>1. \A f \in Futures : cleaned[f] <= 1
  BY DEF CleanInv, LinksClean
<1>2. jpc = "freed" => \A f \in Futures : Polled(f) => cleaned[f] = 1
  BY DEF CleanInv, PollsClean, Polled
<1>3. ASSUME completed_len = Len(Children), NEW f \in Futures
      PROVE  held[f] = Null
  <2>1. IsFiniteSet(present) /\ Cardinality(present) = 0
    <3>1. IsFiniteSet(present) /\ Cardinality(present) \in Nat
      BY KidsCounted, FS_Subset, FS_CardinalityType DEF TypeInv, JoinType
    <3>2. Len(Children) + Cardinality(present) = Len(Children) /\ Len(Children) \in Nat
      BY <1>3, KidsCounted, JoinAssumption DEF GatherInv, EndedInv
    <3> QED
      BY <3>1, <3>2
  <2>2. present = {}
    BY <2>1, FS_EmptySet
  <2> QED
    BY <2>2 DEF TokenInv, HeldInv
<1> QED
  BY <1>1, <1>2, <1>3 DEF FreedCleanly

-----------------------------------------------------------------------------
(* The counters: a future past its last scope is not polled again, because  *)
(* it ends without a waker.                                                 *)

OnStack(f) == \E i \in 1..Len(stack) : stack[i].fut = f

\* Child c is being polled, or will be.
Polls(c) == Token(c) \/ (stack # << >> /\ join_task = c /\ (pc # "return" \/ result = "ready"))

\* It may be polled, and is not being polled but for having returned.
Resting(f) ==
  /\ cleaned[f] = 0 /\ Owner[f] \in Kids /\ Polls(Owner[f])
  /\ OnStack(f) => pc = "return" /\ f = Top

Low(f) == counter[f] <= Len(Body[f]) + 1

RangeInv ==
  \A f \in Futures : /\ cleaned[f] = 0 => counter[f] \in 0..(Len(Body[f]) + 2)
                     /\ cleaned[f] = 1 => counter[f] = SizeMax

RestInv == \A f \in Futures : Resting(f) => Low(f)

\* It has been incremented for the poll, and not since unless by the scope.
FramesInv ==
  \A i \in 1..Len(stack) :
    /\ stack[i].scope # 0 => counter[stack[i].fut] = Passed(stack[i].fut, stack[i].scope)
    /\ stack[i].scope = 0 /\ (i < Len(stack) \/ pc = "run") => counter[stack[i].fut] >= 1

CounterInv == RangeInv /\ RestInv /\ FramesInv

LEMMA BodyLen == \A f \in Futures : Len(Body[f]) \in Nat /\ Len(Body[f]) + 2 < SizeMax /\ SizeMax \in Nat
BY FutureAssumption

\* What a step of a child leaves alone.
LEMMA ChildTouches ==
  ASSUME TypeInv, FrameInv, GatherInv, ChildStep
  PROVE  /\ \A f \in Futures : Owner[f] # join_task => counter'[f] = counter[f] /\ cleaned'[f] = cleaned[f]
         /\ \A d \in Kids : Token(d)' => Token(d) \/ d = join_task
         /\ \A f \in Futures : OnStack(f) => Owner[f] = join_task
         /\ \A f \in Futures : OnStack(f)' => Owner[f] = join_task
<1>0. /\ FutureType /\ jpc = "child" /\ stack # << >> /\ Root = join_task /\ join_task \in Kids /\ join_task' = join_task
      /\ Top \in Futures /\ Owner[Top] = join_task
  <2>1. /\ FutureType /\ jpc = "child" /\ join_task \in Kids /\ stack # << >> /\ join_task' = join_task
    BY DEF TypeInv, JoinType, ChildStep, loopVars, GatherInv, AnswerInv, FrameInv, StackInv
  <2>2. Len(stack) \in 1..Len(stack) /\ 1 \in 1..Len(stack)
    BY <2>1, TopIs
  <2> QED
    BY <2>1, <2>2, TopIs DEF FrameInv, StackInv
<1>1. \A f \in Futures : OnStack(f) => Owner[f] = join_task
  BY DEF OnStack, FrameInv, StackInv
<1>2. \A f \in Futures : OnStack(f)' => Owner[f] = join_task
  BY FrameChild, <1>0 DEF OnStack, FrameInv, StackInv
<1>3. ASSUME NEW f \in Futures, Owner[f] # join_task
      PROVE  counter'[f] = counter[f] /\ cleaned'[f] = cleaned[f]
  <2>0. f # Top
    BY <1>0, <1>3
  <2>1. CASE PollAwaited
    <3>1. await_future[Top] \in Awaits[Top]
      BY <1>0, <2>1, DoPollAwaited, KidsAre DEF FrameInv, AwaitInv
    <3>2. f # await_future[Top]
      BY <1>0, <1>3, <3>1, OwnerIs
    <3> QED
      BY <1>0, <2>1, <3>2, DoPollAwaited
  <2>2. CASE EnterScope \/ EnterLoop
    BY <1>0, <2>0, <2>2, DoEnter
  <2>3. CASE LoopEnds \/ NoScope
    BY <1>0, <2>0, <2>3, DoLoopEnds, DoNoScope
  <2>4. CASE Yield \/ Break \/ Suspend \/ Return \/ RunOff
    BY <1>0, <2>0, <2>4, DoEnd
  <2>5. ASSUME NEW g \in Futures, Await(g)
        PROVE  counter'[f] = counter[f] /\ cleaned'[f] = cleaned[f]
    <3>1. f # g
      BY <1>0, <1>3, <2>5, DoAwait, OwnerIs
    <3> QED
      BY <1>0, <2>5, <3>1, DoAwait
  <2>6. CASE StillAwaits
    <3>1. f # Caller
      BY <1>0, <1>3, <2>6, DoStillAwaits, CallerIs DEF FrameInv, StackInv
    <3> QED
      BY <1>0, <2>6, <3>1, DoStillAwaits
  <2>7. CASE AwaitedBefore \/ AwaitedAtOnce
    <3>1. Chain(Top) = {Top} /\ CleanedUp(Chain(Top))
      BY <1>0, <2>7, DoAwaited, CallerIs, ChainAlone DEF FrameInv, PcInv
    <3> QED
      BY <2>0, <3>1 DEF CleanedUp
  <2> QED
    BY <2>1, <2>2, <2>3, <2>4, <2>5, <2>6, <2>7 DEF ChildStep, QuietStep, WakingStep
<1>4. \A f \in Futures : held'[f] \in {held[f], Null, join_task}
  <2>1. CASE UNCHANGED held
    BY <2>1
  <2>2. CASE Suspend
    BY <1>0, <2>2, DoEnd
  <2>3. CASE AwaitedBefore \/ AwaitedAtOnce
    BY <1>0, <2>3, DoAwaited DEF CleanedUp
  <2> QED
    BY <2>1, <2>2, <2>3 DEF ChildStep, QuietStep, WakingStep, PollAwaited, EnterScope, EnterLoop, LoopEnds,
         NoScope, Yield, Break, Return, RunOff, Await, StillAwaits
<1>5. due' \subseteq due \cup {join_task}
  <2>1. due' = due \/ JoinWake(join_task)
    BY <1>0 DEF ChildStep
  <2> QED
    BY <1>0, <2>1, DoJoinWake DEF TypeInv
<1>6. \A d \in Kids : Token(d)' => Token(d) \/ d = join_task
  BY <1>4, <1>5, KidsAre DEF Token
<1> QED
  BY <1>1, <1>2, <1>3, <1>6

\* The futures of other children.
LEMMA RestElse ==
  ASSUME TypeInv, FrameInv, GatherInv, RestInv, ChildStep,
         NEW f \in Futures, Owner[f] # join_task, Resting(f)'
  PROVE  Low(f)'
<1>1. /\ counter'[f] = counter[f] /\ cleaned'[f] = cleaned[f]
      /\ ~OnStack(f) /\ (Token(Owner[f])' => Token(Owner[f]))
  BY ChildTouches DEF Resting
<1>2. join_task' = join_task
  BY DEF ChildStep, loopVars
<1>3. Polls(Owner[f])'
  BY DEF Resting
<1>4. Token(Owner[f])'
  BY <1>2, <1>3 DEF Polls
<1>5. cleaned[f] = 0 /\ Owner[f] \in Kids
  BY <1>1 DEF Resting
<1>6. Polls(Owner[f])
  <2>1. Token(Owner[f])
    BY <1>1, <1>4
  <2> QED
    BY <2>1 DEF Polls
<1>7. Resting(f)
  BY <1>1, <1>5, <1>6 DEF Resting
<1> QED
  BY <1>1, <1>7 DEF RestInv, Low

LEMMA RestHere ==
  ASSUME RestInv, stack # << >>, pc # "return" \/ result = "ready", join_task \in Kids,
         NEW f \in Futures, Owner[f] = join_task, cleaned[f] = 0, ~OnStack(f)
  PROVE  Low(f)
BY DEF RestInv, Resting, Polls

\* The future that is being polled, and the one below it.
LEMMA OnStackIs ==
  ASSUME TypeInv, FrameInv, GatherInv, CleanInv, ChildStep
  PROVE  /\ FutureType /\ FutureType' /\ stack # << >> /\ join_task \in Kids /\ join_task' = join_task
         /\ Len(stack) \in 1..Len(stack) /\ Len(stack) \in Nat
         /\ Top \in Futures /\ Top = stack[Len(stack)].fut /\ Scope = stack[Len(stack)].scope /\ Scope \in Nat
         /\ Owner[Top] = join_task /\ cleaned[Top] = 0 /\ OnStack(Top)
         /\ \A i \in 1..Len(stack) : stack[i].fut \in Futures /\ cleaned[stack[i].fut] = 0
         /\ \A i \in 1..Len(stack) : i # Len(stack) => stack[i].fut # Top
<1>1. FutureType /\ FutureType' /\ join_task' = join_task
  BY FrameChild DEF TypeInv, ChildStep, loopVars
<1>2. stack # << >> /\ join_task \in Kids
  BY DEF TypeInv, JoinType, ChildStep, GatherInv, AnswerInv, FrameInv, StackInv
<1>3. /\ Len(stack) \in 1..Len(stack) /\ Len(stack) \in Nat
      /\ Top \in Futures /\ Top = stack[Len(stack)].fut /\ Scope = stack[Len(stack)].scope /\ Scope \in Nat
      /\ \A i \in 1..Len(stack) : stack[i].fut \in Futures
  BY <1>1, <1>2, TopIs
<1>4. \A i \in 1..Len(stack) : cleaned[stack[i].fut] = 0
  BY DEF CleanInv, PollsClean
<1>5. Owner[Top] = join_task
  BY <1>3 DEF FrameInv, StackInv
<1>6. \A i \in 1..Len(stack) : i # Len(stack) => stack[i].fut # Top
  BY <1>1, <1>3, OnceOnStack DEF FrameInv
<1> QED
  BY <1>1, <1>2, <1>3, <1>4, <1>5, <1>6 DEF OnStack

LEMMA CounterPollAwaited ==
  ASSUME TypeInv, FrameInv, GatherInv, CleanInv, CounterInv, ChildStep, PollAwaited
  PROVE  CounterInv'
<1>0. /\ FutureType /\ FutureType' /\ stack # << >> /\ join_task \in Kids /\ join_task' = join_task
      /\ Len(stack) \in 1..Len(stack) /\ Len(stack) \in Nat
      /\ Top \in Futures /\ Top = stack[Len(stack)].fut /\ Scope = stack[Len(stack)].scope
      /\ \A i \in 1..Len(stack) : stack[i].fut \in Futures
  BY OnStackIs
<1>1. PICK g \in Awaits[Top] : g = await_future[Top]
  BY <1>0, DoPollAwaited, KidsAre DEF FrameInv, AwaitInv
<1>2. /\ pc = "run" /\ pc' = "run" /\ Pushed(g) /\ g \in Futures /\ cleaned' = cleaned
      /\ \A f \in Futures : counter'[f] = IF f = g THEN counter[f] + 1 ELSE counter[f]
  BY <1>0, <1>1, DoPollAwaited
<1>3. Owner[g] = join_task /\ ~OnStack(g) /\ \A i \in 1..Len(stack) : stack[i].fut # g
  BY <1>0, Deeper DEF FrameInv, OnStack
<1>4. cleaned[g] = 0
  BY <1>0, <1>1, <1>2, OnStackIs, KidsAre DEF CleanInv, LinksClean
<1>5. Low(g) /\ counter[g] \in 0..(Len(Body[g]) + 2)
  BY <1>0, <1>2, <1>3, <1>4, RestHere DEF CounterInv, RangeInv
<1>6. counter'[g] \in 0..(Len(Body[g]) + 2) /\ counter'[g] >= 1
  BY <1>2, <1>5, BodyLen DEF Low
<1>7. RangeInv'
  BY <1>2, <1>4, <1>6 DEF CounterInv, RangeInv
<1>8. RestInv'
  <2> SUFFICES ASSUME NEW f \in Futures, Resting(f)', Owner[f] = join_task PROVE Low(f)'
    BY RestElse DEF RestInv, CounterInv
  <2>1. ~OnStack(f)' /\ cleaned[f] = 0
    BY <1>2 DEF Resting
  <2>2. f # g /\ ~OnStack(f)
    <3>1. Len(stack) + 1 \in 1..Len(stack') /\ \A i \in 1..Len(stack) : i \in 1..Len(stack')
      BY <1>0, <1>2 DEF Pushed
    <3> QED
      BY <1>2, <2>1, <3>1 DEF OnStack, Pushed
  <2>3. Low(f)
    BY <1>0, <1>2, <2>1, <2>2, RestHere DEF CounterInv
  <2> QED
    BY <1>2, <2>2, <2>3 DEF Low
<1>9. FramesInv'
  <2> SUFFICES ASSUME NEW i \in 1..Len(stack')
               PROVE  /\ stack'[i].scope # 0 => counter'[stack'[i].fut] = Passed(stack'[i].fut, stack'[i].scope)
                      /\ stack'[i].scope = 0 => counter'[stack'[i].fut] >= 1
    BY DEF FramesInv
  <2>1. CASE i = Len(stack) + 1
    BY <1>2, <1>6, <2>1 DEF Pushed
  <2>2. CASE i \in 1..Len(stack)
    BY <1>0, <1>2, <1>3, <2>2 DEF Pushed, CounterInv, FramesInv
  <2>3. i = Len(stack) + 1 \/ i \in 1..Len(stack)
    BY <1>0, <1>2 DEF Pushed
  <2> QED
    BY <2>1, <2>2, <2>3
<1> QED
  BY <1>7, <1>8, <1>9 DEF CounterInv

LEMMA CounterAwait ==
  ASSUME TypeInv, FrameInv, GatherInv, CleanInv, CounterInv, ChildStep, NEW g \in Futures, Await(g)
  PROVE  CounterInv'
<1>0. /\ FutureType /\ FutureType' /\ stack # << >> /\ join_task \in Kids /\ join_task' = join_task
      /\ Len(stack) \in 1..Len(stack) /\ Len(stack) \in Nat
      /\ Top \in Futures /\ Top = stack[Len(stack)].fut /\ Scope = stack[Len(stack)].scope
      /\ \A i \in 1..Len(stack) : stack[i].fut \in Futures
  BY OnStackIs
<1>2. /\ pc = "body" /\ pc' = "run" /\ Pushed(g) /\ g \in Awaits[Top]
      /\ \A f \in Futures : counter'[f] = IF f = g THEN 1 ELSE counter[f]
      /\ \A f \in Futures : cleaned'[f] = IF f = g THEN 0 ELSE cleaned[f]
  BY <1>0, DoAwait
<1>3. \A i \in 1..Len(stack) : stack[i].fut # g
  BY <1>0, <1>2, Deeper DEF FrameInv
<1>4. Scope # 0
  BY <1>2 DEF FrameInv, PcInv
<1>7. RangeInv'
  <2>1. 1 \in 0..(Len(Body[g]) + 2)
    BY BodyLen
  <2> QED
    BY <1>2, <2>1 DEF CounterInv, RangeInv
<1>8. RestInv'
  <2> SUFFICES ASSUME NEW f \in Futures, Resting(f)', Owner[f] = join_task PROVE Low(f)'
    BY RestElse DEF RestInv, CounterInv
  <2>1. ~OnStack(f)'
    BY <1>2 DEF Resting
  <2>2. f # g /\ ~OnStack(f)
    <3>1. Len(stack) + 1 \in 1..Len(stack') /\ \A i \in 1..Len(stack) : i \in 1..Len(stack')
      BY <1>0, <1>2 DEF Pushed
    <3> QED
      BY <1>2, <2>1, <3>1 DEF OnStack, Pushed
  <2>3. Low(f)
    <3>1. cleaned[f] = 0
      BY <1>2, <2>2 DEF Resting
    <3> QED
      BY <1>0, <1>2, <2>2, <3>1, RestHere DEF CounterInv
  <2> QED
    BY <1>2, <2>2, <2>3 DEF Low
<1>9. FramesInv'
  <2> SUFFICES ASSUME NEW i \in 1..Len(stack')
               PROVE  /\ stack'[i].scope # 0 => counter'[stack'[i].fut] = Passed(stack'[i].fut, stack'[i].scope)
                      /\ stack'[i].scope = 0 => counter'[stack'[i].fut] >= 1
    BY DEF FramesInv
  <2>1. CASE i = Len(stack) + 1
    BY <1>2, <2>1 DEF Pushed
  <2>2. CASE i \in 1..Len(stack)
    <3>1. i # Len(stack) => i < Len(stack)
      BY <1>0, <2>2
    <3> QED
      BY <1>0, <1>2, <1>3, <1>4, <2>2, <3>1 DEF Pushed, CounterInv, FramesInv
  <2>3. i = Len(stack) + 1 \/ i \in 1..Len(stack)
    BY <1>0, <1>2 DEF Pushed
  <2> QED
    BY <2>1, <2>2, <2>3
<1> QED
  BY <1>7, <1>8, <1>9 DEF CounterInv

LEMMA CounterEnter ==
  ASSUME TypeInv, FrameInv, GatherInv, CleanInv, CounterInv, ChildStep, EnterScope \/ EnterLoop
  PROVE  CounterInv'
<1>0. /\ FutureType /\ stack # << >> /\ join_task \in Kids
      /\ Len(stack) \in 1..Len(stack) /\ Len(stack) \in Nat
      /\ Top \in Futures /\ Top = stack[Len(stack)].fut /\ cleaned[Top] = 0
      /\ \A i \in 1..Len(stack) : stack[i].fut \in Futures
      /\ \A i \in 1..Len(stack) : i # Len(stack) => stack[i].fut # Top
  BY OnStackIs
<1>1. /\ pc = "run" /\ pc' = "body" /\ Rescoped(counter[Top]) /\ cleaned' = cleaned
      /\ counter[Top] \in 1..Len(Body[Top])
      /\ \A f \in Futures : f # Top => counter'[f] = counter[f]
      /\ counter'[Top] = Passed(Top, counter[Top])
  BY <1>0, DoEnter
<1>2. counter'[Top] \in 0..(Len(Body[Top]) + 2)
  BY <1>0, <1>1, BodyLen DEF Passed
<1>3. RangeInv'
  BY <1>0, <1>1, <1>2 DEF CounterInv, RangeInv
<1>4. RestInv'
  <2> SUFFICES ASSUME NEW f \in Futures, Resting(f)', Owner[f] = join_task PROVE Low(f)'
    BY RestElse DEF RestInv, CounterInv
  <2>1. ~OnStack(f)' /\ cleaned[f] = 0
    BY <1>1 DEF Resting
  <2>2. f # Top /\ ~OnStack(f)
    BY <1>0, <1>1, <2>1 DEF OnStack, Rescoped
  <2>3. Low(f)
    BY <1>0, <1>1, <2>1, <2>2, RestHere DEF CounterInv
  <2> QED
    BY <1>1, <2>2, <2>3 DEF Low
<1>5. FramesInv'
  <2> SUFFICES ASSUME NEW i \in 1..Len(stack)
               PROVE  /\ stack'[i].scope # 0 => counter'[stack'[i].fut] = Passed(stack'[i].fut, stack'[i].scope)
                      /\ stack'[i].scope = 0 /\ i < Len(stack) => counter'[stack'[i].fut] >= 1
    BY <1>1 DEF FramesInv, Rescoped
  <2>1. CASE i = Len(stack)
    BY <1>0, <1>1, <2>1 DEF Rescoped
  <2>2. CASE i # Len(stack)
    BY <1>0, <1>1, <2>2 DEF Rescoped, CounterInv, FramesInv
  <2> QED
    BY <2>1, <2>2
<1> QED
  BY <1>3, <1>4, <1>5 DEF CounterInv

LEMMA TopStays ==
  ASSUME FutureType, stack # << >>, NEW n, Rescoped(n)
  PROVE  /\ Top' = Top
         /\ \A f \in Futures : OnStack(f)' <=> OnStack(f)
<1>1. Len(stack) \in Nat \ {0}
  BY TopIs
<1> QED
  BY <1>1 DEF Rescoped, Top, OnStack

LEMMA CounterEnd ==
  ASSUME TypeInv, FrameInv, GatherInv, CleanInv, CounterInv, ChildStep,
         Yield \/ Break \/ Suspend \/ Return \/ RunOff
  PROVE  CounterInv'
<1>0. /\ FutureType /\ stack # << >> /\ join_task \in Kids
      /\ Len(stack) \in 1..Len(stack) /\ Len(stack) \in Nat
      /\ Top \in Futures /\ Top = stack[Len(stack)].fut /\ cleaned[Top] = 0 /\ Scope = stack[Len(stack)].scope
      /\ \A i \in 1..Len(stack) : stack[i].fut \in Futures
      /\ \A i \in 1..Len(stack) : i # Len(stack) => stack[i].fut # Top
  BY OnStackIs
<1>1. /\ pc = "body" /\ pc' = "return" /\ Rescoped(0) /\ cleaned' = cleaned
      /\ \A f \in Futures : f # Top => counter'[f] = counter[f]
      /\ counter'[Top] \in {counter[Top], counter[Top] + 1}
  BY <1>0, DoEnd
<1>2. Scope \in 1..Len(Body[Top]) /\ counter[Top] \in {Scope - 1, Scope}
  <2>1. Scope # 0
    BY <1>1 DEF FrameInv, PcInv
  <2> QED
    BY <1>0, <2>1 DEF FrameInv, StackInv, CounterInv, FramesInv, Passed
<1>3. counter'[Top] \in 0..(Len(Body[Top]) + 1)
  <2>1. Len(Body[Top]) \in Nat
    BY <1>0, BodyLen
  <2> QED
    BY <1>1, <1>2, <2>1
<1>4. RangeInv'
  <2>1. counter'[Top] \in 0..(Len(Body[Top]) + 2)
    BY <1>0, <1>3, BodyLen
  <2> QED
    BY <1>0, <1>1, <2>1 DEF CounterInv, RangeInv
<1>5. Top' = Top /\ \A f \in Futures : OnStack(f)' <=> OnStack(f)
  BY <1>0, <1>1, TopStays
<1>6. RestInv'
  <2> SUFFICES ASSUME NEW f \in Futures, Resting(f)', Owner[f] = join_task PROVE Low(f)'
    BY RestElse DEF RestInv, CounterInv
  <2>1. CASE f = Top
    BY <1>0, <1>3, <2>1, BodyLen DEF Low
  <2>2. CASE f # Top
    <3>1. ~OnStack(f) /\ cleaned[f] = 0
      BY <1>1, <1>5, <2>2 DEF Resting
    <3>2. Low(f)
      BY <1>0, <1>1, <3>1, RestHere DEF CounterInv
    <3> QED
      BY <1>1, <2>2, <3>2 DEF Low
  <2> QED
    BY <2>1, <2>2
<1>7. FramesInv'
  <2> SUFFICES ASSUME NEW i \in 1..Len(stack)
               PROVE  /\ stack'[i].scope # 0 => counter'[stack'[i].fut] = Passed(stack'[i].fut, stack'[i].scope)
                      /\ stack'[i].scope = 0 /\ i < Len(stack) => counter'[stack'[i].fut] >= 1
    BY <1>1 DEF FramesInv, Rescoped
  <2>1. CASE i = Len(stack)
    BY <1>0, <1>1, <2>1 DEF Rescoped
  <2>2. CASE i # Len(stack)
    BY <1>0, <1>1, <2>2 DEF Rescoped, CounterInv, FramesInv
  <2> QED
    BY <2>1, <2>2
<1> QED
  BY <1>4, <1>6, <1>7 DEF CounterInv

LEMMA CounterNoScope ==
  ASSUME TypeInv, FrameInv, GatherInv, TokenInv, CleanInv, CounterInv, ChildStep, LoopEnds \/ NoScope
  PROVE  CounterInv'
<1>0. /\ FutureType /\ stack # << >> /\ join_task \in Kids /\ join_task' = join_task
      /\ Len(stack) \in 1..Len(stack) /\ Len(stack) \in Nat
      /\ Top \in Futures /\ Top = stack[Len(stack)].fut /\ cleaned[Top] = 0 /\ Scope = stack[Len(stack)].scope
      /\ \A i \in 1..Len(stack) : stack[i].fut \in Futures
      /\ \A i \in 1..Len(stack) : i # Len(stack) => stack[i].fut # Top
  BY OnStackIs
<1>1. CASE LoopEnds
  <2>1. /\ pc = "run" /\ UNCHANGED <<stack, pc, cleaned>>
        /\ counter[Top] \in 1..Len(Body[Top])
        /\ \A f \in Futures : counter'[f] = IF f = Top THEN counter[f] + 1 ELSE counter[f]
    BY <1>0, <1>1, DoLoopEnds
  <2>2. counter'[Top] \in 0..(Len(Body[Top]) + 2) /\ counter'[Top] >= 1
    BY <1>0, <2>1, BodyLen
  <2>3. RangeInv'
    BY <1>0, <2>1, <2>2 DEF CounterInv, RangeInv
  <2>4. RestInv'
    <3> SUFFICES ASSUME NEW f \in Futures, Resting(f)', Owner[f] = join_task PROVE Low(f)'
      BY RestElse DEF RestInv, CounterInv
    <3>1. ~OnStack(f) /\ cleaned[f] = 0
      BY <2>1 DEF Resting, OnStack
    <3>2. Low(f) /\ f # Top
      BY <1>0, <2>1, <3>1, RestHere, OnStackIs DEF CounterInv
    <3> QED
      BY <2>1, <3>2 DEF Low
  <2>5. FramesInv'
    <3> SUFFICES ASSUME NEW i \in 1..Len(stack)
                 PROVE  /\ stack[i].scope # 0 => counter'[stack[i].fut] = Passed(stack[i].fut, stack[i].scope)
                        /\ stack[i].scope = 0 => counter'[stack[i].fut] >= 1
      BY <2>1 DEF FramesInv
    <3>1. CASE i = Len(stack)
      <4>1. stack[i].scope = 0
        BY <1>0, <2>1, <3>1 DEF FrameInv, PcInv
      <4> QED
        BY <1>0, <2>2, <3>1, <4>1
    <3>2. CASE i # Len(stack)
      BY <1>0, <2>1, <3>2 DEF CounterInv, FramesInv
    <3> QED
      BY <3>1, <3>2
  <2> QED
    BY <2>3, <2>4, <2>5 DEF CounterInv
<1>2. CASE NoScope
  <2>1. /\ pc = "run" /\ pc' = "return" /\ result' = "undefined"
        /\ UNCHANGED <<counter, held, cleaned, stack>>
    BY <1>0, <1>2, DoNoScope
  <2>2. due' = due
    BY <2>1 DEF ChildStep, WakingStep, Yield, Break, AwaitedAtOnce, Ends, ToBody, Returned
  <2>3. ~Polls(join_task)'
    BY <1>0, <2>1, <2>2 DEF Polls, Token, TokenInv
  <2>4. RestInv'
    <3> SUFFICES ASSUME NEW f \in Futures, Resting(f)', Owner[f] = join_task PROVE Low(f)'
      BY RestElse DEF RestInv, CounterInv
    <3>1. Polls(Owner[f])'
      BY DEF Resting
    <3> QED
      BY <1>0, <2>3, <3>1 DEF Polls
  <2>5. RangeInv' /\ FramesInv'
    BY <2>1 DEF CounterInv, RangeInv, FramesInv
  <2> QED
    BY <2>4, <2>5 DEF CounterInv
<1> QED
  BY <1>1, <1>2

\* The caller, once what it awaits has returned.
LEMMA CallerCounts ==
  ASSUME TypeInv, FrameInv, GatherInv, CleanInv, CounterInv, ChildStep, Returned
  PROVE  /\ Caller \in Futures /\ Caller # Top /\ cleaned[Caller] = 0 /\ Len(stack) > 1
         /\ counter[Caller] \in 0..(Len(Body[Caller]) + 2)
         /\ ToBegin => counter[Caller] >= 1
         /\ ~ToBegin => counter[Caller] <= Len(Body[Caller])
         /\ Caller = stack[Len(stack) - 1].fut
         /\ \A i \in 1..Len(stack) : i # Len(stack) - 1 => stack[i].fut # Caller
<1>0. /\ FutureType /\ stack # << >>
      /\ Len(stack) \in 1..Len(stack) /\ Len(stack) \in Nat
      /\ \A i \in 1..Len(stack) : stack[i].fut \in Futures /\ cleaned[stack[i].fut] = 0
      /\ \A i \in 1..Len(stack) : i # Len(stack) => stack[i].fut # Top
  BY OnStackIs
<1>1. /\ Len(stack) - 1 \in 1..Len(stack) /\ Len(stack) > 1 /\ Len(stack) - 1 # Len(stack)
      /\ Caller = stack[Len(stack) - 1].fut
  BY <1>0, CallerIs
<1>2. PICK j \in 1..Len(stack) : j = Len(stack) - 1
  BY <1>1
<1>3. /\ Caller = stack[j].fut /\ Caller \in Futures /\ Caller # Top /\ cleaned[Caller] = 0
      /\ j < Len(stack)
  BY <1>0, <1>1, <1>2
<1>4. counter[Caller] \in 0..(Len(Body[Caller]) + 2)
  BY <1>3 DEF CounterInv, RangeInv
<1>5. ToBegin => counter[Caller] >= 1
  BY <1>2, <1>3 DEF ToBegin, CounterInv, FramesInv
<1>6. ~ToBegin => counter[Caller] <= Len(Body[Caller])
  <2> SUFFICES ASSUME ~ToBegin PROVE counter[Caller] <= Len(Body[Caller])
    OBVIOUS
  <2>1. stack[j].scope # 0
    BY <1>2 DEF ToBegin
  <2>2. stack[j].scope \in 1..Len(Body[Caller]) /\ counter[Caller] \in {stack[j].scope - 1, stack[j].scope}
    BY <1>3, <2>1 DEF FrameInv, StackInv, CounterInv, FramesInv, Passed
  <2>3. Len(Body[Caller]) \in Nat
    BY <1>3, BodyLen
  <2> QED
    BY <2>2, <2>3
<1>7. \A i \in 1..Len(stack) : i # j => stack[i].fut # Caller
  BY <1>0, <1>3, OnceOnStack DEF FrameInv
<1> QED
  BY <1>1, <1>2, <1>3, <1>4, <1>5, <1>6, <1>7

\* Popping leaves the top alone.
LEMMA PopLeaves ==
  ASSUME FutureType, Returned, PoppedOne
  PROVE  /\ Top' = Caller
         /\ \A f \in Futures : f # Top /\ OnStack(f) => OnStack(f)'
         /\ Len(stack') \in Nat /\ Len(stack') = Len(stack) - 1
         /\ \A i \in 1..Len(stack') : /\ i \in 1..Len(stack) /\ i < Len(stack)
                                      /\ i # Len(stack') => i < Len(stack') /\ i # Len(stack) - 1
<1>1. Len(stack) \in Nat /\ Len(stack) > 1 /\ Len(stack') = Len(stack) - 1
  BY DEF PoppedOne, FutureType
<1>2. PICK m \in Nat \ {0} : m = Len(stack) - 1
  BY <1>1, OneLess
<1>3. Len(stack') = m /\ Len(stack) = m + 1 /\ \A i \in 1..m : stack'[i].fut = stack[i].fut
  BY <1>1, <1>2 DEF PoppedOne
<1>4. Top' = Caller
  BY <1>2, <1>3 DEF Top, Caller
<1>5. ASSUME NEW f \in Futures, f # Top, OnStack(f)
      PROVE  OnStack(f)'
  <2>1. PICK i \in 1..(m + 1) : stack[i].fut = f
    BY <1>3, <1>5 DEF OnStack
  <2>2. i # m + 1
    BY <1>3, <1>5, <2>1 DEF Top
  <2>3. i \in 1..m
    BY <2>1, <2>2
  <2> QED
    BY <1>3, <2>1, <2>3 DEF OnStack
<1>6. \A i \in 1..m : /\ i \in 1..(m + 1) /\ i < m + 1
                      /\ i # m => i < m
  OBVIOUS
<1> QED
  BY <1>1, <1>2, <1>3, <1>4, <1>5, <1>6

LEMMA FramesPop ==
  ASSUME TypeInv, FrameInv, GatherInv, CleanInv, CounterInv, ChildStep, Returned, PoppedOne,
         \A f \in Futures : f # Caller /\ f # Top => counter'[f] = counter[f],
         pc' = "return" \/ (pc' = "run" /\ ToBegin /\ counter'[Caller] = counter[Caller])
  PROVE  FramesInv'
<1>0. /\ FutureType /\ stack # << >> /\ Len(stack) \in Nat
      /\ \A i \in 1..Len(stack) : stack[i].fut \in Futures
      /\ \A i \in 1..Len(stack) : i # Len(stack) => stack[i].fut # Top
  BY OnStackIs
<1>1. /\ Caller = stack[Len(stack) - 1].fut /\ (ToBegin => counter[Caller] >= 1)
      /\ \A i \in 1..Len(stack) : i # Len(stack) - 1 => stack[i].fut # Caller
  BY CallerCounts
<1>2. /\ Len(stack') \in Nat /\ Len(stack') = Len(stack) - 1
      /\ \A i \in 1..Len(stack') : /\ i \in 1..Len(stack) /\ i < Len(stack)
                                   /\ i # Len(stack') => i < Len(stack') /\ i # Len(stack) - 1
  BY <1>0, PopLeaves
<1> SUFFICES ASSUME NEW i \in 1..Len(stack')
             PROVE  /\ stack'[i].scope # 0 => counter'[stack'[i].fut] = Passed(stack'[i].fut, stack'[i].scope)
                    /\ stack'[i].scope = 0 /\ (i < Len(stack') \/ pc' = "run") => counter'[stack'[i].fut] >= 1
  BY DEF FramesInv
<1>3. stack'[i].fut = stack[i].fut /\ stack'[i].scope = IF i = Len(stack') THEN 0 ELSE stack[i].scope
  BY <1>2 DEF PoppedOne
<1>4. CASE i = Len(stack')
  <2>1. stack'[i].scope = 0 /\ stack'[i].fut = Caller
    BY <1>1, <1>2, <1>3, <1>4
  <2>2. ~(i < Len(stack'))
    BY <1>2, <1>4
  <2> QED
    BY <1>1, <2>1, <2>2
<1>5. CASE i # Len(stack')
  <2>1. i \in 1..Len(stack) /\ i < Len(stack) /\ i # Len(stack) - 1 /\ i # Len(stack)
    BY <1>0, <1>2, <1>5
  <2>2. counter'[stack[i].fut] = counter[stack[i].fut]
    BY <1>0, <1>1, <2>1
  <2> QED
    BY <1>3, <1>5, <2>1, <2>2 DEF CounterInv, FramesInv
<1> QED
  BY <1>4, <1>5

LEMMA CounterStillAwaits ==
  ASSUME TypeInv, FrameInv, GatherInv, TokenInv, CleanInv, CounterInv, ChildStep, StillAwaits
  PROVE  CounterInv'
<1>0. FutureType /\ join_task \in Kids /\ join_task' = join_task
  BY OnStackIs
<1>1. /\ Returned /\ pc = "return" /\ result # "ready" /\ result' = "pending" /\ PoppedOne
      /\ \A f \in Futures : counter'[f] = IF f = Caller /\ ToBegin THEN counter[f] - 1 ELSE counter[f]
      /\ UNCHANGED <<held, cleaned, pc>>
  BY <1>0, DoStillAwaits DEF Returned
<1>2. /\ Caller \in Futures /\ Caller # Top /\ cleaned[Caller] = 0
      /\ counter[Caller] \in 0..(Len(Body[Caller]) + 2)
      /\ ToBegin => counter[Caller] >= 1
      /\ ~ToBegin => counter[Caller] <= Len(Body[Caller])
  BY <1>1, CallerCounts
<1>3. counter'[Caller] \in 0..(Len(Body[Caller]) + 1)
  <2>1. Len(Body[Caller]) \in Nat
    BY <1>2, BodyLen
  <2>2. ToBegin => counter'[Caller] = counter[Caller] - 1
    BY <1>1, <1>2
  <2>3. ~ToBegin => counter'[Caller] = counter[Caller]
    BY <1>1, <1>2
  <2> QED
    BY <1>2, <2>1, <2>2, <2>3
<1>4. RangeInv'
  <2>1. counter'[Caller] \in 0..(Len(Body[Caller]) + 2)
    BY <1>2, <1>3, BodyLen
  <2> QED
    BY <1>1, <1>2, <2>1 DEF CounterInv, RangeInv
<1>5. due' = due
  BY <1>1 DEF ChildStep, WakingStep, Yield, Break, AwaitedAtOnce, Ends
<1>6. Top' = Caller /\ \A f \in Futures : f # Top /\ OnStack(f) => OnStack(f)'
  BY <1>0, <1>1, PopLeaves
<1>7. RestInv'
  <2> SUFFICES ASSUME NEW f \in Futures, Resting(f)', Owner[f] = join_task PROVE Low(f)'
    BY RestElse DEF RestInv, CounterInv
  <2>1. CASE f = Caller
    BY <1>2, <1>3, <2>1, BodyLen DEF Low
  <2>2. CASE f # Caller
    <3>1. OnStack(f) => f = Top
      BY <1>6, <2>2 DEF Resting
    <3>2. Polls(join_task)
      BY <1>0, <1>1, <1>5 DEF Resting, Polls, Token
    <3>3. Resting(f)
      BY <1>0, <1>1, <3>1, <3>2 DEF Resting
    <3> QED
      BY <1>1, <2>2, <3>3 DEF CounterInv, RestInv, Low
  <2> QED
    BY <2>1, <2>2
<1>8. FramesInv'
  BY <1>1, FramesPop
<1> QED
  BY <1>4, <1>7, <1>8 DEF CounterInv

LEMMA CounterAwaited ==
  ASSUME TypeInv, FrameInv, GatherInv, TokenInv, CleanInv, CounterInv, ChildStep, AwaitedBefore \/ AwaitedAtOnce
  PROVE  CounterInv'
<1>0. /\ FutureType /\ join_task \in Kids /\ join_task' = join_task /\ stack # << >>
      /\ Top \in Futures /\ cleaned[Top] = 0
  BY OnStackIs
<1>1. /\ Returned /\ pc = "return" /\ result = "ready" /\ PoppedOne
      /\ CleanedUp(Chain(Top))
      /\ AwaitedBefore => ToBegin /\ pc' = "run"
      /\ AwaitedAtOnce => ~ToBegin /\ pc' = "return"
  BY <1>0, DoAwaited DEF Returned, ToBegin, ToBody
<1>2. Chain(Top) = {Top}
  BY <1>0, <1>1, ChainAlone DEF FrameInv, PcInv
<1>3. /\ \A f \in Futures : f # Top => counter'[f] = counter[f] /\ cleaned'[f] = cleaned[f]
      /\ counter'[Top] = SizeMax /\ cleaned'[Top] = 1
  BY <1>0, <1>1, <1>2 DEF CleanedUp
<1>4. /\ Caller \in Futures /\ Caller # Top /\ cleaned[Caller] = 0
      /\ ~ToBegin => counter[Caller] <= Len(Body[Caller])
  BY <1>1, CallerCounts
<1>5. RangeInv'
  BY <1>0, <1>3 DEF CounterInv, RangeInv
<1>6. Top' = Caller /\ \A f \in Futures : f # Top /\ OnStack(f) => OnStack(f)'
  BY <1>0, <1>1, PopLeaves
<1>7. RestInv'
  <2> SUFFICES ASSUME NEW f \in Futures, Resting(f)', Owner[f] = join_task PROVE Low(f)'
    BY RestElse DEF RestInv, CounterInv
  <2>1. f # Top /\ cleaned[f] = 0
    BY <1>3 DEF Resting
  <2>2. CASE OnStack(f)'
    <3>1. f = Caller /\ pc' = "return"
      BY <1>6, <2>2 DEF Resting
    <3>2. ~ToBegin
      BY <1>1, <3>1
    <3>3. Len(Body[Caller]) \in Nat /\ counter[Caller] \in Int
      BY <1>0, <1>4, BodyLen DEF FutureType
    <3> QED
      BY <1>3, <1>4, <3>1, <3>2, <3>3 DEF Low
  <2>3. CASE ~OnStack(f)'
    <3>1. Low(f)
      BY <1>0, <1>1, <1>6, <2>1, <2>3, RestHere DEF CounterInv
    <3> QED
      BY <1>3, <2>1, <3>1 DEF Low
  <2> QED
    BY <2>2, <2>3
<1>8. FramesInv'
  <2>1. \A f \in Futures : f # Caller /\ f # Top => counter'[f] = counter[f]
    BY <1>3
  <2>2. pc' = "return" \/ (pc' = "run" /\ ToBegin /\ counter'[Caller] = counter[Caller])
    BY <1>1, <1>3, <1>4
  <2> QED
    BY <1>1, <2>1, <2>2, FramesPop
<1> QED
  BY <1>5, <1>7, <1>8 DEF CounterInv

LEMMA CounterChild ==
  ASSUME TypeInv, FrameInv, GatherInv, TokenInv, CleanInv, CounterInv, ChildStep
  PROVE  CounterInv'
BY CounterPollAwaited, CounterAwait, CounterEnter, CounterEnd, CounterNoScope, CounterStillAwaits, CounterAwaited
   DEF ChildStep, QuietStep, WakingStep

\* What only cleans up futures and takes polls away leaves the counters within
\* their bounds.
LEMMA CounterKept ==
  ASSUME FutureType, CounterInv, NEW S,
         \A f \in Futures : /\ counter'[f] = IF f \in S THEN SizeMax ELSE counter[f]
                            /\ cleaned'[f] = IF f \in S THEN 1 ELSE cleaned[f],
         \A c \in Kids : Polls(c)' => Polls(c),
         \/ S = {} /\ UNCHANGED <<stack, pc>>
         \/ stack' = << >> /\ \A f \in Futures : OnStack(f) => pc = "return" /\ f = Top
  PROVE  CounterInv'
<1>1. RangeInv'
  BY DEF CounterInv, RangeInv
<1>2. FramesInv'
  <2>1. CASE S = {} /\ UNCHANGED <<stack, pc>>
    <3>1. \A i \in 1..Len(stack) : stack[i].fut \in Futures
      BY TopIs
    <3>2. \A i \in 1..Len(stack) : counter'[stack[i].fut] = counter[stack[i].fut]
      BY <2>1, <3>1
    <3> QED
      BY <2>1, <3>2 DEF CounterInv, FramesInv
  <2>2. CASE stack' = << >>
    <3>1. \A i \in 1..Len(stack') : FALSE
      BY <2>2
    <3> QED
      BY <3>1 DEF FramesInv
  <2> QED
    BY <2>1, <2>2
<1>3. RestInv'
  <2> SUFFICES ASSUME NEW f \in Futures, Resting(f)' PROVE Low(f)'
    BY DEF RestInv
  <2>1. f \notin S /\ counter'[f] = counter[f] /\ cleaned[f] = 0
    BY DEF Resting
  <2>2. Owner[f] \in Kids /\ Polls(Owner[f])
    BY DEF Resting
  <2>3. OnStack(f) => pc = "return" /\ f = Top
    BY DEF Resting, OnStack, Top
  <2>4. Resting(f)
    BY <2>1, <2>2, <2>3 DEF Resting
  <2> QED
    BY <2>1, <2>4 DEF CounterInv, RestInv, Low
<1> QED
  BY <1>1, <1>2, <1>3 DEF CounterInv

LEMMA CounterPollChild ==
  ASSUME TypeInv, FrameInv, CleanInv, CounterInv, PollChild, join_task \in due
  PROVE  CounterInv'
<1>1. /\ jpc = "loop" /\ pc' = "run" /\ stack = << >> /\ join_task \in present /\ join_task \in Kids
      /\ Len(stack') = 1 /\ stack'[1].fut = join_task /\ stack'[1].scope = 0
      /\ \A f \in Futures : counter'[f] = IF f = join_task THEN counter[f] + 1 ELSE counter[f]
      /\ due' = due \ {join_task}
      /\ UNCHANGED <<held, cleaned, join_task>>
  BY DoPollChild
<1>2. join_task \in Futures /\ cleaned[join_task] = 0 /\ Owner[join_task] = join_task /\ Token(join_task)
  BY <1>1, KidsAre, OwnerIs DEF CleanInv, PollsClean, Token
<1>3. \A f \in Futures : ~OnStack(f)
  BY <1>1 DEF OnStack
<1>4. OnStack(join_task)'
  BY <1>1 DEF OnStack
<1>5. Low(join_task) /\ counter[join_task] \in 0..(Len(Body[join_task]) + 2)
  BY <1>1, <1>2, <1>3 DEF CounterInv, RestInv, RangeInv, Resting, Polls
<1>6. counter'[join_task] \in 0..(Len(Body[join_task]) + 2) /\ counter'[join_task] >= 1
  BY <1>1, <1>2, <1>5, BodyLen DEF Low
<1>7. RangeInv'
  BY <1>1, <1>2, <1>6 DEF CounterInv, RangeInv
<1>8. RestInv'
  <2> SUFFICES ASSUME NEW f \in Futures, Resting(f)' PROVE Low(f)'
    BY DEF RestInv
  <2>1. f # join_task /\ cleaned[f] = 0 /\ Owner[f] \in Kids
    BY <1>1, <1>4 DEF Resting
  <2>2. Token(Owner[f])
    BY <1>1, <1>2 DEF Resting, Polls, Token
  <2>3. Resting(f)
    BY <1>3, <2>1, <2>2 DEF Resting, Polls
  <2> QED
    BY <1>1, <2>1, <2>3 DEF CounterInv, RestInv, Low
<1>9. FramesInv'
  <2>1. \A i \in 1..Len(stack') : i = 1
    BY <1>1
  <2> QED
    BY <1>1, <1>6, <2>1 DEF FramesInv
<1> QED
  BY <1>7, <1>8, <1>9 DEF CounterInv

LEMMA CounterJoin ==
  ASSUME TypeInv, FrameInv, GatherInv, TokenInv, CleanInv, CounterInv, [Next]_vars, ~ChildStep,
         jpc = "loop" /\ join_task # Null => join_task \in due
  PROVE  CounterInv'
<1>1. CASE PollChild
  <2>1. jpc = "loop" /\ join_task \in Kids
    BY <1>1, DoPollChild
  <2> QED
    BY <1>1, <2>1, KidsAre, CounterPollChild
<1>2. CASE ChildPending \/ ChildReady
  <2>1. /\ jpc = "child" /\ pc = "return" /\ Len(stack) = 1 /\ stack # << >> /\ stack' = << >> /\ due' = due
        /\ ChildPending => result # "ready" /\ UNCHANGED <<counter, held, cleaned>>
        /\ ChildReady => result = "ready" /\ CleanedUp(Chain(join_task))
    BY <1>2, DoLoopOn
  <2>2. Top = join_task /\ join_task \in Kids /\ join_task \in Futures /\ cleaned[join_task] = 0
    BY <2>1, KidsAre DEF Top, FrameInv, StackInv, GatherInv, AnswerInv, TypeInv, JoinType, CleanInv, PollsClean
  <2>3. ChildReady => Chain(join_task) = {join_task}
    BY <2>1, <2>2, ChainAlone DEF TypeInv, FrameInv, PcInv
  <2>4. \A f \in Futures : OnStack(f) => pc = "return" /\ f = Top
    <3>1. \A i \in 1..Len(stack) : i = 1
      BY <2>1
    <3> QED
      BY <2>1, <3>1 DEF OnStack, Top
  <2>5. \A f \in Futures : held'[f] = held[f] \/ held'[f] = Null
    BY <1>2, <2>1 DEF CleanedUp
  <2>6. \A c \in Kids : Polls(c)' => Polls(c)
    BY <2>1, <2>5, KidsAre DEF Polls, Token
  <2>7. CASE ChildPending
    <3>1. \A f \in Futures : /\ counter'[f] = IF f \in {} THEN SizeMax ELSE counter[f]
                             /\ cleaned'[f] = IF f \in {} THEN 1 ELSE cleaned[f]
      BY <2>1, <2>7
    <3> QED
      BY <2>1, <2>4, <2>6, <3>1, CounterKept DEF TypeInv
  <2>8. CASE ChildReady
    <3>1. \A f \in Futures : /\ counter'[f] = IF f \in {join_task} THEN SizeMax ELSE counter[f]
                             /\ cleaned'[f] = IF f \in {join_task} THEN 1 ELSE cleaned[f]
      BY <2>1, <2>2, <2>3, <2>8 DEF CleanedUp
    <3> QED
      BY <2>1, <2>4, <2>6, <3>1, CounterKept DEF TypeInv
  <2> QED
    BY <1>2, <2>7, <2>8
<1>3. CASE Cleanup
  <2>1. PICK S : S = UNION {Chain(f) : f \in Left}
    OBVIOUS
  <2>2. CleanedUp(S) /\ UNCHANGED <<stack, due>> /\ jpc # "child"
    BY <1>3, <2>1, DoCleanup
  <2>3. stack = << >>
    BY <2>2 DEF FrameInv, StackInv
  <2>4. \A f \in Futures : cleaned[f] \in {0, 1} /\ cleaned'[f] \in {0, 1}
    BY <1>3, CleanStep DEF CleanInv, LinksClean
  <2>5. \A f \in Futures : /\ counter'[f] = IF f \in S THEN SizeMax ELSE counter[f]
                           /\ cleaned'[f] = IF f \in S THEN 1 ELSE cleaned[f]
    BY <2>2, <2>4 DEF CleanedUp
  <2>6. \A c \in Kids : Polls(c)' => Polls(c)
    BY <2>2, <2>3, KidsAre DEF Polls, Token, CleanedUp
  <2>7. stack' = << >> /\ \A f \in Futures : OnStack(f) => pc = "return" /\ f = Top
    BY <2>2, <2>3 DEF OnStack
  <2> QED
    BY <2>5, <2>6, <2>7, CounterKept DEF TypeInv
<1>4. CASE /\ UNCHANGED <<counter, cleaned, stack, pc>>
           /\ \A c \in Kids : Polls(c)' => Polls(c)
  <2>1. \A f \in Futures : /\ counter'[f] = IF f \in {} THEN SizeMax ELSE counter[f]
                           /\ cleaned'[f] = IF f \in {} THEN 1 ELSE cleaned[f]
    BY <1>4
  <2> QED
    BY <1>4, <2>1, CounterKept DEF TypeInv
<1>5. CASE PollJoin \/ TaskWoken \/ JoinFinish
  <2>1. jpc # "child" /\ UNCHANGED <<counter, cleaned, held, due, stack, pc, result>>
    BY <1>5, DoPollJoin, DoJoinFinish DEF GatherInv, futureVars
  <2>2. stack = << >>
    BY <2>1 DEF FrameInv, StackInv
  <2>3. \A c \in Kids : Polls(c)' => Polls(c)
    BY <2>1, <2>2 DEF Polls, Token
  <2> QED
    BY <1>4, <2>1, <2>3
<1>6. ASSUME NEW f \in Futures, FireWaker(f)
      PROVE  CounterInv'
  <2>0. held[f] # Null
    BY <1>6 DEF FireWaker
  <2>1. PICK c \in Kids : c = held[f]
    BY <2>0 DEF TokenInv, HeldInv, TypeInv, JoinType
  <2>2. /\ \A g \in Futures : held'[g] = IF g = f THEN Null ELSE held[g]
        /\ JoinWake(c)
        /\ UNCHANGED <<counter, cleaned, stack, pc, result, join_task>>
    BY <1>6, <2>1, DoFireWaker DEF loopVars
  <2>3. due' = due \cup {c}
    BY <2>2, DoJoinWake DEF TypeInv
  <2>4. \A d \in Kids : Token(d)' => Token(d)
    BY <2>1, <2>2, <2>3, KidsAre DEF Token
  <2>5. \A d \in Kids : Polls(d)' => Polls(d)
    BY <2>2, <2>4 DEF Polls
  <2> QED
    BY <1>4, <2>2, <2>5
<1>7. CASE UNCHANGED vars
  <2>1. UNCHANGED <<counter, cleaned, held, due, stack, pc, result, join_task>>
    BY <1>7 DEF vars, futureVars, loopVars
  <2>2. \A c \in Kids : Polls(c)' => Polls(c)
    BY <2>1 DEF Polls, Token
  <2> QED
    BY <1>4, <2>1, <2>2
<1> QED
  BY <1>1, <1>2, <1>3, <1>5, <1>6, <1>7 DEF Next, Loop

-----------------------------------------------------------------------------
(* All of it together.                                                      *)

IInv ==
  /\ TypeInv /\ mode \in Modes /\ FrameInv /\ GatherInv
  /\ TokenInv /\ ListInv /\ CleanInv /\ CounterInv

LEMMA TypeStep ==
  ASSUME TypeInv, FrameInv, GatherInv, TokenInv, [Next]_vars
  PROVE  TypeInv'
<1>1. CASE ChildStep
  <2>1. FutureType'
    BY <1>1, FrameChild
  <2>2. CASE QuietStep /\ UNCHANGED <<linkVars, woken, due>>
    <3>1. UNCHANGED <<linkVars, childVars, loopVars, woken, due>>
      BY <1>1, <2>2 DEF ChildStep
    <3>2. JoinType'
      BY <3>1 DEF TypeInv, JoinType, linkVars, childVars, loopVars
    <3> QED
      BY <2>1, <3>2 DEF TypeInv
  <2>3. CASE WakingStep /\ JoinWake(Root)
    <3>1. Root \in Kids
      <4>1. stack # << >> /\ FutureType /\ join_task \in Kids
        BY <1>1 DEF ChildStep, FrameInv, StackInv, TypeInv, JoinType, GatherInv, AnswerInv
      <4> QED
        BY <4>1, TopIs DEF FrameInv, StackInv
    <3>2. JoinType'
      BY <1>1, <2>3, <3>1, WakeType DEF TypeInv, ChildStep
    <3> QED
      BY <2>1, <3>2 DEF TypeInv
  <2> QED
    BY <1>1, <2>2, <2>3 DEF ChildStep
<1>2. ASSUME NEW f \in Futures, FireWaker(f)
      PROVE  TypeInv'
  <2>1. held[f] \in Kids
    BY <1>2 DEF FireWaker, TokenInv, HeldInv, TypeInv, JoinType
  <2> QED
    BY <1>2, <2>1, DoFireWaker
<1>3. CASE UNCHANGED vars
  BY <1>3 DEF vars, futureVars, linkVars, childVars, loopVars, TypeInv, FutureType, JoinType
<1> QED
  BY <1>1, <1>2, <1>3, DoPollChild, DoLoopOn, DoCleanup, DoJoinFinish, DoPollJoin DEF Next, Loop, GatherInv

LEMMA InitLists == Init => ListInv
<1> SUFFICES ASSUME Init PROVE \E a, b \in Seq(Kids) : Lists(a, b)
  BY DEF ListInv
<1>1. /\ Children \in Seq(Futures) /\ Len(Children) \in Nat \ {0} /\ DOMAIN Children = 1..Len(Children)
      /\ NoDup(Children) /\ Children # << >>
  BY JoinAssumption DEF NoDup
<1>2. /\ Kids = Elems(Children) /\ Children \in Seq(Kids)
      /\ \A k \in 1..Len(Children) : Children[k] \in Kids
  <2>1. Kids = {Children[k] : k \in 1..Len(Children)}
    BY <1>1 DEF Kids
  <2>2. \A k \in 1..Len(Children) : Children[k] \in Kids
    BY <2>1
  <2>3. Children \in Seq(Kids)
    BY <1>1, <2>2
  <2> QED
    BY <2>1, <2>2, <2>3 DEF Elems
<1>3. \A k \in 1..Len(Children) : Index(Children[k]) = k
  BY <1>1 DEF Index, NoDup
<1>4. \A k \in 1..Len(Children) : next[Children[k]] = IF k < Len(Children) THEN Children[k + 1] ELSE Null
  BY <1>2, <1>3 DEF Init, AllLinked
<1>5. IsList(Children, poll_head)
  <2>1. poll_head = IF Children = << >> THEN Null ELSE Children[1]
    BY <1>1 DEF Init, AllLinked
  <2> QED
    BY <1>1, <1>2, <1>4, <2>1 DEF IsList
<1>6. IsList(<< >>, RestHead)
  <2>1. RestHead = Null
    BY DEF Init, RestHead
  <2>2. \A k \in 1..Len(<< >>) : FALSE
    OBVIOUS
  <2> QED
    BY <2>1, <2>2, NoElems DEF IsList
<1>7. Lists(<< >>, Children)
  BY <1>1, <1>2, <1>5, <1>6, NoElems DEF Lists, Init, AllLinked
<1>8. << >> \in Seq(Kids)
  OBVIOUS
<1> QED
  BY <1>2, <1>7, <1>8

LEMMA InitIInv == Init => IInv
<1> SUFFICES ASSUME Init PROVE IInv
  OBVIOUS
<1>1. /\ counter = [f \in Futures |-> 0] /\ await_future = [f \in Futures |-> Null]
      /\ held = [f \in Futures |-> Null] /\ cleaned = [f \in Futures |-> 0]
      /\ stack = << >> /\ pc = "idle" /\ result = "undefined" /\ mode \in Modes
      /\ present = Kids /\ jpc = "idle" /\ due = Kids
      /\ \A i \in 1..Len(stack) : FALSE
  BY DEF Init, FutureInit
<1>2. TypeInv
  <2>1. FutureType
    BY <1>1 DEF FutureType
  <2>2. /\ next \in [Kids -> Kids \cup {Null}]
        /\ poll_head \in Kids \cup {Null} /\ poll_tail \in Kids \cup {Null}
    <3>1. /\ \A k \in 1..Len(Children) : Children[k] \in Kids
          /\ Len(Children) \in Nat \ {0} /\ DOMAIN Children = 1..Len(Children)
      BY JoinAssumption DEF Kids
    <3>2. \A f \in Kids : Index(f) \in 1..Len(Children)
      BY <3>1 DEF Index, Kids
    <3>3. \A n \in 1..Len(Children) : n < Len(Children) => n + 1 \in 1..Len(Children)
      BY <3>1
    <3>4. \A f \in Kids : (IF Index(f) < Len(Children) THEN Children[Index(f) + 1] ELSE Null) \in Kids \cup {Null}
      BY <3>1, <3>2, <3>3
    <3>5. next = [f \in Kids |-> IF Index(f) < Len(Children) THEN Children[Index(f) + 1] ELSE Null]
      BY DEF Init, AllLinked
    <3>6. next \in [Kids -> Kids \cup {Null}]
      BY <3>4, <3>5
    <3> QED
      BY <3>1, <3>6 DEF Init, AllLinked
  <2>3. JoinType
    BY <2>2 DEF Init, JoinType
  <2> QED
    BY <2>1, <2>3 DEF TypeInv
<1>3. FrameInv
  BY <1>1 DEF FrameInv, AwaitInv, StackInv, PcInv
<1>4. TokenInv
  BY <1>1 DEF TokenInv, HeldInv
<1>5. CleanInv
  <2>1. LinksClean
    BY <1>1 DEF LinksClean
  <2>2. PollsClean
    BY <1>1, KidsAre DEF PollsClean
  <2> QED
    BY <2>1, <2>2 DEF CleanInv
<1>6. CounterInv
  BY <1>1, BodyLen DEF CounterInv, RangeInv, RestInv, FramesInv, Low
<1> QED
  BY <1>1, <1>2, <1>3, <1>4, <1>5, <1>6, InitInv, InitLists DEF IInv

LEMMA NextKeepsIInv ==
  ASSUME IInv, [Next]_vars
  PROVE  IInv'
<1>1. /\ TypeInv /\ FrameInv /\ GatherInv /\ TokenInv /\ ListInv /\ CleanInv /\ CounterInv
      /\ mode \in Modes
  BY DEF IInv
<1>2. jpc = "loop" /\ join_task # Null => join_task \in due
  BY <1>1, LoopHead
<1>3. GatherInv'
  BY <1>1, NextStep
<1>4. TypeInv' /\ ListInv' /\ CleanInv'
  BY <1>1, TypeStep, ListsStep, CleanStep
<1>5. FrameInv' /\ TokenInv' /\ CounterInv'
  <2>1. CASE ChildStep
    BY <1>1, <2>1, FrameChild, TokenChild, CounterChild
  <2>2. CASE ~ChildStep
    BY <1>1, <1>2, <2>2, FrameJoin, TokenJoin, CounterJoin
  <2> QED
    BY <2>1, <2>2
<1>6. mode' = mode
  BY DEF Next, Loop, PollJoin, TaskWoken, PollChild, ChildStep, ChildPending, ChildReady, LoopOn,
     JoinFinish, Cleanup, FireWaker, vars, childVars
<1> QED
  BY <1>1, <1>3, <1>4, <1>5, <1>6 DEF IInv

LEMMA SpecIInv == Spec => []IInv
BY InitIInv, NextKeepsIInv, PTL DEF Spec

LEMMA TypesHold == IInv => TypeOK
<1> SUFFICES ASSUME IInv PROVE TypeOK
  OBVIOUS
<1>1. /\ TypeInv /\ FrameInv /\ GatherInv /\ CleanInv /\ CounterInv /\ mode \in Modes
  BY DEF IInv
<1>2. \A f \in Futures : counter[f] \in 0..(Len(Body[f]) + 2) \cup {SizeMax}
  BY <1>1 DEF CleanInv, LinksClean, CounterInv, RangeInv
<1>3. FutureTypeOK
  BY <1>1, <1>2 DEF FutureTypeOK, TypeInv, FutureType, Frames
<1>4. completed_len \in 0..Len(Children) /\ picked \in Seq(Kids)
  <2>1. /\ picked \in Seq(Kids) /\ completed_len = Len(picked)
        /\ completed_len + Cardinality(present) = Len(Children)
    BY <1>1, KidsCounted DEF GatherInv, EndedInv
  <2>2. Cardinality(present) \in Nat
    BY <1>1, KidsCounted, FS_Subset, FS_CardinalityType DEF TypeInv, JoinType
  <2>3. Len(picked) \in Nat /\ Len(Children) \in Nat
    BY <2>1, JoinAssumption
  <2> QED
    BY <2>1, <2>2, <2>3
<1>5. pc # "idle" => jpc = "child"
  BY <1>1 DEF TypeInv, FutureType, FrameInv, StackInv
<1> QED
  BY <1>1, <1>3, <1>4, <1>5 DEF TypeOK, TypeInv, JoinType

\* Every variable keeps its type; above all no counter is ever more than two
\* past the last scope, short of SIZE_MAX: async_fn_begin() takes no future
\* that ran off its scopes again.
THEOREM TypeCorrect == Spec => []TypeOK
BY SpecIInv, TypesHold, PTL

\* A future whose body runs has had its waker called since it suspended: its
\* counter takes no poll meant for another future for the wake it waits for.
THEOREM RunsOnlyWoken == Spec => []NotReadyEarly
<1>1. IInv => NotReadyEarly
  BY BodyHasNoWaker DEF IInv
<1> QED
  BY SpecIInv, <1>1, PTL

\* What is left of the list the loop has taken over and the list that
\* _join_wake() links since hold every child that is to be polled, each once.
THEOREM ListsCorrect == Spec => []ListsHoldDue
<1>1. IInv => ListsHoldDue
  BY ListsHold DEF IInv
<1> QED
  BY SpecIInv, <1>1, PTL

\* No future is cleaned up twice while the call lasts, all that were polled are
\* when the join tasks are freed, and after a join that is complete no waker
\* points to them.
THEOREM FreedCorrect == Spec => []FreedCleanly
<1>1. IInv => FreedCleanly
  BY CleanFreedly DEF IInv
<1> QED
  BY SpecIInv, <1>1, PTL

-----------------------------------------------------------------------------
(* The coroutines keep the promise of Coroutine.                            *)

\* The scope that f runs next when its counter is n then.
Starts(f, n) == IF n \in 1..Len(Body[f]) THEN n ELSE Len(Body[f]) + 1

\* What Coroutine sees of the futures, those on the stack and the others.
ViewInv ==
  /\ From \in [Futures -> Nat] /\ Inside \in [Futures -> Nat]
  /\ \A i \in 1..Len(stack) :
       /\ Inside[stack[i].fut] = stack[i].scope
       /\ CountedAhead(stack[i].fut) <=> stack[i].scope = 0 /\ (i < Len(stack) \/ pc = "run")
  /\ \A f \in Futures : ~OnStack(f) => Inside[f] = 0 /\ ~CountedAhead(f)
  /\ \A f \in Futures :
       /\ counter[f] = SizeMax => From[f] = 0
       /\ counter[f] # SizeMax => From[f] = Starts(f, IF CountedAhead(f) THEN counter[f] ELSE counter[f] + 1)
       /\ cleaned[f] = 0 => counter[f] # SizeMax /\ counter[f] \in Nat

LEMMA ViewIs == FutureType /\ StackInv /\ RangeInv => ViewInv
<1> SUFFICES ASSUME FutureType, StackInv, RangeInv PROVE ViewInv
  OBVIOUS
<1>1. /\ \A i \in 1..Len(stack) : stack[i].fut \in Futures /\ stack[i].scope \in Nat
      /\ Len(stack) \in Nat
  <2>1. stack = << >> => \A i \in 1..Len(stack) : FALSE
    OBVIOUS
  <2> QED
    BY <2>1, TopIs DEF FutureType
<1>2. \A i \in 1..Len(stack) : FramesOf(stack[i].fut) = {i}
  BY OnceOnStack DEF FramesOf
<1>3. \A f \in Futures : ~OnStack(f) <=> FramesOf(f) = {}
  BY DEF OnStack, FramesOf
<1>4. \A i \in 1..Len(stack) :
        /\ Inside[stack[i].fut] = stack[i].scope
        /\ CountedAhead(stack[i].fut) <=> stack[i].scope = 0 /\ (i < Len(stack) \/ pc = "run")
  <2> SUFFICES ASSUME NEW i \in 1..Len(stack), NEW f \in Futures, f = stack[i].fut
               PROVE  /\ Inside[f] = stack[i].scope
                      /\ CountedAhead(f) <=> stack[i].scope = 0 /\ (i < Len(stack) \/ pc = "run")
    BY <1>1
  <2>1. FramesOf(f) = {i}
    BY <1>2
  <2>2. Inside[f] = stack[i].scope
    BY <2>1 DEF Inside
  <2>3. CountedAhead(f) <=> stack[i].scope = 0 /\ (i < Len(stack) \/ pc = "run")
    BY <2>1 DEF CountedAhead
  <2> QED
    BY <2>2, <2>3
<1>5. \A f \in Futures : ~OnStack(f) => Inside[f] = 0 /\ ~CountedAhead(f)
  BY <1>3 DEF Inside, CountedAhead
<1>6. ASSUME NEW f \in Futures
      PROVE  /\ counter[f] = SizeMax => From[f] = 0
             /\ counter[f] # SizeMax => From[f] = Starts(f, IF CountedAhead(f) THEN counter[f] ELSE counter[f] + 1)
             /\ cleaned[f] = 0 => counter[f] # SizeMax /\ counter[f] \in Nat
             /\ From[f] \in Nat /\ Inside[f] \in Nat
  <2>1. DOMAIN Body[f] = 1..Len(Body[f]) /\ Len(Body[f]) \in Nat
    BY FutureAssumption
  <2>2. /\ counter[f] = SizeMax => From[f] = 0
        /\ counter[f] # SizeMax => From[f] = Starts(f, IF CountedAhead(f) THEN counter[f] ELSE counter[f] + 1)
    BY <2>1 DEF From, NextScope, Starts
  <2>3. From[f] \in Nat
    BY <2>1, <2>2 DEF Starts
  <2>4. cleaned[f] = 0 => counter[f] # SizeMax /\ counter[f] \in Nat
    BY BodyLen DEF RangeInv
  <2>5. Inside[f] \in Nat
    <3>1. CASE OnStack(f)
      BY <1>1, <1>4, <3>1 DEF OnStack
    <3>2. CASE ~OnStack(f)
      BY <1>5, <3>2
    <3> QED
      BY <3>1, <3>2
  <2> QED
    BY <2>2, <2>3, <2>4, <2>5
<1>7. From \in [Futures -> Nat] /\ Inside \in [Futures -> Nat]
  <2>1. DOMAIN From = Futures /\ DOMAIN Inside = Futures
    BY DEF From, Inside
  <2>2. From = [f \in Futures |-> From[f]] /\ Inside = [f \in Futures |-> Inside[f]]
    BY DEF From, Inside
  <2> QED
    BY <1>6, <2>2
<1> QED
  BY <1>4, <1>5, <1>6, <1>7 DEF ViewInv

LEMMA ViewNext == (FutureType /\ StackInv /\ RangeInv)' => ViewInv'
BY ViewIs, PTL

\* What is seen of the top, and of the others, when the stack changes.
LEMMA ViewTop ==
  ASSUME FutureType, ViewInv, stack # << >>
  PROVE  /\ Inside[Top] = Scope /\ (CountedAhead(Top) <=> Scope = 0 /\ pc = "run")
         /\ Top \in Futures
<1>1. Len(stack) \in 1..Len(stack) /\ ~(Len(stack) < Len(stack)) /\ Top \in Futures
      /\ Top = stack[Len(stack)].fut /\ Scope = stack[Len(stack)].scope
  BY TopIs
<1> QED
  BY <1>1 DEF ViewInv

LEMMA ViewPush ==
  ASSUME FutureType, ViewInv, ViewInv', PcInv, stack # << >>, NEW g \in Futures, Pushed(g), ~OnStack(g),
         pc \in {"run", "body"}, pc' = "run"
  PROVE  /\ Inside' = Inside /\ Inside[g] = 0 /\ ~CountedAhead(g) /\ CountedAhead(g)'
         /\ \A f \in Futures : f # g => (CountedAhead(f)' <=> CountedAhead(f))
<1>1. PICK m \in Nat \ {0} : m = Len(stack)
  BY TopIs
<1>2. /\ Len(stack') = m + 1 /\ \A i \in 1..m : stack'[i] = stack[i]
      /\ stack'[m + 1].fut = g /\ stack'[m + 1].scope = 0
  BY <1>1 DEF Pushed
<1>3. \A i \in 1..m : i \in 1..(m + 1) /\ i < m + 1
  OBVIOUS
<1>4. m + 1 \in 1..(m + 1) /\ m \in 1..m
  OBVIOUS
<1>5. Inside[g] = 0 /\ ~CountedAhead(g) /\ Inside'[g] = 0 /\ CountedAhead(g)'
  BY <1>2, <1>4 DEF ViewInv
<1>6. ASSUME NEW f \in Futures, f # g
      PROVE  Inside'[f] = Inside[f] /\ (CountedAhead(f)' <=> CountedAhead(f))
  <2>1. CASE OnStack(f)
    <3>1. PICK i \in 1..m : stack[i].fut = f
      BY <1>1, <2>1 DEF OnStack
    <3>2. Inside[f] = stack[i].scope /\ (CountedAhead(f) <=> stack[i].scope = 0 /\ (i < m \/ pc = "run"))
      BY <1>1, <3>1 DEF ViewInv
    <3>3. Inside'[f] = stack[i].scope /\ (CountedAhead(f)' <=> stack[i].scope = 0)
      BY <1>2, <1>3, <3>1 DEF ViewInv
    <3>4. i < m \/ (i = m /\ stack[i].scope = Scope)
      BY <1>1 DEF Scope
    <3>5. pc = "body" => Scope # 0
      BY DEF PcInv
    <3> QED
      BY <3>2, <3>3, <3>4, <3>5
  <2>2. CASE ~OnStack(f)
    <3>1. ~OnStack(f)'
      <4> SUFFICES ASSUME NEW i \in 1..(m + 1), stack'[i].fut = f PROVE FALSE
        BY <1>2 DEF OnStack
      <4>1. i \in 1..m \/ i = m + 1
        OBVIOUS
      <4> QED
        BY <1>1, <1>2, <1>6, <2>2, <4>1 DEF OnStack
    <3> QED
      BY <2>2, <3>1 DEF ViewInv
  <2> QED
    BY <2>1, <2>2
<1>7. Inside' = Inside
  BY <1>5, <1>6 DEF ViewInv
<1> QED
  BY <1>5, <1>6, <1>7

LEMMA ViewScope ==
  ASSUME FutureType, FutureType', ViewInv, ViewInv', stack # << >>, NEW n \in Nat, Rescoped(n)
  PROVE  /\ Inside' = [Inside EXCEPT ![Top] = n]
         /\ \A f \in Futures : CountedAhead(f)' <=> IF f = Top THEN n = 0 /\ pc' = "run" ELSE CountedAhead(f)
<1>1. PICK m \in Nat \ {0} : m = Len(stack)
  BY TopIs
<1>2. /\ Len(stack') = m /\ Top = stack[m].fut /\ Top \in Futures
      /\ \A i \in 1..m : stack'[i].fut = stack[i].fut /\ stack'[i].scope = IF i = m THEN n ELSE stack[i].scope
  BY <1>1, TopIs DEF Rescoped
<1>3. m \in 1..m /\ ~(m < m) /\ \A i \in 1..m : i # m => i < m
  OBVIOUS
<1>4. \A f \in Futures : f = Top => Inside'[f] = n /\ (CountedAhead(f)' <=> n = 0 /\ pc' = "run")
  <2> SUFFICES ASSUME NEW f \in Futures, f = Top
               PROVE  Inside'[f] = n /\ (CountedAhead(f)' <=> n = 0 /\ pc' = "run")
    OBVIOUS
  <2>1. f = stack'[m].fut /\ stack'[m].scope = n /\ m \in 1..Len(stack') /\ ~(m < Len(stack'))
    BY <1>2, <1>3
  <2> QED
    BY <2>1 DEF ViewInv
<1>5. ASSUME NEW f \in Futures, f # Top
      PROVE  Inside'[f] = Inside[f] /\ (CountedAhead(f)' <=> CountedAhead(f))
  <2>1. CASE OnStack(f)
    <3>1. PICK i \in 1..m : stack[i].fut = f
      BY <1>1, <2>1 DEF OnStack
    <3>2. i < m /\ i # m
      BY <1>2, <1>3, <1>5, <3>1
    <3>3. f = stack'[i].fut /\ stack'[i].scope = stack[i].scope /\ i \in 1..Len(stack') /\ i < Len(stack')
      BY <1>2, <3>1, <3>2
    <3>4. Inside'[f] = stack[i].scope /\ (CountedAhead(f)' <=> stack[i].scope = 0)
      BY <3>3 DEF ViewInv
    <3>5. Inside[f] = stack[i].scope /\ (CountedAhead(f) <=> stack[i].scope = 0)
      BY <1>1, <3>1, <3>2 DEF ViewInv
    <3> QED
      BY <3>4, <3>5
  <2>2. CASE ~OnStack(f)
    <3>1. ~OnStack(f)'
      BY <1>1, <1>2, <2>2 DEF OnStack
    <3> QED
      BY <2>2, <3>1 DEF ViewInv
  <2> QED
    BY <2>1, <2>2
<1>6. Inside' = [Inside EXCEPT ![Top] = n]
  BY <1>2, <1>4, <1>5 DEF ViewInv
<1> QED
  BY <1>4, <1>5, <1>6

LEMMA ViewPop ==
  ASSUME FutureType, FutureType', StackInv, ViewInv, ViewInv', PcInv, Returned, PoppedOne
  PROVE  /\ Inside[Top] = 0 /\ ~CountedAhead(Top)
         /\ Top \in Futures /\ Caller \in Futures /\ Caller # Top
         /\ Inside' = [Inside EXCEPT ![Caller] = 0]
         /\ Inside[Caller] = stack[Len(stack) - 1].scope
         /\ CountedAhead(Caller) <=> ToBegin
         /\ \A f \in Futures : CountedAhead(f)' <=> IF f = Caller THEN pc' = "run" ELSE CountedAhead(f)
<1>1. PICK m \in Nat \ {0} : m = Len(stack) - 1
  <2>1. Len(stack) \in Nat /\ Len(stack) > 1
    BY DEF PoppedOne, FutureType
  <2> QED
    BY <2>1, OneLess
<1>2. /\ Len(stack') = m /\ Len(stack) = m + 1 /\ stack # << >> /\ pc = "return" /\ Scope = 0
      /\ Top = stack[m + 1].fut /\ Caller = stack[m].fut
      /\ \A i \in 1..m : stack'[i].fut = stack[i].fut /\ stack'[i].scope = IF i = m THEN 0 ELSE stack[i].scope
  BY <1>1 DEF PoppedOne, FutureType, Returned, PcInv, Top, Caller
<1>3. /\ m \in 1..m /\ m \in 1..(m + 1) /\ m < m + 1 /\ m + 1 \in 1..(m + 1) /\ ~(m < m) /\ m # m + 1
      /\ \A i \in 1..m : i \in 1..(m + 1) /\ i < m + 1 /\ i # m + 1 /\ (i # m => i < m)
      /\ \A i \in 1..(m + 1) : i \in 1..m \/ i = m + 1
  OBVIOUS
<1>4. \A i, j \in 1..(m + 1) : stack[i].fut = stack[j].fut => i = j
  BY <1>2, OnceOnStack
<1>5. Caller \in Futures /\ Top \in Futures /\ Caller # Top
  BY <1>2, <1>3, <1>4, TopIs
<1>6. Inside[Top] = 0 /\ ~CountedAhead(Top)
  BY <1>2, ViewTop
<1>7. ASSUME NEW f \in Futures, f = Top
      PROVE  Inside'[f] = 0 /\ ~CountedAhead(f)'
  <2>1. ~OnStack(f)'
    <3> SUFFICES ASSUME NEW i \in 1..m, stack'[i].fut = f PROVE FALSE
      BY <1>2 DEF OnStack
    <3> QED
      BY <1>2, <1>3, <1>4, <1>7
  <2> QED
    BY <2>1 DEF ViewInv
<1>8. Inside[Caller] = stack[m].scope /\ (CountedAhead(Caller) <=> stack[m].scope = 0)
  BY <1>2, <1>3 DEF ViewInv
<1>9. ASSUME NEW f \in Futures, f = Caller
      PROVE  Inside'[f] = 0 /\ (CountedAhead(f)' <=> pc' = "run")
  <2>1. f = stack'[m].fut /\ stack'[m].scope = 0 /\ m \in 1..Len(stack') /\ ~(m < Len(stack'))
    BY <1>2, <1>3, <1>9
  <2> QED
    BY <2>1 DEF ViewInv
<1>10. ASSUME NEW f \in Futures, f # Caller, f # Top
       PROVE  Inside'[f] = Inside[f] /\ (CountedAhead(f)' <=> CountedAhead(f))
  <2>1. CASE OnStack(f)
    <3>1. PICK i \in 1..(m + 1) : stack[i].fut = f
      BY <1>2, <2>1 DEF OnStack
    <3>2. i \in 1..m /\ i # m /\ i < m /\ i < m + 1
      BY <1>2, <1>3, <1>10, <3>1
    <3>3. f = stack'[i].fut /\ stack'[i].scope = stack[i].scope /\ i \in 1..Len(stack') /\ i < Len(stack')
      BY <1>2, <3>1, <3>2
    <3>4. Inside'[f] = stack[i].scope /\ (CountedAhead(f)' <=> stack[i].scope = 0)
      BY <3>3 DEF ViewInv
    <3>5. Inside[f] = stack[i].scope /\ (CountedAhead(f) <=> stack[i].scope = 0)
      BY <1>2, <3>1, <3>2 DEF ViewInv
    <3> QED
      BY <3>4, <3>5
  <2>2. CASE ~OnStack(f)
    <3>1. ~OnStack(f)'
      BY <1>2, <1>3, <2>2 DEF OnStack
    <3> QED
      BY <2>2, <3>1 DEF ViewInv
  <2> QED
    BY <2>1, <2>2
<1>11. Inside' = [Inside EXCEPT ![Caller] = 0]
  BY <1>5, <1>6, <1>7, <1>9, <1>10 DEF ViewInv
<1>12. ToBegin <=> stack[m].scope = 0
  BY <1>1, Zenon DEF ToBegin
<1>13. \A f \in Futures : CountedAhead(f)' <=> IF f = Caller THEN pc' = "run" ELSE CountedAhead(f)
  BY <1>5, <1>6, <1>7, <1>9, <1>10
<1> QED
  BY <1>1, <1>5, <1>6, <1>8, <1>11, <1>12, <1>13

\* Each step maps to a step of Coroutine or a stutter.
SeenInv == IInv /\ ViewInv

LEMMA FromElse ==
  ASSUME ViewInv, ViewInv', NEW f \in Futures,
         counter'[f] = counter[f], CountedAhead(f)' <=> CountedAhead(f)
  PROVE  From'[f] = From[f]
BY DEF ViewInv

LEMMA OnlyFrom ==
  ASSUME ViewInv, ViewInv', NEW t \in Futures, NEW n, From'[t] = n,
         \A f \in Futures : f # t => counter'[f] = counter[f] /\ (CountedAhead(f)' <=> CountedAhead(f))
  PROVE  From' = [From EXCEPT ![t] = n]
<1>1. \A f \in Futures : f # t => From'[f] = From[f]
  BY FromElse
<1> QED
  BY <1>1 DEF ViewInv

\* The one that is polled.
LEMMA SeenTop ==
  ASSUME SeenInv, ChildStep
  PROVE  /\ FutureType /\ FrameInv /\ stack # << >> /\ Top \in Futures /\ cleaned[Top] = 0
         /\ counter[Top] \in Nat /\ counter[Top] # SizeMax
         /\ Inside[Top] = Scope /\ (CountedAhead(Top) <=> Scope = 0 /\ pc = "run")
<1>1. /\ FutureType /\ FrameInv /\ stack # << >> /\ Top \in Futures /\ cleaned[Top] = 0 /\ ViewInv
  BY OnStackIs DEF SeenInv, IInv
<1> QED
  BY <1>1, ViewTop DEF ViewInv

LEMMA MapPollAwaited ==
  ASSUME SeenInv, SeenInv', ChildStep, PollAwaited
  PROVE  UNCHANGED C!vars
<1>1. /\ FutureType /\ FrameInv /\ stack # << >> /\ Top \in Futures /\ cleaned[Top] = 0
  BY SeenTop
<1>2. PICK g \in Awaits[Top] : g = await_future[Top]
  BY <1>1, DoPollAwaited, KidsAre DEF FrameInv, AwaitInv
<1>3. /\ pc = "run" /\ pc' = "run" /\ Pushed(g) /\ g \in Futures
      /\ \A f \in Futures : counter'[f] = IF f = g THEN counter[f] + 1 ELSE counter[f]
      /\ UNCHANGED <<await_future, cleaned>>
  BY <1>1, <1>2, DoPollAwaited
<1>4. ~OnStack(g)
  BY <1>1, Deeper DEF FrameInv, OnStack
<1>5. cleaned[g] = 0
  BY <1>1, <1>2, <1>3, KidsAre DEF SeenInv, IInv, CleanInv, LinksClean
<1>6. /\ Inside' = Inside /\ ~CountedAhead(g) /\ CountedAhead(g)'
      /\ \A f \in Futures : f # g => (CountedAhead(f)' <=> CountedAhead(f))
  BY <1>1, <1>3, <1>4, ViewPush DEF SeenInv, FrameInv
<1>7. From'[g] = From[g]
  <2>1. cleaned'[g] = 0 /\ counter'[g] = counter[g] + 1
    BY <1>3, <1>5
  <2>2. From[g] = Starts(g, counter[g] + 1)
    BY <1>3, <1>5, <1>6 DEF SeenInv, ViewInv
  <2>3. From'[g] = Starts(g, counter'[g])
    BY <1>3, <1>6, <2>1 DEF SeenInv, ViewInv
  <2> QED
    BY <2>1, <2>2, <2>3
<1>8. From' = [From EXCEPT ![g] = From[g]]
  BY <1>3, <1>6, <1>7, OnlyFrom DEF SeenInv
<1>9. From' = From
  BY <1>8 DEF SeenInv, ViewInv
<1> QED
  BY <1>3, <1>6, <1>9 DEF C!vars

LEMMA MapEnter ==
  ASSUME SeenInv, SeenInv', ChildStep, EnterScope \/ EnterLoop
  PROVE  \E f \in Futures : C!Enter(f)
<1>1. /\ FutureType /\ FrameInv /\ stack # << >> /\ Top \in Futures /\ cleaned[Top] = 0
      /\ counter[Top] # SizeMax
      /\ Inside[Top] = Scope /\ (CountedAhead(Top) <=> Scope = 0 /\ pc = "run")
  BY SeenTop
<1>2. PICK t \in Futures, n \in Nat \ {0} : t = Top /\ n = counter[Top] /\ n \in 1..Len(Body[Top])
  <2>1. counter[Top] \in 1..Len(Body[Top]) /\ counter[Top] \in Nat \ {0}
    BY <1>1, DoEnter
  <2> QED
    BY <1>1, <2>1
<1>3. /\ pc = "run" /\ pc' = "body" /\ await_future[t] = Null /\ Rescoped(n)
      /\ \A f \in Futures : f # t => counter'[f] = counter[f]
      /\ counter'[t] = Passed(t, n)
      /\ UNCHANGED <<await_future, cleaned>>
  BY <1>1, <1>2, DoEnter
<1>4. Scope = 0
  BY <1>3 DEF SeenInv, IInv, FrameInv, PcInv
<1>5. /\ Inside' = [Inside EXCEPT ![t] = n]
      /\ \A f \in Futures : CountedAhead(f)' <=> IF f = t THEN FALSE ELSE CountedAhead(f)
  <2>1. FutureType' /\ ViewInv /\ ViewInv'
    BY DEF SeenInv, IInv, TypeInv
  <2>2. \A f \in Futures : CountedAhead(f)' <=> IF f = Top THEN n = 0 /\ pc' = "run" ELSE CountedAhead(f)
    BY <1>1, <1>2, <1>3, <2>1, ViewScope
  <2>3. Inside' = [Inside EXCEPT ![Top] = n]
    BY <1>1, <1>2, <1>3, <2>1, ViewScope
  <2> QED
    BY <1>2, <2>2, <2>3
<1>6. Inside[t] = 0 /\ From[t] = n
  <2>1. CountedAhead(t)
    BY <1>1, <1>2, <1>3, <1>4
  <2> QED
    BY <1>1, <1>2, <1>4, <2>1 DEF SeenInv, ViewInv, Starts
<1>7. From'[t] = IF Kind(t, n) = "while" THEN n ELSE n + 1
  <2>1. cleaned'[t] = 0 /\ ~CountedAhead(t)' /\ Len(Body[t]) \in Nat
    BY <1>1, <1>2, <1>3, <1>5, BodyLen
  <2>2. From'[t] = Starts(t, counter'[t] + 1)
    BY <2>1 DEF SeenInv, ViewInv
  <2> QED
    BY <1>2, <1>3, <2>1, <2>2 DEF Starts, Passed
<1>8. From' = [From EXCEPT ![t] = IF Kind(t, n) = "while" THEN n ELSE n + 1]
  BY <1>3, <1>5, <1>7, OnlyFrom DEF SeenInv
<1>9. n \in DOMAIN Body[t] /\ (C!Loop(t) <=> Kind(t, n) = "while")
  <2>1. n \in DOMAIN Body[t]
    BY <1>2, FutureAssumption
  <2> QED
    BY <1>6, <2>1 DEF C!Loop, Kind
<1>10. C!Enter(t)
  BY <1>3, <1>5, <1>6, <1>8, <1>9 DEF C!Enter
<1> QED
  BY <1>10

LEMMA MapEnd ==
  ASSUME SeenInv, SeenInv', ChildStep, Yield \/ Suspend \/ Return \/ RunOff
  PROVE  \E f \in Futures : C!Leave(f)
<1>1. /\ FutureType /\ FrameInv /\ stack # << >> /\ Top \in Futures
      /\ Inside[Top] = Scope /\ (CountedAhead(Top) <=> Scope = 0 /\ pc = "run")
  BY SeenTop
<1>2. /\ pc = "body" /\ pc' = "return" /\ Rescoped(0) /\ UNCHANGED await_future
      /\ \A f \in Futures : counter'[f] = counter[f]
  <2>1. counter' = counter
    BY DEF Yield, Suspend, Return, RunOff
  <2> QED
    BY <1>1, <2>1, DoEnd
<1>3. Scope # 0
  BY <1>2 DEF SeenInv, IInv, FrameInv, PcInv
<1>4. /\ Inside' = [Inside EXCEPT ![Top] = 0]
      /\ \A f \in Futures : CountedAhead(f)' <=> CountedAhead(f)
  <2>1. FutureType' /\ ViewInv /\ ViewInv'
    BY DEF SeenInv, IInv, TypeInv
  <2>2. /\ Inside' = [Inside EXCEPT ![Top] = 0]
        /\ \A f \in Futures : CountedAhead(f)' <=> IF f = Top THEN 0 = 0 /\ pc' = "run" ELSE CountedAhead(f)
    BY <1>1, <1>2, <2>1, ViewScope
  <2> QED
    BY <1>1, <1>2, <2>2
<1>5. From' = From
  <2>1. \A f \in Futures : From'[f] = From[f]
    BY <1>2, <1>4, FromElse DEF SeenInv
  <2> QED
    BY <2>1 DEF SeenInv, ViewInv
<1>6. C!Leave(Top)
  BY <1>1, <1>2, <1>3, <1>4, <1>5 DEF C!Leave
<1> QED
  BY <1>1, <1>6

\* async_break is only for the body of a loop: the test that uses it does, and
\* in another scope it would skip the next.
BreaksLoops ==
  \A f \in Futures : \A n \in DOMAIN Body[f] : "break" \in Body[f][n].ends => Body[f][n].kind = "while"

LEMMA MapBreak ==
  ASSUME BreaksLoops, SeenInv, SeenInv', ChildStep, Break
  PROVE  \E f \in Futures : C!LeaveLoop(f)
<1>1. /\ FutureType /\ FrameInv /\ stack # << >> /\ Top \in Futures /\ cleaned[Top] = 0
      /\ counter[Top] # SizeMax
      /\ Inside[Top] = Scope /\ (CountedAhead(Top) <=> Scope = 0 /\ pc = "run")
  BY SeenTop
<1>2. PICK t \in Futures, n \in {Scope} : t = Top /\ n = Scope
  BY <1>1
<1>3. /\ pc = "body" /\ pc' = "return" /\ Rescoped(0) /\ UNCHANGED <<await_future, cleaned>>
      /\ \A f \in Futures : counter'[f] = IF f = t THEN counter[f] + 1 ELSE counter[f]
  BY <1>1, <1>2, DoEnd
<1>4. n # 0 /\ await_future[t] = Null
  BY <1>2, <1>3 DEF SeenInv, IInv, FrameInv, PcInv
<1>5. n \in 1..Len(Body[t]) /\ n \in DOMAIN Body[t] /\ counter[t] = Passed(t, n)
  <2>1. Len(stack) \in 1..Len(stack) /\ t = stack[Len(stack)].fut /\ n = stack[Len(stack)].scope
    BY <1>1, <1>2, TopIs
  <2>2. DOMAIN Body[t] = 1..Len(Body[t])
    BY FutureAssumption
  <2> QED
    BY <1>4, <2>1, <2>2 DEF SeenInv, IInv, FrameInv, StackInv, CounterInv, FramesInv
<1>6. Kind(t, n) = "while" /\ Body[t][n].kind = "while"
  BY <1>2, <1>5 DEF Break, Ends, BreaksLoops, Kind
<1>7. /\ Inside' = [Inside EXCEPT ![t] = 0]
      /\ \A f \in Futures : CountedAhead(f)' <=> CountedAhead(f)
  <2>1. FutureType' /\ ViewInv /\ ViewInv'
    BY DEF SeenInv, IInv, TypeInv
  <2>2. /\ Inside' = [Inside EXCEPT ![Top] = 0]
        /\ \A f \in Futures : CountedAhead(f)' <=> IF f = Top THEN 0 = 0 /\ pc' = "run" ELSE CountedAhead(f)
    BY <1>1, <1>3, <2>1, ViewScope
  <2> QED
    BY <1>1, <1>2, <1>3, <2>2
<1>8. ~CountedAhead(t) /\ ~CountedAhead(t)'
  BY <1>1, <1>2, <1>4, <1>7
<1>9. From[t] = n /\ From'[t] = n + 1
  <2>1. counter[t] = n - 1 /\ counter'[t] = n /\ Len(Body[t]) \in Nat
    BY <1>3, <1>5, <1>6, BodyLen DEF Passed
  <2>2. From[t] = Starts(t, n) /\ From'[t] = Starts(t, n + 1)
    <3>1. counter[t] # SizeMax /\ cleaned'[t] = 0
      BY <1>1, <1>2, <1>3
    <3>2. From[t] = Starts(t, counter[t] + 1) /\ From'[t] = Starts(t, counter'[t] + 1)
      BY <1>8, <3>1 DEF SeenInv, ViewInv
    <3>3. counter[t] + 1 = n
      BY <1>5, <2>1
    <3> QED
      BY <2>1, <3>2, <3>3
  <2> QED
    BY <1>5, <2>1, <2>2 DEF Starts
<1>10. From' = [From EXCEPT ![t] = n + 1]
  BY <1>3, <1>7, <1>9, OnlyFrom DEF SeenInv
<1>11. C!LeaveLoop(t)
  BY <1>4, <1>3, <1>5, <1>6, <1>7, <1>9, <1>10 DEF C!LeaveLoop, C!Loop
<1> QED
  BY <1>11

LEMMA MapLoopEnds ==
  ASSUME SeenInv, SeenInv', ChildStep, LoopEnds
  PROVE  \E f \in Futures : C!LeaveLoop(f)
<1>1. /\ FutureType /\ FrameInv /\ stack # << >> /\ Top \in Futures /\ cleaned[Top] = 0
      /\ counter[Top] # SizeMax
      /\ Inside[Top] = Scope /\ (CountedAhead(Top) <=> Scope = 0 /\ pc = "run")
  BY SeenTop
<1>2. PICK t \in Futures, n \in {counter[Top]} : t = Top /\ n = counter[Top]
  BY <1>1
<1>3. /\ pc = "run" /\ await_future[t] = Null /\ n \in 1..Len(Body[t])
      /\ \A f \in Futures : counter'[f] = IF f = t THEN counter[f] + 1 ELSE counter[f]
      /\ UNCHANGED <<await_future, cleaned, stack, pc>>
  BY <1>1, <1>2, DoLoopEnds
<1>4. Scope = 0
  BY <1>3 DEF SeenInv, IInv, FrameInv, PcInv
<1>5. /\ Inside' = Inside /\ \A f \in Futures : CountedAhead(f)' <=> CountedAhead(f)
  BY <1>3 DEF Inside, CountedAhead, FramesOf
<1>6. CountedAhead(t) /\ CountedAhead(t)' /\ Inside[t] = 0
  BY <1>1, <1>2, <1>3, <1>4, <1>5
<1>7. From[t] = n /\ From'[t] = n + 1
  <2>1. counter'[t] = n + 1 /\ cleaned'[t] = 0 /\ Len(Body[t]) \in Nat
    BY <1>1, <1>2, <1>3, BodyLen
  <2>2. From[t] = Starts(t, n)
    BY <1>1, <1>2, <1>6 DEF SeenInv, ViewInv
  <2>3. From'[t] = Starts(t, n + 1)
    BY <1>6, <2>1 DEF SeenInv, ViewInv
  <2> QED
    BY <1>3, <2>1, <2>2, <2>3 DEF Starts
<1>8. From' = [From EXCEPT ![t] = n + 1]
  BY <1>3, <1>5, <1>7, OnlyFrom DEF SeenInv
<1>9. C!Loop(t)
  <2>1. Kind(t, n) = "while"
    BY <1>2 DEF LoopEnds, AtScope
  <2>2. n \in DOMAIN Body[t]
    BY <1>3, FutureAssumption
  <2> QED
    BY <1>7, <2>1, <2>2 DEF C!Loop, Kind
<1>10. Inside' = [Inside EXCEPT ![t] = 0]
  BY <1>5, <1>6 DEF SeenInv, ViewInv
<1>11. C!LeaveLoop(t)
  BY <1>3, <1>7, <1>8, <1>9, <1>10 DEF C!LeaveLoop
<1> QED
  BY <1>11

LEMMA MapNoScope ==
  ASSUME SeenInv, SeenInv', ChildStep, NoScope
  PROVE  UNCHANGED C!vars
<1>1. /\ FutureType /\ FrameInv /\ stack # << >> /\ Top \in Futures /\ cleaned[Top] = 0
      /\ counter[Top] # SizeMax /\ counter[Top] \in Nat
      /\ Inside[Top] = Scope /\ (CountedAhead(Top) <=> Scope = 0 /\ pc = "run")
  BY SeenTop
<1>2. PICK t \in Futures, n \in Nat : t = Top /\ n = counter[Top]
  BY <1>1
<1>3. /\ pc = "run" /\ pc' = "return"
      /\ UNCHANGED <<counter, await_future, cleaned, stack>>
  BY <1>1, DoNoScope
<1>4. Scope = 0
  BY <1>3 DEF SeenInv, IInv, FrameInv, PcInv
<1>5. n > Len(Body[t]) /\ Len(Body[t]) \in Nat
  <2>1. n \notin DOMAIN Body[t]
    <3>1. Kind(t, n) = "none"
      BY <1>2 DEF NoScope, AtScope
    <3>2. \A k \in DOMAIN Body[t] : Body[t][k].kind # "none"
      <4>1. PICK R : Body[t] \in Seq(R) /\ \A r \in R : r.kind # "none"
        <5>1. \A E : \A r \in [kind : {"scope", "while"}, ends : E] : r.kind # "none"
          OBVIOUS
        <5> QED
          BY <5>1, FutureAssumption
      <4>2. \A k \in DOMAIN Body[t] : Body[t][k] \in R
        BY <4>1
      <4> QED
        BY <4>1, <4>2
    <3> QED
      BY <3>1, <3>2 DEF Kind
  <2>2. DOMAIN Body[t] = 1..Len(Body[t]) /\ Len(Body[t]) \in Nat
    BY FutureAssumption
  <2>3. n >= 1
    <3>1. Len(stack) \in 1..Len(stack) /\ t = stack[Len(stack)].fut /\ stack[Len(stack)].scope = 0
      BY <1>1, <1>2, <1>4, TopIs
    <3> QED
      BY <1>2, <1>3, <3>1 DEF SeenInv, IInv, CounterInv, FramesInv
  <2> QED
    BY <2>1, <2>2, <2>3
<1>6. /\ Inside' = [Inside EXCEPT ![t] = 0]
      /\ \A f \in Futures : CountedAhead(f)' <=> IF f = t THEN FALSE ELSE CountedAhead(f)
  <2>1. FutureType' /\ ViewInv /\ ViewInv'
    BY DEF SeenInv, IInv, TypeInv
  <2>2. Rescoped(0)
    <3>1. stack \in Seq(Frames) /\ Len(stack) \in Nat
      BY <1>1 DEF FutureType
    <3> QED
      BY <1>3, <1>4, <3>1 DEF Rescoped, Scope
  <2>3. /\ Inside' = [Inside EXCEPT ![Top] = 0]
        /\ \A f \in Futures : CountedAhead(f)' <=> IF f = Top THEN 0 = 0 /\ pc' = "run" ELSE CountedAhead(f)
    BY <1>1, <2>1, <2>2, ViewScope
  <2> QED
    BY <1>2, <1>3, <2>3
<1>7. Inside[t] = 0 /\ CountedAhead(t)
  BY <1>1, <1>2, <1>3, <1>4
<1>8. Inside' = Inside
  BY <1>6, <1>7 DEF SeenInv, ViewInv
<1>9. From'[t] = From[t]
  <2>1. counter'[t] = n
    BY <1>2, <1>3
  <2>2. From[t] = Starts(t, n) /\ From'[t] = Starts(t, n + 1)
    BY <1>1, <1>2, <1>6, <1>7, <2>1 DEF SeenInv, ViewInv
  <2> QED
    BY <1>5, <2>2 DEF Starts
<1>10. From' = [From EXCEPT ![t] = From[t]]
  BY <1>3, <1>6, <1>9, OnlyFrom DEF SeenInv
<1>11. From' = From
  BY <1>10 DEF SeenInv, ViewInv
<1> QED
  BY <1>3, <1>8, <1>11 DEF C!vars

LEMMA MapAwait ==
  ASSUME SeenInv, SeenInv', ChildStep, NEW g \in Futures, Await(g)
  PROVE  \E f \in Futures : C!Await(f, g)
<1>1. /\ FutureType /\ FrameInv /\ stack # << >> /\ Top \in Futures
      /\ Inside[Top] = Scope
  BY SeenTop
<1>2. /\ pc = "body" /\ pc' = "run" /\ Pushed(g) /\ g \in Awaits[Top] /\ g # Top
      /\ \A f \in Futures : await_future'[f] = IF f = Top THEN g ELSE IF f = g THEN Null ELSE await_future[f]
      /\ \A f \in Futures : counter'[f] = IF f = g THEN 1 ELSE counter[f]
  BY <1>1, DoAwait
<1>3. Scope # 0 /\ await_future[Top] = Null
  BY <1>2 DEF SeenInv, IInv, FrameInv, PcInv
<1>4. ~OnStack(g)
  BY <1>1, <1>2, Deeper DEF FrameInv, OnStack
<1>5. /\ Inside' = Inside /\ CountedAhead(g)'
      /\ \A f \in Futures : f # g => (CountedAhead(f)' <=> CountedAhead(f))
  BY <1>1, <1>2, <1>4, ViewPush DEF SeenInv, FrameInv
<1>6. From'[g] = 1
  <2>1. counter'[g] = 1 /\ Len(Body[g]) \in Nat /\ 1 # SizeMax
    BY <1>2, BodyLen
  <2>2. From'[g] = Starts(g, 1)
    BY <1>5, <2>1 DEF SeenInv, ViewInv
  <2> QED
    BY <2>1, <2>2 DEF Starts
<1>7. From' = [From EXCEPT ![g] = 1]
  BY <1>2, <1>5, <1>6, OnlyFrom DEF SeenInv
<1>8. await_future' = [await_future EXCEPT ![Top] = g, ![g] = Null]
  <2>1. await_future \in [Futures -> Futures \cup {Null}] /\ await_future' \in [Futures -> Futures \cup {Null}]
    BY DEF SeenInv, IInv, TypeInv, FutureType
  <2> QED
    BY <1>1, <1>2, <2>1
<1>9. C!Await(Top, g)
  BY <1>1, <1>3, <1>5, <1>7, <1>8 DEF C!Await
<1> QED
  BY <1>1, <1>9

LEMMA MapStillAwaits ==
  ASSUME SeenInv, SeenInv', ChildStep, StillAwaits
  PROVE  (\E f \in Futures : C!Leave(f)) \/ UNCHANGED C!vars
<1>0. FutureType /\ FutureType' /\ StackInv /\ PcInv /\ ViewInv /\ ViewInv'
  BY DEF SeenInv, IInv, TypeInv, FrameInv
<1>1. /\ Returned /\ pc' = "return" /\ PoppedOne
      /\ \A f \in Futures : counter'[f] = IF f = Caller /\ ToBegin THEN counter[f] - 1 ELSE counter[f]
      /\ UNCHANGED <<await_future, cleaned>>
  BY <1>0, DoStillAwaits DEF Returned
<1>2. /\ Caller \in Futures
      /\ Inside' = [Inside EXCEPT ![Caller] = 0]
      /\ Inside[Caller] = stack[Len(stack) - 1].scope
      /\ CountedAhead(Caller) <=> ToBegin
      /\ \A f \in Futures : CountedAhead(f)' <=> IF f = Caller THEN FALSE ELSE CountedAhead(f)
  <2>1. \A f \in Futures : CountedAhead(f)' <=> IF f = Caller THEN pc' = "run" ELSE CountedAhead(f)
    BY <1>0, <1>1, ViewPop
  <2> QED
    BY <1>0, <1>1, <2>1, ViewPop
<1>3. PICK c \in Futures : c = Caller
  BY <1>2
<1>4. cleaned[c] = 0
  BY <1>1, <1>3, CallerCounts DEF SeenInv, IInv
<1>5. From'[c] = From[c]
  <2>1. /\ counter[c] # SizeMax /\ counter'[c] # SizeMax /\ counter[c] \in Nat /\ ~CountedAhead(c)'
    BY <1>0, <1>1, <1>2, <1>3, <1>4 DEF ViewInv
  <2>2. From'[c] = Starts(c, counter'[c] + 1)
    BY <1>0, <2>1 DEF ViewInv
  <2>3. CASE ToBegin
    <3>1. From[c] = Starts(c, counter[c])
      BY <1>0, <1>2, <1>3, <2>1, <2>3 DEF ViewInv
    <3>2. counter'[c] + 1 = counter[c]
      BY <1>1, <1>3, <2>1, <2>3
    <3> QED
      BY <2>2, <3>1, <3>2
  <2>4. CASE ~ToBegin
    <3>1. ~CountedAhead(c) /\ counter'[c] = counter[c]
      BY <1>1, <1>2, <1>3, <2>4
    <3> QED
      BY <1>0, <2>1, <3>1, FromElse
  <2> QED
    BY <2>3, <2>4
<1>6. From' = From
  <2>1. From' = [From EXCEPT ![c] = From[c]]
    BY <1>0, <1>1, <1>2, <1>3, <1>5, OnlyFrom
  <2> QED
    BY <1>0, <2>1 DEF ViewInv
<1>7. CASE ToBegin
  <2>1. Inside[c] = 0
    BY <1>2, <1>3, <1>7 DEF ToBegin
  <2>2. Inside' = Inside
    BY <1>0, <1>2, <1>3, <2>1 DEF ViewInv
  <2> QED
    BY <1>1, <1>6, <2>2 DEF C!vars
<1>8. CASE ~ToBegin
  <2>1. Inside[c] # 0
    BY <1>1, <1>2, <1>3, <1>8 DEF ToBegin
  <2>2. C!Leave(c)
    BY <1>1, <1>2, <1>3, <1>6, <2>1 DEF C!Leave
  <2> QED
    BY <2>2
<1> QED
  BY <1>7, <1>8

LEMMA MapAwaited ==
  ASSUME SeenInv, SeenInv', ChildStep, AwaitedBefore \/ AwaitedAtOnce
  PROVE  \E f, g \in Futures : C!End(g, f)
<1>0. FutureType /\ FutureType' /\ StackInv /\ PcInv /\ AwaitInv /\ ViewInv /\ ViewInv'
  BY DEF SeenInv, IInv, TypeInv, FrameInv
<1>1. /\ Returned /\ pc = "return" /\ result = "ready" /\ PoppedOne /\ CleanedUp(Chain(Top))
      /\ \A f \in Futures : await_future'[f] = IF f = Caller THEN Null ELSE await_future[f]
      /\ AwaitedBefore => ToBegin /\ pc' = "run"
      /\ AwaitedAtOnce => ~ToBegin /\ pc' = "return"
  BY <1>0, DoAwaited DEF Returned, ToBegin, ToBody
<1>2. /\ Inside[Top] = 0 /\ ~CountedAhead(Top)
      /\ Top \in Futures /\ Caller \in Futures /\ Caller # Top
      /\ Inside' = [Inside EXCEPT ![Caller] = 0]
      /\ CountedAhead(Caller) <=> ToBegin
      /\ \A f \in Futures : CountedAhead(f)' <=> IF f = Caller THEN pc' = "run" ELSE CountedAhead(f)
  BY <1>0, <1>1, ViewPop
<1>3. PICK t \in Futures, c \in Futures : t = Top /\ c = Caller
  BY <1>2
<1>4. await_future[t] = Null /\ Chain(t) = {t}
  BY <1>0, <1>1, <1>3, ChainAlone DEF PcInv
<1>5. await_future[c] = t
  <2>1. PICK m \in Nat : m = Len(stack) - 1 /\ m \in 1..Len(stack) /\ m < Len(stack) /\ m + 1 = Len(stack)
    BY <1>0, <1>1, CallerIs DEF FutureType
  <2> QED
    BY <1>0, <1>3, <2>1 DEF StackInv, Caller, Top
<1>6. \A f \in Futures : counter'[f] = IF f = t THEN SizeMax ELSE counter[f]
  BY <1>1, <1>3, <1>4 DEF CleanedUp
<1>7. \A f \in Futures : CountedAhead(f)' <=> CountedAhead(f)
  BY <1>1, <1>2
<1>8. From' = [From EXCEPT ![t] = 0]
  <2>1. From'[t] = 0
    BY <1>0, <1>6 DEF ViewInv
  <2> QED
    BY <1>0, <1>6, <1>7, <2>1, OnlyFrom
<1>9. await_future' = [await_future EXCEPT ![c] = Null]
  BY <1>0, <1>1, <1>3 DEF FutureType
<1>10. C!End(t, c)
  BY <1>2, <1>3, <1>4, <1>5, <1>8, <1>9 DEF C!End
<1> QED
  BY <1>10

\* Where nothing is on the stack, or a child that has returned.
LEMMA ViewRests ==
  ASSUME ViewInv, \A i \in 1..Len(stack) : i = Len(stack) /\ stack[i].scope = 0 /\ pc # "run"
  PROVE  \A f \in Futures : Inside[f] = 0 /\ ~CountedAhead(f)
<1> SUFFICES ASSUME NEW f \in Futures PROVE Inside[f] = 0 /\ ~CountedAhead(f)
  OBVIOUS
<1>1. CASE OnStack(f)
  <2>1. PICK i \in 1..Len(stack) : stack[i].fut = f
    BY <1>1 DEF OnStack
  <2>2. ~(i < Len(stack))
    <3>1. i = Len(stack) /\ i \in Int
      OBVIOUS
    <3> QED
      BY <3>1
  <2> QED
    BY <2>1, <2>2 DEF ViewInv
<1>2. CASE ~OnStack(f)
  BY <1>2 DEF ViewInv
<1> QED
  BY <1>1, <1>2

LEMMA ViewEmpty ==
  ASSUME ViewInv', stack' = << >>
  PROVE  \A f \in Futures : Inside'[f] = 0 /\ ~CountedAhead(f)'
<1>1. \A f \in Futures : ~OnStack(f)'
  BY DEF OnStack
<1> QED
  BY <1>1 DEF ViewInv

LEMMA MapPollChild ==
  ASSUME SeenInv, SeenInv', PollChild
  PROVE  UNCHANGED C!vars
<1>0. TypeInv /\ ViewInv /\ ViewInv'
  BY DEF SeenInv, IInv
<1>1. /\ jpc = "loop" /\ pc' = "run" /\ stack = << >> /\ join_task \in present /\ join_task \in Kids
      /\ Len(stack') = 1 /\ stack'[1].fut = join_task /\ stack'[1].scope = 0
      /\ \A f \in Futures : counter'[f] = IF f = join_task THEN counter[f] + 1 ELSE counter[f]
      /\ UNCHANGED <<await_future, cleaned, join_task>>
  BY <1>0, DoPollChild
<1>2. PICK c \in Futures : c = join_task /\ cleaned[c] = 0
  BY <1>1, KidsAre DEF SeenInv, IInv, CleanInv, PollsClean
<1>3. \A f \in Futures : Inside[f] = 0 /\ ~CountedAhead(f)
  BY <1>0, <1>1, ViewRests
<1>4. Inside'[c] = 0 /\ CountedAhead(c)'
  <2>1. 1 \in 1..Len(stack') /\ c = stack'[1].fut
    BY <1>1, <1>2
  <2> QED
    BY <1>0, <1>1, <2>1 DEF ViewInv
<1>5. ASSUME NEW f \in Futures, f # c
      PROVE  Inside'[f] = 0 /\ ~CountedAhead(f)'
  <2>1. ~OnStack(f)'
    <3>1. \A i \in 1..Len(stack') : i = 1
      BY <1>1
    <3> QED
      BY <1>1, <1>2, <1>5, <3>1 DEF OnStack
  <2> QED
    BY <1>0, <2>1 DEF ViewInv
<1>6. From'[c] = From[c]
  <2>1. cleaned'[c] = 0 /\ counter'[c] = counter[c] + 1
    BY <1>1, <1>2
  <2>2. From[c] = Starts(c, counter[c] + 1)
    BY <1>0, <1>2, <1>3 DEF ViewInv
  <2>3. From'[c] = Starts(c, counter'[c])
    BY <1>0, <1>4, <2>1 DEF ViewInv
  <2> QED
    BY <2>1, <2>2, <2>3
<1>7. From' = [From EXCEPT ![c] = From[c]]
  BY <1>0, <1>1, <1>2, <1>3, <1>5, <1>6, OnlyFrom
<1>8. From' = From /\ Inside' = Inside
  BY <1>0, <1>3, <1>4, <1>5, <1>7 DEF ViewInv
<1> QED
  BY <1>1, <1>8 DEF C!vars

LEMMA MapLoopOn ==
  ASSUME SeenInv, SeenInv', ChildPending \/ ChildReady
  PROVE  (\E fs \in SUBSET Futures : C!Drop(fs)) \/ UNCHANGED C!vars
<1>0. TypeInv /\ ViewInv /\ ViewInv' /\ FrameInv
  BY DEF SeenInv, IInv
<1>1. /\ jpc = "child" /\ pc = "return" /\ Len(stack) = 1 /\ stack # << >> /\ stack' = << >>
      /\ ChildPending => UNCHANGED counter
      /\ ChildReady => result = "ready" /\ CleanedUp(Chain(join_task))
      /\ UNCHANGED await_future
  BY <1>0, DoLoopOn
<1>2. PICK c \in Futures : c = join_task
  BY <1>1, KidsAre DEF SeenInv, IInv, GatherInv, AnswerInv, TypeInv, JoinType
<1>3. Top = c /\ Scope = 0
  BY <1>0, <1>1, <1>2 DEF Top, FrameInv, StackInv, PcInv
<1>4. \A f \in Futures : Inside[f] = 0 /\ ~CountedAhead(f)
  <2>1. \A i \in 1..Len(stack) : i = Len(stack) /\ stack[i].scope = 0 /\ pc # "run"
    BY <1>1, <1>3 DEF Scope
  <2> QED
    BY <1>0, <2>1, ViewRests
<1>5. \A f \in Futures : Inside'[f] = 0 /\ ~CountedAhead(f)'
  BY <1>0, <1>1, ViewEmpty
<1>6. Inside' = Inside
  BY <1>0, <1>4, <1>5 DEF ViewInv
<1>7. CASE ChildPending
  <2>1. \A f \in Futures : From'[f] = From[f]
    BY <1>0, <1>1, <1>4, <1>5, <1>7, FromElse
  <2>2. From' = From
    BY <1>0, <2>1 DEF ViewInv
  <2> QED
    BY <1>1, <1>6, <2>2 DEF C!vars
<1>8. CASE ChildReady
  <2>1. await_future[c] = Null /\ Chain(c) = {c}
    BY <1>0, <1>1, <1>2, <1>3, <1>8, ChainAlone DEF TypeInv, FrameInv, PcInv
  <2>2. \A f \in Futures : counter'[f] = IF f = c THEN SizeMax ELSE counter[f]
    BY <1>1, <1>2, <1>8, <2>1 DEF CleanedUp
  <2>3. From'[c] = 0
    BY <1>0, <2>2 DEF ViewInv
  <2>4. From' = [From EXCEPT ![c] = 0]
    BY <1>0, <1>4, <1>5, <2>2, <2>3, OnlyFrom
  <2>5. From' = [f \in Futures |-> IF f \in {c} THEN 0 ELSE From[f]]
    BY <1>0, <2>4 DEF ViewInv
  <2>6. C!Drop({c})
    BY <1>1, <1>4, <1>6, <2>1, <2>5 DEF C!Drop
  <2> QED
    BY <2>6
<1> QED
  BY <1>7, <1>8

LEMMA MapCleanup ==
  ASSUME SeenInv, SeenInv', Cleanup
  PROVE  \E fs \in SUBSET Futures : C!Drop(fs)
<1>0. TypeInv /\ ViewInv /\ ViewInv' /\ FrameInv
  BY DEF SeenInv, IInv
<1>1. PICK S : S = UNION {Chain(f) : f \in Left}
  OBVIOUS
<1>2. CleanedUp(S) /\ UNCHANGED <<await_future, stack>> /\ jpc # "child"
  BY <1>0, <1>1, DoCleanup
<1>3. stack = << >> /\ stack' = << >>
  BY <1>0, <1>2 DEF FrameInv, StackInv
<1>4. \A f \in Futures : Inside[f] = 0 /\ ~CountedAhead(f)
  BY <1>0, <1>3, ViewRests
<1>5. \A f \in Futures : Inside'[f] = 0 /\ ~CountedAhead(f)'
  BY <1>0, <1>3, ViewEmpty
<1>6. S \in SUBSET Futures /\ Follows(S)
  <2>1. Left \subseteq Futures
    BY <1>0, LeftIs, KidsAre DEF SeenInv, IInv, TypeInv, JoinType
  <2>2. \A f \in Left : Chain(f) \subseteq Futures /\ Follows(Chain(f))
    BY <1>0, <2>1, ChainIs, ReachIs DEF TypeInv, FrameInv
  <2> QED
    BY <1>1, <2>2 DEF Follows
<1>7. Inside' = Inside
  BY <1>0, <1>4, <1>5 DEF ViewInv
<1>8. \A f \in Futures : From'[f] = IF f \in S THEN 0 ELSE From[f]
  <2> SUFFICES ASSUME NEW f \in Futures PROVE From'[f] = IF f \in S THEN 0 ELSE From[f]
    OBVIOUS
  <2>1. counter'[f] = IF f \in S THEN SizeMax ELSE counter[f]
    BY <1>2 DEF CleanedUp
  <2>2. CASE f \in S
    BY <1>0, <2>1, <2>2 DEF ViewInv
  <2>3. CASE f \notin S
    BY <1>0, <1>4, <1>5, <2>1, <2>3, FromElse
  <2> QED
    BY <2>2, <2>3
<1>9. From' = [f \in Futures |-> IF f \in S THEN 0 ELSE From[f]]
  BY <1>0, <1>8 DEF ViewInv
<1>10. C!Drop(S)
  BY <1>2, <1>4, <1>6, <1>7, <1>9 DEF C!Drop, Follows
<1> QED
  BY <1>6, <1>10

LEMMA MapStep ==
  ASSUME BreaksLoops, SeenInv, SeenInv', [Next]_vars
  PROVE  [C!Next]_(C!vars)
<1>1. CASE ChildStep
  <2>1. CASE QuietStep
    BY <1>1, <2>1, MapPollAwaited, MapEnter, MapLoopEnds, MapNoScope, MapEnd, MapAwait, MapStillAwaits, MapAwaited
       DEF QuietStep, C!Next
  <2>2. CASE WakingStep
    BY <1>1, <2>2, MapEnd, MapBreak, MapAwaited DEF WakingStep, C!Next
  <2> QED
    BY <1>1, <2>1, <2>2 DEF ChildStep
<1>2. CASE PollChild \/ ChildPending \/ ChildReady \/ Cleanup
  BY <1>2, MapPollChild, MapLoopOn, MapCleanup DEF C!Next
<1>3. CASE UNCHANGED <<counter, await_future, stack, pc>>
  BY <1>3 DEF C!vars, From, Inside, NextScope, CountedAhead, FramesOf
<1>4. CASE PollJoin \/ TaskWoken \/ JoinFinish \/ UNCHANGED vars \/ \E f \in Futures : FireWaker(f)
  <2>1. UNCHANGED <<counter, await_future, stack, pc>>
    BY <1>4 DEF PollJoin, TaskWoken, JoinFinish, FireWaker, vars, futureVars
  <2> QED
    BY <1>3, <2>1
<1> QED
  BY <1>1, <1>2, <1>4 DEF Next, Loop

LEMMA MapInit == Init => C!Init
<1> SUFFICES ASSUME Init PROVE C!Init
  OBVIOUS
<1>1. /\ counter = [f \in Futures |-> 0] /\ await_future = [f \in Futures |-> Null] /\ stack = << >>
      /\ ViewInv
  BY InitIInv, ViewIs DEF Init, FutureInit, IInv, TypeInv, FrameInv, CounterInv
<1>2. \A f \in Futures : Inside[f] = 0 /\ ~CountedAhead(f)
  BY <1>1, ViewRests
<1>3. \A f \in Futures : From[f] = 1
  <2> SUFFICES ASSUME NEW f \in Futures PROVE From[f] = 1
    OBVIOUS
  <2>1. counter[f] = 0 /\ counter[f] # SizeMax /\ Len(Body[f]) \in Nat
    BY <1>1, BodyLen
  <2>2. From[f] = Starts(f, 1)
    BY <1>1, <1>2, <2>1 DEF ViewInv
  <2> QED
    BY <2>1, <2>2 DEF Starts
<1>4. From = [f \in Futures |-> 1] /\ Inside = [f \in Futures |-> 0]
  BY <1>1, <1>2, <1>3 DEF ViewInv
<1> QED
  BY <1>1, <1>4 DEF C!Init

\* Whatever the wakers do, the scopes of a function run in the order they are
\* written, each once or, in a loop, until it ends, and none while what the
\* function awaits has not ended.
THEOREM ScopesInOrder ==
  ASSUME BreaksLoops
  PROVE  Spec => IsCoroutine
<1>1. IInv => SeenInv
  BY ViewIs DEF SeenInv, IInv, TypeInv, FrameInv, CounterInv
<1>2. SeenInv /\ SeenInv' /\ [Next]_vars => [C!Next]_(C!vars)
  BY MapStep
<1> QED
  BY SpecIInv, MapInit, <1>1, <1>2, PTL DEF Spec, IsCoroutine, C!Spec
=============================================================================
