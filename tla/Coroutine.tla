------------------------------ MODULE Coroutine ------------------------------
(***************************************************************************)
(* What the macros of taskio/async.h promise of async functions: a         *)
(* function's scopes run in the order they are written, each once (an      *)
(* async_scope_while() as often as it likes), one at a time, and never     *)
(* while what one of them awaits has not ended.                            *)
(***************************************************************************)
EXTENDS Naturals, Sequences

CONSTANTS
  Futures,
  Null,
  Body     \* of each future, its scopes: records with a field "kind",
           \* "scope" or "while"

VARIABLES
  from,    \* the scope that runs next, 0 when the future has been cleaned up
  inside,  \* the scope that is running, 0 for none
  awaits   \* the future that is awaited, or Null

vars == <<from, inside, awaits>>

Init ==
  /\ from = [f \in Futures |-> 1]
  /\ inside = [f \in Futures |-> 0]
  /\ awaits = [f \in Futures |-> Null]

Loop(f) == from[f] \in DOMAIN Body[f] /\ Body[f][from[f]].kind = "while"

Enter(f) ==
  /\ inside[f] = 0 /\ awaits[f] = Null
  /\ from[f] \in DOMAIN Body[f]
  /\ inside' = [inside EXCEPT ![f] = from[f]]
  /\ from' = [from EXCEPT ![f] = IF Loop(f) THEN @ ELSE @ + 1]
  /\ UNCHANGED awaits

\* The condition of the loop does not hold, or its body breaks.
LeaveLoop(f) ==
  /\ Loop(f) /\ awaits[f] = Null
  /\ from' = [from EXCEPT ![f] = @ + 1]
  /\ inside' = [inside EXCEPT ![f] = 0]
  /\ UNCHANGED awaits

Leave(f) ==
  /\ inside[f] # 0
  /\ inside' = [inside EXCEPT ![f] = 0]
  /\ UNCHANGED <<from, awaits>>

\* g is a function that has just been called.
Await(f, g) ==
  /\ inside[f] # 0 /\ awaits[f] = Null
  /\ awaits' = [awaits EXCEPT ![f] = g, ![g] = Null]
  /\ from' = [from EXCEPT ![g] = 1]
  /\ UNCHANGED inside

\* g is ready; f no longer awaits it and has left the scope that did.
End(g, f) ==
  /\ inside[g] = 0 /\ awaits[g] = Null
  /\ awaits[f] = g
  /\ from' = [from EXCEPT ![g] = 0]
  /\ awaits' = [awaits EXCEPT ![f] = Null]
  /\ inside' = [inside EXCEPT ![f] = 0]

\* Whatever futures hold these are done with them, and with all they await.
Drop(fs) ==
  /\ \A f \in fs : inside[f] = 0 /\ (awaits[f] # Null => awaits[f] \in fs)
  /\ from' = [f \in Futures |-> IF f \in fs THEN 0 ELSE from[f]]
  /\ UNCHANGED <<inside, awaits>>

Next ==
  \/ \E f \in Futures :
       \/ Enter(f) \/ LeaveLoop(f) \/ Leave(f)
       \/ \E g \in Futures : Await(f, g) \/ End(g, f)
  \/ \E fs \in SUBSET Futures : Drop(fs)

Spec == Init /\ [][Next]_vars
=============================================================================
