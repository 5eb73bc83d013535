-------------------------------- MODULE Gather --------------------------------
(***************************************************************************)
(* What taskio_join() and taskio_select() promise: each future ends at     *)
(* most once; a join is ready when all have, a select when some have, and  *)
(* its result is one of them, the first when it is biased.                 *)
(***************************************************************************)
EXTENDS Naturals, Sequences

CONSTANT Kids  \* the futures

VARIABLES
  mode,    \* "join", "select" or "biased" (a select)
  ended,   \* those that have ended, in that order
  answer   \* "open", "joined", "dropped", or the future whose index
           \* a select answers

vars == <<mode, ended, answer>>

Init == mode \in {"join", "select", "biased"} /\ ended = << >> /\ answer = "open"

Ended == {ended[k] : k \in 1..Len(ended)}

End(f) ==
  /\ answer = "open" /\ f \notin Ended
  /\ ended' = Append(ended, f)
  /\ UNCHANGED <<mode, answer>>

Answer(f) ==
  /\ mode # "join" /\ answer = "open"
  /\ f \in Ended
  /\ mode = "biased" => f = ended[1]
  /\ answer' = f
  /\ UNCHANGED <<mode, ended>>

Joined ==
  /\ mode = "join" /\ answer = "open"
  /\ Ended = Kids
  /\ answer' = "joined"
  /\ UNCHANGED <<mode, ended>>

\* Whoever holds it gives up waiting.
Drop ==
  /\ answer = "open"
  /\ answer' = "dropped"
  /\ UNCHANGED <<mode, ended>>

Next == Joined \/ Drop \/ \E f \in Kids : End(f) \/ Answer(f)

Spec == Init /\ [][Next]_vars
=============================================================================
