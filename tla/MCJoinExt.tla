------------------------------ MODULE MCJoinExt ------------------------------
(* Model-checking instance of JoinExt.                                       *)
EXTENDS JoinExt, TLC

CONSTANTS fn, inner, sleep, wait, lone

Once(ends) == [kind |-> "scope", ends |-> ends]
While(ends) == [kind |-> "while", ends |-> ends]

\* taskio_sleep() suspends, and its waker is called at once when the delay is
\* 0; taskio_semaphore_wait() is ready at once when there is a permit.  For
\* both, the next poll is the wake.
Sleep == <<Once({"suspend", "yield"}), Once({"return"})>>
Wait == <<Once({"suspend", "return"}), Once({"return"})>>

\* fn loops over awaits of inner, which awaits a sleep and then a handle; wait is a leaf; lone
\* yields, and may run off its end.
SomeFunctions ==
  fn :> <<While({"await", "break"}), Once({"return"})>> @@
  inner :> <<Once({"await"}), Once({"yield", "suspend", "undefined"}), Once({"return"})>> @@
  sleep :> Sleep @@
  wait :> Wait @@
  lone :> <<Once({"yield", "return"})>>
SomeAwaits == fn :> {inner} @@ inner :> {sleep} @@ sleep :> {} @@ wait :> {} @@ lone :> {}
ThreeChildren == <<fn, wait, lone>>
=============================================================================
