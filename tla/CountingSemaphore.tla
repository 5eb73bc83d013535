-------------------------- MODULE CountingSemaphore --------------------------
(***************************************************************************)
(* What a semaphore promises, whatever its queues look like: never more    *)
(* owners than permits have been issued.  A mutex is the case of a single  *)
(* permit.                                                                 *)
(***************************************************************************)
EXTENDS Naturals, FiniteSets

CONSTANTS
  Clients,  \* futures and threads
  Permits   \* permits the semaphore starts with

VARIABLES
  issued,   \* permits in existence
  owners    \* clients that hold one

Acquire(c) ==
  /\ c \notin owners
  /\ Cardinality(owners) < issued
  /\ owners' = owners \cup {c}
  /\ UNCHANGED issued

Release(c) ==
  /\ c \in owners
  /\ owners' = owners \ {c}
  /\ UNCHANGED issued

\* A signal from a client that owned no permit.
Post == issued' = issued + 1 /\ UNCHANGED owners

Init == issued = Permits /\ owners = {}

Next == Post \/ \E c \in Clients : Acquire(c) \/ Release(c)

Spec == Init /\ [][Next]_<<issued, owners>>
=============================================================================
