------------------------------ MODULE MCJoinRace ------------------------------
(* Model-checking instances of JoinRace.                                      *)
EXTENDS JoinRace, TLC

CONSTANTS x, y

TwoKids == <<x, y>>

Interchangeable == Permutations(Threads)
=============================================================================
