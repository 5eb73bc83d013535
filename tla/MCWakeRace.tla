------------------------------ MODULE MCWakeRace ------------------------------
(* Model-checking instance of WakeRace.                                       *)
EXTENDS WakeRace, TLC

Interchangeable == Permutations(Tasks)
=============================================================================
