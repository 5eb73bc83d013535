------------------------------ MODULE MCRuntime ------------------------------
(* Model-checking instance of Runtime: Main and the tasks it spawns are model *)
(* values; the spawned ones are interchangeable.                              *)
EXTENDS Runtime, TLC

Spawned == Permutations(Tasks \ {Main})
=============================================================================
