---------------------------- MODULE MCBlockingPool ----------------------------
(* Model-checking instance of BlockingPool, with the constants of its .cfg;   *)
(* nothing is symmetric, because the run checks liveness.                     *)
EXTENDS BlockingPool
=============================================================================
