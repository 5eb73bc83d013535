------------------------------- MODULE MCMutex -------------------------------
(* Model-checking instance of Mutex; futures and threads are model values.    *)
EXTENDS Mutex
=============================================================================
