----------------------------- MODULE MCSemaphore -----------------------------
(* Model-checking instance of Semaphore: futures and threads are              *)
(* interchangeable model values.                                              *)
EXTENDS Semaphore, TLC

Interchangeable == Permutations(Futures) \cup Permutations(Threads)
=============================================================================
