------------------------------ MODULE MCRWLock ------------------------------
(* Model checking of the read/write lock, the condition and the mutex.     *)
EXTENDS RWLock, TLC

Symmetry == Permutations(Threads)
=============================================================================
