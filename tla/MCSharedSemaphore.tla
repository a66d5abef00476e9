-------------------------- MODULE MCSharedSemaphore --------------------------
(* SharedSemaphore for model checking.                                      *)
EXTENDS SharedSemaphore, TLC

Symmetry == Permutations(Threads)
=============================================================================
