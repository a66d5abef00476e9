----------------------------- MODULE MCSwapCell -----------------------------
(* SwapCell for model checking: one guard per thread.                       *)
EXTENDS SwapCell

GuardLimits == [t \in SwapThreads |-> 1]
=============================================================================
