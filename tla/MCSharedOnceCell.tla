-------------------------- MODULE MCSharedOnceCell --------------------------
(* SharedOnceCell for model checking.                                       *)
EXTENDS SharedOnceCell
=============================================================================
