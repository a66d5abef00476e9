--------------------------- MODULE MCSharedRWLock ---------------------------
(* SharedRWLock for model checking.                                         *)
EXTENDS SharedRWLock
=============================================================================
