---------------------------- MODULE MCSharedRing ----------------------------
(* SharedRing for model checking.                                           *)
EXTENDS SharedRing
=============================================================================
