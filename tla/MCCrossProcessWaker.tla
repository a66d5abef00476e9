------------------------- MODULE MCCrossProcessWaker -------------------------
(* CrossProcessWaker for model checking.                                    *)
EXTENDS CrossProcessWaker
=============================================================================
