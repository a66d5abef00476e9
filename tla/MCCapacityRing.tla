--------------------------- MODULE MCCapacityRing ---------------------------
(* CapacityRing for model checking: a sender, the receiver and a morpher.   *)
EXTENDS CapacityRing

TeamSets == {[p |-> 2, c |-> 0, m |-> 4]}
=============================================================================
