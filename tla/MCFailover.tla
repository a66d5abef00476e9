----------------------------- MODULE MCFailover -----------------------------
(* Failover for model checking.                                             *)
EXTENDS Failover
=============================================================================
