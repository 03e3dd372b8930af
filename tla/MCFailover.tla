----------------------------- MODULE MCFailover -----------------------------
(* Failover is checked as it is: with liveness among its properties no     *)
(* symmetry is taken.                                                      *)
EXTENDS Failover
=============================================================================
