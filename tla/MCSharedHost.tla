---------------------------- MODULE MCSharedHost ----------------------------
(* SharedHost is checked as it is: with liveness among its properties no   *)
(* symmetry is taken.                                                      *)
EXTENDS SharedHost
=============================================================================
