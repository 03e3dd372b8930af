------------------------------ MODULE MCOnramps ------------------------------
(* Onramps for TLC.  Publishers are told apart by identity alone; the runs  *)
(* meet nowhere but on a repository's name and the folder's remote.         *)
EXTENDS Onramps, TLC

Symmetric == Permutations(Publishers)
=============================================================================
