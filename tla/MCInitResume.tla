---------------------------- MODULE MCInitResume ----------------------------
(* Model values for InitResume: runs and keystore targets are told apart   *)
(* by identity alone; the directory in NoRun keeps Dirs from being         *)
(* permuted.                                                               *)
EXTENDS InitResume, TLC

Symmetric == Permutations(Runs) \union Permutations(Targets)
=============================================================================
