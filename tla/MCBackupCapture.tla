-------------------------- MODULE MCBackupCapture --------------------------
(* Model values for BackupCapture.  A run that checks only safety uses     *)
(* that the actions tell jobs, names and objects apart by identity alone.  *)
EXTENDS BackupCapture, TLC

Symmetric == Permutations(Jobs) \union Permutations(Repos) \union Permutations(Branches)
               \union Permutations(Commits) \union Permutations(Blobs)

(* The properties of snapshots read what a finished backup has, and no     *)
(* more of the forge: states that differ in what it does later are one.    *)
View ==
  <<snapVars, histVars, pc,
    IF \A j \in Jobs : pc[j] \in Ended THEN <<>> ELSE <<forgeVars, proxyVars, workVars>>>>
=============================================================================
