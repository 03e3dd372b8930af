---------------------------- MODULE MCHostState ----------------------------
(* Model values for HostState: bundles and command invocations are told    *)
(* apart by identity alone; versions are ordered and are not permuted.     *)
EXTENDS HostState, TLC

Symmetric == Permutations(Instances) \union Permutations(Commands)

(* What a finished command still means to the others and to the            *)
(* properties: the bundle it attached, or that it was a refused restore.   *)
Remembered(c) ==
  CASE cmd[c].kind = "attach" -> <<"attach", cmd[c].inst>>
    [] cmd[c].kind = "restore" /\ At(c, "refused") -> <<"refused">>
    [] OTHER -> <<"over">>

(* States that differ only in the records of finished commands are one.    *)
View ==
  <<bundle, host, snapshots, gaps,
    [c \in Commands |-> IF pc[c] \in Ended THEN Remembered(c) ELSE <<pc[c], cmd[c]>>]>>
=============================================================================
