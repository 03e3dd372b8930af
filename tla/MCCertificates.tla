--------------------------- MODULE MCCertificates ---------------------------
(* Model values for Certificates: command invocations are told apart by    *)
(* identity alone.  One host: what is copied to a second one comes out of  *)
(* the keystore in the same way and never goes back in.                    *)
EXTENDS Certificates, TLC

Symmetric == Permutations(Commands)
=============================================================================
