--------------------------- MODULE MCEventStream ---------------------------
(* Model values for EventStream.  The CLI is told apart from the other     *)
(* readers, and a relay from another by its level: nothing is permuted.    *)
EXTENDS EventStream
=============================================================================
