------------------------------ MODULE MCAttach ------------------------------
(* Instance of Attach: an address on the network and a loopback one. *)
EXTENDS Attach
CONSTANTS lan, loop
=============================================================================
