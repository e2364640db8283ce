------------------------------ MODULE MCListener ------------------------------
(* An instance of the listener for TLC. *)
EXTENDS Listener

=============================================================================
