-------------------------------- MODULE MCWire --------------------------------
(* Instances of the requests for TLC. *)
EXTENDS Wire

=============================================================================
