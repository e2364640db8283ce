----------------------------- MODULE MCRacyServer -----------------------------
(* Instances of the server of part 1 for TLC. *)
EXTENDS RacyServer, TLC

CONSTANTS t1, t2, alice, bob

AllOps == {"REGISTER", "UNREGISTER", "CONNECT", "DISCONNECT"}

=============================================================================
