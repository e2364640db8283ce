------------------------------- MODULE MCPeers -------------------------------
(* Instances of the clients for TLC. *)
EXTENDS PeersProperties, TLC

CONSTANTS p1, p2, c1, c2, alice, bob, f1, f2, e1, e2, e3, none

(* The listings leave nothing behind: the smallest run has them. *)
FaultCommands == {"REGISTER", "UNREGISTER", "CONNECT", "DISCONNECT", "QUIT", "PUBLISH",
                  "DELETE", "GET_FILE"}

SessionCommands == FaultCommands \ {"PUBLISH", "DELETE", "GET_FILE"}

FetchCommands == {"REGISTER", "CONNECT", "DISCONNECT", "LIST_USERS", "LIST_CONTENT",
                  "GET_FILE", "QUIT"}

(* One name per client. *)
OneEach == [p \in Peers |-> IF p = p1 THEN {alice} ELSE {bob}]

Symmetry == Permutations(Conns) \cup Permutations(Endpoints)

=============================================================================
