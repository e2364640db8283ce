------------------------------- MODULE MCServer -------------------------------
(* Instances of the main server for TLC. *)
EXTENDS ServerProperties, TLC

CONSTANTS t1, t2, alice, bob, f1, e1, e2, none

(* The operations of each instance. *)
AllOps == {"REGISTER", "UNREGISTER", "CONNECT", "DISCONNECT", "PUBLISH",
           "DELETE", "LIST_USERS", "LIST_CONTENT"}

LiveOps == {"REGISTER", "CONNECT", "PUBLISH", "LIST_USERS", "LIST_CONTENT"}

(* Threads are interchangeable, and so are names other than "__NONE__",    *)
(* files and endpoints.                                                    *)
Symmetry ==
  Permutations(Threads) \cup Permutations(Names \ {Anonymous})
  \cup Permutations(Files) \cup Permutations(Endpoints)

=============================================================================
