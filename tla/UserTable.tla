------------------------------ MODULE UserTable ------------------------------
(***************************************************************************)
(* The server's user table: the array users[0 .. num_users-1] of server.c  *)
(* and the functions that search and change it.                            *)
(*                                                                         *)
(* The live part of the array is a sequence of records, so num_users is    *)
(* Len(users) and index i of the code is index i + 1 here.  The code's -1  *)
(* is NotFound.  A user's ip and port, always written and read together,   *)
(* are one endpoint; the description of a file is stored but never read    *)
(* back by any handler and is left out.                                    *)
(*                                                                         *)
(* Here and in the other modules a definition whose name starts with       *)
(* Faulty is a plausible mistake in the one that follows it.  No           *)
(* specification uses it: it stands in for the right one when a property   *)
(* is tested for being able to fail.                                       *)
(***************************************************************************)
EXTENDS Integers, Sequences

CONSTANTS
  Names,      \* the usernames clients send
  Files,      \* the filenames clients send
  Endpoints   \* the <<ip, port>> pairs clients connect from

NotFound == 0

User == [username : Names, connected : BOOLEAN, endpoint : Endpoints,
         files : Seq(Files)]

Table == Seq(User)

(* The first slot that holds the name, as the code's loop finds it. *)
find_user(users, name) ==
  IF \E i \in DOMAIN users : users[i].username = name
    THEN CHOOSE i \in DOMAIN users :
           /\ users[i].username = name
           /\ \A j \in 1 .. i - 1 : users[j].username # name
    ELSE NotFound

(* A new slot at the end.  The code leaves ip and port as they are in the  *)
(* memory of the slot (a former user's, or zero): stale is any endpoint.   *)
add_user(users, name, stale) ==
  Append(users, [username |-> name, connected |-> FALSE, endpoint |-> stale,
                 files |-> <<>>])

FaultyMoveNothing(s, i) == [j \in 1 .. Len(s) - 1 |-> s[j]]

(* Deletion by moving the last element to the deleted position. *)
MoveLastTo(s, i) ==
  [j \in 1 .. Len(s) - 1 |-> IF j = i THEN s[Len(s)] ELSE s[j]]

(* remove_user searches again; the caller has already found the name. *)
remove_user(users, name) ==
  LET index == find_user(users, name)
  IN  IF index = NotFound THEN users ELSE MoveLastTo(users, index)

FaultyConnectFlagOnly(users, i, endpoint) ==
  [users EXCEPT ![i].connected = TRUE]

connect_user(users, i, endpoint) ==
  [users EXCEPT ![i].connected = TRUE, ![i].endpoint = endpoint]

disconnect_user(users, i) == [users EXCEPT ![i].connected = FALSE]

(* What add_file and remove_file return: the position of the first file of *)
(* that name, NotFound if the user does not list it.                       *)
file_index(users, i, filename) ==
  LET files == users[i].files
  IN  IF \E k \in DOMAIN files : files[k] = filename
        THEN CHOOSE k \in DOMAIN files :
               /\ files[k] = filename
               /\ \A j \in 1 .. k - 1 : files[j] # filename
        ELSE NotFound

(* The search of add_file only sets the result: the file is appended       *)
(* whether or not the user already lists it.                               *)
add_file(users, i, filename) ==
  [users EXCEPT ![i].files = Append(@, filename)]

remove_file(users, i, filename) ==
  LET k == file_index(users, i, filename)
  IN  IF k = NotFound THEN users
      ELSE [users EXCEPT ![i].files = MoveLastTo(@, k)]

=============================================================================
