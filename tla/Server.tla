-------------------------------- MODULE Server --------------------------------
(***************************************************************************)
(* The main server: one detached thread per accepted connection, running   *)
(* handle_client on one request, over the user table that users_mutex      *)
(* protects.  Every line that touches the table is a step of its own       *)
(* between Lock and Unlock: the search, the decision made on the index it  *)
(* returned, and each iteration of the loops that write a listing.         *)
(*                                                                         *)
(* A thread of the model is a slot: after closing its connection it stands *)
(* for the thread of a later one.                                          *)
(***************************************************************************)
EXTENDS UserTable, FiniteSets

CONSTANTS
  Threads,     \* the connections handled at the same time
  Anonymous,   \* "__NONE__", sent by a client that has registered nobody
  Ops,         \* the operations the clients of this instance send
  AllocFails,  \* may calloc and realloc fail?
  LogFails,    \* may the call of the log service fail?
  MaxFiles,    \* bound on the files listed for a user and being published
  Nobody       \* value of users_mutex when it is free

ASSUME ServerAssumption ==
  /\ IsFiniteSet(Threads) /\ Nobody \notin Threads
  /\ Endpoints # {}
  /\ AllocFails \in BOOLEAN /\ LogFails \in BOOLEAN
  /\ MaxFiles \in Nat

VARIABLES
  users,         \* the table
  users_mutex,   \* the thread that holds it, or Nobody
  pc,            \* where each thread is in handle_client
  request,       \* the strings it has read
  user_index,    \* find_user(username)
  remote_index,  \* find_user(remote_username), LIST_CONTENT only
  response,      \* the response byte
  announced,     \* the number of entries written before a listing
  cursor,        \* the loop variable of a listing
  sent,          \* the entries written so far
  logged         \* did the log service record the request?

locals == <<request, user_index, remote_index, response, announced, cursor,
            sent, logged>>
vars == <<users, users_mutex, pc, locals>>

(***************************************************************************)
(* Requests.  An endpoint is the port of the CONNECT message with the ip   *)
(* of the connection it came on.                                           *)
(***************************************************************************)
Requests ==
  [op : {"REGISTER", "UNREGISTER", "DISCONNECT", "LIST_USERS"} \cap Ops,
   username : Names]
  \cup [op : {"CONNECT"} \cap Ops, username : Names, endpoint : Endpoints]
  \cup [op : {"PUBLISH", "DELETE"} \cap Ops, username : Names, filename : Files]
  \cup [op : {"LIST_CONTENT"} \cap Ops, username : Names, remote : Names]

NoRequest == [op |-> "NONE"]

(* The operations that answer "__NONE__" before taking the mutex. *)
NeedsUser == {"PUBLISH", "DELETE", "LIST_USERS", "LIST_CONTENT"}

Entry(i) == <<users[i].username, users[i].endpoint>>

ConnectedSlots == {i \in DOMAIN users : users[i].connected}

(* Keeps the model finite: no PUBLISH is sent that could exceed MaxFiles. *)
RoomToPublish ==
  LET publishing == {t \in Threads : request[t].op = "PUBLISH"}
  IN  \A i \in DOMAIN users :
        Len(users[i].files) + Cardinality(publishing) < MaxFiles

Goto(t, label) == pc' = [pc EXCEPT ![t] = label]

At(t, label) == pc[t] = label

----------------------------------------------------------------------------
Init ==
  /\ users = <<>>
  /\ users_mutex = Nobody
  /\ pc = [t \in Threads |-> "idle"]
  /\ request = [t \in Threads |-> NoRequest]
  /\ user_index = [t \in Threads |-> NotFound]
  /\ remote_index = [t \in Threads |-> NotFound]
  /\ response = [t \in Threads |-> 0]
  /\ announced = [t \in Threads |-> 0]
  /\ cursor = [t \in Threads |-> 1]
  /\ sent = [t \in Threads |-> <<>>]
  /\ logged = [t \in Threads |-> FALSE]

(* accept and pthread_create: the thread starts to read the request. *)
Accept(t, r) ==
  /\ At(t, "idle")
  /\ r.op = "PUBLISH" => RoomToPublish
  /\ request' = [request EXCEPT ![t] = r]
  /\ Goto(t, "read")
  /\ UNCHANGED <<users, users_mutex, user_index, remote_index, response,
                 announced, cursor, sent, logged>>

(* The connection ends; the locals of the thread end with it. *)
Close(t) ==
  /\ Goto(t, "idle")
  /\ request' = [request EXCEPT ![t] = NoRequest]
  /\ user_index' = [user_index EXCEPT ![t] = NotFound]
  /\ remote_index' = [remote_index EXCEPT ![t] = NotFound]
  /\ response' = [response EXCEPT ![t] = 0]
  /\ announced' = [announced EXCEPT ![t] = 0]
  /\ cursor' = [cursor EXCEPT ![t] = 1]
  /\ sent' = [sent EXCEPT ![t] = <<>>]
  /\ logged' = [logged EXCEPT ![t] = FALSE]
  /\ UNCHANGED <<users, users_mutex>>

(* The client has sent its strings and they have been read. *)
Receive(t) ==
  /\ At(t, "read")
  /\ Goto(t, "log")
  /\ UNCHANGED <<users, users_mutex, locals>>

(* A read fails: the thread closes without an answer. *)
ReadError(t) == At(t, "read") /\ Close(t)

(* PUBLISH answers 4 when one of its own fields cannot be read. *)
PublishReadError(t) ==
  /\ At(t, "read") /\ request[t].op = "PUBLISH"
  /\ response' = [response EXCEPT ![t] = 4]
  /\ Goto(t, "reply")
  /\ UNCHANGED <<users, users_mutex, request, user_index, remote_index,
                 announced, cursor, sent, logged>>

(* A request that was not recorded is dropped, and another one awaited.    *)
FaultySendLog(t) ==
  /\ At(t, "log")
  /\ \E ok \in BOOLEAN :
       /\ ok \/ LogFails
       /\ logged' = [logged EXCEPT ![t] = ok]
       /\ Goto(t, IF ok THEN "logged" ELSE "read")
  /\ UNCHANGED <<users, users_mutex, request, user_index, remote_index,
                 response, announced, cursor, sent>>

(* The RPC runs before the request is executed, whatever its outcome will  *)
(* be, and its failure is only printed.                                    *)
send_log(t) ==
  /\ At(t, "log")
  /\ \E ok \in BOOLEAN :
       /\ ok \/ LogFails
       /\ logged' = [logged EXCEPT ![t] = ok]
  /\ Goto(t, "logged")
  /\ UNCHANGED <<users, users_mutex, request, user_index, remote_index,
                 response, announced, cursor, sent>>

RejectAnonymous(t) ==
  /\ At(t, "logged")
  /\ request[t].op \in NeedsUser /\ request[t].username = Anonymous
  /\ response' = [response EXCEPT ![t] = 1]
  /\ Goto(t, "reply")
  /\ UNCHANGED <<users, users_mutex, request, user_index, remote_index,
                 announced, cursor, sent, logged>>

(* CONNECT closes without an answer when getpeername fails. *)
PeerLost(t) ==
  /\ At(t, "logged") /\ request[t].op = "CONNECT"
  /\ Close(t)

----------------------------------------------------------------------------
(* The critical section. *)

FaultyLockNoWait(t) ==
  /\ At(t, "logged")
  /\ ~(request[t].op \in NeedsUser /\ request[t].username = Anonymous)
  /\ users_mutex' = t
  /\ Goto(t, "find")
  /\ UNCHANGED <<users, locals>>

Lock(t) ==
  /\ At(t, "logged")
  /\ ~(request[t].op \in NeedsUser /\ request[t].username = Anonymous)
  /\ users_mutex = Nobody
  /\ users_mutex' = t
  /\ Goto(t, "find")
  /\ UNCHANGED <<users, locals>>

(* The mutex covers the search only, as in part 1. *)
FaultyFindThenUnlock(t) ==
  /\ At(t, "find")
  /\ user_index' = [user_index EXCEPT ![t] = find_user(users, request[t].username)]
  /\ users_mutex' = Nobody
  /\ Goto(t, "apply")
  /\ UNCHANGED <<users, remote_index, request, response, announced, cursor,
                 sent, logged>>

Find(t) ==
  /\ At(t, "find")
  /\ user_index' = [user_index EXCEPT ![t] = find_user(users, request[t].username)]
  /\ remote_index' =
       [remote_index EXCEPT ![t] =
          IF request[t].op = "LIST_CONTENT"
            THEN find_user(users, request[t].remote) ELSE NotFound]
  /\ Goto(t, "apply")
  /\ UNCHANGED <<users, users_mutex, request, response, announced, cursor,
                 sent, logged>>

Executes(t, op) == At(t, "apply") /\ request[t].op = op

Known(t) == user_index[t] # NotFound

Online(t) == Known(t) /\ users[user_index[t]].connected

(* Sets the response and leaves for the unlock. *)
Answer(t, code) ==
  /\ response' = [response EXCEPT ![t] = code]
  /\ Goto(t, "unlock")
  /\ UNCHANGED <<users_mutex, request, user_index, remote_index, announced,
                 cursor, sent, logged>>

Refuse(t, code) == Answer(t, code) /\ UNCHANGED users

(* add_user returns nothing: response 0 also when its allocation failed. *)
Register(t) ==
  /\ Executes(t, "REGISTER")
  /\ \/ Known(t) /\ Refuse(t, 1)
     \/ /\ ~Known(t)
        /\ Answer(t, 0)
        /\ \/ \E stale \in Endpoints :
                users' = add_user(users, request[t].username, stale)
           \/ AllocFails /\ UNCHANGED users

(* Neither the caller's identity nor the connected flag is checked. *)
Unregister(t) ==
  /\ Executes(t, "UNREGISTER")
  /\ \/ ~Known(t) /\ Refuse(t, 1)
     \/ /\ Known(t)
        /\ Answer(t, 0)
        /\ users' = remove_user(users, request[t].username)

Connect(t) ==
  /\ Executes(t, "CONNECT")
  /\ \/ ~Known(t) /\ Refuse(t, 1)
     \/ Online(t) /\ Refuse(t, 2)
     \/ /\ Known(t) /\ ~Online(t)
        /\ Answer(t, 0)
        /\ users' = connect_user(users, user_index[t], request[t].endpoint)

Disconnect(t) ==
  /\ Executes(t, "DISCONNECT")
  /\ \/ ~Known(t) /\ Refuse(t, 1)
     \/ Known(t) /\ ~Online(t) /\ Refuse(t, 2)
     \/ /\ Online(t)
        /\ Answer(t, 0)
        /\ users' = disconnect_user(users, user_index[t])

(* The result of add_file, -1 or -2 when it fails, sent as the byte it is. *)
FaultyPublish(t) ==
  /\ Executes(t, "PUBLISH")
  /\ \/ ~Known(t) /\ Refuse(t, 1)
     \/ Known(t) /\ ~Online(t) /\ Refuse(t, 2)
     \/ /\ Online(t)
        /\ Answer(t, IF file_index(users, user_index[t], request[t].filename)
                          = NotFound THEN 0 ELSE 255)
        /\ users' = add_file(users, user_index[t], request[t].filename)
     \/ Online(t) /\ AllocFails /\ Refuse(t, 254)

(* 3 for a file the user already lists, which add_file appends all the     *)
(* same; 4 when the array cannot grow.                                     *)
Publish(t) ==
  /\ Executes(t, "PUBLISH")
  /\ \/ ~Known(t) /\ Refuse(t, 1)
     \/ Known(t) /\ ~Online(t) /\ Refuse(t, 2)
     \/ /\ Online(t)
        /\ Answer(t, IF file_index(users, user_index[t], request[t].filename)
                          = NotFound THEN 0 ELSE 3)
        /\ users' = add_file(users, user_index[t], request[t].filename)
     \/ Online(t) /\ AllocFails /\ Refuse(t, 4)

Delete(t) ==
  /\ Executes(t, "DELETE")
  /\ \/ ~Known(t) /\ Refuse(t, 1)
     \/ Known(t) /\ ~Online(t) /\ Refuse(t, 2)
     \/ /\ Online(t)
        /\ Answer(t, IF file_index(users, user_index[t], request[t].filename)
                          = NotFound THEN 3 ELSE 0)
        /\ users' = remove_file(users, user_index[t], request[t].filename)

(* The entries are written after the unlock. *)
FaultyAnnounceUnlocked(t, n) ==
  /\ response' = [response EXCEPT ![t] = 0]
  /\ announced' = [announced EXCEPT ![t] = n]
  /\ users_mutex' = Nobody
  /\ Goto(t, "list")
  /\ UNCHANGED <<users, request, user_index, remote_index, cursor, sent, logged>>

(* Writes response 0 and the number of entries, which fit in the empty     *)
(* buffer of the socket, and enters the loop.                              *)
Announce(t, n) ==
  /\ response' = [response EXCEPT ![t] = 0]
  /\ announced' = [announced EXCEPT ![t] = n]
  /\ Goto(t, "list")
  /\ UNCHANGED <<users, users_mutex, request, user_index, remote_index,
                 cursor, sent, logged>>

ListUsers(t) ==
  /\ Executes(t, "LIST_USERS")
  /\ \/ ~Known(t) /\ Refuse(t, 1)
     \/ Known(t) /\ ~Online(t) /\ Refuse(t, 2)
     \/ Online(t) /\ Announce(t, Cardinality(ConnectedSlots))

ListContent(t) ==
  /\ Executes(t, "LIST_CONTENT")
  /\ \/ ~Known(t) /\ Refuse(t, 1)
     \/ Known(t) /\ ~Online(t) /\ Refuse(t, 2)
     \/ Online(t) /\ remote_index[t] = NotFound /\ Refuse(t, 3)
     \/ /\ Online(t) /\ remote_index[t] # NotFound
        /\ Announce(t, Len(users[remote_index[t]].files))

(* One iteration of a listing's loop, which has n of them; writes is what  *)
(* the iteration writes.  A write waits while the socket is full: the      *)
(* iteration may never happen, and the mutex is held meanwhile.            *)
Iterate(t, n, writes) ==
  /\ cursor[t] <= n
  /\ sent' = [sent EXCEPT ![t] = @ \o writes]
  /\ cursor' = [cursor EXCEPT ![t] = @ + 1]
  /\ UNCHANGED <<users, users_mutex, pc, request, user_index, remote_index,
                 response, announced, logged>>

(* The loop goes round without i++ for a user who is not connected. *)
FaultyListNextUser(t) ==
  /\ At(t, "list") /\ request[t].op = "LIST_USERS"
  /\ cursor[t] <= Len(users)
  /\ IF users[cursor[t]].connected
       THEN Iterate(t, Len(users), <<Entry(cursor[t])>>)
       ELSE UNCHANGED vars

ListNextUser(t) ==
  /\ At(t, "list") /\ request[t].op = "LIST_USERS"
  /\ Iterate(t, Len(users),
             IF users[cursor[t]].connected THEN <<Entry(cursor[t])>> ELSE <<>>)

ListNextFile(t) ==
  /\ At(t, "list") /\ request[t].op = "LIST_CONTENT"
  /\ LET files == users[remote_index[t]].files
     IN  Iterate(t, Len(files), <<files[cursor[t]]>>)

ListEnd(t) ==
  /\ At(t, "list")
  /\ cursor[t] > IF request[t].op = "LIST_USERS" THEN Len(users)
                 ELSE Len(users[remote_index[t]].files)
  /\ Goto(t, "unlock")
  /\ UNCHANGED <<users, users_mutex, locals>>

Unlock(t) ==
  /\ At(t, "unlock")
  /\ users_mutex' = Nobody
  /\ Goto(t, "reply")
  /\ UNCHANGED <<users, locals>>

----------------------------------------------------------------------------
(* The write of the response and the close.  The two listings have written *)
(* theirs before the unlock and only close.                                *)
Reply(t) == At(t, "reply") /\ Close(t)

Execute(t) ==
  \/ Register(t) \/ Unregister(t) \/ Connect(t) \/ Disconnect(t)
  \/ Publish(t) \/ Delete(t) \/ ListUsers(t) \/ ListContent(t)

(* What the thread does by itself once its request has arrived. *)
Work(t) ==
  \/ send_log(t) \/ RejectAnonymous(t)
  \/ Lock(t) \/ Find(t) \/ Execute(t) \/ ListEnd(t)
  \/ Unlock(t) \/ Reply(t)

(* What it does when the client reads. *)
WriteEntry(t) == ListNextUser(t) \/ ListNextFile(t)

Handle(t) == Work(t) \/ WriteEntry(t)

(* What the other end of the connection decides. *)
Client(t) ==
  \/ \E r \in Requests : Accept(t, r)
  \/ Receive(t) \/ ReadError(t) \/ PublishReadError(t) \/ PeerLost(t)

Next == \E t \in Threads : Handle(t) \/ Client(t)

Spec == Init /\ [][Next]_vars

=============================================================================
