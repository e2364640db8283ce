--------------------------- MODULE ServerProperties ---------------------------
(***************************************************************************)
(* What is claimed of the main server of parts 2 and 3.                    *)
(***************************************************************************)
EXTENDS Server

CONSTANT Offline   \* the endpoint of a user who is not connected

ASSUME OfflineIsNoEndpoint == Offline \notin Endpoints

Labels ==
  {"idle", "read", "log", "logged", "find", "apply", "list", "unlock", "reply"}

InSection(t) == pc[t] \in {"find", "apply", "list", "unlock"}

(* Every variable has its type; the live table is an array without holes. *)
TypeOK ==
  /\ users \in Table
  /\ users_mutex \in Threads \cup {Nobody}
  /\ pc \in [Threads -> Labels]
  /\ request \in [Threads -> Requests \cup {NoRequest}]
  /\ user_index \in [Threads -> Nat]
  /\ remote_index \in [Threads -> Nat]
  /\ response \in [Threads -> 0 .. 4]
  /\ announced \in [Threads -> Nat]
  /\ cursor \in [Threads -> Nat \ {0}]
  /\ sent \in [Threads -> Seq(Files \cup (Names \X Endpoints))]
  /\ logged \in [Threads -> BOOLEAN]

(* A username has one slot, whatever REGISTERs and UNREGISTERs race: the   *)
(* search and the insertion of handle_client are one critical section.     *)
UniqueNames ==
  \A i, j \in DOMAIN users : users[i].username = users[j].username => i = j

(* The index a handler acts on is still the slot of the user it looked up  *)
(* (and, for a user it did not find, the user is still absent), although   *)
(* remove_user of another thread moves slots.                              *)
IndexFresh ==
  \A t \in Threads :
    pc[t] \in {"apply", "list"} =>
      /\ user_index[t] = find_user(users, request[t].username)
      /\ request[t].op = "LIST_CONTENT" =>
           remote_index[t] = find_user(users, request[t].remote)

Items(s) == {s[k] : k \in DOMAIN s}

(* The client reads as many entries as were announced: a listing writes    *)
(* exactly that number, and a LIST_USERS exactly the users connected at    *)
(* the moment it ends, each with the endpoint it is connected from.  (That *)
(* the entries of a LIST_CONTENT are the files published is part of        *)
(* ImplementsDirectory.)                                                   *)
ListingTruthful ==
  \A t \in Threads :
    /\ pc[t] = "unlock" => announced[t] = Len(sent[t])
    /\ pc[t] = "unlock" /\ request[t].op = "LIST_USERS" /\ response[t] = 0 =>
         Items(sent[t]) = {Entry(i) : i \in ConnectedSlots}

RecordOf(name) ==
  {users[i] : i \in {j \in DOMAIN users : users[j].username = name}}

(* A step changes the record of a user only when it executes a request in  *)
(* that user's name: no request, and no slot moved by one, alters the      *)
(* connection or the files of anybody else.                                *)
OnlyOwnRecord ==
  [][\A name \in Names :
       RecordOf(name)' # RecordOf(name) =>
         \E t \in Threads : pc[t] = "apply" /\ request[t].username = name]_users

----------------------------------------------------------------------------
(* The server implements the directory: every request takes effect at one  *)
(* step, the last of its critical section that reads or changes the table. *)

Phase(t) ==
  CASE pc[t] = "idle" -> "idle"
    [] pc[t] \in {"unlock", "reply"} -> "done"
    [] OTHER -> "pending"

Copies(files, f) == Cardinality({k \in DOMAIN files : files[k] = f})

Listing(t) ==
  IF response[t] # 0 THEN {}
  ELSE IF request[t].op = "LIST_USERS" THEN Items(sent[t])
  ELSE IF request[t].op = "LIST_CONTENT" THEN
         {<<f, Copies(sent[t], f)>> : f \in Items(sent[t])}
  ELSE {}

ReplyTo(t) ==
  IF Phase(t) = "done" THEN [code |-> response[t], listing |-> Listing(t)]
  ELSE [code |-> 0, listing |-> {}]

(* The directory a table stands for. *)
RegisteredIn(table) == {table[i].username : i \in DOMAIN table}

EndpointOf(table, n) ==
  LET i == find_user(table, n)
  IN  IF i # NotFound /\ table[i].connected THEN table[i].endpoint ELSE Offline

CopiesOf(table, n) ==
  LET i == find_user(table, n)
  IN  [f \in Files |-> IF i = NotFound THEN 0 ELSE Copies(table[i].files, f)]

OnlineIn(table) == [n \in Names |-> EndpointOf(table, n)]

PublishedIn(table) == [n \in Names |-> CopiesOf(table, n)]

Phases == [t \in Threads |-> Phase(t)]

Replies == [t \in Threads |-> ReplyTo(t)]

Dir == INSTANCE Directory WITH
  Clients    <- Threads,
  MayLose    <- AllocFails,
  registered <- RegisteredIn(users),
  online     <- OnlineIn(users),
  published  <- PublishedIn(users),
  phase      <- Phases,
  reply      <- Replies

(* Linearizability: what the clients observe of the threads, the lock and  *)
(* the moving slots is what the directory allows.                          *)
ImplementsDirectory == Dir!DirectorySpec

----------------------------------------------------------------------------
(* Liveness.  A thread whose request has arrived runs on: it is scheduled,  *)
(* and the log RPC ends, by its own timeout if need be.  Its writes of a    *)
(* listing are not in this fairness: they wait for the client to read.      *)
FairSpec == Spec /\ \A t \in Threads : WF_vars(Work(t))

(* What the clients of listings would have to do: go on reading.           *)
ReadersGoOn == \A t \in Threads : WF_vars(WriteEntry(t))

(* Unless a client stops reading its listing, whoever takes users_mutex    *)
(* gives it back: no path through a handler leaves it locked.              *)
MutexAlwaysFreed == ReadersGoOn => []<>(users_mutex = Nobody)

NoMoreRequests == <>[][\A t \in Threads : pc[t] = "idle" => pc'[t] = "idle"]_vars

(* Once no new connections arrive, and unless a client stops reading its   *)
(* listing, every request that has been read is answered or abandoned,     *)
(* whether or not the log service took it: nobody waits for users_mutex    *)
(* for ever.  (While connections keep arriving, a pthread mutex promises a *)
(* waiter nothing.)                                                        *)
EveryoneServed ==
  ReadersGoOn /\ NoMoreRequests =>
    \A t \in Threads : (pc[t] \notin {"idle", "read"}) ~> (pc[t] = "idle")

----------------------------------------------------------------------------
(* A claim of the repository that the code does not keep.                  *)

(* server.c answers "File already published" (3) to a duplicate PUBLISH:   *)
(* a file would be listed once.                                            *)
PublishedOnce ==
  \A i \in DOMAIN users :
    \A j, k \in DOMAIN users[i].files :
      users[i].files[j] = users[i].files[k] => j = k

=============================================================================
