---------------------------- MODULE ListingStream ----------------------------
(***************************************************************************)
(* The two listings as streams.  A handler of the server writes a listing  *)
(* string by string into a socket whose buffer is bounded, and holds       *)
(* users_mutex meanwhile; listusers and listcontent of the client read it  *)
(* to its end, the first half of getfile only up to the user it looks for. *)
(*                                                                         *)
(* A write on a connection that the client has closed is answered by a     *)
(* reset, and a write after the reset raises SIGPIPE, whose default action *)
(* ends the server: server.c ignores the result of write, and nothing      *)
(* ignores the signal.                                                     *)
(***************************************************************************)
EXTENDS Integers, SequencesExt

CONSTANTS
  Clients,     \* each sends one request
  Commands,    \* "LIST_USERS", "LIST_CONTENT", "GET_FILE" or "CHANGE"
  NumUsers,    \* the slots of the table
  Endpoints,   \* what a connected user can be reached at
  Files,       \* what the user of LIST_CONTENT can publish
  MaxFiles,    \* bound: as many files are published at a time
  Capacity,    \* the strings a connection buffers
  Faults,      \* a client may be "stalled" or "killed"
  Target,      \* the slot of the user GET_FILE looks for
  None         \* no endpoint, no client

Slots == 1..NumUsers

ASSUME ListingAssumption ==
  /\ NumUsers \in Nat /\ Target \in Slots
  /\ Capacity \in Nat \ {0} /\ MaxFiles \in Nat \ {0}
  /\ None \notin Endpoints /\ None \notin Clients

VARIABLES
  users,       \* slot -> endpoint, or None when it is not connected
  files,       \* the filenames LIST_CONTENT lists, in order
  mutex,       \* who holds users_mutex, or None
  server,      \* "up" or "dead"
  command,     \* what each client asked for
  handler,     \* where its handle_client is
  cursor,      \* the slot or file, and the string of it, written next
  link,        \* the connection as the handler's write finds it
  wire,        \* the strings written and not read yet
  reader,      \* where the client is
  announced,   \* num_users, num_files
  received,    \* the strings of the rows, in order
  result,      \* what the client printed last
  snapshot     \* history: the rows when the handler took the mutex

table == <<users, files, mutex, server>>
handlervars == <<handler, cursor>>
readervars == <<reader, announced, received, result>>
vars == <<table, command, handlervars, link, wire, readervars, snapshot>>

Listing(c) == IF command[c] = "LIST_CONTENT" THEN "LIST_CONTENT" ELSE "LIST_USERS"

Entry(i) == <<<<"username", i>>, <<"ip", users[i]>>, <<"port", users[i]>>>>

Width(op) == IF op = "LIST_USERS" THEN 3 ELSE 1

(* What the loops of handle_client write after the count. *)
Rows(op) ==
  IF op = "LIST_USERS"
  THEN FlattenSeq([i \in Slots |-> IF users[i] # None THEN Entry(i) ELSE <<>>])
  ELSE [i \in DOMAIN files |-> <<"filename", files[i]>>]

Count(op) ==
  IF op = "LIST_USERS" THEN Cardinality({i \in Slots : users[i] # None})
                       ELSE Len(files)

Init ==
  /\ users \in [Slots -> Endpoints \cup {None}]
  /\ files \in {<<>>} \cup {<<f>> : f \in Files}
  /\ mutex = None /\ server = "up"
  /\ command = [c \in Clients |-> None]
  /\ handler = [c \in Clients |-> "none"]
  /\ cursor = [c \in Clients |-> <<1, 1>>]
  /\ link = [c \in Clients |-> "open"]
  /\ wire = [c \in Clients |-> <<>>]
  /\ reader = [c \in Clients |-> "prompt"]
  /\ announced = [c \in Clients |-> 0]
  /\ received = [c \in Clients |-> <<>>]
  /\ result = [c \in Clients |-> "none"]
  /\ snapshot = [c \in Clients |-> <<>>]

----------------------------------------------------------------------------
(* The handler. *)

At(c, label) == handler[c] = label
Goto(c, label) == handler' = [handler EXCEPT ![c] = label]

(* The process ends: every connection and the mutex go with it. *)
Die ==
  /\ server' = "dead" /\ mutex' = None
  /\ handler' = [c \in Clients |-> "none"]
  /\ UNCHANGED <<users, files, cursor, link, wire>>

(* write(sock, string), its result ignored.  It waits while the buffer is  *)
(* full.  The first write after the reset of a connection that was closed  *)
(* with strings unread fails with ECONNRESET, any other one with EPIPE.    *)
Write(c, string, next) ==
  \/ /\ link[c] \in {"open", "closed", "aborted"} /\ Len(wire[c]) < Capacity
     /\ wire' = [wire EXCEPT ![c] = Append(@, string)]
     /\ next
     /\ UNCHANGED <<table, link>>
  \/ /\ link[c] = "reset"
     /\ link' = [link EXCEPT ![c] = "broken"]
     /\ next
     /\ UNCHANGED <<table, wire>>
  \/ /\ link[c] = "broken"
     /\ Die

(* A listing is written without the mutex. *)
FaultyLock(c) ==
  /\ At(c, "lock") /\ mutex = None
  /\ snapshot' = [snapshot EXCEPT ![c] = Rows(Listing(c))]
  /\ Goto(c, "decide")
  /\ UNCHANGED <<users, files, mutex, server, cursor, link, wire>>

Lock(c) ==
  /\ At(c, "lock") /\ mutex = None
  /\ mutex' = c
  /\ snapshot' = [snapshot EXCEPT ![c] = Rows(Listing(c))]
  /\ Goto(c, "decide")
  /\ UNCHANGED <<users, files, server, cursor, link, wire>>

(* What the other operations do to the table: the last file takes the     *)
(* place of the one that is deleted.                                       *)
Change ==
  \/ \E i \in Slots, e \in Endpoints \cup {None} :
       /\ (users[i] = None) # (e = None)
       /\ users' = [users EXCEPT ![i] = e]
       /\ UNCHANGED files
  \/ \E f \in Files :
       /\ Len(files) < MaxFiles
       /\ files' = Append(files, f)
       /\ UNCHANGED users
  \/ \E i \in DOMAIN files :
       /\ \A j \in 1 .. i - 1 : files[j] # files[i]
       /\ files' = [j \in 1 .. Len(files) - 1 |->
                      IF j = i THEN files[Len(files)] ELSE files[j]]
       /\ UNCHANGED users

(* The mutex is released once the user is found, before anything is        *)
(* written, as the operations that change the table do.                    *)
FaultyDecide(c) ==
  /\ At(c, "decide")
  /\ \/ command[c] = "CHANGE" /\ Change /\ Goto(c, "unlock") /\ UNCHANGED mutex
     \/ /\ command[c] # "CHANGE" /\ mutex' = None
        /\ \E answer \in {"granted", "refused"} : Goto(c, answer)
        /\ UNCHANGED <<users, files>>
  /\ UNCHANGED <<server, cursor, link, wire, snapshot>>

(* Whether the user exists and is connected is Server's concern: here the  *)
(* request of a listing is granted or not.                                 *)
Decide(c) ==
  /\ At(c, "decide")
  /\ \/ command[c] = "CHANGE" /\ Change /\ Goto(c, "unlock")
     \/ /\ command[c] # "CHANGE"
        /\ \E answer \in {"granted", "refused"} : Goto(c, answer)
        /\ UNCHANGED <<users, files>>
  /\ UNCHANGED <<mutex, server, cursor, link, wire, snapshot>>

(* A refused listing returns with the mutex locked. *)
FaultyRespond(c) ==
  /\ \/ /\ At(c, "refused")
        /\ Write(c, <<"response", 1>>, Goto(c, "close") /\ UNCHANGED cursor)
     \/ /\ At(c, "granted")
        /\ Write(c, <<"response", 0>>, Goto(c, "count") /\ UNCHANGED cursor)
     \/ /\ At(c, "reply")
        /\ Write(c, <<"response", 0>>, Goto(c, "close") /\ UNCHANGED cursor)
  /\ UNCHANGED snapshot

Respond(c) ==
  /\ \/ /\ At(c, "refused")
        /\ Write(c, <<"response", 1>>, Goto(c, "unlock") /\ UNCHANGED cursor)
     \/ /\ At(c, "granted")
        /\ Write(c, <<"response", 0>>, Goto(c, "count") /\ UNCHANGED cursor)
     \/ /\ At(c, "reply")
        /\ Write(c, <<"response", 0>>, Goto(c, "close") /\ UNCHANGED cursor)
  /\ UNCHANGED snapshot

SendCount(c) ==
  /\ At(c, "count")
  /\ Write(c, <<"count", Count(Listing(c))>>, Goto(c, "row") /\ UNCHANGED cursor)
  /\ UNCHANGED snapshot

(* One string of the listing, or a slot that is passed over. *)
SendRow(c) ==
  LET op == Listing(c)
      i == cursor[c][1]
      k == cursor[c][2]
      Move(j) == cursor' = [cursor EXCEPT ![c] = j]
      Advance == UNCHANGED handler
                 /\ Move(IF k < Width(op) THEN <<i, k + 1>> ELSE <<i + 1, 1>>)
  IN  /\ At(c, "row")
      /\ i <= (IF op = "LIST_USERS" THEN NumUsers ELSE Len(files))
      /\ \/ /\ op = "LIST_USERS" /\ users[i] = None
            /\ Move(<<i + 1, 1>>)
            /\ UNCHANGED <<table, handler, link, wire>>
         \/ /\ op = "LIST_USERS" /\ users[i] # None
            /\ Write(c, Entry(i)[k], Advance)
         \/ /\ op = "LIST_CONTENT"
            /\ Write(c, <<"filename", files[i]>>, Advance)
      /\ UNCHANGED snapshot

EndRows(c) ==
  /\ At(c, "row")
  /\ cursor[c][1] > (IF Listing(c) = "LIST_USERS" THEN NumUsers ELSE Len(files))
  /\ Goto(c, "unlock")
  /\ UNCHANGED <<table, cursor, link, wire, snapshot>>

(* The other operations answer once the mutex is released. *)
Unlock(c) ==
  /\ At(c, "unlock")
  /\ mutex' = None
  /\ Goto(c, IF command[c] = "CHANGE" THEN "reply" ELSE "close")
  /\ UNCHANGED <<users, files, server, cursor, link, wire, snapshot>>

CloseSocket(c) ==
  /\ At(c, "close")
  /\ Goto(c, "none")
  /\ UNCHANGED <<table, cursor, link, wire, snapshot>>

handle_client(c) ==
  /\ \/ Lock(c) \/ Decide(c) \/ Respond(c) \/ SendCount(c) \/ SendRow(c)
     \/ EndRows(c) \/ Unlock(c) \/ CloseSocket(c)
  /\ UNCHANGED <<command, readervars>>

(* The reset that answers what was written to, or left unread by, a client *)
(* that has closed: after a FIN it leaves EPIPE, otherwise ECONNRESET.     *)
Reset(c) ==
  /\ handler[c] # "none" /\ wire[c] # <<>>
  /\ \/ link[c] = "closed" /\ link' = [link EXCEPT ![c] = "broken"]
     \/ link[c] = "aborted" /\ link' = [link EXCEPT ![c] = "reset"]
  /\ wire' = [wire EXCEPT ![c] = <<>>]
  /\ UNCHANGED <<table, command, handlervars, readervars, snapshot>>

----------------------------------------------------------------------------
(* The client. *)

Reading(c, label) == reader[c] = label

Goes(c, label) == reader' = [reader EXCEPT ![c] = label]

(* connect_to_server and the request, which fits in any buffer. *)
Dial(c) ==
  /\ Reading(c, "prompt")
  /\ \E cmd \in Commands : command' = [command EXCEPT ![c] = cmd]
  /\ \/ /\ server = "up"
        /\ handler' = [handler EXCEPT ![c] = "lock"]
        /\ Goes(c, "response")
        /\ UNCHANGED result
     \/ /\ server = "dead"
        /\ Goes(c, "done")
        /\ result' = [result EXCEPT ![c] = "FAIL"]
        /\ UNCHANGED handler
  /\ UNCHANGED <<table, cursor, link, wire, announced, received, snapshot>>

(* return, and the sock.close() of finally. *)
HangUp(c, res) ==
  /\ Goes(c, "done")
  /\ result' = [result EXCEPT ![c] = res]
  /\ link' = [link EXCEPT ![c] = IF wire'[c] = <<>> THEN "closed" ELSE "aborted"]

Receives(c) == wire[c] # <<>> /\ wire' = [wire EXCEPT ![c] = Tail(@)]

Eof(c) == handler[c] = "none" /\ wire[c] = <<>> /\ UNCHANGED wire

ReadResponse(c) ==
  /\ Reading(c, "response")
  /\ \/ /\ Receives(c) /\ Head(wire[c])[2] = 0
        /\ \/ command[c] = "CHANGE" /\ HangUp(c, "OK")
           \/ command[c] # "CHANGE" /\ Goes(c, "count") /\ UNCHANGED <<result, link>>
     \/ Receives(c) /\ Head(wire[c])[2] # 0 /\ HangUp(c, "FAIL")
     \/ Eof(c) /\ HangUp(c, "FAIL")                  \* sock.recv(1)[0] of b''
  /\ UNCHANGED <<announced, received>>

ReadCount(c) ==
  /\ Reading(c, "count")
  /\ \/ /\ Receives(c)
        /\ announced' = [announced EXCEPT ![c] = Head(wire[c])[2]]
        /\ Goes(c, "rows")
        /\ UNCHANGED <<result, link>>
     \/ Eof(c) /\ HangUp(c, "FAIL") /\ UNCHANGED announced         \* int('')
  /\ UNCHANGED received

(* getfile has read the row of the user it looks for. *)
Found(c) ==
  LET n == Len(received[c])
  IN  command[c] = "GET_FILE" /\ n > 0 /\ n % 3 = 0
      /\ received[c][n - 2] = <<"username", Target>>

(* The loop stops one row early. *)
FaultyEnough(c) ==
  Found(c) \/ Len(received[c]) >= Width(Listing(c)) * (announced[c] - 1)

(* The loops of the client end. *)
Enough(c) ==
  Found(c) \/ Len(received[c]) = Width(Listing(c)) * announced[c]

(* receive_string returns '' at the end of the stream. *)
Blank == <<"blank", None>>

ReadRow(c) ==
  /\ Reading(c, "rows") /\ ~Enough(c)
  /\ \/ /\ Receives(c)
        /\ received' = [received EXCEPT ![c] = Append(@, Head(wire[c]))]
     \/ Eof(c) /\ received' = [received EXCEPT ![c] = Append(@, Blank)]
  /\ UNCHANGED <<reader, announced, result, link>>

(* getfile goes on only with an endpoint that int() accepts. *)
EndListing(c) ==
  /\ Reading(c, "rows") /\ Enough(c) /\ UNCHANGED wire
  /\ HangUp(c, IF /\ command[c] = "GET_FILE"
                  /\ ~Found(c) \/ Last(received[c])[1] # "port"
               THEN "FAIL" ELSE "OK")
  /\ UNCHANGED <<announced, received>>

(* listusers, listcontent, and getfile until it closes this connection. *)
Client(c) ==
  /\ ReadResponse(c) \/ ReadCount(c) \/ ReadRow(c) \/ EndListing(c)
  /\ UNCHANGED <<table, command, handlervars, snapshot>>

(* The process of the client is suspended, or killed. *)
Stall(c) ==
  /\ "stalled" \in Faults /\ reader[c] \in {"response", "count", "rows"}
  /\ Goes(c, "stalled")
  /\ UNCHANGED <<table, command, handlervars, link, wire, announced, received,
                 result, snapshot>>

Kill(c) ==
  /\ "killed" \in Faults /\ reader[c] \in {"response", "count", "rows", "stalled"}
  /\ UNCHANGED wire
  /\ HangUp(c, "none")
  /\ UNCHANGED <<table, command, handlervars, announced, received, snapshot>>

Next ==
  \E c \in Clients :
    handle_client(c) \/ Reset(c) \/ Dial(c) \/ Client(c) \/ Stall(c) \/ Kill(c)

Spec == Init /\ [][Next]_vars

(* Threads and processes that can run do; a client that is suspended does  *)
(* not, and a segment sent on a live connection arrives.                   *)
FairSpec ==
  Spec /\ \A c \in Clients :
            WF_vars(handle_client(c)) /\ WF_vars(Reset(c)) /\ WF_vars(Client(c))

----------------------------------------------------------------------------
Strings ==
  ({"response", "count"} \X Nat) \cup ({"username"} \X Slots)
  \cup ({"ip", "port"} \X Endpoints) \cup ({"filename"} \X Files)

TypeOK ==
  /\ users \in [Slots -> Endpoints \cup {None}] /\ files \in Seq(Files)
  /\ mutex \in Clients \cup {None} /\ server \in {"up", "dead"}
  /\ command \in [Clients -> Commands \cup {None}]
  /\ handler \in [Clients -> {"none", "lock", "decide", "granted", "refused",
                              "count", "row", "unlock", "reply", "close"}]
  /\ cursor \in [Clients -> Nat \X (1..3)]
  /\ link \in [Clients -> {"open", "closed", "aborted", "reset", "broken"}]
  /\ wire \in [Clients -> Seq(Strings)]
  /\ \A c \in Clients : Len(wire[c]) <= Capacity
  /\ reader \in [Clients -> {"prompt", "response", "count", "rows", "stalled", "done"}]
  /\ announced \in [Clients -> Nat]
  /\ received \in [Clients -> Seq(Strings \cup {Blank})]
  /\ result \in [Clients -> {"none", "OK", "FAIL"}]
  /\ snapshot \in [Clients -> Seq(Strings)]
  /\ \A c \in Clients :
       handler[c] \in {"decide", "granted", "refused", "count", "row", "unlock"}
         <=> mutex = c

(* What a client prints is the table of one instant, that in which the     *)
(* server granted its request: no row is torn, repeated, left out or moved *)
(* by the clients that connect, disconnect, publish and delete meanwhile.  *)
(* A server that dies in the middle shows as blank strings at the end.     *)
OneInstant ==
  \A c \in Clients : \E n \in 0 .. Len(received[c]) :
    /\ n <= Len(snapshot[c])
    /\ \A j \in 1 .. n : received[c][j] = snapshot[c][j]
    /\ \A j \in n + 1 .. Len(received[c]) :
         received[c][j] = Blank /\ server = "dead"
    /\ result[c] = "OK" /\ command[c] \in {"LIST_USERS", "LIST_CONTENT"}
       /\ server = "up" => received[c] = snapshot[c]

(* Whether the server can be ended by a client that is gone: one that was  *)
(* killed, or a getfile that has closed at the user it looked for.         *)
Deserter(c) ==
  /\ reader[c] = "done"
  /\ result[c] = "none" \/ (command[c] = "GET_FILE" /\ Found(c))

(* Nobody else ends the server: a client that reads what was announced can *)
(* close its connection without a write of a handler meeting the closed    *)
(* end, whether the listing was granted, refused, empty or shorter than    *)
(* the table.                                                              *)
EndedByDeserter == server = "dead" => \E c \in Clients : Deserter(c)

(* The handlers wait for one another and for their clients, but as long as *)
(* no client is suspended each one that waits for an answer returns to its *)
(* prompt: the mutex held during a listing is released because its reader  *)
(* reads on, or is gone.                                                   *)
EveryoneAnswered ==
  [](\A c \in Clients : reader[c] # "stalled") =>
    \A c \in Clients : reader[c] = "response" ~> reader[c] = "done"

=============================================================================
