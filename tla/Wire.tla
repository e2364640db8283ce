--------------------------------- MODULE Wire ---------------------------------
(***************************************************************************)
(* A request on the wire.  The client sends strings, each ended by a NUL:  *)
(* the operation, in parts 2 and 3 the date it asked the web service for,  *)
(* and the arguments.  The server reads as many strings as the operation   *)
(* has, each with read_string, which stops at the NUL or when its buffer   *)
(* is full and takes an empty string for an error.                         *)
(*                                                                         *)
(* Only lengths and provenance matter: a string is a sequence of bytes,    *)
(* and a byte is the name of what it belongs to with its place there.      *)
(***************************************************************************)
EXTENDS Integers, Sequences

CONSTANTS
  Parts,       \* the parts of the repository, 1 to 3
  Ops,         \* the operations the clients send
  Lengths,     \* the lengths of the arguments, in bytes
  MaxString,   \* MAX_STRING, the size of the buffers of the server
  NUL

VARIABLES
  part,        \* the part that client and server are of
  client,      \* where the command of the client is
  op,          \* its operation
  arguments,   \* what the user typed
  outbox,      \* the strings still to be sent
  result,      \* what the command printed last
  trouble,     \* what went wrong under the client: "none", "connection", "disk" (history)
  wire,        \* the bytes sent and not read
  handler,     \* where handle_client is
  strings,     \* the strings it has read
  response     \* the byte it has written, or -1

clientvars == <<part, client, op, arguments, outbox, result, trouble>>
servervars == <<handler, strings, response>>
vars == <<clientvars, wire, servervars>>

String(name, n) == [i \in 1..n |-> <<name, i>>]

(* The arguments of each command, in the order in which it sends them.     *)
register == <<"username">>
unregister == <<"username">>
connect == <<"username", "port">>
disconnect == <<"username">>
publish == <<"username", "filename", "description">>
delete == <<"username", "filename">>
listusers == <<"username">>
listcontent == <<"username", "remote">>

Sends ==
  [REGISTER |-> register, UNREGISTER |-> unregister, CONNECT |-> connect,
   DISCONNECT |-> disconnect, PUBLISH |-> publish, DELETE |-> delete,
   LIST_USERS |-> listusers, LIST_CONTENT |-> listcontent]

(* What a byte can belong to. *)
Bytes == {"username", "port", "filename", "description", "remote", "date",
          "default"} \cup DOMAIN Sends

(* The date has 19 bytes: it fits, as the names of the operations do.      *)
ASSUME WireAssumption ==
  /\ Parts \subseteq 1..3 /\ Ops \subseteq DOMAIN Sends
  /\ Lengths \subseteq Nat
  /\ MaxString \in Nat /\ MaxString > 3
  /\ NUL \notin Bytes \X Nat

(* The filename and the description are exchanged. *)
FaultyReads(o) ==
  CASE o \in {"REGISTER", "UNREGISTER", "DISCONNECT", "LIST_USERS"} -> <<"username">>
    [] o = "CONNECT"      -> <<"username", "port">>
    [] o = "PUBLISH"      -> <<"username", "description", "filename">>
    [] o = "DELETE"       -> <<"username", "filename">>
    [] o = "LIST_CONTENT" -> <<"username", "remote">>

(* The description is not read. *)
FaultyReadsFewer(o) ==
  CASE o \in {"REGISTER", "UNREGISTER", "DISCONNECT", "LIST_USERS"} -> <<"username">>
    [] o = "CONNECT"      -> <<"username", "port">>
    [] o \in {"PUBLISH", "DELETE"} -> <<"username", "filename">>
    [] o = "LIST_CONTENT" -> <<"username", "remote">>

(* What the branches of handle_client read, into these variables.          *)
Reads(o) ==
  CASE o \in {"REGISTER", "UNREGISTER", "DISCONNECT", "LIST_USERS"} -> <<"username">>
    [] o = "CONNECT"      -> <<"username", "port">>
    [] o = "PUBLISH"      -> <<"username", "filename", "description">>
    [] o = "DELETE"       -> <<"username", "filename">>
    [] o = "LIST_CONTENT" -> <<"username", "remote">>

Init ==
  /\ part \in Parts
  /\ client = "prompt" /\ op = "none" /\ arguments = <<>> /\ outbox = <<>>
  /\ result = "none" /\ trouble = "none"
  /\ wire = <<>>
  /\ handler = "none" /\ strings = <<>> /\ response = -1

----------------------------------------------------------------------------
(* The client. *)

(* The command is typed and the connection accepted.  An argument may be   *)
(* empty: "PUBLISH f " has three words for the shell.                      *)
Command(o) ==
  /\ client = "prompt"
  /\ op' = o
  /\ \E n \in [DOMAIN Sends[o] -> Lengths] :
       arguments' = [i \in DOMAIN Sends[o] |-> String(Sends[o][i], n[i])]
  /\ client' = IF part = 1 THEN "dated" ELSE "dating"
  /\ handler' = "reading"
  /\ UNCHANGED <<part, outbox, result, trouble, wire, strings, response>>

(* The text that the web service answers with. *)
get_date == String("date", 2)

(* The date, or the default value when the service refuses or fails.  It   *)
(* may also never answer, as the request has no timeout.                   *)
get_datetime ==
  /\ client = "dating"
  /\ \E date \in {get_date, String("default", 2)} : outbox' = <<date>>
  /\ client' = "dated"
  /\ UNCHANGED <<part, op, arguments, result, trouble, wire, servervars>>

(* The date is not sent. *)
FaultyRequest ==
  /\ client = "dated"
  /\ outbox' = <<String(op, 1)>> \o arguments
  /\ client' = "sending"
  /\ UNCHANGED <<part, op, arguments, result, trouble, wire, servervars>>

(* The strings that the command sends from here on. *)
Request ==
  /\ client = "dated"
  /\ outbox' = <<String(op, 1)>> \o outbox \o arguments
  /\ client' = "sending"
  /\ UNCHANGED <<part, op, arguments, result, trouble, wire, servervars>>

(* sendall of a connection that the server has closed succeeds until its   *)
(* reset is known, then raises.                                            *)
send_string ==
  /\ client = "sending" /\ outbox # <<>>
  /\ \/ /\ wire' = IF handler = "closed" THEN wire ELSE wire \o Append(Head(outbox), NUL)
        /\ outbox' = Tail(outbox)
        /\ UNCHANGED <<client, result>>
     \/ /\ handler = "closed"
        /\ client' = "done" /\ result' = "FAIL"
        /\ UNCHANGED <<wire, outbox>>
  /\ UNCHANGED <<part, op, arguments, trouble, servervars>>

(* sock.recv(1)[0], and what the command makes of it.  PUBLISH and DELETE  *)
(* end with the file on disk, which may fail after the server has agreed.  *)
Response ==
  /\ client = "sending" /\ outbox = <<>>
  /\ \/ response = 0 /\ result' = "OK" /\ UNCHANGED trouble
     \/ response = 0 /\ op \in {"PUBLISH", "DELETE"} /\ result' = "FAIL" /\ trouble' = "disk"
     \/ response = 1 /\ result' = "REFUSED" /\ UNCHANGED trouble
     \/ response = 4 /\ result' = "FAIL" /\ UNCHANGED trouble
     \/ response = -1 /\ handler = "closed" /\ result' = "FAIL" /\ UNCHANGED trouble
  /\ client' = "done"
  /\ UNCHANGED <<part, op, arguments, outbox, wire, servervars>>

(* What the client has handed to the network, the string it is sending     *)
(* included.                                                               *)
InFlight ==
  IF client = "sending" /\ outbox # <<>> /\ handler # "closed"
  THEN wire \o Head(outbox) ELSE wire

(* Of the bytes in flight a beginning arrives, and nothing after it.       *)
Breaks ==
  /\ client' = "done"
  /\ \E n \in 0..Len(InFlight) : wire' = SubSeq(InFlight, 1, n)
  /\ UNCHANGED <<part, op, arguments, outbox, servervars>>

(* The connection is lost: a send or the recv raises, wherever the server  *)
(* is with the request.                                                    *)
Lost ==
  /\ client = "sending" /\ Breaks
  /\ result' = "FAIL" /\ trouble' = "connection"

(* The process is killed, perhaps in the middle of a string.               *)
Kill ==
  /\ client \in {"dating", "dated", "sending"} /\ Breaks
  /\ UNCHANGED <<result, trouble>>

----------------------------------------------------------------------------
(* The server. *)

(* One byte too many is stored. *)
FaultyRoom == MaxString

(* The characters that fit beside the terminator of the buffer.            *)
Room == MaxString - 1

(* The length of the string that read_string returns, once it is there.    *)
Found(n) ==
  \/ n < Room /\ n < Len(wire) /\ wire[n + 1] = NUL
  \/ n = Room /\ n <= Len(wire)

(* The strings of the request: its operation, the date, the arguments.     *)
Prefix == IF part = 1 THEN 1 ELSE 2

Operation == strings[1][1][1]

(* Every branch has read its strings. *)
Complete ==
  /\ Len(strings) >= Prefix
  /\ Len(strings) = Prefix + Len(Reads(Operation))

(* A string of the request is empty or does not come.  PUBLISH is the only *)
(* operation that answers then, with 4.                                    *)
NoString ==
  /\ \/ /\ Len(strings) >= Prefix /\ Operation = "PUBLISH"
        /\ response' = 4 /\ handler' = "responded"
     \/ /\ Len(strings) >= Prefix => Operation # "PUBLISH"
        /\ handler' = "closed" /\ UNCHANGED response
  /\ UNCHANGED strings

read_string ==
  /\ handler = "reading" /\ ~Complete
  /\ \E n \in 0..Room :
       /\ Found(n) /\ \A m \in 0..(n - 1) : ~Found(m)
       /\ wire' = SubSeq(wire, IF n < Room THEN n + 2 ELSE n + 1, Len(wire))
       /\ \/ /\ n > 0 /\ strings' = Append(strings, SubSeq(wire, 1, n))
             /\ UNCHANGED <<handler, response>>
          \/ n = 0 /\ NoString
  /\ UNCHANGED clientvars

(* The connection was closed before the string ended. *)
ReadError ==
  /\ handler = "reading" /\ ~Complete /\ client = "done"
  /\ \A n \in 0..Room : ~Found(n)
  /\ NoString
  /\ UNCHANGED <<clientvars, wire>>

(* CONNECT of a client that is gone: it has no address any more.           *)
getpeername ==
  /\ handler = "reading" /\ Complete /\ Operation = "CONNECT" /\ client = "done"
  /\ handler' = "closed"
  /\ UNCHANGED <<clientvars, wire, strings, response>>

(* The operation is performed on what was read, or refused; an array of    *)
(* files that cannot grow is PUBLISH's other 4.                            *)
Perform ==
  /\ handler = "reading" /\ Complete
  /\ response' \in {0, 1} \cup (IF Operation = "PUBLISH" THEN {4} ELSE {})
  /\ handler' = "responded"
  /\ UNCHANGED <<clientvars, wire, strings>>

Close ==
  /\ handler = "responded"
  /\ handler' = "closed"
  /\ UNCHANGED <<clientvars, wire, strings, response>>

Sending == Request \/ send_string \/ Response
handle_client == read_string \/ ReadError \/ getpeername \/ Perform \/ Close

Next ==
  (\E o \in Ops : Command(o)) \/ get_datetime \/ Sending \/ Lost \/ Kill \/ handle_client

Spec == Init /\ [][Next]_vars

(* The two processes run.  Of the web service nothing is assumed.          *)
FairSpec == Spec /\ WF_vars(Sending) /\ WF_vars(handle_client)

----------------------------------------------------------------------------
TypeOK ==
  /\ part \in Parts /\ op \in DOMAIN Sends \cup {"none"}
  /\ client \in {"prompt", "dating", "dated", "sending", "done"}
  /\ arguments \in Seq(Seq(Bytes \X Nat)) /\ outbox \in Seq(Seq(Bytes \X Nat))
  /\ result \in {"none", "OK", "REFUSED", "FAIL"}
  /\ trouble \in {"none", "connection", "disk"}
  /\ wire \in Seq((Bytes \X Nat) \cup {NUL})
  /\ handler \in {"none", "reading", "responded", "closed"}
  /\ strings \in Seq(Seq(Bytes \X Nat))
  /\ \A i \in DOMAIN strings : Len(strings[i]) \in 1..(MaxString - 1)
  /\ response \in {-1, 0, 1, 4}

(* Every argument that was typed fits in the buffers of the server.  One   *)
(* that does not is cut, and its rest taken for the next one.              *)
Fits == \A i \in DOMAIN arguments : Len(arguments[i]) < MaxString

(* The server performs what the user typed: when it answers 0, each of its *)
(* variables holds the argument of that name, whole, whatever part client  *)
(* and server are of.  Nothing on the wire says where a request ends or    *)
(* how many strings it has.                                                *)
PerformedIsTyped ==
  response = 0 /\ Fits =>
    /\ strings[1] = String(op, 1)
    /\ LET names == Reads(op)
       IN  \A i \in DOMAIN names :
             \E j \in DOMAIN arguments :
               Sends[op][j] = names[i] /\ strings[Prefix + i] = arguments[j]

(* A command that printed FAIL, although its connection held and the disk  *)
(* obeyed, was not performed: neither a send that raises because the       *)
(* server has closed, nor a 4, nor a close without an answer comes after   *)
(* the request was carried out.  (A connection that is lost may hide that  *)
(* it was, and so may a file that could not be made or removed.)           *)
FailChangesNothing == result = "FAIL" /\ trouble = "none" /\ Fits => response # 0

(* A command whose strings are being sent ends, whatever they are: the     *)
(* handler never waits for a string that the client does not send.         *)
CommandReturns == client = "sending" ~> client = "done"

=============================================================================
