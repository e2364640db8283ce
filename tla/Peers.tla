-------------------------------- MODULE Peers --------------------------------
(***************************************************************************)
(* The client program: its commands, what it remembers between them, its   *)
(* listening socket and the files it shares, for several clients against   *)
(* the directory that the main server implements.                          *)
(*                                                                         *)
(* A command is a sequence of exchanges.  In each the client opens a       *)
(* connection, sends one request and waits for one answer; what happens to *)
(* the request meanwhile is Dir's affair.  A connection the client gives   *)
(* up on lives on at the server, which may still execute its request.      *)
(*                                                                         *)
(* The clients share one host: an endpoint is a port, and one that is free *)
(* may be given to any of them.  Module Listener has the threads behind    *)
(* listener_socket, module FileTransfer the steps of a download.           *)
(***************************************************************************)
EXTENDS Integers, FiniteSets

CONSTANTS
  Names, Files, Endpoints, Anonymous, Offline,
  Peers,      \* the clients
  Conns,      \* connections to the server that can be open at one time
  Types,      \* [Peers -> SUBSET Names], the names typed at each prompt
  Commands,   \* the commands typed in this instance
  Faults,     \* what may go wrong: "refused", "unanswered", "broken", "killed",
              \* "disk" and "threads"
  MayLose,    \* may the server answer a REGISTER 0 that it could not store?
  Downloads,  \* the local names typed for GET_FILE
  MaxCopies,  \* bound on the copies of a file that one user publishes
  None        \* Python's None

ASSUME PeersAssumption ==
  /\ None \notin Names \cup Conns \cup Endpoints
  /\ Offline \notin Endpoints
  /\ Anonymous \notin Names
  /\ Types \in [Peers -> SUBSET Names]
  /\ MaxCopies \in Nat
  /\ MayLose \in BOOLEAN
  /\ IsFiniteSet(Peers)

VARIABLES
  registered, online, published, phase, request, reply,  \* the directory's
  registered_user,   \* _registered_user of each client
  connected_user,    \* _connected_user
  listener_socket,   \* _listener_socket: the port it listens on, or None
  old_threads,       \* closed ports on which a thread still waits in accept
  unstarted,         \* the clients whose _listener_thread was never started
  disk,              \* the files in the client's directory
  doubtful,          \* files that may be listed and not be there (history)
  shell,             \* where its main thread is
  command,           \* the command being executed
  sock               \* its connection to the server, or None

dirvars == <<registered, online, published, phase, request, reply>>
session == <<registered_user, connected_user>>
sockets == <<listener_socket, old_threads, unstarted>>
files == <<disk, doubtful>>
vars == <<dirvars, session, sockets, files, shell, command, sock>>

Dir == INSTANCE Directory WITH Clients <- Conns, Requests <- {}

NoCommand == [op |-> "NONE"]

CommandsOf(p) ==
  [op : {"REGISTER", "UNREGISTER", "CONNECT", "DISCONNECT"} \cap Commands,
   user : Types[p]]
  \cup [op : {"PUBLISH", "DELETE"} \cap Commands, file : Files]
  \cup [op : {"LIST_USERS", "QUIT"} \cap Commands]
  \cup [op : {"LIST_CONTENT"} \cap Commands, user : Names]
  \cup [op : {"GET_FILE"} \cap Commands, user : Names, file : Files, local : Downloads]

Init ==
  /\ Dir!Init
  /\ registered_user = [p \in Peers |-> None]
  /\ connected_user = [p \in Peers |-> None]
  /\ listener_socket = [p \in Peers |-> None]
  /\ old_threads = [p \in Peers |-> {}]
  /\ unstarted = {}
  /\ disk = [p \in Peers |-> {}]
  /\ doubtful = [p \in Peers |-> {}]
  /\ shell = [p \in Peers |-> "prompt"]
  /\ command = [p \in Peers |-> NoCommand]
  /\ sock = [p \in Peers |-> None]

----------------------------------------------------------------------------
(* One exchange with the server. *)

Goto(p, label) == shell' = [shell EXCEPT ![p] = label]

Executes(p, op) == shell[p] = op /\ command[p].op = op

(* The method returns and the shell prints its prompt. *)
Back(p) == Goto(p, "prompt") /\ command' = [command EXCEPT ![p] = NoCommand]

(* connect_to_server, get_datetime and the sends.  A connection is opened  *)
(* here in the model: it means nothing to the server before its request.   *)
Ask(p, r, label) ==
  /\ \E c \in Conns : Dir!Invoke(c, r) /\ sock' = [sock EXCEPT ![p] = c]
  /\ Goto(p, label)
  /\ UNCHANGED command

(* connect_to_server returns None, or what comes before the answer raises. *)
Refused == "refused" \in Faults /\ UNCHANGED <<dirvars, sock>>

(* The client waits for the answer to op. *)
Awaits(p, op) == shell[p] = "recv" /\ command[p].op = op

FaultyAnswered(p) ==
  /\ sock[p] # None /\ phase[sock[p]] = "done"
  /\ Dir!Return(sock[p])
  /\ UNCHANGED sock

Answered(p) ==
  /\ sock[p] # None /\ phase[sock[p]] = "done"
  /\ Dir!Return(sock[p])
  /\ sock' = [sock EXCEPT ![p] = None]

Code(p) == reply[sock[p]].code

(* recv returns nothing or raises: the server has closed without a word,   *)
(* or the connection is lost and the server does not know yet.             *)
Interrupted(p) ==
  /\ sock[p] # None
  /\ \/ /\ "unanswered" \in Faults
        /\ phase[sock[p]] = "pending" /\ Dir!Return(sock[p])
     \/ "broken" \in Faults /\ UNCHANGED dirvars
  /\ sock' = [sock EXCEPT ![p] = None]

Finished(p) == Answered(p) \/ Interrupted(p)

(* The user in whose name the content commands are sent. *)
Sender(p) ==
  IF registered_user[p] = None THEN Anonymous ELSE registered_user[p]

----------------------------------------------------------------------------
(* REGISTER and UNREGISTER. *)

register(p) ==
  /\ \/ /\ Executes(p, "REGISTER")
        /\ \/ Ask(p, [op |-> "REGISTER", username |-> command[p].user], "recv")
           \/ Refused /\ Back(p)
        /\ UNCHANGED registered_user
     \/ /\ Awaits(p, "REGISTER") /\ Back(p)
        /\ \/ /\ Answered(p) /\ Code(p) = 0
              /\ registered_user' = [registered_user EXCEPT ![p] = command[p].user]
           \/ Answered(p) /\ Code(p) # 0 /\ UNCHANGED registered_user
           \/ Interrupted(p) /\ UNCHANGED registered_user
  /\ UNCHANGED <<connected_user, sockets, files>>

(* The user is forgotten whatever the outcome and whoever it names. *)
Forget(p) == registered_user' = [registered_user EXCEPT ![p] = None]

(* The user stays connected here. *)
FaultyUnregister(p) ==
  /\ \/ /\ Executes(p, "UNREGISTER")
        /\ \/ Ask(p, [op |-> "UNREGISTER", username |-> command[p].user], "recv")
              /\ UNCHANGED registered_user
           \/ Refused /\ Back(p) /\ Forget(p)
     \/ Awaits(p, "UNREGISTER") /\ Finished(p) /\ Back(p) /\ Forget(p)
  /\ UNCHANGED <<connected_user, sockets, files>>

(* A user who is connected here is disconnected first, on a connection of  *)
(* its own, which is opened second.                                        *)
unregister(p) ==
  /\ \/ /\ Executes(p, "UNREGISTER")
        /\ \/ /\ \/ connected_user[p] = command[p].user /\ Goto(p, "disconnect")
                 \/ connected_user[p] # command[p].user /\ Goto(p, "unregister")
              /\ UNCHANGED <<dirvars, sock, command, registered_user>>
           \/ Refused /\ Back(p) /\ Forget(p)
     \/ /\ shell[p] = "unregister"
        /\ \/ /\ Ask(p, [op |-> "UNREGISTER", username |-> command[p].user], "recv")
              /\ UNCHANGED registered_user
           \/ Refused /\ Back(p) /\ Forget(p)
     \/ Awaits(p, "UNREGISTER") /\ Finished(p) /\ Back(p) /\ Forget(p)
  /\ UNCHANGED <<connected_user, sockets, files>>

----------------------------------------------------------------------------
(* CONNECT and DISCONNECT. *)

Taken == {listener_socket[p] : p \in Peers} \cup UNION {old_threads[p] : p \in Peers}

(* create_listener_socket fails, or the thread does not start: then the    *)
(* socket and the thread object stay.                                      *)
ListenFails(p) ==
  /\ "threads" \in Faults
  /\ \/ UNCHANGED <<listener_socket, unstarted>>
     \/ /\ \E e \in Endpoints \ Taken :
             listener_socket' = [listener_socket EXCEPT ![p] = e]
        /\ unstarted' = unstarted \cup {p}

(* The listening socket is made before the server is asked, and kept       *)
(* whatever it answers; an existing one is used again, also when the       *)
(* thread that was to accept on it has not started.                        *)
connect(p) ==
  /\ \/ /\ Executes(p, "CONNECT")
        /\ \/ \E e \in IF listener_socket[p] = None THEN Endpoints \ Taken
                       ELSE {listener_socket[p]} :
                /\ listener_socket' = [listener_socket EXCEPT ![p] = e]
                /\ unstarted' = IF listener_socket[p] = None THEN unstarted \ {p}
                                ELSE unstarted
                /\ \/ Ask(p, [op |-> "CONNECT", username |-> command[p].user,
                              endpoint |-> e], "recv")
                   \/ Refused /\ Back(p)
           \/ /\ listener_socket[p] = None
              /\ ListenFails(p) /\ Back(p) /\ UNCHANGED <<dirvars, sock>>
        /\ UNCHANGED connected_user
     \/ /\ Awaits(p, "CONNECT") /\ Back(p)
        /\ UNCHANGED <<listener_socket, unstarted>>
        /\ \/ /\ Answered(p) /\ Code(p) = 0
              /\ connected_user' = [connected_user EXCEPT ![p] = command[p].user]
           \/ Answered(p) /\ Code(p) # 0 /\ UNCHANGED connected_user
           \/ Interrupted(p) /\ UNCHANGED connected_user
  /\ UNCHANGED <<registered_user, old_threads, files>>

(* The listening socket and its thread are given up.  A thread blocked in  *)
(* accept does not notice and keeps the port until somebody connects.      *)
(* Bound: at least one endpoint per client is left to listen on.           *)
CloseListener(p) ==
  /\ listener_socket' = [listener_socket EXCEPT ![p] = None]
  /\ \/ UNCHANGED old_threads
     \/ /\ listener_socket[p] # None
        /\ Cardinality(Endpoints)
             > Cardinality(UNION {old_threads[q] : q \in Peers}) + Cardinality(Peers)
        /\ old_threads' = [old_threads EXCEPT ![p] = @ \cup {listener_socket[p]}]

(* Where disconnect was called: by the shell, by unregister or by QUIT. *)
Return(p) ==
  \/ command[p].op = "DISCONNECT" /\ Back(p)
  \/ command[p].op = "UNREGISTER" /\ Goto(p, "unregister") /\ UNCHANGED command
  \/ command[p].op = "QUIT" /\ Goto(p, "break") /\ UNCHANGED command

(* _connected_user is not reset. *)
FaultyDisconnected(p) == Return(p) /\ UNCHANGED session

Disconnected(p) ==
  /\ connected_user' = [connected_user EXCEPT ![p] = None]
  /\ Return(p) /\ UNCHANGED registered_user

(* join raises, and again in the handler of that exception; unregister     *)
(* handles it as any other, and the shell, QUIT included, prompts again.   *)
JoinRaises(p) ==
  /\ Back(p) /\ UNCHANGED connected_user
  /\ \/ command[p].op = "UNREGISTER" /\ Forget(p)
     \/ command[p].op # "UNREGISTER" /\ UNCHANGED registered_user

(* All paths end alike, server or no server, whatever it answers: the      *)
(* thread is joined after the socket was closed.                           *)
StopListening(p) ==
  /\ CloseListener(p) /\ UNCHANGED unstarted
  /\ \/ p \in unstarted /\ JoinRaises(p)
     \/ p \notin unstarted /\ Disconnected(p)

User(p) == IF command[p].op = "QUIT" THEN connected_user[p] ELSE command[p].user

disconnect(p) ==
  /\ \/ /\ shell[p] \in {"DISCONNECT", "disconnect"}
        /\ \/ /\ Ask(p, [op |-> "DISCONNECT", username |-> User(p)], "recv disconnect")
              /\ UNCHANGED <<session, sockets>>
           \/ Refused /\ StopListening(p)
     \/ shell[p] = "recv disconnect" /\ Finished(p) /\ StopListening(p)
  /\ UNCHANGED files

----------------------------------------------------------------------------
(* The content commands. *)

(* A PUBLISH whose last word is not "PUBLISH OK" may be in force at the    *)
(* server, or come into force later, and the file not be there.            *)
Doubt(p, f) == doubtful' = [doubtful EXCEPT ![p] = @ \cup {f}]

(* The file is made on disk, if it is not there, once the server agrees;   *)
(* what goes wrong then is reported as a PUBLISH that failed.              *)
publish(p) ==
  LET f == command[p].file
  IN  /\ \/ /\ Executes(p, "PUBLISH")
            /\ \/ Ask(p, [op |-> "PUBLISH", username |-> Sender(p), filename |-> f], "recv")
               \/ Refused /\ Back(p)
            /\ UNCHANGED files
         \/ /\ Awaits(p, "PUBLISH") /\ Back(p)
            /\ \/ /\ Answered(p) /\ Code(p) = 0
                  /\ disk' = [disk EXCEPT ![p] = @ \cup {f}]
                  /\ UNCHANGED doubtful
               \/ /\ "disk" \in Faults /\ f \notin disk[p]
                  /\ Answered(p) /\ Code(p) = 0
                  /\ UNCHANGED disk /\ Doubt(p, f)
               \/ Answered(p) /\ Code(p) # 0 /\ UNCHANGED disk /\ Doubt(p, f)
               \/ Interrupted(p) /\ UNCHANGED disk /\ Doubt(p, f)
      /\ UNCHANGED <<session, sockets>>

(* The file is removed before the server is asked. *)
FaultyDelete(p) ==
  /\ \/ /\ Executes(p, "DELETE")
        /\ \/ Ask(p, [op |-> "DELETE", username |-> Sender(p),
                      filename |-> command[p].file], "recv")
           \/ Refused /\ Back(p)
        /\ disk' = [disk EXCEPT ![p] = @ \ {command[p].file}]
     \/ Awaits(p, "DELETE") /\ Finished(p) /\ Back(p) /\ UNCHANGED disk
  /\ UNCHANGED <<session, sockets, doubtful>>

(* The file is removed once the server agrees; if it cannot be, it stays.  *)
delete(p) ==
  /\ \/ /\ Executes(p, "DELETE")
        /\ \/ Ask(p, [op |-> "DELETE", username |-> Sender(p),
                      filename |-> command[p].file], "recv")
           \/ Refused /\ Back(p)
        /\ UNCHANGED disk
     \/ /\ Awaits(p, "DELETE") /\ Back(p)
        /\ \/ /\ Answered(p) /\ Code(p) = 0
              /\ disk' = [disk EXCEPT ![p] = @ \ {command[p].file}]
           \/ "disk" \in Faults /\ Answered(p) /\ Code(p) = 0 /\ UNCHANGED disk
           \/ Answered(p) /\ Code(p) # 0 /\ UNCHANGED disk
           \/ Interrupted(p) /\ UNCHANGED disk
  /\ UNCHANGED <<session, sockets, doubtful>>

(* The listings are printed and leave nothing behind. *)
listusers(p) ==
  /\ \/ /\ Executes(p, "LIST_USERS")
        /\ \/ Ask(p, [op |-> "LIST_USERS", username |-> Sender(p)], "recv")
           \/ Refused /\ Back(p)
     \/ Awaits(p, "LIST_USERS") /\ Finished(p) /\ Back(p)
  /\ UNCHANGED <<session, sockets, files>>

listcontent(p) ==
  /\ \/ /\ Executes(p, "LIST_CONTENT")
        /\ \/ Ask(p, [op |-> "LIST_CONTENT", username |-> Sender(p),
                      remote |-> command[p].user], "recv")
           \/ Refused /\ Back(p)
     \/ Awaits(p, "LIST_CONTENT") /\ Finished(p) /\ Back(p)
  /\ UNCHANGED <<session, sockets, files>>

----------------------------------------------------------------------------
(* GET_FILE: a LIST_USERS in the name of the connected user, then a        *)
(* download from where the other user was at that moment.                  *)

(* A refused listing is empty, and finds nobody. *)
Where(p) == {e \in Endpoints : <<command[p].user, e>> \in reply[sock[p]].listing}

(* With no connected user the send raises before the request is complete. *)
getfile(p) ==
  /\ \/ /\ Executes(p, "GET_FILE")
        /\ \/ /\ connected_user[p] # None
              /\ Ask(p, [op |-> "LIST_USERS", username |-> connected_user[p]], "recv")
           \/ connected_user[p] = None /\ Back(p) /\ UNCHANGED <<dirvars, sock>>
           \/ Refused /\ Back(p)
     \/ /\ Awaits(p, "GET_FILE")
        /\ \/ /\ Answered(p)
              /\ \E e \in Where(p) :
                   /\ command' = [command EXCEPT ![p] =
                        [op |-> "GET_FILE", user |-> @.user, file |-> @.file,
                         local |-> @.local, remote |-> e]]
                   /\ Goto(p, "dial")
           \/ Answered(p) /\ Where(p) = {} /\ Back(p)
           \/ Interrupted(p) /\ Back(p)
  /\ UNCHANGED <<session, sockets, files>>

(* Nobody listens there any more, nobody accepts before the port is        *)
(* closed, or the connection breaks before the file is announced.          *)
DialFails(p) ==
  /\ shell[p] = "dial" /\ Back(p)
  /\ UNCHANGED <<dirvars, session, sockets, files, sock>>

(* Whoever holds the port answers, one of its old threads too; a thread on *)
(* a closed port ends then, unless a second one waits there.  Nobody has   *)
(* to answer: the dial may wait for ever.                                  *)
Serve(p, q) ==
  LET e == command[p].remote
  IN  /\ shell[p] = "dial"
      /\ \/ listener_socket[q] = e /\ UNCHANGED old_threads
         \/ /\ e \in old_threads[q]
            /\ \/ UNCHANGED old_threads
               \/ old_threads' = [old_threads EXCEPT ![q] = @ \ {e}]
      /\ \/ command[p].file \in disk[q] /\ Goto(p, "receive") /\ UNCHANGED command
         \/ command[p].file \notin disk[q] /\ Back(p)
      /\ UNCHANGED <<dirvars, session, listener_socket, unstarted, files, sock>>

(* The local file is kept when it is whole and removed when it is not, or  *)
(* never opened.                                                           *)
Download(p) ==
  /\ shell[p] = "receive" /\ Back(p)
  /\ \/ disk' = [disk EXCEPT ![p] = @ \cup {command[p].local}] /\ UNCHANGED doubtful
     \/ /\ disk' = [disk EXCEPT ![p] = @ \ {command[p].local}]
        /\ Doubt(p, command[p].local)
     \/ UNCHANGED files
  /\ UNCHANGED <<dirvars, session, sockets, sock>>

----------------------------------------------------------------------------
(* The shell and the process. *)

(* Bound: PUBLISH is typed only while MaxCopies leaves room. *)
RoomToPublish(p, f) ==
  LET n == Sender(p)
  IN  n # Anonymous =>
        Cardinality({q \in Peers : command[q].op = "PUBLISH" /\ Sender(q) = n})
          + published[n][f] < MaxCopies

Type(p) ==
  /\ shell[p] = "prompt"
  /\ \E cmd \in CommandsOf(p) :
       /\ cmd.op = "PUBLISH" => RoomToPublish(p, cmd.file)
       /\ command' = [command EXCEPT ![p] = cmd]
       /\ Goto(p, cmd.op)
  /\ UNCHANGED <<dirvars, session, sockets, files, sock>>

(* The process ends, and with it its daemon threads and its sockets. *)
Exit(p) ==
  /\ Goto(p, "exited") /\ command' = [command EXCEPT ![p] = NoCommand]
  /\ registered_user' = [registered_user EXCEPT ![p] = None]
  /\ connected_user' = [connected_user EXCEPT ![p] = None]
  /\ listener_socket' = [listener_socket EXCEPT ![p] = None]
  /\ old_threads' = [old_threads EXCEPT ![p] = {}]
  /\ unstarted' = unstarted \ {p}
  /\ sock' = [sock EXCEPT ![p] = None]
  /\ UNCHANGED dirvars

FaultyQuit(p) == Executes(p, "QUIT") /\ Exit(p) /\ UNCHANGED files

(* The connected user, the last one if there were several, is disconnected *)
(* before the process ends.                                                *)
Quit(p) ==
  \/ /\ Executes(p, "QUIT") /\ connected_user[p] # None
     /\ Goto(p, "disconnect")
     /\ UNCHANGED <<dirvars, session, sockets, files, command, sock>>
  \/ /\ Executes(p, "QUIT") /\ connected_user[p] = None
     /\ Exit(p) /\ UNCHANGED files
  \/ shell[p] = "break" /\ Exit(p) /\ UNCHANGED files

(* A PUBLISH on its way is in doubt; a download may leave part of a file.  *)
Kill(p) ==
  /\ "killed" \in Faults /\ shell[p] # "exited" /\ Exit(p)
  /\ \/ Awaits(p, "PUBLISH") /\ Doubt(p, command[p].file) /\ UNCHANGED disk
     \/ /\ shell[p] = "receive" /\ UNCHANGED doubtful
        /\ disk' = [disk EXCEPT ![p] = @ \cup {command[p].local}]
     \/ ~Awaits(p, "PUBLISH") /\ UNCHANGED files

(* The program is started again in the same directory. *)
Start(p) ==
  /\ shell[p] = "exited" /\ Goto(p, "prompt")
  /\ UNCHANGED <<dirvars, session, sockets, files, command, sock>>

(* The server ends a connection that its client has given up. *)
HangUp(c) ==
  /\ \A p \in Peers : sock[p] # c
  /\ Dir!Return(c)
  /\ UNCHANGED <<session, sockets, files, shell, command, sock>>

Perform(c) ==
  /\ Dir!Perform(c)
  /\ UNCHANGED <<session, sockets, files, shell, command, sock>>

(* What the main thread does by itself once a command has been typed. *)
Run(p) ==
  \/ register(p) \/ unregister(p) \/ connect(p) \/ disconnect(p)
  \/ publish(p) \/ delete(p) \/ listusers(p) \/ listcontent(p)
  \/ getfile(p) \/ DialFails(p) \/ (\E q \in Peers : Serve(p, q)) \/ Download(p)
  \/ Quit(p)

Next ==
  \/ \E p \in Peers : Type(p) \/ Run(p) \/ Kill(p) \/ Start(p)
  \/ \E c \in Conns : Perform(c) \/ HangUp(c)

Spec == Init /\ [][Next]_vars

=============================================================================
