----------------------------- MODULE PeersProofs -----------------------------
(***************************************************************************)
(* Proofs about any number of clients, names, files and ports.             *)
(*                                                                         *)
(* Whatever is typed and whatever goes wrong: a client that takes itself   *)
(* for connected listens, unless its listener thread did not start; the    *)
(* directory keeps nothing of a name that is not registered; a listed file *)
(* is on disk or in doubt; and the variables keep their types.             *)
(*                                                                         *)
(* While requests are not given up and answered late, what a client        *)
(* believes is what the server lists; while every request is answered,     *)
(* what the server lists can be reached.  The steps of a client are of two *)
(* kinds, it asks or it goes on, and one of the server answers one         *)
(* connection: the invariants are carried through these three, and each    *)
(* handler is shown once to be one of them.                                *)
(***************************************************************************)
EXTENDS PeersProperties, FiniteSetTheorems, TLAPS

USE PeersAssumption DEF files

----------------------------------------------------------------------------
(* A connected client listens.                                             *)

(* The variables of a client, each a function of the clients.              *)
Shape ==
  /\ listener_socket \in [Peers -> OrNone(Endpoints)]
  /\ connected_user = [p \in Peers |-> connected_user[p]]
  /\ shell = [p \in Peers |-> shell[p]]
  /\ command = [p \in Peers |-> command[p]]

(* The socket is there before the CONNECT is sent, and until its answer.   *)
ConnectingListens ==
  \A p \in Peers : Awaits(p, "CONNECT") => listener_socket[p] # None

(* A CONNECT never reaches the second half of unregister.                  *)
UnregisterOnly == \A p \in Peers : shell[p] = "unregister" => command[p].op # "CONNECT"

LInv == Shape /\ UnregisterOnly /\ ConnectingListens /\ ConnectedListens

(* The invariant holds at the start.                                       *)
LEMMA InitLInv == Init => LInv
BY DEF Init, LInv, Shape, UnregisterOnly, ConnectingListens, ConnectedListens,
       NoCommand, Awaits, OrNone

(* Every step of a client: what it may do to its own variables.            *)
Moves(p) ==
  /\ unstarted' \in {unstarted, unstarted \cup {p}, unstarted \ {p}}
  /\ \E s : shell' = [shell EXCEPT ![p] = s]
  /\ command' = command \/ \E m : command' = [command EXCEPT ![p] = m]
  /\ connected_user' = connected_user
       \/ \E u : connected_user' = [connected_user EXCEPT ![p] = u]
  /\ listener_socket' = listener_socket
       \/ \E e \in OrNone(Endpoints) : listener_socket' = [listener_socket EXCEPT ![p] = e]

(* A step of one client keeps the invariant if it keeps it for that client. *)
LEMMA Step ==
  ASSUME LInv, NEW p \in Peers, Moves(p),
         shell'[p] = "unregister" => command'[p].op # "CONNECT",
         shell'[p] = "recv" /\ command'[p].op = "CONNECT" => listener_socket'[p] # None,
         connected_user'[p] # None => listener_socket'[p] # None \/ p \in unstarted'
  PROVE  LInv'
<1>1. Shape'
  BY DEF LInv, Shape, Moves
<1>2. ASSUME NEW q \in Peers, q # p
      PROVE  /\ shell'[q] = shell[q] /\ command'[q] = command[q]
             /\ connected_user'[q] = connected_user[q]
             /\ listener_socket'[q] = listener_socket[q]
             /\ q \in unstarted => q \in unstarted'
  BY <1>2 DEF LInv, Shape, Moves
<1>3. UnregisterOnly' /\ ConnectingListens' /\ ConnectedListens'
  BY <1>2 DEF LInv, UnregisterOnly, ConnectingListens, ConnectedListens, Awaits
<1> QED
  BY <1>1, <1>3 DEF LInv

(* A step that leaves the clients alone keeps the invariant.               *)
LEMMA Same ==
  ASSUME LInv, UNCHANGED <<shell, command, connected_user, listener_socket, unstarted>>
  PROVE  LInv'
BY DEF LInv, Shape, UnregisterOnly, ConnectingListens, ConnectedListens, Awaits

(* The user types a command, or leaves: no session or listener moves.      *)
LEMMA TypeStep == ASSUME LInv, NEW p \in Peers, Type(p) PROVE LInv'
<1>1. PICK cmd \in CommandsOf(p) :
        command' = [command EXCEPT ![p] = cmd] /\ shell' = [shell EXCEPT ![p] = cmd.op]
  BY DEF Type, Goto
<1>2. cmd.op \notin {"recv", "unregister"}
  BY DEF CommandsOf
<1>3. UNCHANGED <<connected_user, listener_socket, unstarted>>
  BY DEF Type, session, sockets
<1>4. Moves(p)
  BY <1>1, <1>3 DEF Moves
<1>5. command'[p] = cmd /\ shell'[p] = cmd.op
  BY <1>1 DEF LInv, Shape
<1> QED
  BY <1>2, <1>3, <1>4, <1>5, Step DEF LInv, ConnectedListens

(* The methods that leave the connection and the listener alone.           *)
LEMMA QuietStep ==
  ASSUME LInv, NEW p \in Peers,
         UNCHANGED <<connected_user, listener_socket, unstarted>>,
         \E s : shell' = [shell EXCEPT ![p] = s],
         \/ /\ UNCHANGED command
            /\ shell'[p] \in {"recv", "unregister"} => command[p].op # "CONNECT"
         \/ \E m : /\ command' = [command EXCEPT ![p] = m]
                   /\ m.op # "CONNECT" \/ shell'[p] \notin {"recv", "unregister"}
  PROVE  LInv'
<1>1. Moves(p)
  BY DEF Moves
<1>2. shell'[p] \in {"recv", "unregister"} => command'[p].op # "CONNECT"
  BY DEF LInv, Shape
<1> QED
  BY <1>1, <1>2, Step DEF LInv, ConnectedListens

(* Coming back to the prompt moves one shell and forgets its command.      *)
LEMMA BackStep ==
  ASSUME LInv, NEW p \in Peers, Back(p)
  PROVE  /\ shell' = [shell EXCEPT ![p] = "prompt"] /\ shell'[p] = "prompt"
         /\ command' = [command EXCEPT ![p] = NoCommand]
         /\ command'[p].op = "NONE" /\ NoCommand.op = "NONE"
BY DEF Back, Goto, LInv, Shape, NoCommand

(* Dialling the server moves one shell only.                               *)
LEMMA AskStep ==
  ASSUME LInv, NEW p \in Peers, NEW r, NEW l, Ask(p, r, l)
  PROVE  shell' = [shell EXCEPT ![p] = l] /\ shell'[p] = l /\ UNCHANGED command
BY DEF Ask, Goto, LInv, Shape

(* register, unregister, publish, delete and the listings are quiet.       *)
LEMMA QuietMethods ==
  ASSUME LInv, NEW p \in Peers,
         \/ register(p) \/ unregister(p) \/ publish(p) \/ delete(p)
         \/ listusers(p) \/ listcontent(p)
  PROVE  LInv'
<1> USE DEF Executes
<1>0. UNCHANGED <<connected_user, listener_socket, unstarted>>
  BY DEF register, unregister, publish, delete, listusers, listcontent, session, sockets
<1>1. \/ Back(p)
      \/ /\ \E l \in {"disconnect", "unregister"} : shell' = [shell EXCEPT ![p] = l]
         /\ UNCHANGED command /\ command[p].op # "CONNECT"
      \/ command[p].op # "CONNECT" /\ \E r : Ask(p, r, "recv")
  <2>0. shell[p] = "unregister" => command[p].op # "CONNECT"
    BY DEF LInv, UnregisterOnly
  <2> QED
    BY <2>0 DEF register, unregister, publish, delete, listusers, listcontent, Goto
<1>2. CASE Back(p)
  BY <1>0, <1>2, BackStep, QuietStep
<1>3. CASE /\ \E l \in {"disconnect", "unregister"} : shell' = [shell EXCEPT ![p] = l]
           /\ UNCHANGED command /\ command[p].op # "CONNECT"
  <2>1. shell'[p] # "recv"
    BY <1>3 DEF LInv, Shape
  <2> QED
    BY <1>0, <1>3, <2>1, QuietStep
<1>4. CASE command[p].op # "CONNECT" /\ \E r : Ask(p, r, "recv")
  BY <1>0, <1>4, AskStep, QuietStep
<1> QED
  BY <1>1, <1>2, <1>3, <1>4

(* getfile is quiet, whatever it is told at each of its steps.             *)
LEMMA GetfileStep == ASSUME LInv, NEW p \in Peers, getfile(p) PROVE LInv'
<1>0. UNCHANGED <<connected_user, listener_socket, unstarted>>
  BY DEF getfile, session, sockets
<1>1. \/ Back(p)
      \/ command[p].op # "CONNECT" /\ \E r : Ask(p, r, "recv")
      \/ \E m : /\ command' = [command EXCEPT ![p] = m] /\ m.op = "GET_FILE"
                /\ shell' = [shell EXCEPT ![p] = "dial"]
  <2>1. CASE Executes(p, "GET_FILE")
    BY <2>1 DEF getfile, Executes, Awaits
  <2>2. CASE Awaits(p, "GET_FILE")
    <3>1. CASE Answered(p) /\ \E e \in Where(p) :
                   /\ command' = [command EXCEPT ![p] =
                        [op |-> "GET_FILE", user |-> @.user, file |-> @.file,
                         local |-> @.local, remote |-> e]]
                   /\ Goto(p, "dial")
      <4>1. PICK e \in Where(p) :
               /\ command' = [command EXCEPT ![p] =
                        [op |-> "GET_FILE", user |-> command[p].user,
                         file |-> command[p].file, local |-> command[p].local,
                         remote |-> e]]
               /\ Goto(p, "dial")
        BY <3>1
      <4> DEFINE m == [op |-> "GET_FILE", user |-> command[p].user,
                       file |-> command[p].file, local |-> command[p].local,
                       remote |-> e]
      <4>2. m.op = "GET_FILE"
        OBVIOUS
      <4> QED
        BY <4>1, <4>2 DEF Goto
    <3> QED
      BY <2>2, <3>1 DEF getfile, Executes, Awaits
  <2> QED
    BY <2>1, <2>2 DEF getfile
<1>2. CASE Back(p)
  BY <1>0, <1>2, BackStep, QuietStep
<1>3. CASE command[p].op # "CONNECT" /\ \E r : Ask(p, r, "recv")
  BY <1>0, <1>3, AskStep, QuietStep
<1>4. CASE \E m : /\ command' = [command EXCEPT ![p] = m] /\ m.op = "GET_FILE"
                  /\ shell' = [shell EXCEPT ![p] = "dial"]
  <2>1. shell'[p] # "recv"
    BY <1>4 DEF LInv, Shape
  <2> QED
    BY <1>0, <1>4, <2>1, QuietStep
<1> QED
  BY <1>1, <1>2, <1>3, <1>4

(* connect makes the socket before it asks, or does not ask.               *)
LEMMA ConnectStep == ASSUME LInv, NEW p \in Peers, connect(p) PROVE LInv'
<1> USE DEF Executes, Awaits
<1>1. CASE Executes(p, "CONNECT")
  <2>0. UNCHANGED connected_user
    BY <1>1 DEF connect
  <2>1. CASE ListenFails(p) /\ Back(p) /\ listener_socket[p] = None
    <3>1. connected_user[p] # None => p \in unstarted
      BY <2>1 DEF LInv, ConnectedListens
    <3>2. CASE UNCHANGED <<listener_socket, unstarted>>
      BY <2>0, <2>1, <3>2, BackStep, QuietStep
    <3>3. CASE ~UNCHANGED <<listener_socket, unstarted>>
      <4>1. PICK e \in Endpoints : listener_socket' = [listener_socket EXCEPT ![p] = e]
        BY <2>1, <3>3 DEF ListenFails
      <4>2. unstarted' = unstarted \cup {p}
        BY <2>1, <3>3 DEF ListenFails
      <4>3. Moves(p)
        BY <2>0, <2>1, <4>1, <4>2, BackStep DEF Moves, OrNone
      <4> QED
        BY <2>1, <4>2, <4>3, BackStep, Step
    <3> QED
      BY <3>2, <3>3
  <2>2. CASE ~(ListenFails(p) /\ Back(p) /\ listener_socket[p] = None)
    <3>1. PICK e \in IF listener_socket[p] = None THEN Endpoints \ Taken
                     ELSE {listener_socket[p]} :
             /\ listener_socket' = [listener_socket EXCEPT ![p] = e]
             /\ unstarted' \in {unstarted, unstarted \ {p}}
             /\ Back(p) \/ \E r : Ask(p, r, "recv")
      BY <1>1, <2>2 DEF connect
    <3>2. e \in Endpoints /\ e # None
      BY <3>1 DEF LInv, Shape, OrNone
    <3>3. listener_socket'[p] # None
      BY <3>1, <3>2 DEF LInv, Shape
    <3>4. /\ \E l \in {"prompt", "recv"} : shell' = [shell EXCEPT ![p] = l] /\ shell'[p] = l
          /\ command' = command \/ \E m : command' = [command EXCEPT ![p] = m]
      BY <3>1, BackStep, AskStep
    <3>5. Moves(p)
      BY <3>1, <3>2, <2>0, <3>4 DEF Moves, OrNone
    <3> QED
      BY <3>3, <3>4, <3>5, Step
  <2> QED
    BY <2>1, <2>2
<1>2. CASE Awaits(p, "CONNECT")
  <2>1. Back(p) /\ UNCHANGED <<listener_socket, unstarted>>
    BY <1>2 DEF connect
  <2>2. \/ UNCHANGED connected_user
        \/ connected_user' = [connected_user EXCEPT ![p] = command[p].user]
    BY <1>2 DEF connect
  <2>3. listener_socket'[p] # None
    BY <1>2, <2>1 DEF LInv, ConnectingListens
  <2>4. Moves(p)
    BY <2>1, <2>2, BackStep DEF Moves
  <2> QED
    BY <2>1, <2>3, <2>4, BackStep, Step
<1> QED
  BY <1>1, <1>2 DEF connect

(* disconnect forgets the user and the socket in one step, unless the join *)
(* of a thread that was not started raises.                                *)
LEMMA DisconnectStep == ASSUME LInv, NEW p \in Peers, disconnect(p) PROVE LInv'
<1>1. CASE /\ UNCHANGED <<session, sockets>>
           /\ \E r : Ask(p, r, "recv disconnect")
  <2>1. /\ shell' = [shell EXCEPT ![p] = "recv disconnect"]
        /\ shell'[p] = "recv disconnect" /\ UNCHANGED command
    BY <1>1, AskStep
  <2>2. "recv disconnect" \notin {"recv", "unregister"}
    OBVIOUS
  <2> QED
    BY <1>1, <2>1, <2>2, QuietStep DEF session, sockets
<1>2. CASE StopListening(p)
  <2>1. listener_socket' = [listener_socket EXCEPT ![p] = None] /\ UNCHANGED unstarted
    BY <1>2 DEF StopListening, CloseListener
  <2>2. CASE p \in unstarted
    <3>1. Back(p) /\ UNCHANGED connected_user
      BY <1>2, <2>2 DEF StopListening, JoinRaises
    <3>2. Moves(p)
      BY <2>1, <3>1, BackStep DEF Moves, OrNone
    <3> QED
      BY <2>1, <2>2, <3>1, <3>2, BackStep, Step
  <2>3. CASE p \notin unstarted
    <3>1. connected_user' = [connected_user EXCEPT ![p] = None] /\ Return(p)
      BY <1>2, <2>3 DEF StopListening, Disconnected
    <3>2. connected_user'[p] = None
      BY <3>1 DEF LInv, Shape
    <3>3. \/ Back(p)
          \/ /\ command[p].op # "CONNECT" /\ UNCHANGED command
             /\ \E l \in {"unregister", "break"} : shell' = [shell EXCEPT ![p] = l]
      BY <3>1 DEF Return, Goto
    <3>4. Moves(p)
      BY <2>1, <3>1, <3>3, BackStep DEF Moves, OrNone
    <3>5. shell'[p] # "recv" /\ (shell'[p] = "unregister" => command'[p].op # "CONNECT")
      BY <3>3, BackStep DEF LInv, Shape
    <3> QED
      BY <3>2, <3>4, <3>5, Step
  <2> QED
    BY <2>2, <2>3
<1> QED
  BY <1>1, <1>2 DEF disconnect

(* A process that ends takes its listener with it.                         *)
LEMMA ExitStep == ASSUME LInv, NEW p \in Peers, Exit(p) PROVE LInv'
<1>1. /\ shell' = [shell EXCEPT ![p] = "exited"]
      /\ command' = [command EXCEPT ![p] = NoCommand]
      /\ connected_user' = [connected_user EXCEPT ![p] = None]
      /\ listener_socket' = [listener_socket EXCEPT ![p] = None]
      /\ unstarted' = unstarted \ {p}
  BY DEF Exit, Goto
<1>2. Moves(p)
  BY <1>1 DEF Moves, OrNone
<1>3. shell'[p] \notin {"recv", "unregister"} /\ connected_user'[p] = None
  BY <1>1 DEF LInv, Shape
<1> QED
  BY <1>2, <1>3, Step

(* The steps of a dial, the end of a QUIT and a start.                     *)
LEMMA OtherSteps ==
  ASSUME LInv, NEW p \in Peers,
         \/ DialFails(p) \/ (\E q \in Peers : Serve(p, q)) \/ Download(p)
         \/ Quit(p) \/ Start(p)
  PROVE  LInv'
<1> USE DEF session, sockets
<1>1. CASE DialFails(p) \/ (\E q \in Peers : Serve(p, q)) \/ Download(p)
  <2>1. UNCHANGED <<connected_user, listener_socket, unstarted>>
    BY <1>1 DEF DialFails, Serve, Download
  <2>2. CASE Back(p)
    BY <2>1, <2>2, BackStep, QuietStep
  <2>3. CASE Goto(p, "receive") /\ UNCHANGED command
    <3>1. shell' = [shell EXCEPT ![p] = "receive"] /\ shell'[p] \notin {"recv", "unregister"}
      BY <2>3 DEF Goto, LInv, Shape
    <3> QED
      BY <2>1, <2>3, <3>1, QuietStep
  <2> QED
    BY <1>1, <2>2, <2>3 DEF DialFails, Serve, Download
<1>2. CASE Quit(p)
  <2>1. CASE Exit(p)
    BY <2>1, ExitStep
  <2>2. CASE Goto(p, "disconnect") /\ UNCHANGED <<session, sockets, command>>
    <3>1. shell' = [shell EXCEPT ![p] = "disconnect"] /\ shell'[p] \notin {"recv", "unregister"}
      BY <2>2 DEF Goto, LInv, Shape
    <3> QED
      BY <2>2, <3>1, QuietStep
  <2> QED
    BY <1>2, <2>1, <2>2 DEF Quit
<1>3. CASE Start(p)
  <2>1. shell' = [shell EXCEPT ![p] = "prompt"] /\ shell'[p] \notin {"recv", "unregister"}
    BY <1>3 DEF Start, Goto, LInv, Shape
  <2> QED
    BY <1>3, <2>1, QuietStep DEF Start
<1> QED
  BY <1>1, <1>2, <1>3

(* Every step of the composition keeps the invariant.                      *)
LEMMA NextLInv == LInv /\ [Next]_vars => LInv'
<1> SUFFICES ASSUME LInv, [Next]_vars PROVE LInv'
  OBVIOUS
<1>1. ASSUME NEW p \in Peers, Run(p) PROVE LInv'
  BY <1>1, QuietMethods, GetfileStep, ConnectStep, DisconnectStep, OtherSteps DEF Run
<1>2. ASSUME NEW p \in Peers, Type(p) \/ Kill(p) \/ Start(p) PROVE LInv'
  BY <1>2, TypeStep, ExitStep, OtherSteps DEF Kill
<1>3. ASSUME NEW c \in Conns, Perform(c) \/ HangUp(c) PROVE LInv'
  BY <1>3, Same DEF Perform, HangUp, session, sockets
<1>4. CASE UNCHANGED vars
  BY <1>4, Same DEF vars, session, sockets
<1> QED
  BY <1>1, <1>2, <1>3, <1>4 DEF Next

(* A client that takes itself for connected listens, whatever it types,    *)
(* misses and abandons, and however often it is killed: connect makes the  *)
(* socket before it asks, disconnect forgets the user before it returns.   *)
(* Only after a listener thread failed to start may it be otherwise.       *)
THEOREM AlwaysListening == Spec => []ConnectedListens
<1>1. LInv => ConnectedListens
  BY DEF LInv
<1> QED
  BY <1>1, InitLInv, NextLInv, PTL DEF Spec

----------------------------------------------------------------------------
(* Nothing is kept of a name that is not registered.                       *)

(* What the directory knows, as functions of the names and the files.      *)
Entries ==
  /\ online = [n \in Names |-> online[n]]
  /\ published = [n \in Names |-> [f \in Files |-> published[n][f]]]

DInv == Entries /\ NothingOfNobody

(* The invariant holds at the start.                                       *)
LEMMA InitDInv == Init => DInv
BY DEF Init, Dir!Init, Dir!NoFiles, DInv, Entries, NothingOfNobody

(* A step that leaves the directory alone keeps the invariant.             *)
LEMMA SameEntries ==
  ASSUME DInv, UNCHANGED <<registered, online, published>> PROVE DInv'
BY DEF DInv, Entries, NothingOfNobody

(* REGISTER adds a name and gives it nothing.                              *)
LEMMA RegisterStep == ASSUME DInv, NEW c \in Conns, Dir!Register(c) PROVE DInv'
<1>1. CASE UNCHANGED <<registered, online, published>>
  BY <1>1, SameEntries
<1>2. CASE /\ registered' = registered \cup {Dir!Caller(c)}
           /\ UNCHANGED <<online, published>>
  BY <1>2 DEF DInv, Entries, NothingOfNobody
<1> QED
  BY <1>1, <1>2 DEF Dir!Register, Dir!Refuse

(* UNREGISTER forgets the name, its endpoint and its files.                *)
LEMMA UnregisterStep == ASSUME DInv, NEW c \in Conns, Dir!Unregister(c) PROVE DInv'
<1>1. CASE UNCHANGED <<registered, online, published>>
  BY <1>1, SameEntries
<1>2. CASE /\ registered' = registered \ {Dir!Caller(c)}
           /\ online' = [online EXCEPT ![Dir!Caller(c)] = Offline]
           /\ published' = [published EXCEPT ![Dir!Caller(c)] = Dir!NoFiles]
  BY <1>2 DEF DInv, Entries, NothingOfNobody, Dir!NoFiles
<1> QED
  BY <1>1, <1>2 DEF Dir!Unregister, Dir!Refuse

(* CONNECT and DISCONNECT change the endpoint of a user that is there.     *)
LEMMA OnlineStep ==
  ASSUME DInv, NEW c \in Conns, Dir!Connect(c) \/ Dir!Disconnect(c) PROVE DInv'
<1>1. CASE UNCHANGED <<registered, online, published>>
  BY <1>1, SameEntries
<1>2. ASSUME NEW e, online' = [online EXCEPT ![Dir!Caller(c)] = e],
             Dir!Caller(c) \in registered \/ e = Offline,
             UNCHANGED <<registered, published>>
      PROVE  DInv'
  BY <1>2 DEF DInv, Entries, NothingOfNobody
<1> QED
  BY <1>1, <1>2 DEF Dir!Connect, Dir!Disconnect, Dir!Refuse

(* Setting one entry of a table of files leaves a table of files.          *)
LEMMA OneEntry ==
  ASSUME NEW old, NEW new, NEW x, NEW y, NEW k,
         old = [n \in Names |-> [f \in Files |-> old[n][f]]],
         new = [old EXCEPT ![x][y] = k]
  PROVE  new = [n \in Names |-> [f \in Files |-> new[n][f]]]
<1> DEFINE row == [old[x] EXCEPT ![y] = k]
<1>1. new = [old EXCEPT ![x] = row]
  OBVIOUS
<1>2. ASSUME NEW n \in Names PROVE old[n] = [f \in Files |-> old[n][f]]
  OBVIOUS
<1>3. ASSUME x \in Names PROVE row = [f \in Files |-> row[f]]
  BY <1>2, <1>3
<1> HIDE DEF row
<1>4. new = [n \in Names |-> IF n = x THEN row ELSE old[n]]
  BY <1>1
<1>5. ASSUME NEW n \in Names PROVE new[n] = [f \in Files |-> new[n][f]]
  BY <1>2, <1>3, <1>4
<1> QED
  BY <1>4, <1>5

(* PUBLISH and DELETE change the files of a user that is online.           *)
LEMMA FilesStep ==
  ASSUME DInv, NEW c \in Conns, Dir!Publish(c) \/ Dir!Delete(c) PROVE DInv'
<1>1. CASE UNCHANGED <<registered, online, published>>
  BY <1>1, SameEntries
<1>2. ASSUME NEW k,
             published' = [published EXCEPT ![Dir!Caller(c)][request[c].filename] = k],
             online[Dir!Caller(c)] # Offline,
             UNCHANGED <<registered, online>>
      PROVE  DInv'
  <2>1. Entries'
    <3>1. published' = [n \in Names |-> [f \in Files |-> published'[n][f]]]
      BY <1>2, OneEntry DEF DInv, Entries
    <3> QED
      BY <1>2, <3>1 DEF DInv, Entries
  <2>2. ASSUME NEW n \in Names \ registered PROVE published'[n] = published[n]
    BY <1>2, <2>2 DEF DInv, Entries, NothingOfNobody
  <2> QED
    BY <1>2, <2>1, <2>2 DEF DInv, NothingOfNobody
<1> QED
  BY <1>1, <1>2
     DEF Dir!Publish, Dir!Delete, Dir!Denied, Dir!Admitted, Dir!IsOnline, Dir!Refuse

(* Every request keeps the invariant.                                      *)
LEMMA PerformStep == ASSUME DInv, NEW c \in Conns, Dir!Perform(c) PROVE DInv'
<1>1. CASE Dir!ListUsers(c) \/ Dir!ListContent(c)
  <2>1. UNCHANGED <<registered, online, published>>
    BY <1>1 DEF Dir!ListUsers, Dir!ListContent, Dir!Denied, Dir!Refuse
  <2> QED
    BY <2>1, SameEntries
<1> QED
  BY <1>1, RegisterStep, UnregisterStep, OnlineStep, FilesStep DEF Dir!Perform

(* A client changes what the directory knows only through Perform.         *)
LEMMA ClientStep ==
  ASSUME NEW p \in Peers, Type(p) \/ Run(p) \/ Kill(p) \/ Start(p)
  PROVE  UNCHANGED <<registered, online, published>>
<1> USE DEF Ask, Refused, Answered, Interrupted, Finished, Dir!Invoke, Dir!Return, dirvars
<1>1. CASE Type(p) \/ Kill(p) \/ Start(p) \/ Quit(p)
  BY <1>1 DEF Type, Kill, Start, Quit, Exit
<1>2. CASE register(p) \/ unregister(p)
  BY <1>2 DEF register, unregister
<1>3. CASE connect(p)
  BY <1>3 DEF connect
<1>4. CASE disconnect(p)
  BY <1>4 DEF disconnect
<1>5. CASE publish(p) \/ delete(p)
  BY <1>5 DEF publish, delete
<1>6. CASE listusers(p) \/ listcontent(p)
  BY <1>6 DEF listusers, listcontent
<1>7. CASE getfile(p)
  BY <1>7 DEF getfile
<1>8. CASE DialFails(p) \/ (\E q \in Peers : Serve(p, q)) \/ Download(p)
  BY <1>8 DEF DialFails, Serve, Download
<1> QED
  BY <1>1, <1>2, <1>3, <1>4, <1>5, <1>6, <1>7, <1>8 DEF Run

(* Every step of the composition keeps the invariant.                      *)
LEMMA NextDInv == DInv /\ [Next]_vars => DInv'
<1> SUFFICES ASSUME DInv, [Next]_vars PROVE DInv'
  OBVIOUS
<1>1. ASSUME NEW p \in Peers, Type(p) \/ Run(p) \/ Kill(p) \/ Start(p) PROVE DInv'
  BY <1>1, ClientStep, SameEntries
<1>2. ASSUME NEW c \in Conns, Perform(c) PROVE DInv'
  BY <1>2, PerformStep DEF Perform
<1>3. ASSUME NEW c \in Conns, HangUp(c) PROVE DInv'
  <2>1. UNCHANGED <<registered, online, published>>
    BY <1>3 DEF HangUp, Dir!Return
  <2> QED
    BY <2>1, SameEntries
<1>4. CASE UNCHANGED vars
  BY <1>4, SameEntries DEF vars, dirvars
<1> QED
  BY <1>1, <1>2, <1>3, <1>4 DEF Next

(* A name that is not registered has no connection and no files, whichever *)
(* requests of however many clients the server still has to execute: a     *)
(* REGISTER of a name that was in use starts from nothing.                 *)
THEOREM NothingKept == Spec => []NothingOfNobody
<1>1. DInv => NothingOfNobody
  BY DEF DInv
<1> QED
  BY <1>1, InitDInv, NextDInv, PTL DEF Spec

----------------------------------------------------------------------------
(* Clients and requests.                                                   *)
(*                                                                         *)
(* What a client waits for is what its command has made it ask, on a       *)
(* connection that is its own; all it remembers was typed at its prompt.   *)

ClientOps ==
  {"REGISTER", "UNREGISTER", "CONNECT", "DISCONNECT", "PUBLISH", "DELETE",
   "LIST_USERS", "LIST_CONTENT", "GET_FILE", "QUIT"}

(* The commands that name a user of the one who types. *)
AccountOps == {"REGISTER", "UNREGISTER", "CONNECT", "DISCONNECT"}

(* The variables of the clients and those of the connections, as functions. *)
Shapes ==
  /\ registered_user = [p \in Peers |-> registered_user[p]]
  /\ connected_user = [p \in Peers |-> connected_user[p]]
  /\ listener_socket = [p \in Peers |-> listener_socket[p]]
  /\ disk = [p \in Peers |-> disk[p]]
  /\ doubtful = [p \in Peers |-> doubtful[p]]
  /\ shell = [p \in Peers |-> shell[p]]
  /\ command = [p \in Peers |-> command[p]]
  /\ sock = [p \in Peers |-> sock[p]]
  /\ old_threads \in [Peers -> SUBSET Endpoints]
  /\ unstarted \subseteq Peers
  /\ "threads" \notin Faults => unstarted = {}

Lines ==
  /\ phase \in [Conns -> {"idle", "pending", "done"}]
  /\ request = [c \in Conns |-> request[c]]
  /\ reply = [c \in Conns |-> reply[c]]

(* The fields the server reads are there, whoever has sent the request. *)
Proper(r) ==
  /\ r.op \in AccountOps => r.username \in Names
  /\ r.op = "CONNECT" => r.endpoint \in Endpoints
  /\ r.op \in {"PUBLISH", "DELETE"} =>
       r.username \in Names \cup {Anonymous} /\ r.filename \in Files

EntriesTyped ==
  /\ registered \subseteq Names
  /\ online \in [Names -> Endpoints \cup {Offline}]
  /\ published \in [Names -> [Files -> Nat]]

(* The session and the files of one client. *)
SessionTyped(p) ==
  /\ registered_user[p] \in OrNone(Types[p])
  /\ connected_user[p] \in OrNone(Types[p])
  /\ listener_socket[p] \in OrNone(Endpoints)
  /\ disk[p] \subseteq Files \cup Downloads
  /\ doubtful[p] \subseteq Files \cup Downloads

(* The command belongs to the label the main thread has reached. *)
CommandTyped(p) ==
  /\ shell[p] \in {"prompt", "exited"} => command[p].op = "NONE"
  /\ shell[p] \notin {"prompt", "exited"} => command[p].op \in ClientOps \cap Commands
  /\ shell[p] \in ClientOps => command[p].op = shell[p]
  /\ shell[p] \in ClientOps \cup
       {"prompt", "exited", "recv", "disconnect", "recv disconnect", "unregister",
        "break", "dial", "receive"}
  /\ shell[p] \in {"dial", "receive"} => command[p].op = "GET_FILE"
  /\ shell[p] = "unregister" =>
       command[p].op = "UNREGISTER" /\ connected_user[p] # command[p].user
  /\ shell[p] = "break" => command[p].op = "QUIT" /\ connected_user[p] = None
  /\ shell[p] = "disconnect" => command[p].op \in {"UNREGISTER", "QUIT"}
  /\ shell[p] = "recv disconnect" => command[p].op \in {"DISCONNECT", "UNREGISTER", "QUIT"}
  /\ command[p].op \in AccountOps => command[p].user \in Types[p]
  /\ command[p].op \in {"PUBLISH", "DELETE"} => command[p].file \in Files
  /\ command[p].op = "GET_FILE" => command[p].local \in Downloads
  /\ shell[p] \in {"disconnect", "recv disconnect"} /\ command[p].op = "QUIT" =>
       connected_user[p] # None

(* The request r is the one that p's command sends before it waits at      *)
(* label l, with e the port it listens on.                                 *)
Fits(p, r, l, e) ==
  LET asked == command[p]
  IN  /\ l = "recv disconnect" => r.op = "DISCONNECT" /\ r.username = User(p)
      /\ l = "recv" =>
           /\ asked.op \notin {"DISCONNECT", "QUIT"}
           /\ r.op = IF asked.op = "GET_FILE" THEN "LIST_USERS" ELSE asked.op
           /\ asked.op \in AccountOps => r.username = asked.user
           /\ asked.op = "UNREGISTER" => connected_user[p] # asked.user
           /\ asked.op = "CONNECT" => r.endpoint = e /\ e # None
           /\ asked.op \in {"PUBLISH", "DELETE"} =>
                r.username = Sender(p) /\ r.filename = asked.file

Sent(p) == Fits(p, request[sock[p]], shell[p], listener_socket[p])

Waits(p) ==
  /\ sock[p] \in OrNone(Conns)
  /\ sock[p] # None <=> shell[p] \in {"recv", "recv disconnect"}
  /\ sock[p] # None => phase[sock[p]] # "idle" /\ Sent(p)

ClientInv(p) == SessionTyped(p) /\ CommandTyped(p) /\ Waits(p)

OwnLines == \A p, q \in Peers : sock[p] = sock[q] /\ sock[p] # None => p = q

GInv ==
  /\ Shapes /\ Lines /\ EntriesTyped /\ OwnLines
  /\ \A c \in Conns : phase[c] # "idle" => Proper(request[c])
  /\ \A p \in Peers : ClientInv(p)

----------------------------------------------------------------------------
(* The invariants, per client.                                             *)

Done(p) == sock[p] # None /\ phase[sock[p]] = "done"

Granted(p) == Done(p) /\ Code(p) = 0

NoOrphans == \A c \in Conns : phase[c] # "idle" => \E p \in Peers : sock[p] = c

(* p is online under its own name when it believes so, but while a         *)
(* DISCONNECT of p is on its way; a grant it has not read yet stands.      *)
Believes(p) ==
  \A n \in Names : OwnName(p, n) =>
    /\ connected_user[p] = n /\ shell[p] # "recv disconnect" =>
         listener_socket[p] # None /\ online[n] = listener_socket[p]
    /\ Awaits(p, "CONNECT") /\ command[p].user = n /\ Granted(p) =>
         online[n] = listener_socket[p]

BInv == NoOrphans /\ \A p \in Peers : Believes(p)

(* At every client one name is typed at most. *)
OneName == \A p \in Peers : \A m, n \in Types[p] : m = n

(* p has yet to read that its PUBLISH of f was executed.                   *)
Announced(p, f) == Awaits(p, "PUBLISH") /\ command[p].file = f /\ Done(p)

(* The file f of p's user n is listed once at most, and then it is on      *)
(* disk, unless p has yet to read that it published it; and no abandoned   *)
(* PUBLISH of it is about.                                                 *)
InPlace(p, n, f) ==
  /\ published[n][f] > 1 => Announced(p, f) /\ ~Granted(p)
  /\ published[n][f] > 0 => f \in disk[p] \/ Announced(p, f)
  /\ Awaits(p, "DELETE") /\ command[p].file = f /\ Granted(p) => published[n][f] = 0
  /\ \A c \in Conns :
       /\ phase[c] # "idle" /\ request[c].op = "PUBLISH"
       /\ request[c].username = n /\ request[c].filename = f
       => sock[p] = c

(* So it is with every file of p's own users that is not in doubt.         *)
Shares(p) ==
  \A n \in Names, f \in Files : OwnName(p, n) /\ f \notin doubtful[p] => InPlace(p, n, f)

FInv == \A p \in Peers : Shares(p)

(* The client that has brought n online and has not taken it offline since. *)
Hosts(p, n) ==
  /\ n \in Types[p] /\ listener_socket[p] = online[n]
  /\ \/ connected_user[p] = n /\ ~(shell[p] = "recv disconnect" /\ Done(p))
     \/ Awaits(p, "CONNECT") /\ command[p].user = n /\ Granted(p)

HInv == NoOrphans /\ \A n \in Names : online[n] # Offline => \E p \in Peers : Hosts(p, n)

----------------------------------------------------------------------------
(* The two kinds of steps of a client.                                     *)

Still(q) ==
  /\ registered_user'[q] = registered_user[q] /\ connected_user'[q] = connected_user[q]
  /\ listener_socket'[q] = listener_socket[q]
  /\ disk'[q] = disk[q] /\ doubtful'[q] = doubtful[q]
  /\ shell'[q] = shell[q] /\ command'[q] = command[q] /\ sock'[q] = sock[q]

Undisturbed(c) == phase'[c] = phase[c] /\ request'[c] = request[c] /\ reply'[c] = reply[c]

(* p alone moves, and the entries of the directory stay. *)
Turn(p) ==
  /\ Shapes' /\ Lines' /\ UNCHANGED <<registered, online, published>>
  /\ \A q \in Peers \ {p} : Still(q)

(* A request leaves on a connection nobody has. *)
Dials(p) ==
  /\ sock[p] = None /\ sock'[p] \in Conns
  /\ phase[sock'[p]] = "idle" /\ phase'[sock'[p]] = "pending"
  /\ \A c \in Conns \ {sock'[p]} : Undisturbed(c)

(* No client gives up on a request. *)
Patient == Faults \cap {"broken", "killed"} = {}

(* The exchange p was in, if any, ends; only a fault leaves its request     *)
(* behind.                                                                  *)
Drops(p) ==
  /\ sock'[p] = None
  /\ sock[p] # None =>
       phase'[sock[p]] = "idle" \/ (~Patient /\ Undisturbed(sock[p]))
  /\ \A c \in Conns \ {sock[p]} : Undisturbed(c)

(* p sends a request and remembers nothing yet. *)
Asks(p) ==
  /\ Dials(p) /\ ClientInv(p)' /\ Proper(request'[sock'[p]])
  /\ registered_user'[p] = registered_user[p] /\ connected_user'[p] = connected_user[p]
  /\ disk'[p] = disk[p] /\ doubtful'[p] = doubtful[p] /\ command'[p] = command[p]
  /\ listener_socket'[p] = listener_socket[p] \/ listener_socket[p] = None

(* Every request is answered. *)
Answering == Faults \cap {"refused", "unanswered", "broken", "killed"} = {}

(* What may become of p's files: a PUBLISH ends with the file in place or  *)
(* in doubt, and a file goes by a DELETE that was granted or into doubt.   *)
Accounts(p) ==
  /\ doubtful[p] \subseteq doubtful'[p]
  /\ \A f \in disk[p] \ disk'[p] :
       f \in doubtful'[p] \/ (Awaits(p, "DELETE") /\ Granted(p) /\ command[p].file = f)
  /\ Awaits(p, "PUBLISH") =>
       \/ command[p].file \in doubtful'[p]
       \/ Granted(p) /\ phase'[sock[p]] = "idle" /\ command[p].file \in disk'[p]

(* p goes on: what it may have learnt and what it may have forgotten. *)
GoesOn(p) ==
  /\ Drops(p) /\ ClientInv(p)' /\ Accounts(p)
  /\ \/ connected_user'[p] = connected_user[p] /\ (shell[p] # "recv disconnect" \/ ~Reliable)
     \/ connected_user'[p] = None
     \/ Awaits(p, "CONNECT") /\ Granted(p) /\ connected_user'[p] = command[p].user
  /\ \/ listener_socket'[p] = listener_socket[p] \/ listener_socket[p] = None
     \/ connected_user'[p] = None \/ ~Reliable
  /\ Answering =>
       /\ Awaits(p, "CONNECT") /\ Granted(p) =>
            connected_user'[p] = command[p].user /\ listener_socket'[p] = listener_socket[p]
       /\ \/ shell[p] = "recv disconnect" /\ Done(p)
          \/ connected_user[p] = None \/ listener_socket[p] = None
          \/ connected_user'[p] # None /\ listener_socket'[p] = listener_socket[p]

(* Another client's connection is left alone by both kinds.                *)
LEMMA OthersUndisturbed ==
  ASSUME GInv, NEW p \in Peers, Dials(p) \/ Drops(p),
         NEW q \in Peers \ {p}, sock[q] # None
  PROVE  Undisturbed(sock[q]) /\ sock[q] \in Conns
<1>1. sock[q] \in Conns /\ phase[sock[q]] # "idle"
  BY DEF GInv, ClientInv, Waits, OrNone
<1>2. sock[q] # sock[p]
  BY DEF GInv, OwnLines
<1> QED
  BY <1>1, <1>2 DEF Dials, Drops

(* What is known of another client stays known.                            *)
LEMMA OthersKeep ==
  ASSUME GInv, NEW p \in Peers, Turn(p), Dials(p) \/ Drops(p), NEW q \in Peers \ {p}
  PROVE  ClientInv(q)'
<1>1. Still(q) /\ ClientInv(q)
  BY DEF Turn, GInv
<1>2. SessionTyped(q)' /\ CommandTyped(q)'
  BY <1>1 DEF Still, ClientInv, SessionTyped, CommandTyped
<1>3. sock[q] # None => Undisturbed(sock[q])
  BY OthersUndisturbed
<1>4. User(q)' = User(q) /\ Sender(q)' = Sender(q)
  BY <1>1 DEF Still, User, Sender
<1>5. sock[q] # None => Sent(q)'
  BY <1>1, <1>3, <1>4 DEF Still, Undisturbed, ClientInv, Waits, Sent, Fits
<1>6. Waits(q)'
  BY <1>1, <1>3, <1>5 DEF Still, Undisturbed, ClientInv, Waits
<1> QED
  BY <1>2, <1>6 DEF ClientInv

(* Both kinds of steps keep the invariant.                                 *)
LEMMA TurnKeepsGInv ==
  ASSUME GInv, NEW p \in Peers, Turn(p), Asks(p) \/ GoesOn(p)
  PROVE  GInv'
<1>1. Dials(p) \/ Drops(p)
  BY DEF Asks, GoesOn
<1>2. \A q \in Peers : ClientInv(q)'
  BY <1>1, OthersKeep DEF Asks, GoesOn
<1>3. EntriesTyped'
  BY DEF Turn, GInv, EntriesTyped
<1>4. OwnLines'
  <2> SUFFICES ASSUME NEW q \in Peers, NEW s \in Peers,
                      sock'[q] = sock'[s], sock'[q] # None, q # s
               PROVE  FALSE
    BY DEF OwnLines
  <2>1. CASE q # p /\ s # p
    BY <2>1 DEF Turn, Still, GInv, OwnLines
  <2>2. ASSUME NEW x \in Peers \ {p}, sock'[x] = sock'[p], sock'[p] # None
        PROVE  FALSE
    <3>1. sock'[x] = sock[x]
      BY DEF Turn, Still
    <3>2. phase[sock[x]] # "idle"
      BY <2>2, <3>1 DEF GInv, ClientInv, Waits
    <3> QED
      BY <1>1, <2>2, <3>1, <3>2 DEF Dials, Drops
  <2> QED
    BY <2>1, <2>2
<1>5. ASSUME NEW c \in Conns, phase'[c] # "idle" PROVE Proper(request'[c])
  BY <1>5 DEF Asks, GoesOn, Dials, Drops, Undisturbed, GInv
<1> QED
  BY <1>2, <1>3, <1>4, <1>5 DEF GInv, Turn, Proper

----------------------------------------------------------------------------
(* Each step of a client is one of the two kinds.                          *)

(* The threads p has left over, and the one it could not start. *)
Threads(p) ==
  /\ old_threads' \in [Peers -> SUBSET Endpoints]
  /\ unstarted' \in {unstarted, unstarted \cup {p}, unstarted \ {p}}
  /\ "threads" \notin Faults => unstarted' \subseteq unstarted

(* What Ask leaves behind: a request of p, on a connection of its own.     *)
LEMMA AskTurn ==
  ASSUME GInv, NEW p \in Peers, NEW r, NEW l, Ask(p, r, l), sock[p] = None,
         NEW e \in OrNone(Endpoints), listener_socket' = [listener_socket EXCEPT ![p] = e],
         e = listener_socket[p] \/ listener_socket[p] = None,
         UNCHANGED <<session, files>>, Threads(p),
         Proper(r), Fits(p, r, l, e),
         \/ l = "recv" /\ shell[p] \in ClientOps \cup {"unregister"}
         \/ /\ l = "recv disconnect" /\ shell[p] \in ClientOps \cup {"disconnect"}
            /\ command[p].op \in {"DISCONNECT", "UNREGISTER", "QUIT"}
            /\ command[p].op = "QUIT" => connected_user[p] # None
  PROVE  Turn(p) /\ Asks(p)
<1>1. PICK c \in Conns :
        /\ phase[c] = "idle" /\ sock' = [sock EXCEPT ![p] = c]
        /\ phase' = [phase EXCEPT ![c] = "pending"]
        /\ request' = [request EXCEPT ![c] = r]
        /\ UNCHANGED <<registered, online, published, reply>>
  BY DEF Ask, Dir!Invoke
<1>2. /\ shell' = [shell EXCEPT ![p] = l]
      /\ UNCHANGED <<command, registered_user, connected_user, disk, doubtful>>
  BY DEF Ask, Goto, session
<1>3. Lines'
  BY <1>1 DEF GInv, Lines
<1>4. Shapes'
  BY <1>1, <1>2 DEF GInv, Shapes, Threads
<1>5. \A q \in Peers \ {p} : Still(q)
  BY <1>1, <1>2 DEF GInv, Shapes, Still
<1>6. /\ sock'[p] = c /\ shell'[p] = l /\ listener_socket'[p] = e
      /\ registered_user'[p] = registered_user[p] /\ connected_user'[p] = connected_user[p]
      /\ disk'[p] = disk[p] /\ doubtful'[p] = doubtful[p] /\ command'[p] = command[p]
  BY <1>1, <1>2 DEF GInv, Shapes
<1>7. /\ phase'[c] = "pending" /\ request'[c] = r
      /\ \A d \in Conns \ {c} : Undisturbed(d)
  BY <1>1 DEF GInv, Lines, Undisturbed
<1>8. Dials(p)
  BY <1>1, <1>6, <1>7 DEF Dials
<1>9. ClientInv(p)
  BY DEF GInv
<1>10. SessionTyped(p)' /\ CommandTyped(p)'
  BY <1>6, <1>9 DEF ClientInv, SessionTyped, CommandTyped, ClientOps
<1>11. User(p)' = User(p) /\ Sender(p)' = Sender(p)
  BY <1>6 DEF User, Sender
<1>12. Sent(p)'
  BY <1>6, <1>7, <1>11 DEF Sent, Fits
<1>13. Waits(p)'
  BY <1>6, <1>7, <1>12 DEF Waits, OrNone
<1> QED
  BY <1>1, <1>3, <1>4, <1>5, <1>6, <1>7, <1>8, <1>10, <1>13 DEF Turn, Asks, ClientInv

(* The directory and the connection of p after its exchange, if any. *)
Closed(p) ==
  /\ sock' = [sock EXCEPT ![p] = None] /\ Lines'
  /\ UNCHANGED <<registered, online, published>>
  /\ Drops(p)

(* An answer, a connection lost, and one that has not come about.          *)
LEMMA ClosedBy ==
  ASSUME GInv, NEW p \in Peers,
         \/ Finished(p)
         \/ sock[p] = None /\ UNCHANGED <<dirvars, sock>>
         \/ ~Patient /\ UNCHANGED dirvars /\ sock' = [sock EXCEPT ![p] = None]
  PROVE  /\ Closed(p) /\ (Interrupted(p) => ~Answering)
         /\ Answered(p) => phase'[sock[p]] = "idle"
<1>1. sock' = [sock EXCEPT ![p] = None] /\ sock'[p] = None
  BY DEF Finished, Answered, Interrupted, GInv, Shapes
<1>2. \/ UNCHANGED dirvars /\ (sock[p] # None => ~Patient)
      \/ sock[p] # None /\ Dir!Return(sock[p])
  BY DEF Finished, Answered, Interrupted, Patient
<1>3. sock[p] # None => sock[p] \in Conns
  BY DEF GInv, ClientInv, Waits, OrNone
<1>4. Interrupted(p) => ~Answering
  BY DEF Interrupted, Answering
<1>5. Answered(p) => phase'[sock[p]] = "idle"
  BY <1>3 DEF Answered, GInv, Lines, Dir!Return
<1>6. CASE UNCHANGED dirvars /\ (sock[p] # None => ~Patient)
  <2>1. Lines' /\ UNCHANGED <<registered, online, published>>
    BY <1>6 DEF GInv, Lines, dirvars
  <2>2. \A c \in Conns : Undisturbed(c)
    BY <1>6 DEF Undisturbed, dirvars
  <2>3. Drops(p)
    BY <1>1, <1>3, <1>6, <2>2 DEF Drops
  <2> QED
    BY <1>1, <1>4, <1>5, <2>1, <2>3 DEF Closed
<1>7. CASE sock[p] # None /\ Dir!Return(sock[p])
  <2>1. Lines' /\ UNCHANGED <<registered, online, published>>
    BY <1>3, <1>7 DEF GInv, Lines, Dir!Return
  <2>2. phase'[sock[p]] = "idle" /\ \A c \in Conns \ {sock[p]} : Undisturbed(c)
    BY <1>3, <1>7 DEF GInv, Lines, Dir!Return, Undisturbed
  <2>3. Drops(p)
    BY <1>1, <2>2 DEF Drops
  <2> QED
    BY <1>1, <1>4, <1>5, <2>1, <2>3 DEF Closed
<1> QED
  BY <1>2, <1>6, <1>7

(* The session, the listening socket and the files p is left with. *)
Leaves(p, ru, cu, e, d, g) ==
  /\ ru \in OrNone(Types[p]) /\ registered_user' = [registered_user EXCEPT ![p] = ru]
  /\ cu \in OrNone(Types[p]) /\ connected_user' = [connected_user EXCEPT ![p] = cu]
  /\ e \in OrNone(Endpoints) /\ listener_socket' = [listener_socket EXCEPT ![p] = e]
  /\ d \in SUBSET (Files \cup Downloads) /\ disk' = [disk EXCEPT ![p] = d]
  /\ g \in SUBSET (Files \cup Downloads) /\ doubtful' = [doubtful EXCEPT ![p] = g]
  /\ Threads(p)

(* The label and the command p is left with. *)
Lands(p, l, m) ==
  shell' = [shell EXCEPT ![p] = l] /\ command' = [command EXCEPT ![p] = m]

(* A step that ends at label l with command m, and what it leaves at p.    *)
LEMMA MoveTurn ==
  ASSUME GInv, NEW p \in Peers, Closed(p),
         NEW l, NEW m, Lands(p, l, m),
         NEW ru, NEW cu, NEW e, NEW d, NEW g, Leaves(p, ru, cu, e, d, g)
  PROVE  /\ Turn(p) /\ SessionTyped(p)' /\ sock'[p] = None
         /\ shell'[p] = l /\ command'[p] = m
         /\ registered_user'[p] = ru /\ connected_user'[p] = cu
         /\ listener_socket'[p] = e /\ disk'[p] = d /\ doubtful'[p] = g
<1>1. sock' = [sock EXCEPT ![p] = None]
  BY DEF Closed
<1>2. Shapes'
  BY <1>1 DEF GInv, Shapes, Leaves, Lands, Threads
<1>3. \A q \in Peers \ {p} : Still(q)
  BY <1>1 DEF GInv, Shapes, Still, Leaves, Lands
<1>4. /\ sock'[p] = None /\ shell'[p] = l /\ command'[p] = m
      /\ registered_user'[p] = ru /\ connected_user'[p] = cu
      /\ listener_socket'[p] = e /\ disk'[p] = d /\ doubtful'[p] = g
  BY <1>1 DEF GInv, Shapes, Leaves, Lands
<1>5. SessionTyped(p)'
  BY <1>4 DEF SessionTyped, Leaves
<1> QED
  BY <1>2, <1>3, <1>4, <1>5 DEF Turn, Closed

(* The types of what p remembers, for the steps that keep it.              *)
LEMMA Remembered ==
  ASSUME GInv, NEW p \in Peers
  PROVE  /\ registered_user[p] \in OrNone(Types[p]) /\ connected_user[p] \in OrNone(Types[p])
         /\ listener_socket[p] \in OrNone(Endpoints)
         /\ disk[p] \in SUBSET (Files \cup Downloads)
         /\ doubtful[p] \in SUBSET (Files \cup Downloads)
         /\ None \in OrNone(Types[p]) /\ None \in OrNone(Endpoints)
         /\ old_threads \in [Peers -> SUBSET Endpoints]
         /\ registered_user = [registered_user EXCEPT ![p] = registered_user[p]]
         /\ connected_user = [connected_user EXCEPT ![p] = connected_user[p]]
         /\ listener_socket = [listener_socket EXCEPT ![p] = listener_socket[p]]
         /\ disk = [disk EXCEPT ![p] = disk[p]]
         /\ doubtful = [doubtful EXCEPT ![p] = doubtful[p]]
         /\ command = [command EXCEPT ![p] = command[p]]
         /\ CommandTyped(p) /\ Waits(p)
         /\ UNCHANGED <<old_threads, unstarted>> => Threads(p)
BY DEF GInv, ClientInv, SessionTyped, OrNone, Shapes, Threads

(* The methods that end at the prompt: what remains to be said of them.    *)
LEMMA BackTurn ==
  ASSUME GInv, NEW p \in Peers, Closed(p), Back(p),
         NEW ru, NEW cu, NEW e, NEW d, NEW g, Leaves(p, ru, cu, e, d, g)
  PROVE  /\ Turn(p) /\ ClientInv(p)' /\ command'[p].op = "NONE"
         /\ registered_user'[p] = ru /\ connected_user'[p] = cu
         /\ listener_socket'[p] = e /\ disk'[p] = d /\ doubtful'[p] = g
<1>1. Lands(p, "prompt", NoCommand)
  BY DEF Back, Goto, Lands
<1>2. /\ Turn(p) /\ SessionTyped(p)' /\ sock'[p] = None
      /\ shell'[p] = "prompt" /\ command'[p] = NoCommand
      /\ registered_user'[p] = ru /\ connected_user'[p] = cu
      /\ listener_socket'[p] = e /\ disk'[p] = d /\ doubtful'[p] = g
  BY <1>1, MoveTurn
<1>3. CommandTyped(p)' /\ Waits(p)'
  BY <1>2 DEF CommandTyped, Waits, NoCommand, AccountOps, ClientOps, OrNone
<1> QED
  BY <1>2, <1>3 DEF ClientInv, NoCommand

(* Labels and commands that are told apart below.                          *)
LEMMA Executing ==
  ASSUME GInv, NEW p \in Peers,
         shell[p] \in ClientOps \cup
           {"disconnect", "unregister", "break", "dial", "receive", "prompt", "exited"}
  PROVE  sock[p] = None /\ \A op : ~Awaits(p, op)
BY Remembered DEF Waits, ClientOps, Awaits

(* A user typed at p, and the user in whose name content is sent.          *)
LEMMA TypedNames ==
  ASSUME GInv, NEW p \in Peers
  PROVE  /\ Types[p] \subseteq Names
         /\ Sender(p) \in Names \cup {Anonymous}
         /\ command[p].op \in AccountOps => command[p].user \in Types[p]
<1>1. Types[p] \subseteq Names
  OBVIOUS
<1> QED
  BY <1>1, Remembered DEF Sender, OrNone, CommandTyped

(* A request that is sent before anything is remembered.                   *)
LEMMA QuietAsk ==
  ASSUME GInv, NEW p \in Peers, NEW op \in ClientOps, Executes(p, op),
         NEW r, Ask(p, r, "recv"), UNCHANGED <<session, sockets, files>>,
         Proper(r), Fits(p, r, "recv", listener_socket[p])
  PROVE  Turn(p) /\ Asks(p)
<1>1. shell[p] \in ClientOps /\ sock[p] = None
  BY Executing DEF Executes
<1> QED
  BY <1>1, AskTurn, Remembered DEF sockets

(* A method that returns to the prompt and remembers nothing.              *)
LEMMA QuietBack ==
  ASSUME GInv, NEW p \in Peers, Closed(p), Back(p),
         UNCHANGED <<session, listener_socket>>, Threads(p),
         NEW d \in SUBSET (Files \cup Downloads), disk' = [disk EXCEPT ![p] = d],
         NEW g \in SUBSET (Files \cup Downloads), doubtful' = [doubtful EXCEPT ![p] = g],
         doubtful[p] \subseteq g, disk[p] \ d \subseteq g,
         Awaits(p, "PUBLISH") => command[p].file \in g,
         shell[p] # "recv disconnect",
         Answering /\ Granted(p) => ~Awaits(p, "CONNECT")
  PROVE  Turn(p) /\ GoesOn(p)
<1>1. Leaves(p, registered_user[p], connected_user[p], listener_socket[p], d, g)
  BY Remembered DEF Leaves, session
<1>2. /\ Turn(p) /\ ClientInv(p)' /\ command'[p].op = "NONE"
      /\ registered_user'[p] = registered_user[p]
      /\ connected_user'[p] = connected_user[p]
      /\ listener_socket'[p] = listener_socket[p] /\ disk'[p] = d /\ doubtful'[p] = g
  BY <1>1, BackTurn
<1>3. Accounts(p)
  BY <1>2 DEF Accounts
<1>4. connected_user[p] # None => connected_user'[p] # None
  BY <1>2
<1> QED
  BY <1>2, <1>3, <1>4 DEF GoesOn, Closed

(* register remembers a name that was granted.                             *)
LEMMA RegisterTurn ==
  ASSUME GInv, NEW p \in Peers, register(p) PROVE Turn(p) /\ (Asks(p) \/ GoesOn(p))
<1>1. UNCHANGED <<connected_user, sockets, files>>
  BY DEF register
<1>2. CASE /\ Executes(p, "REGISTER") /\ UNCHANGED registered_user
           /\ Ask(p, [op |-> "REGISTER", username |-> command[p].user], "recv")
  <2> DEFINE r == [op |-> "REGISTER", username |-> command[p].user]
  <2>1. command[p].user \in Names
    BY <1>2, TypedNames DEF Executes, AccountOps
  <2>2. Proper(r) /\ Fits(p, r, "recv", listener_socket[p])
    BY <1>2, <2>1 DEF Proper, Fits, Executes, AccountOps
  <2>3. Ask(p, r, "recv") /\ "REGISTER" \in ClientOps
    BY <1>2 DEF ClientOps
  <2> HIDE DEF r
  <2> QED
    BY <1>1, <1>2, <2>2, <2>3, QuietAsk DEF session
<1>3. CASE Executes(p, "REGISTER") /\ Refused /\ Back(p) /\ UNCHANGED registered_user
  <2>1. shell[p] = "REGISTER" /\ sock[p] = None /\ \A op : ~Awaits(p, op)
    BY <1>3, Executing DEF Executes, ClientOps
  <2>2. Closed(p)
    BY <1>3, <2>1, ClosedBy DEF Refused
  <2> QED
    BY <1>1, <1>3, <2>1, <2>2, QuietBack, Remembered DEF session, sockets
<1>4. CASE /\ Awaits(p, "REGISTER") /\ Back(p) /\ UNCHANGED registered_user
           /\ Finished(p)
  <2>1. Closed(p)
    BY <1>4, ClosedBy
  <2> QED
    BY <1>1, <1>4, <2>1, QuietBack, Remembered DEF session, sockets, Awaits
<1>5. CASE /\ Awaits(p, "REGISTER") /\ Back(p) /\ Answered(p) /\ Code(p) = 0
           /\ registered_user' = [registered_user EXCEPT ![p] = command[p].user]
  <2>1. Closed(p)
    BY <1>5, ClosedBy DEF Finished
  <2>2. command[p].user \in OrNone(Types[p])
    BY <1>5, TypedNames DEF Awaits, AccountOps, OrNone
  <2>3. Leaves(p, command[p].user, connected_user[p], listener_socket[p], disk[p], doubtful[p])
    BY <1>1, <1>5, <2>2, Remembered DEF Leaves, sockets
  <2>4. /\ Turn(p) /\ ClientInv(p)' /\ command'[p].op = "NONE"
        /\ registered_user'[p] = command[p].user
        /\ connected_user'[p] = connected_user[p]
        /\ listener_socket'[p] = listener_socket[p] /\ disk'[p] = disk[p] /\ doubtful'[p] = doubtful[p]
    BY <1>5, <2>1, <2>3, BackTurn
  <2> QED
    BY <1>5, <2>1, <2>4 DEF GoesOn, Accounts, Closed, Awaits
<1> QED
  BY <1>2, <1>3, <1>4, <1>5 DEF register, Finished

(* UNREGISTER and QUIT go on without an exchange: to disconnect if there   *)
(* is somebody to disconnect.                                              *)
LEMMA GotoTurn ==
  ASSUME GInv, NEW p \in Peers, shell[p] \in {"UNREGISTER", "QUIT"},
         NEW l \in {"disconnect", "unregister"}, Goto(p, l),
         l = "disconnect" => connected_user[p] # None,
         l = "unregister" => shell[p] = "UNREGISTER" /\ connected_user[p] # command[p].user,
         UNCHANGED <<dirvars, session, sockets, files, command, sock>>
  PROVE  Turn(p) /\ GoesOn(p)
<1>1. sock[p] = None /\ (\A op : ~Awaits(p, op)) /\ command[p].op = shell[p]
  BY Executing, Remembered DEF ClientOps, CommandTyped
<1>2. Closed(p)
  BY <1>1, ClosedBy
<1>3. Lands(p, l, command[p])
  BY Remembered DEF Goto, Lands
<1>4. Leaves(p, registered_user[p], connected_user[p], listener_socket[p], disk[p], doubtful[p])
  BY Remembered DEF Leaves, session, sockets
<1>5. /\ Turn(p) /\ SessionTyped(p)' /\ sock'[p] = None
      /\ shell'[p] = l /\ command'[p] = command[p]
      /\ registered_user'[p] = registered_user[p] /\ connected_user'[p] = connected_user[p]
      /\ listener_socket'[p] = listener_socket[p]
      /\ disk'[p] = disk[p] /\ doubtful'[p] = doubtful[p]
  BY <1>2, <1>3, <1>4, MoveTurn
<1>6. ClientInv(p)'
  <2>1. CommandTyped(p)'
    BY <1>1, <1>5, Remembered DEF CommandTyped, ClientOps
  <2>2. Waits(p)'
    BY <1>5 DEF Waits, OrNone
  <2> QED
    BY <1>5, <2>1, <2>2 DEF ClientInv
<1> QED
  BY <1>1, <1>2, <1>5, <1>6 DEF GoesOn, Accounts, Closed

(* unregister forgets the registered user, whoever it names.               *)
LEMMA ForgetBack ==
  ASSUME GInv, NEW p \in Peers, Closed(p), Back(p), Forget(p),
         UNCHANGED <<connected_user, sockets, files>>,
         command[p].op = "UNREGISTER", shell[p] # "recv disconnect"
  PROVE  Turn(p) /\ GoesOn(p)
<1>1. Leaves(p, None, connected_user[p], listener_socket[p], disk[p], doubtful[p])
  BY Remembered DEF Leaves, sockets, Forget
<1>2. /\ Turn(p) /\ ClientInv(p)' /\ command'[p].op = "NONE"
      /\ registered_user'[p] = None
      /\ connected_user'[p] = connected_user[p]
      /\ listener_socket'[p] = listener_socket[p]
      /\ disk'[p] = disk[p] /\ doubtful'[p] = doubtful[p]
  BY <1>1, BackTurn DEF sockets
<1>3. \A op : Awaits(p, op) => op = "UNREGISTER"
  BY DEF Awaits
<1> QED
  BY <1>2, <1>3 DEF GoesOn, Accounts, Closed

(* unregister asks only in the name of a user who is not connected here.   *)
LEMMA UnregisterTurn ==
  ASSUME GInv, NEW p \in Peers, unregister(p) PROVE Turn(p) /\ (Asks(p) \/ GoesOn(p))
<1>1. UNCHANGED <<connected_user, sockets, files>>
  BY DEF unregister
<1>2. CASE /\ Executes(p, "UNREGISTER")
           /\ \/ connected_user[p] = command[p].user /\ Goto(p, "disconnect")
              \/ connected_user[p] # command[p].user /\ Goto(p, "unregister")
           /\ UNCHANGED <<dirvars, sock, command, registered_user>>
  <2>1. command[p].user # None
    BY <1>2, TypedNames DEF Executes, AccountOps
  <2>2. shell[p] = "UNREGISTER" /\ UNCHANGED <<dirvars, session, sockets, files, command, sock>>
    BY <1>1, <1>2 DEF Executes, session
  <2>3. CASE connected_user[p] = command[p].user /\ Goto(p, "disconnect")
    BY <2>1, <2>2, <2>3, GotoTurn
  <2>4. CASE connected_user[p] # command[p].user /\ Goto(p, "unregister")
    BY <2>2, <2>4, GotoTurn
  <2> QED
    BY <1>2, <2>3, <2>4
<1>3. CASE /\ shell[p] = "unregister" /\ UNCHANGED registered_user
           /\ Ask(p, [op |-> "UNREGISTER", username |-> command[p].user], "recv")
  <2> DEFINE r == [op |-> "UNREGISTER", username |-> command[p].user]
  <2>1. /\ command[p].op = "UNREGISTER" /\ connected_user[p] # command[p].user
        /\ sock[p] = None
    BY <1>3, Remembered, Executing DEF CommandTyped
  <2>2. command[p].user \in Names
    BY <2>1, TypedNames DEF AccountOps
  <2>3. Proper(r) /\ Fits(p, r, "recv", listener_socket[p])
    BY <2>1, <2>2 DEF Proper, Fits, AccountOps
  <2>4. /\ Ask(p, r, "recv") /\ UNCHANGED <<session, files>> /\ Threads(p)
        /\ listener_socket' = [listener_socket EXCEPT ![p] = listener_socket[p]]
        /\ listener_socket[p] \in OrNone(Endpoints)
    BY <1>1, <1>3, Remembered DEF session, sockets
  <2> HIDE DEF r
  <2> QED
    BY <1>3, <2>1, <2>3, <2>4, AskTurn
<1>4. CASE /\ shell[p] \in {"UNREGISTER", "unregister"} /\ command[p].op = "UNREGISTER"
           /\ Refused /\ Back(p) /\ Forget(p)
  <2>1. sock[p] = None
    BY <1>4, Executing DEF ClientOps
  <2>2. Closed(p)
    BY <1>4, <2>1, ClosedBy DEF Refused
  <2> QED
    BY <1>1, <1>4, <2>1, <2>2, ForgetBack
<1>5. CASE Awaits(p, "UNREGISTER") /\ Finished(p) /\ Back(p) /\ Forget(p)
  <2>1. Closed(p)
    BY <1>5, ClosedBy
  <2> QED
    BY <1>1, <1>5, <2>1, ForgetBack DEF Awaits
<1>6. shell[p] = "unregister" => command[p].op = "UNREGISTER"
  BY Remembered DEF CommandTyped
<1> QED
  BY <1>2, <1>3, <1>4, <1>5, <1>6 DEF unregister, Executes

(* The content commands send in the name of the registered user.           *)
LEMMA ContentRequest ==
  ASSUME GInv, NEW p \in Peers, NEW op \in {"PUBLISH", "DELETE"}, command[p].op = op
  PROVE  LET r == [op |-> op, username |-> Sender(p), filename |-> command[p].file]
         IN  Proper(r) /\ Fits(p, r, "recv", listener_socket[p])
<1>1. command[p].file \in Files
  BY Remembered DEF CommandTyped
<1>2. Sender(p) \in Names \cup {Anonymous}
  BY TypedNames
<1> QED
  BY <1>1, <1>2 DEF Proper, Fits, AccountOps

(* publish ends with the file in place, or in doubt.                       *)
LEMMA PublishTurn ==
  ASSUME GInv, NEW p \in Peers, publish(p) PROVE Turn(p) /\ (Asks(p) \/ GoesOn(p))
<1> DEFINE f == command[p].file
<1>1. UNCHANGED <<session, sockets>>
  BY DEF publish
<1>2. CASE /\ Executes(p, "PUBLISH") /\ UNCHANGED files
           /\ Ask(p, [op |-> "PUBLISH", username |-> Sender(p), filename |-> f], "recv")
  <2> DEFINE r == [op |-> "PUBLISH", username |-> Sender(p), filename |-> f]
  <2>1. Proper(r) /\ Fits(p, r, "recv", listener_socket[p])
    BY <1>2, ContentRequest DEF Executes
  <2>2. Ask(p, r, "recv") /\ "PUBLISH" \in ClientOps
    BY <1>2 DEF ClientOps
  <2> HIDE DEF r
  <2> QED
    BY <1>1, <1>2, <2>1, <2>2, QuietAsk
<1>3. CASE Executes(p, "PUBLISH") /\ Refused /\ Back(p) /\ UNCHANGED files
  <2>1. shell[p] = "PUBLISH" /\ sock[p] = None /\ \A op : ~Awaits(p, op)
    BY <1>3, Executing DEF Executes, ClientOps
  <2>2. Closed(p)
    BY <1>3, <2>1, ClosedBy DEF Refused
  <2> QED
    BY <1>1, <1>3, <2>1, <2>2, QuietBack, Remembered DEF sockets
<1>4. CASE /\ Awaits(p, "PUBLISH") /\ Back(p) /\ Finished(p)
           /\ UNCHANGED disk /\ Doubt(p, f)
  <2> DEFINE g == doubtful[p] \cup {f}
  <2>1. Closed(p) /\ shell[p] # "recv disconnect" /\ ~Awaits(p, "CONNECT")
    BY <1>4, ClosedBy DEF Awaits
  <2>2. g \in SUBSET (Files \cup Downloads) /\ doubtful' = [doubtful EXCEPT ![p] = g]
    BY <1>4, Remembered DEF CommandTyped, Awaits, Doubt
  <2>3. disk[p] \subseteq Files \cup Downloads /\ disk' = [disk EXCEPT ![p] = disk[p]]
    BY <1>4, Remembered
  <2>4. Threads(p) /\ UNCHANGED <<session, listener_socket>>
    BY <1>1, Remembered DEF sockets
  <2>5. doubtful[p] \subseteq g /\ f \in g
    OBVIOUS
  <2> HIDE DEF g
  <2> QED
    BY <1>4, <2>1, <2>2, <2>3, <2>4, <2>5, QuietBack
<1>5. CASE /\ Awaits(p, "PUBLISH") /\ Back(p) /\ Answered(p) /\ Code(p) = 0
           /\ disk' = [disk EXCEPT ![p] = @ \cup {f}] /\ UNCHANGED doubtful
  <2> DEFINE d == disk[p] \cup {f}
  <2>1. Closed(p) /\ phase'[sock[p]] = "idle"
    BY <1>5, ClosedBy DEF Finished
  <2>2. d \in SUBSET (Files \cup Downloads)
    BY <1>5, Remembered DEF CommandTyped, Awaits
  <2>3. Leaves(p, registered_user[p], connected_user[p], listener_socket[p], d, doubtful[p])
    BY <1>1, <1>5, <2>2, Remembered DEF Leaves, session, sockets
  <2> HIDE DEF d
  <2>4. /\ Turn(p) /\ ClientInv(p)' /\ command'[p].op = "NONE"
        /\ registered_user'[p] = registered_user[p]
        /\ connected_user'[p] = connected_user[p]
        /\ listener_socket'[p] = listener_socket[p]
        /\ disk'[p] = d /\ doubtful'[p] = doubtful[p]
    BY <1>5, <2>1, <2>3, BackTurn
  <2>5. \A op : Awaits(p, op) => op = "PUBLISH"
    BY <1>5 DEF Awaits
  <2>6. disk[p] \ disk'[p] = {} /\ f \in disk'[p] /\ shell[p] # "recv disconnect"
    BY <1>5, <2>4 DEF d, Awaits
  <2>7. Granted(p)
    BY <1>5 DEF Granted, Done, Answered
  <2>8. Accounts(p)
    BY <2>1, <2>4, <2>6, <2>7 DEF Accounts
  <2> QED
    BY <2>1, <2>4, <2>5, <2>6, <2>8 DEF GoesOn, Closed
<1> QED
  BY <1>2, <1>3, <1>4, <1>5 DEF publish, Finished

(* delete removes the file once it is granted.                             *)
LEMMA DeleteTurn ==
  ASSUME GInv, NEW p \in Peers, delete(p) PROVE Turn(p) /\ (Asks(p) \/ GoesOn(p))
<1>1. UNCHANGED <<session, sockets>>
  BY DEF delete
<1>2. CASE /\ Executes(p, "DELETE") /\ UNCHANGED files
           /\ Ask(p, [op |-> "DELETE", username |-> Sender(p),
                      filename |-> command[p].file], "recv")
  <2> DEFINE r == [op |-> "DELETE", username |-> Sender(p), filename |-> command[p].file]
  <2>1. Proper(r) /\ Fits(p, r, "recv", listener_socket[p])
    BY <1>2, ContentRequest DEF Executes
  <2>2. Ask(p, r, "recv") /\ "DELETE" \in ClientOps
    BY <1>2 DEF ClientOps
  <2> HIDE DEF r
  <2> QED
    BY <1>1, <1>2, <2>1, <2>2, QuietAsk
<1>3. CASE Executes(p, "DELETE") /\ Refused /\ Back(p) /\ UNCHANGED files
  <2>1. shell[p] = "DELETE" /\ sock[p] = None /\ \A op : ~Awaits(p, op)
    BY <1>3, Executing DEF Executes, ClientOps
  <2>2. Closed(p)
    BY <1>3, <2>1, ClosedBy DEF Refused
  <2> QED
    BY <1>1, <1>3, <2>1, <2>2, QuietBack, Remembered DEF sockets
<1>4. CASE Awaits(p, "DELETE") /\ Back(p) /\ UNCHANGED files /\ Finished(p)
  <2>1. Closed(p)
    BY <1>4, ClosedBy
  <2> QED
    BY <1>1, <1>4, <2>1, QuietBack, Remembered DEF sockets, Awaits
<1>5. CASE /\ Awaits(p, "DELETE") /\ Back(p) /\ Answered(p) /\ Code(p) = 0
           /\ disk' = [disk EXCEPT ![p] = @ \ {command[p].file}] /\ UNCHANGED doubtful
  <2> DEFINE d == disk[p] \ {command[p].file}
  <2>1. Closed(p)
    BY <1>5, ClosedBy DEF Finished
  <2>2. d \in SUBSET (Files \cup Downloads)
    BY <1>5, Remembered
  <2>3. Leaves(p, registered_user[p], connected_user[p], listener_socket[p], d, doubtful[p])
    BY <1>1, <1>5, <2>2, Remembered DEF Leaves, session, sockets
  <2> HIDE DEF d
  <2>4. /\ Turn(p) /\ ClientInv(p)' /\ command'[p].op = "NONE"
        /\ registered_user'[p] = registered_user[p]
        /\ connected_user'[p] = connected_user[p]
        /\ listener_socket'[p] = listener_socket[p] /\ disk'[p] = d /\ doubtful'[p] = doubtful[p]
    BY <1>5, <2>1, <2>3, BackTurn
  <2>5. \A op : Awaits(p, op) => op = "DELETE"
    BY <1>5 DEF Awaits
  <2>6. Granted(p) /\ shell[p] # "recv disconnect"
    BY <1>5 DEF Granted, Done, Answered, Awaits
  <2>7. \A f \in disk[p] \ disk'[p] : command[p].file = f
    BY <2>4 DEF d
  <2> QED
    BY <1>5, <2>1, <2>4, <2>5, <2>6, <2>7 DEF GoesOn, Accounts, Closed
<1> QED
  BY <1>2, <1>3, <1>4, <1>5 DEF delete, Finished

(* The listings are printed and forgotten.                                 *)
LEMMA ListTurn ==
  ASSUME GInv, NEW p \in Peers, listusers(p) \/ listcontent(p)
  PROVE  Turn(p) /\ (Asks(p) \/ GoesOn(p))
<1>1. UNCHANGED <<session, sockets, files>>
  BY DEF listusers, listcontent
<1>2. ASSUME NEW op \in {"LIST_USERS", "LIST_CONTENT"}, Executes(p, op),
             NEW r, r.op = op, Ask(p, r, "recv")
      PROVE  Turn(p) /\ Asks(p)
  <2>1. Proper(r) /\ Fits(p, r, "recv", listener_socket[p])
    BY <1>2 DEF Proper, Fits, Executes, AccountOps
  <2>2. op \in ClientOps
    BY DEF ClientOps
  <2> QED
    BY <1>1, <1>2, <2>1, <2>2, QuietAsk
<1>3. ASSUME NEW op \in {"LIST_USERS", "LIST_CONTENT"}, Back(p),
             (Executes(p, op) /\ Refused) \/ (Awaits(p, op) /\ Finished(p))
      PROVE  Turn(p) /\ GoesOn(p)
  <2>1. Executes(p, op) => sock[p] = None
    BY <1>3, Executing DEF Executes, ClientOps
  <2>2. Closed(p)
    BY <1>3, <2>1, ClosedBy DEF Refused
  <2>3. /\ shell[p] # "recv disconnect"
        /\ ~Awaits(p, "CONNECT") /\ ~Awaits(p, "PUBLISH")
    BY <1>3 DEF Awaits, Executes
  <2> QED
    BY <1>1, <1>3, <2>2, <2>3, QuietBack, Remembered DEF sockets
<1>4. CASE listusers(p)
  <2> DEFINE r == [op |-> "LIST_USERS", username |-> Sender(p)]
  <2>1. r.op = "LIST_USERS"
    OBVIOUS
  <2>2. \/ Executes(p, "LIST_USERS") /\ Ask(p, r, "recv")
        \/ /\ Back(p)
           /\ \/ Executes(p, "LIST_USERS") /\ Refused
              \/ Awaits(p, "LIST_USERS") /\ Finished(p)
    BY <1>4 DEF listusers
  <2> HIDE DEF r
  <2> QED
    BY <2>1, <2>2, <1>2, <1>3
<1>5. CASE listcontent(p)
  <2> DEFINE r == [op |-> "LIST_CONTENT", username |-> Sender(p), remote |-> command[p].user]
  <2>1. r.op = "LIST_CONTENT"
    OBVIOUS
  <2>2. \/ Executes(p, "LIST_CONTENT") /\ Ask(p, r, "recv")
        \/ /\ Back(p)
           /\ \/ Executes(p, "LIST_CONTENT") /\ Refused
              \/ Awaits(p, "LIST_CONTENT") /\ Finished(p)
    BY <1>5 DEF listcontent
  <2> HIDE DEF r
  <2> QED
    BY <2>1, <2>2, <1>2, <1>3
<1> QED
  BY <1>4, <1>5

(* The other user has been found: the client goes on to dial it.           *)
LEMMA DialTurn ==
  ASSUME GInv, NEW p \in Peers, Awaits(p, "GET_FILE"), Answered(p),
         UNCHANGED <<session, sockets, files>>,
         shell' = [shell EXCEPT ![p] = "dial"],
         NEW m, command' = [command EXCEPT ![p] = m],
         m.op = "GET_FILE", m.local = command[p].local
  PROVE  Turn(p) /\ GoesOn(p)
<1>1. Closed(p)
  BY ClosedBy DEF Finished
<1>2. Leaves(p, registered_user[p], connected_user[p], listener_socket[p], disk[p], doubtful[p])
  BY Remembered DEF Leaves, session, sockets
<1>3. /\ Turn(p) /\ SessionTyped(p)' /\ sock'[p] = None
      /\ shell'[p] = "dial" /\ command'[p] = m
      /\ registered_user'[p] = registered_user[p] /\ connected_user'[p] = connected_user[p]
      /\ listener_socket'[p] = listener_socket[p] /\ disk'[p] = disk[p] /\ doubtful'[p] = doubtful[p]
  BY <1>1, <1>2, MoveTurn DEF Lands
<1>4. shell[p] = "recv" /\ command[p].op = "GET_FILE" /\ \A op : Awaits(p, op) => op = "GET_FILE"
  BY DEF Awaits
<1>5. CommandTyped(p)'
  BY <1>3, <1>4, Remembered DEF CommandTyped, ClientOps, AccountOps
<1>6. Waits(p)'
  BY <1>3 DEF Waits, OrNone
<1> QED
  BY <1>1, <1>3, <1>4, <1>5, <1>6 DEF GoesOn, Accounts, Closed, ClientInv

(* getfile asks where the other user is, and dials once it knows.          *)
LEMMA GetfileTurn ==
  ASSUME GInv, NEW p \in Peers, getfile(p) PROVE Turn(p) /\ (Asks(p) \/ GoesOn(p))
<1>1. UNCHANGED <<session, sockets, files>>
  BY DEF getfile
<1>2. CASE /\ Executes(p, "GET_FILE")
           /\ Ask(p, [op |-> "LIST_USERS", username |-> connected_user[p]], "recv")
  <2> DEFINE r == [op |-> "LIST_USERS", username |-> connected_user[p]]
  <2>1. Proper(r) /\ Fits(p, r, "recv", listener_socket[p])
    BY <1>2 DEF Proper, Fits, Executes, AccountOps
  <2>2. Ask(p, r, "recv") /\ "GET_FILE" \in ClientOps
    BY <1>2 DEF ClientOps
  <2> HIDE DEF r
  <2> QED
    BY <1>1, <1>2, <2>1, <2>2, QuietAsk
<1>3. CASE /\ Back(p)
           /\ \/ Executes(p, "GET_FILE") /\ UNCHANGED <<dirvars, sock>>
              \/ Awaits(p, "GET_FILE") /\ Finished(p)
  <2>1. Executes(p, "GET_FILE") => sock[p] = None
    BY Executing DEF Executes, ClientOps
  <2>2. Closed(p)
    BY <1>3, <2>1, ClosedBy
  <2>3. /\ shell[p] # "recv disconnect"
        /\ ~Awaits(p, "CONNECT") /\ ~Awaits(p, "PUBLISH")
    BY <1>3 DEF Awaits, Executes
  <2> QED
    BY <1>1, <1>3, <2>2, <2>3, QuietBack, Remembered DEF sockets
<1>4. ASSUME NEW e, Awaits(p, "GET_FILE"), Answered(p), Goto(p, "dial"),
             command' = [command EXCEPT ![p] =
                           [op |-> "GET_FILE", user |-> @.user, file |-> @.file,
                            local |-> @.local, remote |-> e]]
      PROVE  Turn(p) /\ GoesOn(p)
  <2> DEFINE m == [op |-> "GET_FILE", user |-> command[p].user, file |-> command[p].file,
                   local |-> command[p].local, remote |-> e]
  <2>1. m.op = "GET_FILE" /\ m.local = command[p].local
    OBVIOUS
  <2>2. command' = [command EXCEPT ![p] = m] /\ shell' = [shell EXCEPT ![p] = "dial"]
    BY <1>4 DEF Goto
  <2> HIDE DEF m
  <2> QED
    BY <1>1, <1>4, <2>1, <2>2, DialTurn
<1> QED
  BY <1>2, <1>3, <1>4 DEF getfile, Finished, Refused

(* The socket and the thread connect makes, or not, before it asks.        *)
LEMMA ConnectThreads ==
  ASSUME GInv, NEW p \in Peers, UNCHANGED old_threads,
         \/ unstarted' \in {unstarted, unstarted \ {p}}
         \/ unstarted' = unstarted \cup {p} /\ "threads" \in Faults
  PROVE  Threads(p)
BY Remembered DEF Threads

(* connect goes back to the prompt before it has asked.                    *)
LEMMA ConnectBack ==
  ASSUME GInv, NEW p \in Peers, Executes(p, "CONNECT"), Back(p), Threads(p),
         UNCHANGED <<dirvars, session, files, sock>>, Faults # {},
         NEW e \in OrNone(Endpoints), listener_socket' = [listener_socket EXCEPT ![p] = e],
         e = listener_socket[p] \/ listener_socket[p] = None
  PROVE  Turn(p) /\ GoesOn(p)
<1>1. shell[p] = "CONNECT" /\ sock[p] = None /\ \A op : ~Awaits(p, op)
  BY Executing DEF Executes, ClientOps
<1>2. Closed(p)
  BY <1>1, ClosedBy
<1>3. Leaves(p, registered_user[p], connected_user[p], e, disk[p], doubtful[p])
  BY Remembered DEF Leaves, session
<1>4. /\ Turn(p) /\ ClientInv(p)' /\ command'[p].op = "NONE"
      /\ registered_user'[p] = registered_user[p]
      /\ connected_user'[p] = connected_user[p]
      /\ listener_socket'[p] = e /\ disk'[p] = disk[p] /\ doubtful'[p] = doubtful[p]
  BY <1>2, <1>3, BackTurn
<1> QED
  BY <1>1, <1>2, <1>4 DEF GoesOn, Accounts, Closed

(* connect makes the socket first and keeps it, whatever it is answered.   *)
LEMMA ConnectTurn ==
  ASSUME GInv, NEW p \in Peers, connect(p) PROVE Turn(p) /\ (Asks(p) \/ GoesOn(p))
<1>1. UNCHANGED <<registered_user, old_threads, files>>
  BY DEF connect
<1>2. ASSUME Executes(p, "CONNECT"), UNCHANGED connected_user,
             NEW e \in IF listener_socket[p] = None THEN Endpoints \ Taken
                       ELSE {listener_socket[p]},
             listener_socket' = [listener_socket EXCEPT ![p] = e],
             unstarted' \in {unstarted, unstarted \ {p}},
             \/ Ask(p, [op |-> "CONNECT", username |-> command[p].user,
                        endpoint |-> e], "recv")
             \/ Refused /\ Back(p)
      PROVE  Turn(p) /\ (Asks(p) \/ GoesOn(p))
  <2>1. /\ e \in Endpoints /\ e # None /\ e \in OrNone(Endpoints)
        /\ e = listener_socket[p] \/ listener_socket[p] = None
    BY <1>2, Remembered DEF OrNone
  <2>2. shell[p] = "CONNECT" /\ sock[p] = None
    BY <1>2, Executing DEF Executes, ClientOps
  <2>3. Threads(p) /\ UNCHANGED <<session, files>>
    BY <1>1, <1>2, ConnectThreads DEF session
  <2>4. CASE Ask(p, [op |-> "CONNECT", username |-> command[p].user, endpoint |-> e], "recv")
    <3> DEFINE r == [op |-> "CONNECT", username |-> command[p].user, endpoint |-> e]
    <3>1. command[p].user \in Names
      BY <1>2, TypedNames DEF Executes, AccountOps
    <3>2. Proper(r) /\ Fits(p, r, "recv", e)
      BY <1>2, <2>1, <3>1 DEF Proper, Fits, Executes, AccountOps
    <3>3. Ask(p, r, "recv") /\ shell[p] \in ClientOps
      BY <2>2, <2>4 DEF ClientOps
    <3> HIDE DEF r
    <3> QED
      BY <1>2, <2>1, <2>2, <2>3, <3>2, <3>3, AskTurn
  <2>5. CASE Refused /\ Back(p)
    BY <1>2, <2>1, <2>3, <2>5, ConnectBack DEF Refused
  <2> QED
    BY <1>2, <2>4, <2>5
<1>3. ASSUME Executes(p, "CONNECT"), UNCHANGED connected_user, listener_socket[p] = None,
             ListenFails(p), Back(p), UNCHANGED <<dirvars, sock>>
      PROVE  Turn(p) /\ GoesOn(p)
  <2>1. UNCHANGED <<dirvars, session, files, sock>> /\ Faults # {}
    BY <1>1, <1>3 DEF session, ListenFails
  <2>2. CASE UNCHANGED <<listener_socket, unstarted>>
    <3>1. Threads(p) /\ listener_socket' = [listener_socket EXCEPT ![p] = listener_socket[p]]
      BY <1>1, <2>2, Remembered
    <3> QED
      BY <1>3, <2>1, <3>1, ConnectBack, Remembered
  <2>3. ASSUME NEW e \in Endpoints, listener_socket' = [listener_socket EXCEPT ![p] = e],
               unstarted' = unstarted \cup {p}
        PROVE  Turn(p) /\ GoesOn(p)
    <3>1. Threads(p) /\ e \in OrNone(Endpoints)
      BY <1>1, <1>3, <2>3, ConnectThreads DEF ListenFails, OrNone
    <3> QED
      BY <1>3, <2>1, <2>3, <3>1, ConnectBack
  <2> QED
    BY <1>3, <2>2, <2>3 DEF ListenFails
<1>4. CASE /\ Awaits(p, "CONNECT") /\ Back(p)
           /\ UNCHANGED <<listener_socket, unstarted, connected_user>>
           /\ (Answered(p) /\ Code(p) # 0) \/ Interrupted(p)
  <2>1. Closed(p) /\ ~(Answering /\ Granted(p))
    BY <1>4, ClosedBy DEF Finished, Granted
  <2>2. Threads(p) /\ shell[p] # "recv disconnect" /\ ~Awaits(p, "PUBLISH")
    BY <1>1, <1>4, Remembered DEF Awaits
  <2> QED
    BY <1>1, <1>4, <2>1, <2>2, QuietBack, Remembered DEF session
<1>5. CASE /\ Awaits(p, "CONNECT") /\ Back(p) /\ UNCHANGED <<listener_socket, unstarted>>
           /\ Answered(p) /\ Code(p) = 0
           /\ connected_user' = [connected_user EXCEPT ![p] = command[p].user]
  <2>1. Closed(p)
    BY <1>5, ClosedBy DEF Finished
  <2>2. command[p].user \in Types[p] /\ command[p].user # None
    BY <1>5, TypedNames DEF Awaits, AccountOps
  <2>3. Leaves(p, registered_user[p], command[p].user, listener_socket[p],
               disk[p], doubtful[p])
    BY <1>1, <1>5, <2>2, Remembered DEF Leaves, OrNone
  <2>4. /\ Turn(p) /\ ClientInv(p)' /\ command'[p].op = "NONE"
        /\ registered_user'[p] = registered_user[p]
        /\ connected_user'[p] = command[p].user
        /\ listener_socket'[p] = listener_socket[p]
        /\ disk'[p] = disk[p] /\ doubtful'[p] = doubtful[p]
    BY <1>5, <2>1, <2>3, BackTurn
  <2>5. \A op : Awaits(p, op) => op = "CONNECT"
    BY <1>5 DEF Awaits
  <2>6. Granted(p)
    BY <1>5 DEF Granted, Done, Answered
  <2> QED
    BY <1>5, <2>1, <2>2, <2>4, <2>5, <2>6 DEF GoesOn, Accounts, Closed
<1>6. CASE Executes(p, "CONNECT")
  <2>1. UNCHANGED connected_user
    BY <1>6 DEF connect, Executes, Awaits
  <2>2. CASE listener_socket[p] = None /\ ListenFails(p) /\ Back(p) /\ UNCHANGED <<dirvars, sock>>
    BY <1>3, <1>6, <2>1, <2>2
  <2>3. CASE \E e \in IF listener_socket[p] = None THEN Endpoints \ Taken
                      ELSE {listener_socket[p]} :
               /\ listener_socket' = [listener_socket EXCEPT ![p] = e]
               /\ unstarted' \in {unstarted, unstarted \ {p}}
               /\ \/ Ask(p, [op |-> "CONNECT", username |-> command[p].user,
                             endpoint |-> e], "recv")
                  \/ Refused /\ Back(p)
    BY <1>2, <1>6, <2>1, <2>3
  <2> QED
    BY <1>6, <2>2, <2>3 DEF connect, Executes, Awaits
<1> QED
  BY <1>4, <1>5, <1>6 DEF connect

(* The name a DISCONNECT carries is one typed at p.                        *)
LEMMA DisconnectedName ==
  ASSUME GInv, NEW p \in Peers, shell[p] \in {"DISCONNECT", "disconnect", "recv disconnect"}
  PROVE  /\ User(p) \in Types[p]
         /\ command[p].op \in {"DISCONNECT", "UNREGISTER", "QUIT"} \cap Commands
         /\ command[p].op = "QUIT" => connected_user[p] # None
<1>1. CommandTyped(p) /\ connected_user[p] \in OrNone(Types[p])
  BY Remembered
<1>2. command[p].op \in {"DISCONNECT", "UNREGISTER", "QUIT"} \cap Commands
  BY <1>1 DEF CommandTyped, ClientOps
<1>3. command[p].op = "QUIT" => connected_user[p] # None
  BY <1>1 DEF CommandTyped, ClientOps
<1>4. command[p].op # "QUIT" => command[p].user \in Types[p]
  BY <1>1, <1>2 DEF CommandTyped, AccountOps
<1> QED
  BY <1>1, <1>2, <1>3, <1>4 DEF User, OrNone

(* The thread that is joined was started, or its start has failed.         *)
LEMMA ClosedThreads ==
  ASSUME GInv, NEW p \in Peers, CloseListener(p), UNCHANGED unstarted
  PROVE  Threads(p)
<1>1. listener_socket[p] # None => listener_socket[p] \in Endpoints
  BY Remembered DEF OrNone
<1>2. \/ UNCHANGED old_threads
      \/ /\ listener_socket[p] # None
         /\ old_threads' = [old_threads EXCEPT ![p] = old_threads[p] \cup {listener_socket[p]}]
  BY DEF CloseListener
<1> QED
  BY <1>1, <1>2, Remembered DEF Threads

(* p is past a DISCONNECT that was answered, if all are.                   *)
Stops(p) ==
  /\ shell[p] \in {"DISCONNECT", "disconnect", "recv disconnect"}
  /\ Answering => shell[p] = "recv disconnect" /\ Done(p)

(* disconnect returns to the command that has called it.                   *)
LEMMA ReturnTurn ==
  ASSUME GInv, NEW p \in Peers, Closed(p),
         NEW l \in {"unregister", "break"}, Lands(p, l, command[p]),
         Leaves(p, registered_user[p], None, None, disk[p], doubtful[p]),
         command[p].op = IF l = "break" THEN "QUIT" ELSE "UNREGISTER",
         command[p].op \in Commands, command[p].op = "UNREGISTER" => command[p].user # None,
         Stops(p)
  PROVE  Turn(p) /\ GoesOn(p)
<1>1. /\ Turn(p) /\ SessionTyped(p)' /\ sock'[p] = None
      /\ shell'[p] = l /\ command'[p] = command[p]
      /\ registered_user'[p] = registered_user[p] /\ connected_user'[p] = None
      /\ listener_socket'[p] = None
      /\ disk'[p] = disk[p] /\ doubtful'[p] = doubtful[p]
  BY MoveTurn
<1>2. CommandTyped(p)'
  BY <1>1, TypedNames DEF CommandTyped, ClientOps, AccountOps
<1>3. Waits(p)'
  BY <1>1 DEF Waits, OrNone
<1>4. \A op : ~Awaits(p, op)
  BY DEF Stops, Awaits
<1> QED
  BY <1>1, <1>2, <1>3, <1>4 DEF GoesOn, Accounts, Closed, ClientInv, Stops

(* disconnect gives the socket up however it ends, and forgets the user    *)
(* unless the join raises.                                                 *)
LEMMA StopTurn ==
  ASSUME GInv, NEW p \in Peers, StopListening(p), UNCHANGED files,
         \/ shell[p] \in {"DISCONNECT", "disconnect"} /\ Refused
         \/ shell[p] = "recv disconnect" /\ Finished(p)
  PROVE  Turn(p) /\ GoesOn(p)
<1>1. shell[p] \in {"DISCONNECT", "disconnect"} => sock[p] = None
  BY Executing DEF ClientOps
<1>2. Closed(p)
  BY <1>1, ClosedBy DEF Refused
<1>3. Threads(p) /\ listener_socket' = [listener_socket EXCEPT ![p] = None]
  BY ClosedThreads DEF StopListening, CloseListener
<1>4. \A op : ~Awaits(p, op)
  BY DEF Awaits
<1>5. Stops(p)
  BY DEF Stops, Answering, Refused, Finished, Answered, Interrupted, Done
<1>6. ASSUME Back(p),
             NEW ru \in OrNone(Types[p]),
             registered_user' = [registered_user EXCEPT ![p] = ru],
             NEW cu \in OrNone(Types[p]),
             connected_user' = [connected_user EXCEPT ![p] = cu],
             cu = None \/ (cu = connected_user[p] /\ ~Reliable)
      PROVE  Turn(p) /\ GoesOn(p)
  <2>1. Leaves(p, ru, cu, None, disk[p], doubtful[p])
    BY <1>3, <1>6, Remembered DEF Leaves
  <2>2. /\ Turn(p) /\ ClientInv(p)' /\ command'[p].op = "NONE"
        /\ registered_user'[p] = ru /\ connected_user'[p] = cu
        /\ listener_socket'[p] = None /\ disk'[p] = disk[p] /\ doubtful'[p] = doubtful[p]
    BY <1>2, <1>6, <2>1, BackTurn
  <2> QED
    BY <1>2, <1>4, <1>5, <1>6, <2>2 DEF GoesOn, Accounts, Closed, Stops
<1>7. CASE p \in unstarted
  <2>1. ~Reliable
    BY <1>7 DEF GInv, Shapes, Reliable
  <2>2. /\ Back(p) /\ UNCHANGED connected_user
        /\ registered_user' \in {registered_user, [registered_user EXCEPT ![p] = None]}
    BY <1>7 DEF StopListening, JoinRaises, Forget
  <2> QED
    BY <1>6, <2>1, <2>2, Remembered
<1>8. CASE p \notin unstarted
  <2>1. /\ connected_user' = [connected_user EXCEPT ![p] = None]
        /\ UNCHANGED registered_user /\ Return(p)
    BY <1>8 DEF StopListening, Disconnected
  <2>2. CASE Back(p)
    BY <1>6, <2>1, <2>2, Remembered
  <2>3. ASSUME NEW l \in {"unregister", "break"}, Goto(p, l), UNCHANGED command,
               command[p].op = IF l = "break" THEN "QUIT" ELSE "UNREGISTER"
        PROVE  Turn(p) /\ GoesOn(p)
    <3>1. Lands(p, l, command[p])
      BY <2>3, Remembered DEF Goto, Lands
    <3>2. Leaves(p, registered_user[p], None, None, disk[p], doubtful[p])
      BY <1>3, <2>1, Remembered DEF Leaves
    <3>3. command[p].op \in Commands
      BY DisconnectedName
    <3>4. command[p].op = "UNREGISTER" => command[p].user # None
      BY TypedNames DEF AccountOps
    <3> QED
      BY <1>2, <1>5, <2>3, <3>1, <3>2, <3>3, <3>4, ReturnTurn
  <2> QED
    BY <2>1, <2>2, <2>3 DEF Return
<1> QED
  BY <1>7, <1>8

(* disconnect asks in the name that was typed, or of the connected user.   *)
LEMMA DisconnectTurn ==
  ASSUME GInv, NEW p \in Peers, disconnect(p) PROVE Turn(p) /\ (Asks(p) \/ GoesOn(p))
<1>1. UNCHANGED files
  BY DEF disconnect
<1>2. CASE /\ shell[p] \in {"DISCONNECT", "disconnect"}
           /\ Ask(p, [op |-> "DISCONNECT", username |-> User(p)], "recv disconnect")
           /\ UNCHANGED <<session, sockets>>
  <2> DEFINE r == [op |-> "DISCONNECT", username |-> User(p)]
  <2>1. User(p) \in Names
    BY <1>2, DisconnectedName, TypedNames
  <2>2. Proper(r) /\ Fits(p, r, "recv disconnect", listener_socket[p])
    BY <2>1 DEF Proper, Fits
  <2>3. /\ Ask(p, r, "recv disconnect") /\ sock[p] = None
        /\ shell[p] \in ClientOps \cup {"disconnect"}
    BY <1>2, Executing DEF ClientOps
  <2>4. /\ UNCHANGED <<session, files>> /\ Threads(p)
        /\ listener_socket' = [listener_socket EXCEPT ![p] = listener_socket[p]]
        /\ listener_socket[p] \in OrNone(Endpoints)
    BY <1>1, <1>2, Remembered DEF sockets
  <2>5. /\ command[p].op \in {"DISCONNECT", "UNREGISTER", "QUIT"}
        /\ command[p].op = "QUIT" => connected_user[p] # None
    BY <1>2, DisconnectedName
  <2> HIDE DEF r
  <2> QED
    BY <2>2, <2>3, <2>4, <2>5, AskTurn
<1> QED
  BY <1>1, <1>2, StopTurn DEF disconnect

(* The user dials and is refused or has nothing to receive.                *)
LEMMA DialedTurn ==
  ASSUME GInv, NEW p \in Peers, DialFails(p) \/ \E q \in Peers : Serve(p, q)
  PROVE  Turn(p) /\ GoesOn(p)
<1>1. /\ shell[p] = "dial"
      /\ UNCHANGED <<dirvars, session, listener_socket, unstarted, files, sock>>
      /\ Back(p) \/ (Goto(p, "receive") /\ UNCHANGED command)
  BY DEF DialFails, Serve, sockets
<1>2. sock[p] = None /\ (\A op : ~Awaits(p, op)) /\ Closed(p)
  BY <1>1, Executing, ClosedBy
<1>3. old_threads' \in [Peers -> SUBSET Endpoints]
  <2>1. CASE UNCHANGED old_threads
    BY <2>1, Remembered
  <2>2. ASSUME NEW q \in Peers, NEW e, old_threads' = [old_threads EXCEPT ![q] = @ \ {e}]
        PROVE  old_threads' \in [Peers -> SUBSET Endpoints]
    BY <2>2, Remembered
  <2> QED
    BY <2>1, <2>2 DEF DialFails, Serve, sockets
<1>4. Threads(p)
  BY <1>1, <1>3 DEF Threads
<1>5. CASE Back(p)
  BY <1>1, <1>2, <1>4, <1>5, QuietBack, Remembered DEF session
<1>6. CASE Goto(p, "receive") /\ UNCHANGED command
  <2>1. Lands(p, "receive", command[p])
    BY <1>6, Remembered DEF Lands, Goto
  <2>2. Leaves(p, registered_user[p], connected_user[p], listener_socket[p],
               disk[p], doubtful[p])
    BY <1>1, <1>4, Remembered DEF Leaves, session
  <2>3. /\ Turn(p) /\ SessionTyped(p)' /\ sock'[p] = None
        /\ shell'[p] = "receive" /\ command'[p] = command[p]
        /\ registered_user'[p] = registered_user[p] /\ connected_user'[p] = connected_user[p]
        /\ listener_socket'[p] = listener_socket[p]
        /\ disk'[p] = disk[p] /\ doubtful'[p] = doubtful[p]
    BY <1>2, <2>1, <2>2, MoveTurn
  <2>4. CommandTyped(p)'
    BY <1>1, <2>3, Remembered DEF CommandTyped, ClientOps
  <2>5. Waits(p)'
    BY <2>3 DEF Waits, OrNone
  <2> QED
    BY <1>1, <1>2, <2>3, <2>4, <2>5 DEF GoesOn, Accounts, Closed, ClientInv
<1> QED
  BY <1>1, <1>5, <1>6

(* A download leaves its local name there, or in doubt, or untouched.      *)
LEMMA DownloadTurn ==
  ASSUME GInv, NEW p \in Peers, Download(p) PROVE Turn(p) /\ GoesOn(p)
<1> DEFINE l == command[p].local
<1>1. /\ shell[p] = "receive" /\ Back(p)
      /\ UNCHANGED <<dirvars, session, sockets, sock>>
  BY DEF Download
<1>2. sock[p] = None /\ (\A op : ~Awaits(p, op)) /\ Closed(p)
  BY <1>1, Executing, ClosedBy
<1>3. l \in Downloads
  BY <1>1, Remembered DEF CommandTyped
<1>4. PICK d \in SUBSET (Files \cup Downloads), g \in SUBSET (Files \cup Downloads) :
        /\ disk' = [disk EXCEPT ![p] = d] /\ doubtful' = [doubtful EXCEPT ![p] = g]
        /\ doubtful[p] \subseteq g /\ disk[p] \ d \subseteq g
  <2>1. CASE disk' = [disk EXCEPT ![p] = @ \cup {l}] /\ UNCHANGED doubtful
    <3>1. disk[p] \cup {l} \in SUBSET (Files \cup Downloads)
      BY <1>3, Remembered
    <3> QED
      BY <2>1, <3>1, Remembered
  <2>2. CASE disk' = [disk EXCEPT ![p] = @ \ {l}] /\ Doubt(p, l)
    <3>1. /\ disk[p] \ {l} \in SUBSET (Files \cup Downloads)
          /\ doubtful[p] \cup {l} \in SUBSET (Files \cup Downloads)
      BY <1>3, Remembered
    <3>2. disk[p] \ (disk[p] \ {l}) \subseteq doubtful[p] \cup {l}
      OBVIOUS
    <3> QED
      BY <2>2, <3>1, <3>2 DEF Doubt
  <2>3. CASE UNCHANGED files
    BY <2>3, Remembered
  <2> QED
    BY <2>1, <2>2, <2>3 DEF Download
<1>5. Threads(p) /\ shell[p] # "recv disconnect"
  BY <1>1, Remembered DEF sockets
<1> QED
  BY <1>1, <1>2, <1>4, <1>5, QuietBack DEF sockets

(* A process that ends forgets its session; of its files it leaves what    *)
(* the caller says.                                                        *)
LEMMA ExitTurn ==
  ASSUME GInv, NEW p \in Peers, Exit(p),
         \/ shell[p] \in {"QUIT", "break"} /\ connected_user[p] = None
         \/ "killed" \in Faults,
         NEW d \in SUBSET (Files \cup Downloads), disk' = [disk EXCEPT ![p] = d],
         NEW g \in SUBSET (Files \cup Downloads), doubtful' = [doubtful EXCEPT ![p] = g],
         doubtful[p] \subseteq g, disk[p] \subseteq d,
         Awaits(p, "PUBLISH") => command[p].file \in g
  PROVE  Turn(p) /\ GoesOn(p)
<1>1. "killed" \in Faults => ~Patient /\ ~Answering
  BY DEF Patient, Answering
<1>2. Closed(p)
  <2>1. sock' = [sock EXCEPT ![p] = None] /\ UNCHANGED dirvars
    BY DEF Exit
  <2>2. CASE shell[p] \in {"QUIT", "break"}
    <3>1. sock[p] = None
      BY <2>2, Executing DEF ClientOps
    <3>2. sock' = sock
      BY <2>1, <3>1 DEF GInv, Shapes
    <3> QED
      BY <2>1, <3>1, <3>2, ClosedBy
  <2>3. CASE "killed" \in Faults
    BY <1>1, <2>1, <2>3, ClosedBy
  <2> QED
    BY <2>2, <2>3
<1>3. Lands(p, "exited", NoCommand)
  BY DEF Exit, Goto, Lands
<1>4. Leaves(p, None, None, None, d, g)
  <2>1. Threads(p)
    BY Remembered DEF Exit, Threads
  <2> QED
    BY <2>1, Remembered DEF Leaves, Exit
<1>5. /\ Turn(p) /\ SessionTyped(p)' /\ sock'[p] = None
      /\ shell'[p] = "exited" /\ command'[p] = NoCommand
      /\ registered_user'[p] = None /\ connected_user'[p] = None
      /\ listener_socket'[p] = None /\ disk'[p] = d /\ doubtful'[p] = g
  BY <1>2, <1>3, <1>4, MoveTurn
<1>6. CommandTyped(p)' /\ Waits(p)'
  BY <1>5 DEF CommandTyped, Waits, NoCommand, AccountOps, ClientOps, OrNone
<1>7. Answering => connected_user[p] = None /\ ~Awaits(p, "CONNECT")
  BY <1>1 DEF Awaits
<1>8. Accounts(p)
  BY <1>5 DEF Accounts
<1> QED
  BY <1>2, <1>5, <1>6, <1>7, <1>8 DEF GoesOn, Closed, ClientInv

(* QUIT ends the process, or goes through disconnect first.                *)
LEMMA QuitTurn ==
  ASSUME GInv, NEW p \in Peers, Quit(p) PROVE Turn(p) /\ GoesOn(p)
<1>1. CASE Exit(p) /\ UNCHANGED files /\ shell[p] \in {"QUIT", "break"} /\ connected_user[p] = None
  <2>1. ~Awaits(p, "PUBLISH")
    BY <1>1 DEF Awaits
  <2> QED
    BY <1>1, <2>1, ExitTurn, Remembered
<1>2. shell[p] = "break" => connected_user[p] = None
  BY Remembered DEF CommandTyped
<1> QED
  BY <1>1, <1>2, GotoTurn DEF Quit, Executes

(* A kill leaves a PUBLISH in doubt, or a part of a file on disk.          *)
LEMMA KillTurn ==
  ASSUME GInv, NEW p \in Peers, Kill(p) PROVE Turn(p) /\ GoesOn(p)
<1>1. Exit(p) /\ "killed" \in Faults
  BY DEF Kill
<1>2. CASE Awaits(p, "PUBLISH") /\ Doubt(p, command[p].file) /\ UNCHANGED disk
  <2> DEFINE g == doubtful[p] \cup {command[p].file}
  <2>1. g \in SUBSET (Files \cup Downloads) /\ doubtful' = [doubtful EXCEPT ![p] = g]
    BY <1>2, Remembered DEF CommandTyped, Awaits, Doubt
  <2>2. doubtful[p] \subseteq g /\ command[p].file \in g
    OBVIOUS
  <2> HIDE DEF g
  <2> QED
    BY <1>1, <1>2, <2>1, <2>2, ExitTurn, Remembered
<1>3. CASE /\ shell[p] = "receive" /\ UNCHANGED doubtful
           /\ disk' = [disk EXCEPT ![p] = @ \cup {command[p].local}]
  <2> DEFINE d == disk[p] \cup {command[p].local}
  <2>1. d \in SUBSET (Files \cup Downloads) /\ disk' = [disk EXCEPT ![p] = d]
    BY <1>3, Remembered DEF CommandTyped
  <2>2. disk[p] \subseteq d /\ ~Awaits(p, "PUBLISH")
    BY <1>3 DEF Awaits
  <2> HIDE DEF d
  <2> QED
    BY <1>1, <1>3, <2>1, <2>2, ExitTurn, Remembered
<1>4. CASE ~Awaits(p, "PUBLISH") /\ UNCHANGED files
  BY <1>1, <1>4, ExitTurn, Remembered
<1> QED
  BY <1>2, <1>3, <1>4 DEF Kill

(* What is typed belongs to the prompt it is typed at.                     *)
LEMMA TypeTurn ==
  ASSUME GInv, NEW p \in Peers, Type(p) PROVE Turn(p) /\ GoesOn(p)
<1>1. PICK cmd \in CommandsOf(p) :
        command' = [command EXCEPT ![p] = cmd] /\ shell' = [shell EXCEPT ![p] = cmd.op]
  BY DEF Type, Goto
<1>2. PICK op \in ClientOps \cap Commands : cmd.op = op
  BY DEF CommandsOf, ClientOps
<1>3. /\ op \in AccountOps => cmd.user \in Types[p]
      /\ op \in {"PUBLISH", "DELETE"} => cmd.file \in Files
      /\ op = "GET_FILE" => cmd.local \in Downloads
  BY <1>2 DEF CommandsOf, AccountOps
<1>4. sock[p] = None /\ (\A o : ~Awaits(p, o)) /\ shell[p] = "prompt"
  BY Executing DEF Type
<1>5. Closed(p)
  BY <1>4, ClosedBy DEF Type
<1>6. Lands(p, op, cmd)
  BY <1>1, <1>2 DEF Lands
<1>7. Leaves(p, registered_user[p], connected_user[p], listener_socket[p], disk[p], doubtful[p])
  BY Remembered DEF Leaves, Type, session, sockets
<1>8. /\ Turn(p) /\ SessionTyped(p)' /\ sock'[p] = None
      /\ shell'[p] = op /\ command'[p] = cmd
      /\ registered_user'[p] = registered_user[p] /\ connected_user'[p] = connected_user[p]
      /\ listener_socket'[p] = listener_socket[p]
      /\ disk'[p] = disk[p] /\ doubtful'[p] = doubtful[p]
  BY <1>5, <1>6, <1>7, MoveTurn
<1>9. CommandTyped(p)'
  BY <1>2, <1>3, <1>8 DEF CommandTyped, ClientOps
<1>10. Waits(p)'
  BY <1>2, <1>8 DEF Waits, OrNone, ClientOps
<1> QED
  BY <1>4, <1>5, <1>8, <1>9, <1>10 DEF GoesOn, Accounts, Closed, ClientInv

(* The program is started again, with nothing to remember.                 *)
LEMMA StartTurn ==
  ASSUME GInv, NEW p \in Peers, Start(p) PROVE Turn(p) /\ GoesOn(p)
<1>1. sock[p] = None /\ (\A o : ~Awaits(p, o)) /\ shell[p] = "exited"
  BY Executing DEF Start
<1>2. Closed(p) /\ command[p].op = "NONE"
  BY <1>1, ClosedBy, Remembered DEF Start, CommandTyped
<1>3. Lands(p, "prompt", command[p])
  BY Remembered DEF Lands, Start, Goto
<1>4. Leaves(p, registered_user[p], connected_user[p], listener_socket[p], disk[p], doubtful[p])
  BY Remembered DEF Leaves, Start, session, sockets
<1>5. /\ Turn(p) /\ SessionTyped(p)' /\ sock'[p] = None
      /\ shell'[p] = "prompt" /\ command'[p] = command[p]
      /\ registered_user'[p] = registered_user[p] /\ connected_user'[p] = connected_user[p]
      /\ listener_socket'[p] = listener_socket[p]
      /\ disk'[p] = disk[p] /\ doubtful'[p] = doubtful[p]
  BY <1>2, <1>3, <1>4, MoveTurn
<1>6. CommandTyped(p)' /\ Waits(p)'
  BY <1>2, <1>5 DEF CommandTyped, Waits, OrNone, ClientOps, AccountOps
<1> QED
  BY <1>1, <1>2, <1>5, <1>6 DEF GoesOn, Accounts, Closed, ClientInv

(* Whatever a client does is one of the two kinds.                         *)
LEMMA ClientTurn ==
  ASSUME GInv, NEW p \in Peers, Type(p) \/ Run(p) \/ Kill(p) \/ Start(p)
  PROVE  Turn(p) /\ (Asks(p) \/ GoesOn(p))
<1>1. CASE Run(p)
  BY <1>1, RegisterTurn, UnregisterTurn, ConnectTurn, DisconnectTurn, PublishTurn,
     DeleteTurn, ListTurn, GetfileTurn, DialedTurn, DownloadTurn, QuitTurn DEF Run
<1> QED
  BY <1>1, KillTurn, TypeTurn, StartTurn

----------------------------------------------------------------------------
(* The server executes a request.                                          *)

(* One connection gets its answer; its caller's entry may change. *)
Serves(c) ==
  /\ Lines' /\ EntriesTyped' /\ UNCHANGED request
  /\ phase[c] = "pending" /\ phase'[c] = "done"
  /\ \A d \in Conns \ {c} : Undisturbed(d)
  /\ \A n \in Names : n # request[c].username =>
       /\ n \in registered' <=> n \in registered
       /\ online'[n] = online[n] /\ published'[n] = published[n]

(* What the answer tells of the entry of the caller. *)
Tells(c) ==
  LET r == request[c]
      code == reply'[c].code
      copies == published[r.username][r.filename]
  IN  /\ r.op \notin {"CONNECT", "DISCONNECT", "UNREGISTER"} => online' = online
      /\ r.op \notin {"PUBLISH", "DELETE", "UNREGISTER"} => published' = published
      /\ r.op = "CONNECT" =>
           \/ code # 0 /\ online' = online
           \/ /\ code = 0 /\ online[r.username] = Offline
              /\ online'[r.username] = r.endpoint
      /\ r.op = "DISCONNECT" =>
           online'[r.username] = Offline \/ (code # 0 /\ r.username \notin registered /\ online' = online)
      /\ r.op = "UNREGISTER" =>
           \/ online' = online /\ published' = published
           \/ /\ online'[r.username] = Offline
              /\ \A f \in Files : published'[r.username][f] = 0
      /\ r.op = "PUBLISH" =>
           \/ code # 0 /\ published' = published
           \/ /\ r.username \in Names /\ (code = 0 <=> copies = 0)
              /\ published'[r.username][r.filename] = copies + 1
              /\ \A f \in Files \ {r.filename} :
                   published'[r.username][f] = published[r.username][f]
      /\ r.op = "DELETE" =>
           \/ code # 0 /\ published' = published
           \/ /\ r.username \in Names /\ code = 0
              /\ published'[r.username][r.filename] = copies - 1
              /\ \A f \in Files \ {r.filename} :
                   published'[r.username][f] = published[r.username][f]

(* An answer goes to one connection.                                       *)
LEMMA AnswerEffect ==
  ASSUME GInv, NEW c \in Conns, phase[c] = "pending",
         NEW code, NEW listing, Dir!Answer(c, code, listing)
  PROVE  /\ Lines' /\ UNCHANGED request
         /\ phase'[c] = "done" /\ reply'[c].code = code
         /\ \A d \in Conns \ {c} : Undisturbed(d)
BY DEF GInv, Lines, Dir!Answer, Undisturbed

(* A request that is refused changes nothing.                              *)
LEMMA RefusedServes ==
  ASSUME GInv, NEW c \in Conns, phase[c] = "pending", NEW code, Dir!Refuse(c, code)
  PROVE  /\ Serves(c) /\ reply'[c].code = code
         /\ UNCHANGED <<registered, online, published>>
<1>1. Dir!Answer(c, code, {}) /\ UNCHANGED <<registered, online, published>>
  BY DEF Dir!Refuse
<1>2. /\ Lines' /\ UNCHANGED request
      /\ phase'[c] = "done" /\ reply'[c].code = code
      /\ \A d \in Conns \ {c} : Undisturbed(d)
  BY <1>1, AnswerEffect
<1>3. EntriesTyped'
  BY <1>1 DEF GInv, EntriesTyped
<1> QED
  BY <1>1, <1>2, <1>3 DEF Serves

(* A listing changes nothing either.                                       *)
LEMMA ListingServes ==
  ASSUME GInv, NEW c \in Conns, phase[c] = "pending", NEW listing,
         Dir!Answer(c, 0, listing), UNCHANGED <<registered, online, published>>
  PROVE  Serves(c)
<1>1. /\ Lines' /\ UNCHANGED request /\ phase'[c] = "done"
      /\ \A d \in Conns \ {c} : Undisturbed(d)
  BY AnswerEffect
<1>2. EntriesTyped'
  BY DEF GInv, EntriesTyped
<1> QED
  BY <1>1, <1>2 DEF Serves

(* REGISTER and UNREGISTER.                                                *)
LEMMA RegisterServes ==
  ASSUME GInv, NEW c \in Conns, Dir!Register(c) PROVE Serves(c) /\ Tells(c)
<1>1. phase[c] = "pending" /\ request[c].op = "REGISTER"
  BY DEF Dir!Register, Dir!Pending
<1>2. request[c].username \in Names
  BY <1>1 DEF GInv, Proper, AccountOps
<1>3. CASE \E code \in {0, 1} : Dir!Refuse(c, code)
  BY <1>1, <1>3, RefusedServes DEF Tells
<1>4. CASE /\ Dir!Answer(c, 0, {}) /\ registered' = registered \cup {Dir!Caller(c)}
           /\ UNCHANGED <<online, published>>
  <2>1. /\ Lines' /\ UNCHANGED request
        /\ phase'[c] = "done" /\ reply'[c].code = 0
        /\ \A d \in Conns \ {c} : Undisturbed(d)
    BY <1>1, <1>4, AnswerEffect
  <2>2. registered' = registered \cup {request[c].username}
    BY <1>4 DEF Dir!Caller
  <2>3. EntriesTyped'
    BY <1>2, <1>4, <2>2 DEF GInv, EntriesTyped
  <2> QED
    BY <1>1, <1>4, <2>1, <2>2, <2>3 DEF Serves, Tells
<1> QED
  BY <1>3, <1>4 DEF Dir!Register

(* UNREGISTER touches the entries of its own user only.                    *)
LEMMA UnregisterServes ==
  ASSUME GInv, NEW c \in Conns, Dir!Unregister(c) PROVE Serves(c) /\ Tells(c)
<1>1. phase[c] = "pending" /\ request[c].op = "UNREGISTER"
  BY DEF Dir!Unregister, Dir!Pending
<1>2. request[c].username \in Names
  BY <1>1 DEF GInv, Proper, AccountOps
<1>3. CASE Dir!Refuse(c, 1)
  BY <1>1, <1>3, RefusedServes DEF Tells
<1>4. CASE /\ Dir!Answer(c, 0, {}) /\ registered' = registered \ {Dir!Caller(c)}
           /\ online' = [online EXCEPT ![Dir!Caller(c)] = Offline]
           /\ published' = [published EXCEPT ![Dir!Caller(c)] = Dir!NoFiles]
  <2>1. /\ Lines' /\ UNCHANGED request
        /\ phase'[c] = "done" /\ reply'[c].code = 0
        /\ \A d \in Conns \ {c} : Undisturbed(d)
    BY <1>1, <1>4, AnswerEffect
  <2>2. /\ registered' = registered \ {request[c].username}
        /\ online' = [online EXCEPT ![request[c].username] = Offline]
        /\ published' = [published EXCEPT ![request[c].username] = [f \in Files |-> 0]]
    BY <1>4 DEF Dir!Caller, Dir!NoFiles
  <2>3. EntriesTyped'
    BY <1>2, <2>2 DEF GInv, EntriesTyped
  <2>4. /\ online'[request[c].username] = Offline
        /\ \A f \in Files : published'[request[c].username][f] = 0
        /\ \A n \in Names : n # request[c].username =>
             online'[n] = online[n] /\ published'[n] = published[n]
    BY <1>2, <2>2 DEF GInv, EntriesTyped
  <2> QED
    BY <1>1, <2>1, <2>2, <2>3, <2>4 DEF Serves, Tells
<1> QED
  BY <1>3, <1>4 DEF Dir!Unregister

(* CONNECT and DISCONNECT.                                                 *)
LEMMA ConnectServes ==
  ASSUME GInv, NEW c \in Conns, Dir!Connect(c) PROVE Serves(c) /\ Tells(c)
<1>1. phase[c] = "pending" /\ request[c].op = "CONNECT"
  BY DEF Dir!Connect, Dir!Pending
<1>2. request[c].username \in Names /\ request[c].endpoint \in Endpoints
  BY <1>1 DEF GInv, Proper, AccountOps
<1>3. ASSUME NEW code \in {1, 2}, Dir!Refuse(c, code) PROVE Serves(c) /\ Tells(c)
  BY <1>1, <1>3, RefusedServes DEF Tells
<1>4. CASE /\ Dir!Answer(c, 0, {}) /\ ~Dir!IsOnline(Dir!Caller(c))
           /\ online' = [online EXCEPT ![Dir!Caller(c)] = request[c].endpoint]
           /\ UNCHANGED <<registered, published>>
  <2>1. /\ Lines' /\ UNCHANGED request
        /\ phase'[c] = "done" /\ reply'[c].code = 0
        /\ \A d \in Conns \ {c} : Undisturbed(d)
    BY <1>1, <1>4, AnswerEffect
  <2>2. /\ online[request[c].username] = Offline
        /\ online' = [online EXCEPT ![request[c].username] = request[c].endpoint]
    BY <1>4 DEF Dir!Caller, Dir!IsOnline
  <2>3. EntriesTyped'
    BY <1>2, <1>4, <2>2 DEF GInv, EntriesTyped
  <2>4. /\ online'[request[c].username] = request[c].endpoint
        /\ \A n \in Names : n # request[c].username => online'[n] = online[n]
    BY <1>2, <2>2 DEF GInv, EntriesTyped
  <2> QED
    BY <1>1, <1>4, <2>1, <2>2, <2>3, <2>4 DEF Serves, Tells
<1> QED
  BY <1>3, <1>4 DEF Dir!Connect

(* DISCONNECT, granted or not, leaves its user offline or unknown.         *)
LEMMA DisconnectServes ==
  ASSUME GInv, NEW c \in Conns, Dir!Disconnect(c) PROVE Serves(c) /\ Tells(c)
<1>1. phase[c] = "pending" /\ request[c].op = "DISCONNECT"
  BY DEF Dir!Disconnect, Dir!Pending
<1>2. request[c].username \in Names
  BY <1>1 DEF GInv, Proper, AccountOps
<1>3. CASE request[c].username \notin registered /\ Dir!Refuse(c, 1)
  BY <1>1, <1>3, RefusedServes DEF Tells
<1>4. CASE online[request[c].username] = Offline /\ Dir!Refuse(c, 2)
  BY <1>1, <1>4, RefusedServes DEF Tells
<1>5. CASE /\ Dir!Answer(c, 0, {})
           /\ online' = [online EXCEPT ![Dir!Caller(c)] = Offline]
           /\ UNCHANGED <<registered, published>>
  <2>1. /\ Lines' /\ UNCHANGED request
        /\ phase'[c] = "done" /\ reply'[c].code = 0
        /\ \A d \in Conns \ {c} : Undisturbed(d)
    BY <1>1, <1>5, AnswerEffect
  <2>2. online' = [online EXCEPT ![request[c].username] = Offline]
    BY <1>5 DEF Dir!Caller
  <2>3. EntriesTyped'
    BY <1>2, <1>5, <2>2 DEF GInv, EntriesTyped
  <2>4. /\ online'[request[c].username] = Offline
        /\ \A n \in Names : n # request[c].username => online'[n] = online[n]
    BY <1>2, <2>2 DEF GInv, EntriesTyped
  <2> QED
    BY <1>1, <1>5, <2>1, <2>3, <2>4 DEF Serves, Tells
<1> QED
  BY <1>3, <1>4, <1>5 DEF Dir!Disconnect, Dir!Caller, Dir!IsOnline

Sets(new, old, n, f, k) == new = [old EXCEPT ![n][f] = k]

OnlyDiffers(new, old, n, f, k) ==
  /\ new \in [Names -> [Files -> Nat]] /\ new[n][f] = k
  /\ \A g \in Files \ {f} : new[n][g] = old[n][g]
  /\ \A m \in Names : m # n => new[m] = old[m]

(* One number of a table of files is set.                                  *)
LEMMA SetCopies ==
  ASSUME NEW old \in [Names -> [Files -> Nat]], NEW n \in Names, NEW f \in Files,
         NEW k \in Nat, NEW new, Sets(new, old, n, f, k)
  PROVE  OnlyDiffers(new, old, n, f, k)
<1> DEFINE row == [old[n] EXCEPT ![f] = k]
<1>1. row \in [Files -> Nat] /\ row[f] = k /\ \A g \in Files \ {f} : row[g] = old[n][g]
  OBVIOUS
<1>2. new = [old EXCEPT ![n] = row]
  BY DEF Sets
<1> HIDE DEF row
<1> QED
  BY <1>1, <1>2 DEF OnlyDiffers

(* PUBLISH and DELETE change one number of the caller's files.             *)
LEMMA FilesServes ==
  ASSUME GInv, NEW c \in Conns, phase[c] = "pending",
         request[c].op \in {"PUBLISH", "DELETE"}, Dir!Admitted(c),
         NEW code, Dir!Answer(c, code, {}), NEW k \in Nat,
         published' = [published EXCEPT ![Dir!Caller(c)][request[c].filename] = k],
         UNCHANGED <<registered, online>>
  PROVE  /\ Serves(c) /\ request[c].username \in Names /\ reply'[c].code = code
         /\ published'[request[c].username][request[c].filename] = k
         /\ \A f \in Files \ {request[c].filename} :
              published'[request[c].username][f] = published[request[c].username][f]
<1>1. request[c].username \in Names /\ request[c].filename \in Files
  BY DEF GInv, Proper, Dir!Admitted, Dir!Caller
<1>2. /\ Lines' /\ UNCHANGED request
      /\ phase'[c] = "done" /\ reply'[c].code = code
      /\ \A d \in Conns \ {c} : Undisturbed(d)
  BY AnswerEffect
<1>3. published \in [Names -> [Files -> Nat]]
  BY DEF GInv, EntriesTyped
<1>4. Sets(published', published, request[c].username, request[c].filename, k)
  BY DEF Dir!Caller, Sets
<1>5. /\ published' \in [Names -> [Files -> Nat]]
      /\ published'[request[c].username][request[c].filename] = k
      /\ \A f \in Files \ {request[c].filename} :
           published'[request[c].username][f] = published[request[c].username][f]
      /\ \A n \in Names : n # request[c].username => published'[n] = published[n]
  <2>1. OnlyDiffers(published', published, request[c].username, request[c].filename, k)
    BY <1>1, <1>3, <1>4, SetCopies
  <2> QED
    BY <2>1 DEF OnlyDiffers
<1>6. EntriesTyped'
  BY <1>5 DEF GInv, EntriesTyped
<1> QED
  BY <1>1, <1>2, <1>5, <1>6 DEF Serves

(* The number of copies of a file that PUBLISH or DELETE of c names.       *)
LEMMA CopiesTyped ==
  ASSUME GInv, NEW c \in Conns, phase[c] = "pending",
         request[c].op \in {"PUBLISH", "DELETE"}, Dir!Admitted(c)
  PROVE  published[request[c].username][request[c].filename] \in Nat
<1>1. request[c].username \in Names /\ request[c].filename \in Files
  BY DEF GInv, Proper, Dir!Admitted, Dir!Caller
<1> QED
  BY <1>1 DEF GInv, EntriesTyped

(* The content requests of those who may not send them.                    *)
LEMMA DeniedServes ==
  ASSUME GInv, NEW c \in Conns, phase[c] = "pending", Dir!Denied(c)
  PROVE  /\ Serves(c) /\ reply'[c].code # 0
         /\ UNCHANGED <<registered, online, published>>
<1>1. PICK code \in {1, 2} : Dir!Refuse(c, code)
  BY DEF Dir!Denied
<1>2. code # 0
  OBVIOUS
<1> QED
  BY <1>1, <1>2, RefusedServes

(* PUBLISH adds one copy of one file of its sender.                        *)
LEMMA PublishServes ==
  ASSUME GInv, NEW c \in Conns, Dir!Publish(c) PROVE Serves(c) /\ Tells(c)
<1> DEFINE copies == published[request[c].username][request[c].filename]
<1>1. phase[c] = "pending" /\ request[c].op = "PUBLISH"
  BY DEF Dir!Publish, Dir!Pending
<1>2. CASE Dir!Denied(c)
  BY <1>1, <1>2, DeniedServes DEF Tells
<1>3. CASE Dir!Refuse(c, 4)
  BY <1>1, <1>3, RefusedServes DEF Tells
<1>4. CASE /\ Dir!Admitted(c) /\ UNCHANGED <<registered, online>>
           /\ Dir!Answer(c, IF copies = 0 THEN 0 ELSE 3, {})
           /\ published' = [published EXCEPT
                              ![Dir!Caller(c)][request[c].filename] = copies + 1]
  <2>1. copies \in Nat /\ copies + 1 \in Nat
    BY <1>1, <1>4, CopiesTyped
  <2>2. PICK code : code = (IF copies = 0 THEN 0 ELSE 3) /\ Dir!Answer(c, code, {})
    BY <1>4
  <2>3. /\ Serves(c) /\ request[c].username \in Names /\ reply'[c].code = code
        /\ published'[request[c].username][request[c].filename] = copies + 1
        /\ \A f \in Files \ {request[c].filename} :
             published'[request[c].username][f] = published[request[c].username][f]
    <3> HIDE DEF copies
    <3> QED
      BY <1>1, <1>4, <2>1, <2>2, FilesServes
  <2> QED
    BY <1>1, <1>4, <2>2, <2>3 DEF Tells
<1> QED
  BY <1>2, <1>3, <1>4 DEF Dir!Publish, Dir!Caller

(* DELETE takes away one copy of one file of its sender.                   *)
LEMMA DeleteServes ==
  ASSUME GInv, NEW c \in Conns, Dir!Delete(c) PROVE Serves(c) /\ Tells(c)
<1> DEFINE copies == published[request[c].username][request[c].filename]
<1>1. phase[c] = "pending" /\ request[c].op = "DELETE"
  BY DEF Dir!Delete, Dir!Pending
<1>2. CASE Dir!Denied(c)
  BY <1>1, <1>2, DeniedServes DEF Tells
<1>3. CASE Dir!Refuse(c, 3)
  BY <1>1, <1>3, RefusedServes DEF Tells
<1>4. CASE /\ Dir!Admitted(c) /\ copies > 0 /\ UNCHANGED <<registered, online>>
           /\ Dir!Answer(c, 0, {})
           /\ published' = [published EXCEPT
                              ![Dir!Caller(c)][request[c].filename] = copies - 1]
  <2>1. copies - 1 \in Nat
    BY <1>1, <1>4, CopiesTyped
  <2>2. /\ Serves(c) /\ request[c].username \in Names /\ reply'[c].code = 0
        /\ published'[request[c].username][request[c].filename] = copies - 1
        /\ \A f \in Files \ {request[c].filename} :
             published'[request[c].username][f] = published[request[c].username][f]
    <3> HIDE DEF copies
    <3> QED
      BY <1>1, <1>4, <2>1, FilesServes
  <2> QED
    BY <1>1, <1>4, <2>2 DEF Tells
<1> QED
  BY <1>2, <1>3, <1>4 DEF Dir!Delete, Dir!Caller

(* The two listings leave the entries alone.                               *)
LEMMA ListsServe ==
  ASSUME GInv, NEW c \in Conns, Dir!ListUsers(c) \/ Dir!ListContent(c)
  PROVE  Serves(c) /\ Tells(c)
<1>1. phase[c] = "pending" /\ request[c].op \in {"LIST_USERS", "LIST_CONTENT"}
  BY DEF Dir!ListUsers, Dir!ListContent, Dir!Pending
<1>2. Serves(c) /\ UNCHANGED <<registered, online, published>>
  <2>1. CASE Dir!Denied(c)
    BY <1>1, <2>1, DeniedServes
  <2>2. CASE Dir!Refuse(c, 3)
    BY <1>1, <2>2, RefusedServes
  <2>3. CASE /\ \E listing : Dir!Answer(c, 0, listing)
             /\ UNCHANGED <<registered, online, published>>
    BY <1>1, <2>3, ListingServes
  <2> QED
    BY <2>1, <2>2, <2>3 DEF Dir!ListUsers, Dir!ListContent
<1> QED
  BY <1>1, <1>2 DEF Tells

(* Whatever the request, one connection is served.                         *)
LEMMA PerformServes ==
  ASSUME GInv, NEW c \in Conns, Dir!Perform(c) PROVE Serves(c) /\ Tells(c)
BY RegisterServes, UnregisterServes, ConnectServes, DisconnectServes, PublishServes,
   DeleteServes, ListsServe DEF Dir!Perform

----------------------------------------------------------------------------
(* The general invariant, and the types.                                   *)

(* A step of the server moves no client.                                   *)
LEMMA ServerKeepsClients ==
  ASSUME GInv, NEW c \in Conns, NEW p \in Peers,
         UNCHANGED <<session, sockets, files, shell, command, sock>>,
         Undisturbed(sock[p]) \/ sock[p] = None
           \/ (phase'[sock[p]] # "idle" /\ request'[sock[p]] = request[sock[p]])
  PROVE  ClientInv(p)'
<1>1. ClientInv(p)
  BY DEF GInv
<1>2. SessionTyped(p)' /\ CommandTyped(p)'
  BY <1>1 DEF ClientInv, SessionTyped, CommandTyped, session, sockets
<1>3. User(p)' = User(p) /\ Sender(p)' = Sender(p)
  BY DEF User, Sender, session
<1>4. sock[p] # None => Sent(p)'
  BY <1>1, <1>3 DEF ClientInv, Waits, Sent, Fits, Undisturbed, session, sockets
<1>5. Waits(p)'
  BY <1>1, <1>4 DEF ClientInv, Waits, Undisturbed
<1> QED
  BY <1>2, <1>5 DEF ClientInv

(* The clients do not notice that a request is executed.                   *)
LEMMA ServesKeepsGInv ==
  ASSUME GInv, NEW c \in Conns, Serves(c),
         UNCHANGED <<session, sockets, files, shell, command, sock>>
  PROVE  GInv'
<1>1. ASSUME NEW p \in Peers PROVE ClientInv(p)'
  <2>1. sock[p] # None => sock[p] \in Conns
    BY DEF GInv, ClientInv, Waits, OrNone
  <2>2. \/ Undisturbed(sock[p]) \/ sock[p] = None
        \/ phase'[sock[p]] # "idle" /\ request'[sock[p]] = request[sock[p]]
    BY <2>1 DEF Serves
  <2> QED
    BY <2>2, ServerKeepsClients
<1>2. Shapes' /\ OwnLines'
  BY DEF GInv, Shapes, OwnLines, session, sockets
<1>3. ASSUME NEW d \in Conns, phase'[d] # "idle" PROVE Proper(request'[d])
  BY <1>3 DEF GInv, Serves, Undisturbed
<1> QED
  BY <1>1, <1>2, <1>3 DEF GInv, Serves, Proper

(* ... nor that the server ends a connection they have given up.           *)
LEMMA HangUpKeepsGInv == ASSUME GInv, NEW c \in Conns, HangUp(c) PROVE GInv'
<1>1. /\ UNCHANGED <<session, sockets, files, shell, command, sock, registered, online, published>>
      /\ phase' = [phase EXCEPT ![c] = "idle"]
      /\ request' = [request EXCEPT ![c] = Dir!NoRequest]
      /\ reply' = [reply EXCEPT ![c] = Dir!NoReply]
  BY DEF HangUp, Dir!Return
<1>2. Lines' /\ phase'[c] = "idle" /\ \A d \in Conns \ {c} : Undisturbed(d)
  BY <1>1 DEF GInv, Lines, Undisturbed
<1>3. ASSUME NEW p \in Peers PROVE ClientInv(p)'
  <2>1. sock[p] # None => sock[p] \in Conns \ {c}
    BY DEF GInv, ClientInv, Waits, OrNone, HangUp
  <2> QED
    BY <1>1, <1>2, <2>1, ServerKeepsClients
<1>4. Shapes' /\ OwnLines' /\ EntriesTyped'
  BY <1>1 DEF GInv, Shapes, OwnLines, EntriesTyped, session, sockets
<1>5. ASSUME NEW d \in Conns, phase'[d] # "idle" PROVE Proper(request'[d])
  BY <1>2, <1>5 DEF GInv, Undisturbed
<1> QED
  BY <1>2, <1>3, <1>4, <1>5 DEF GInv, Proper

(* The invariant of clients and requests holds at the start.               *)
LEMMA InitGInv == Init => GInv
<1> SUFFICES ASSUME Init PROVE GInv
  OBVIOUS
<1>1. Shapes
  BY DEF Init, Shapes
<1>2. Lines /\ \A c \in Conns : phase[c] = "idle"
  BY DEF Init, Dir!Init, Lines
<1>3. EntriesTyped
  BY DEF Init, Dir!Init, Dir!NoFiles, EntriesTyped
<1>4. ASSUME NEW p \in Peers PROVE ClientInv(p) /\ sock[p] = None
  BY DEF Init, ClientInv, SessionTyped, CommandTyped, Waits, OrNone, NoCommand, AccountOps,
         ClientOps
<1> QED
  BY <1>1, <1>2, <1>3, <1>4 DEF GInv, OwnLines

(* Every step of the composition keeps it.                                 *)
LEMMA NextGInv == GInv /\ [Next]_vars => GInv'
<1> SUFFICES ASSUME GInv, [Next]_vars PROVE GInv'
  OBVIOUS
<1>1. ASSUME NEW p \in Peers, Type(p) \/ Run(p) \/ Kill(p) \/ Start(p) PROVE GInv'
  BY <1>1, ClientTurn, TurnKeepsGInv
<1>2. ASSUME NEW c \in Conns, Perform(c) PROVE GInv'
  BY <1>2, PerformServes, ServesKeepsGInv DEF Perform
<1>3. ASSUME NEW c \in Conns, HangUp(c) PROVE GInv'
  BY <1>3, HangUpKeepsGInv
<1>4. CASE UNCHANGED vars
  <2>1. UNCHANGED <<session, sockets, files, shell, command, sock, registered, online, published,
                    phase, request, reply>>
    BY <1>4 DEF vars, dirvars
  <2>2. ASSUME NEW p \in Peers PROVE ClientInv(p)'
    BY <2>1 DEF GInv, ClientInv, SessionTyped, CommandTyped, Waits, Sent, Fits, User, Sender,
                session, sockets
  <2> QED
    BY <2>1, <2>2 DEF GInv, Shapes, Lines, OwnLines, EntriesTyped, Proper, session, sockets
<1> QED
  BY <1>1, <1>2, <1>3, <1>4 DEF Next

(* The clients' variables keep their types, and a client holds a connection *)
(* exactly while it waits for an answer, whatever faults interrupt it.      *)
THEOREM TypeCorrect == Spec => []TypeOK
<1>1. GInv => TypeOK
  <2> SUFFICES ASSUME GInv PROVE TypeOK
    OBVIOUS
  <2>1. ASSUME NEW p \in Peers
        PROVE  /\ registered_user[p] \in OrNone(Names) /\ connected_user[p] \in OrNone(Names)
               /\ listener_socket[p] \in OrNone(Endpoints)
               /\ disk[p] \in SUBSET (Files \cup Downloads)
               /\ doubtful[p] \in SUBSET (Files \cup Downloads)
               /\ shell[p] \in Labels /\ sock[p] \in OrNone(Conns)
               /\ sock[p] # None <=> shell[p] \in {"recv", "recv disconnect"}
    <3>1. Types[p] \subseteq Names
      OBVIOUS
    <3>2. shell[p] \in Labels
      BY Remembered DEF CommandTyped, Labels, ClientOps
    <3> QED
      BY <3>1, <3>2, Remembered DEF OrNone, Waits
  <2>2. Shapes /\ EntriesTyped
    BY DEF GInv
  <2> QED
    BY <2>1, <2>2 DEF TypeOK, Shapes, EntriesTyped
<1> QED
  BY <1>1, InitGInv, NextGInv, PTL DEF Spec

----------------------------------------------------------------------------
(* What a client believes, when no request is left behind.                 *)

(* No step of a client leaves a request behind.                            *)
LEMMA NoOrphansTurn ==
  ASSUME Patient, GInv, NoOrphans, NEW p \in Peers, Turn(p), Asks(p) \/ GoesOn(p)
  PROVE  NoOrphans'
<1> SUFFICES ASSUME NEW c \in Conns, phase'[c] # "idle"
             PROVE  \E q \in Peers : sock'[q] = c
  BY DEF NoOrphans
<1>1. CASE c = sock'[p]
  BY <1>1
<1>2. CASE c # sock'[p]
  <2>1. c # None
    OBVIOUS
  <2>2. c # sock[p] /\ Undisturbed(c)
    BY <1>2, <2>1 DEF Asks, GoesOn, Dials, Drops
  <2>3. PICK q \in Peers : sock[q] = c
    BY <2>2 DEF Undisturbed, NoOrphans
  <2>4. sock'[q] = c
    BY <2>2, <2>3 DEF Turn, Still
  <2> QED
    BY <2>4
<1> QED
  BY <1>1, <1>2

(* The directory executes the request of a client that waits for it.       *)
LEMMA NoOrphansServes ==
  ASSUME GInv, NoOrphans, NEW c \in Conns, Serves(c), UNCHANGED sock
  PROVE  NoOrphans' /\ \E p \in Peers : sock[p] = c
<1>1. ASSUME NEW d \in Conns, phase'[d] # "idle" PROVE phase[d] # "idle"
  BY <1>1 DEF Serves, Undisturbed
<1> QED
  BY <1>1 DEF NoOrphans, Serves

(* What is known of a client that does not move, in a step of another one. *)
LEMMA StillKnown ==
  ASSUME GInv, NEW p \in Peers, Turn(p), Dials(p) \/ Drops(p), NEW q \in Peers \ {p}
  PROVE  /\ Still(q) /\ Sender(q)' = Sender(q)
         /\ Done(q)' <=> Done(q)
         /\ Granted(q)' <=> Granted(q)
         /\ \A op : Awaits(q, op)' <=> Awaits(q, op)
<1>1. Still(q)
  BY DEF Turn
<1>2. sock[q] # None => Undisturbed(sock[q])
  BY OthersUndisturbed
<1>3. Done(q)' <=> Done(q)
  BY <1>1, <1>2 DEF Still, Undisturbed, Done
<1>4. Granted(q)' <=> Granted(q)
  BY <1>1, <1>2, <1>3 DEF Still, Undisturbed, Granted, Code, Done
<1>5. \A op : Awaits(q, op)' <=> Awaits(q, op)
  BY <1>1 DEF Still, Awaits
<1>6. Sender(q)' = Sender(q)
  BY <1>1 DEF Still, Sender
<1> QED
  BY <1>1, <1>3, <1>4, <1>5, <1>6

(* What p is told after a step of its own: nothing yet.                    *)
LEMMA NothingTold ==
  ASSUME NEW p \in Peers, Asks(p) \/ GoesOn(p)
  PROVE  ~Done(p)' /\ ~Granted(p)'
BY DEF Asks, GoesOn, Dials, Drops, Done, Granted

(* A name of p's own.                                                      *)
LEMMA OwnNames ==
  ASSUME NEW p \in Peers, NEW n \in Names, OwnName(p, n)
  PROVE  n \in Types[p] /\ n # None /\ n # Anonymous /\ \A q \in Peers \ {p} : n \notin Types[q]
BY DEF OwnName

(* p's beliefs, in a step of p.                                            *)
LEMMA BelievesTurn ==
  ASSUME Reliable, GInv, NEW p \in Peers, Believes(p), Turn(p), Asks(p) \/ GoesOn(p)
  PROVE  Believes(p)'
<1> SUFFICES ASSUME NEW n \in Names, OwnName(p, n)
             PROVE  connected_user'[p] = n /\ shell'[p] # "recv disconnect" =>
                         listener_socket'[p] # None /\ online'[n] = listener_socket'[p]
  BY NothingTold DEF Believes, OwnName
<1>1. /\ n # None /\ UNCHANGED online
      /\ ClientInv(p)
  BY OwnNames DEF Turn, GInv
<1>2. /\ connected_user[p] = n /\ shell[p] # "recv disconnect" =>
           listener_socket[p] # None /\ online[n] = listener_socket[p]
      /\ Awaits(p, "CONNECT") /\ command[p].user = n /\ Granted(p) =>
           online[n] = listener_socket[p]
  BY DEF Believes
<1>3. CASE Asks(p)
  <2>1. /\ connected_user'[p] = connected_user[p]
        /\ listener_socket'[p] = listener_socket[p] \/ listener_socket[p] = None
        /\ sock[p] = None
    BY <1>3 DEF Asks, Dials
  <2>2. shell[p] # "recv disconnect"
    BY <1>1, <2>1 DEF ClientInv, Waits
  <2> QED
    BY <1>1, <1>2, <2>1, <2>2
<1>4. CASE GoesOn(p)
  <2>1. /\ \/ connected_user'[p] = connected_user[p] /\ shell[p] # "recv disconnect"
           \/ connected_user'[p] = None
           \/ Awaits(p, "CONNECT") /\ Granted(p) /\ connected_user'[p] = command[p].user
        /\ \/ listener_socket'[p] = listener_socket[p] \/ listener_socket[p] = None
           \/ connected_user'[p] = None
    BY <1>4 DEF GoesOn
  <2>2. Awaits(p, "CONNECT") /\ Granted(p) => listener_socket[p] # None
    BY <1>1 DEF ClientInv, Waits, Sent, Fits, Granted, Done, Awaits
  <2> QED
    BY <1>1, <1>2, <2>1, <2>2
<1> QED
  BY <1>3, <1>4

(* The names a request of p may change the entry of are p's.               *)
LEMMA RequestedName ==
  ASSUME GInv, NEW p \in Peers, sock[p] # None
  PROVE  /\ sock[p] \in Conns
         /\ request[sock[p]].op \in AccountOps \cup {"PUBLISH", "DELETE"} =>
              request[sock[p]].username \in Types[p] \cup {Anonymous}
         /\ request[sock[p]].op \in AccountOps \cup
              {"PUBLISH", "DELETE", "LIST_USERS", "LIST_CONTENT"}
<1>1. ClientInv(p) /\ Waits(p) /\ Sent(p) /\ CommandTyped(p)
  BY DEF GInv, ClientInv, Waits
<1>2. Sender(p) \in Types[p] \cup {Anonymous}
  BY Remembered DEF Sender, OrNone
<1>3. CASE shell[p] = "recv disconnect"
  <2>1. User(p) \in Types[p]
    BY <1>3, DisconnectedName
  <2> QED
    BY <1>1, <1>3, <2>1 DEF Sent, Fits, Waits, OrNone, AccountOps
<1>4. CASE shell[p] = "recv"
  <2>1. command[p].op \in ClientOps /\ (command[p].op \in AccountOps => command[p].user \in Types[p])
    BY <1>1, <1>4 DEF CommandTyped
  <2> QED
    BY <1>1, <1>2, <1>4, <2>1 DEF Sent, Fits, Waits, OrNone, AccountOps, ClientOps
<1> QED
  BY <1>1, <1>3, <1>4 DEF Waits

(* ... so a name of another client's own keeps its entry.                  *)
LEMMA OwnEntryStays ==
  ASSUME GInv, NEW p \in Peers, sock[p] # None, Serves(sock[p]), Tells(sock[p]),
         NEW q \in Peers \ {p}, NEW n \in Names, OwnName(q, n)
  PROVE  online'[n] = online[n] /\ published'[n] = published[n]
<1>1. n \notin Types[p] \cup {Anonymous}
  BY DEF OwnName
<1>2. CASE request[sock[p]].op \in AccountOps \cup {"PUBLISH", "DELETE"}
  <2>1. n # request[sock[p]].username
    BY <1>1, <1>2, RequestedName
  <2> QED
    BY <2>1 DEF Serves
<1>3. CASE request[sock[p]].op \in {"LIST_USERS", "LIST_CONTENT"}
  BY <1>3 DEF Tells
<1> QED
  BY <1>2, <1>3, RequestedName

(* Everybody's beliefs, when a request of p is executed.                   *)
LEMMA BelievesServes ==
  ASSUME GInv, NEW p \in Peers, sock[p] # None, Serves(sock[p]), Tells(sock[p]),
         UNCHANGED <<session, sockets, files, shell, command, sock>>,
         NEW q \in Peers, Believes(q)
  PROVE  Believes(q)'
<1> SUFFICES ASSUME NEW n \in Names, OwnName(q, n)
             PROVE  /\ connected_user[q] = n /\ shell[q] # "recv disconnect" =>
                         listener_socket[q] # None /\ online'[n] = listener_socket[q]
                    /\ Awaits(q, "CONNECT") /\ command[q].user = n /\ Granted(q)' =>
                         online'[n] = listener_socket[q]
  BY DEF Believes, OwnName, Awaits, session, sockets
<1>1. /\ connected_user[q] = n /\ shell[q] # "recv disconnect" =>
           listener_socket[q] # None /\ online[n] = listener_socket[q]
      /\ Awaits(q, "CONNECT") /\ command[q].user = n /\ Granted(q) =>
           online[n] = listener_socket[q]
  BY DEF Believes
<1>2. CASE q # p
  <2>1. sock[q] # None => Undisturbed(sock[q])
    BY <1>2 DEF GInv, OwnLines, ClientInv, Waits, OrNone, Serves
  <2>2. Granted(q)' <=> Granted(q)
    BY <2>1 DEF Granted, Done, Code, Undisturbed
  <2>3. online'[n] = online[n]
    BY <1>2, OwnEntryStays
  <2> QED
    BY <1>1, <2>2, <2>3
<1>3. CASE q = p
  <2> DEFINE r == request[sock[p]]
  <2>1. Waits(p) /\ Sent(p) /\ listener_socket[p] \in OrNone(Endpoints)
    BY DEF GInv, ClientInv, Waits, SessionTyped
  <2>2. Granted(p)' => reply'[sock[p]].code = 0
    BY DEF Granted, Code
  <2>3. connected_user[p] = n /\ shell[p] # "recv disconnect" => online'[n] = online[n]
    <3> SUFFICES ASSUME connected_user[p] = n, shell[p] # "recv disconnect"
                 PROVE  online'[n] = online[n]
      OBVIOUS
    <3>1. online[n] # Offline
      BY <1>1, <1>3, <2>1 DEF OrNone
    <3>2. shell[p] = "recv" /\ r.op # "DISCONNECT"
      BY <2>1 DEF Waits, Sent, Fits
    <3>3. CASE r.op = "CONNECT"
      BY <3>1, <3>3 DEF Tells, Serves
    <3>4. CASE r.op = "UNREGISTER"
      <4>1. r.username # n
        BY <2>1, <3>2, <3>4 DEF Sent, Fits, AccountOps
      <4> QED
        BY <4>1 DEF Serves
    <3> QED
      BY <3>2, <3>3, <3>4 DEF Tells
  <2>5. Awaits(p, "CONNECT") => r.op = "CONNECT" /\ r.username = command[p].user /\ r.endpoint = listener_socket[p]
    BY <2>1 DEF Sent, Fits, Awaits, AccountOps
  <2>7. Awaits(p, "CONNECT") /\ command[p].user = n /\ Granted(p)' => online'[n] = listener_socket[p]
    BY <2>2, <2>5 DEF Tells
  <2> QED
    BY <1>1, <1>3, <2>3, <2>7
<1> QED
  BY <1>2, <1>3

(* The server executes the request of somebody who waits for it.           *)
LEMMA ServesSomebody ==
  ASSUME GInv, NoOrphans, NEW c \in Conns, Perform(c)
  PROVE  /\ NoOrphans' /\ UNCHANGED <<session, sockets, files, shell, command, sock>>
         /\ \E p \in Peers : /\ sock[p] = c /\ sock[p] # None
                             /\ Serves(sock[p]) /\ Tells(sock[p])
<1>1. UNCHANGED <<session, sockets, files, shell, command, sock>>
  BY DEF Perform
<1>2. Serves(c) /\ Tells(c)
  BY PerformServes DEF Perform
<1>3. NoOrphans' /\ \E p \in Peers : sock[p] = c
  BY <1>1, <1>2, NoOrphansServes
<1>4. PICK p \in Peers : sock[p] = c
  BY <1>3
<1>5. sock[p] # None
  BY <1>4
<1>6. Serves(sock[p]) /\ Tells(sock[p])
  BY <1>2, <1>4
<1> QED
  BY <1>1, <1>3, <1>4, <1>5, <1>6

(* ... and has no connection to end by itself.                             *)
LEMMA NobodyGone == ASSUME NoOrphans, NEW c \in Conns, HangUp(c) PROVE FALSE
BY DEF NoOrphans, HangUp, Dir!Return

(* One client's beliefs, in a step of another one.                         *)
LEMMA OthersBelieve ==
  ASSUME GInv, NEW p \in Peers, Turn(p), Dials(p) \/ Drops(p), NEW q \in Peers \ {p},
         Believes(q)
  PROVE  Believes(q)'
<1>1. /\ Still(q) /\ UNCHANGED <<registered, online>>
      /\ Granted(q)' <=> Granted(q)
      /\ \A op : Awaits(q, op)' <=> Awaits(q, op)
  BY StillKnown DEF Turn
<1> QED
  BY <1>1 DEF Still, Believes, OwnName

(* Nobody has asked or been told anything.                                 *)
LEMMA InitBInv == Init => BInv
BY DEF Init, Dir!Init, BInv, NoOrphans, Believes, Awaits, Granted, Done, OwnName

(* Every step keeps the beliefs.                                           *)
LEMMA NextBInv ==
  ASSUME Reliable, GInv, BInv, [Next]_vars PROVE BInv'
<1>0. Patient
  BY DEF Reliable, Patient
<1>1. ASSUME NEW p \in Peers, Type(p) \/ Run(p) \/ Kill(p) \/ Start(p) PROVE BInv'
  <2>1. Turn(p) /\ (Asks(p) \/ GoesOn(p))
    BY <1>1, ClientTurn
  <2>2. Dials(p) \/ Drops(p)
    BY <2>1 DEF Asks, GoesOn
  <2>3. NoOrphans'
    BY <1>0, <2>1, NoOrphansTurn DEF BInv
  <2>4. ASSUME NEW q \in Peers PROVE Believes(q)'
    BY <2>1, <2>2, OthersBelieve, BelievesTurn DEF BInv
  <2> QED
    BY <2>3, <2>4 DEF BInv
<1>2. ASSUME NEW c \in Conns, Perform(c) PROVE BInv'
  <2>1. /\ NoOrphans' /\ UNCHANGED <<session, sockets, files, shell, command, sock>>
        /\ \E p \in Peers : sock[p] # None /\ Serves(sock[p]) /\ Tells(sock[p])
    BY <1>2, ServesSomebody DEF BInv
  <2>2. ASSUME NEW q \in Peers PROVE Believes(q)'
    BY <2>1, BelievesServes DEF BInv
  <2> QED
    BY <2>1, <2>2 DEF BInv
<1>3. ASSUME NEW c \in Conns, HangUp(c) PROVE BInv'
  BY <1>3, NobodyGone DEF BInv
<1>4. CASE UNCHANGED vars
  BY <1>4 DEF vars, dirvars, session, sockets, BInv, NoOrphans, Believes, Awaits, Granted,
              Done, Code, OwnName
<1> QED
  BY <1>1, <1>2, <1>3, <1>4 DEF Next

(* The three invariants of a composition whose connections do not break:   *)
(* what a client believes needs what is known of the requests under way.   *)
LEMMA BeliefsHold == Reliable /\ Spec => [](GInv /\ BInv)
<1>1. Init => GInv /\ BInv
  BY InitGInv, InitBInv
<1>2. Reliable /\ GInv /\ BInv /\ [Next]_vars => (GInv /\ BInv)'
  BY NextGInv, NextBInv
<1>3. CASE ~Reliable
  BY <1>3
<1>4. CASE Reliable
  <2>1. GInv /\ BInv /\ [Next]_vars => (GInv /\ BInv)'
    BY <1>2, <1>4
  <2> QED
    BY <1>1, <2>1, PTL DEF Spec
<1> QED
  BY <1>3, <1>4

(* When no connection breaks and no client is killed, a client at its      *)
(* prompt that takes a user of its own for connected is right: the server  *)
(* lists that user at the port the client listens on, however many answers *)
(* were refused or missing, and whatever the other clients do.             *)
THEOREM ConnectedIsListed == Reliable /\ Spec => []BelievedOnline
<1>1. GInv /\ BInv => BelievedOnline
  <2> SUFFICES ASSUME GInv, BInv, NEW p \in Peers, AtPrompt(p), OwnName(p, connected_user[p])
               PROVE  /\ listener_socket[p] # None
                      /\ online[connected_user[p]] = listener_socket[p]
    BY DEF BelievedOnline
  <2>1. connected_user[p] \in Names
    BY DEF OwnName
  <2> QED
    BY <2>1 DEF BInv, Believes, AtPrompt
<1> QED
  BY <1>1, BeliefsHold, PTL

----------------------------------------------------------------------------
(* What is listed is on disk.                                              *)

(* p's files, in a step of p.                                              *)
LEMMA SharesTurn ==
  ASSUME GInv, NEW p \in Peers, Shares(p), Turn(p), Asks(p) \/ GoesOn(p)
  PROVE  Shares(p)'
<1> SUFFICES ASSUME NEW n \in Names, NEW f \in Files, OwnName(p, n), f \notin doubtful'[p]
             PROVE  InPlace(p, n, f)'
  BY DEF Shares, OwnName
<1>1. InPlace(p, n, f)
  BY DEF Asks, GoesOn, Accounts, Shares
<1>2. UNCHANGED published /\ ~Done(p)' /\ ~Granted(p)'
  BY NothingTold DEF Turn
<1>3. CASE Asks(p)
  <2>1. disk'[p] = disk[p] /\ ~Done(p) /\ sock[p] = None
    BY <1>3 DEF Asks, Dials, Done
  <2>2. ASSUME NEW c \in Conns, phase'[c] # "idle", request'[c].op = "PUBLISH",
               request'[c].username = n, request'[c].filename = f, sock'[p] # c
        PROVE  FALSE
    <3>1. Undisturbed(c)
      BY <1>3, <2>2 DEF Asks, Dials
    <3> QED
      BY <1>1, <2>1, <2>2, <3>1 DEF InPlace, Undisturbed
  <2> QED
    BY <1>1, <1>2, <2>1, <2>2 DEF InPlace, Announced
<1>4. CASE GoesOn(p)
  <2>1. /\ f \in disk[p] \ disk'[p] =>
             Awaits(p, "DELETE") /\ Granted(p) /\ command[p].file = f
        /\ Awaits(p, "PUBLISH") /\ command[p].file = f =>
             Granted(p) /\ phase'[sock[p]] = "idle" /\ f \in disk'[p]
    BY <1>4 DEF GoesOn, Accounts
  <2>2. Announced(p, f) => Granted(p) /\ f \in disk'[p]
    BY <2>1 DEF Announced
  <2>3. ~(published[n][f] > 1) /\ (published[n][f] > 0 => f \in disk[p] \/ f \in disk'[p])
    BY <1>1, <2>2 DEF InPlace
  <2>4. published[n][f] > 0 => f \in disk'[p]
    <3> SUFFICES ASSUME published[n][f] > 0, f \notin disk'[p] PROVE FALSE
      OBVIOUS
    <3>1. published[n][f] = 0
      BY <1>1, <2>1, <2>3 DEF InPlace
    <3> QED
      BY <3>1
  <2>5. ASSUME NEW c \in Conns, phase'[c] # "idle", request'[c].op = "PUBLISH",
               request'[c].username = n, request'[c].filename = f
        PROVE  FALSE
    <3>1. CASE c = sock[p]
      <4>1. Undisturbed(c) /\ sock[p] # None
        BY <1>4, <2>5, <3>1 DEF GoesOn, Drops
      <4>2. Sent(p) /\ shell[p] \in {"recv", "recv disconnect"}
        BY <4>1 DEF GInv, ClientInv, Waits
      <4>3. Awaits(p, "PUBLISH") /\ command[p].file = f
        BY <2>5, <3>1, <4>1, <4>2 DEF Undisturbed, Sent, Fits, Awaits
      <4> QED
        BY <2>1, <2>5, <3>1, <4>3
    <3>2. CASE c # sock[p]
      <4>1. Undisturbed(c)
        BY <1>4, <3>2 DEF GoesOn, Drops
      <4> QED
        BY <1>1, <2>5, <3>2, <4>1 DEF InPlace, Undisturbed
    <3> QED
      BY <3>1, <3>2
  <2> QED
    BY <1>2, <2>3, <2>4, <2>5 DEF InPlace
<1> QED
  BY <1>3, <1>4

(* ... and in one of another client.                                       *)
LEMMA OthersShare ==
  ASSUME GInv, NEW p \in Peers, Turn(p), Asks(p) \/ GoesOn(p), NEW q \in Peers \ {p},
         Shares(q)
  PROVE  Shares(q)'
<1>1. Dials(p) \/ Drops(p)
  BY DEF Asks, GoesOn
<1>2. /\ Still(q) /\ UNCHANGED published
      /\ (Done(q)' <=> Done(q)) /\ (Granted(q)' <=> Granted(q))
      /\ \A op : Awaits(q, op)' <=> Awaits(q, op)
  BY <1>1, StillKnown DEF Turn
<1> SUFFICES ASSUME NEW n \in Names, NEW f \in Files, OwnName(q, n), f \notin doubtful[q]
             PROVE  InPlace(q, n, f)'
  BY <1>2 DEF Still, Shares, OwnName
<1>3. InPlace(q, n, f)
  BY DEF Shares
<1>4. Announced(q, f)' <=> Announced(q, f)
  BY <1>2 DEF Still, Announced
<1>5. ASSUME NEW c \in Conns, phase'[c] # "idle", request'[c].op = "PUBLISH",
             request'[c].username = n, request'[c].filename = f
      PROVE  sock[q] = c
  <2>1. CASE Undisturbed(c)
    BY <1>3, <1>5, <2>1 DEF InPlace, Undisturbed
  <2>2. CASE ~Undisturbed(c)
    <3>1. Asks(p) /\ c = sock'[p]
      BY <1>5, <2>2 DEF Asks, GoesOn, Dials, Drops
    <3>2. SessionTyped(p)' /\ Waits(p)' /\ sock'[p] # None
      BY <3>1 DEF Asks, ClientInv
    <3>3. request'[sock'[p]].username = Sender(p)'
      BY <1>5, <3>1, <3>2 DEF Waits, Sent, Fits
    <3>4. Sender(p)' \in Types[p] \cup {Anonymous}
      BY <3>2 DEF SessionTyped, Sender, OrNone
    <3> QED
      BY <1>5, <3>1, <3>3, <3>4 DEF OwnName
  <2> QED
    BY <2>1, <2>2
<1> QED
  BY <1>2, <1>3, <1>4, <1>5 DEF Still, InPlace

(* Nothing is added to a file that is not in doubt, but by its client.     *)
LEMMA OthersLeave ==
  ASSUME GInv, NEW p \in Peers, Shares(p), NEW c \in Conns, sock[p] # c,
         Serves(c), Tells(c), NEW n \in Names, OwnName(p, n),
         NEW f \in Files, f \notin doubtful[p]
  PROVE  published'[n][f] <= published[n][f]
<1> DEFINE r == request[c]
<1>1. published[n][f] \in Nat /\ published'[n][f] \in Nat
  BY DEF GInv, EntriesTyped, Serves
<1>2. CASE n # r.username
  BY <1>1, <1>2 DEF Serves
<1>3. CASE n = r.username
  <2>1. ~(r.op = "PUBLISH" /\ r.filename = f)
    BY <1>3 DEF Shares, InPlace, Serves
  <2>2. CASE r.op \notin {"PUBLISH", "DELETE", "UNREGISTER"}
    BY <1>1, <2>2 DEF Tells
  <2>3. CASE r.op = "UNREGISTER"
    <3>1. published' = published \/ published'[n][f] = 0
      BY <1>3, <2>3 DEF Tells
    <3> QED
      BY <1>1, <3>1
  <2>4. CASE r.op = "PUBLISH"
    <3>1. published' = published \/ published'[n][f] = published[n][f]
      BY <1>3, <2>1, <2>4 DEF Tells
    <3> QED
      BY <1>1, <3>1
  <2>5. CASE r.op = "DELETE"
    <3>1. \/ published' = published \/ published'[n][f] = published[n][f]
          \/ published'[n][f] = published[n][f] - 1
      BY <1>3, <2>5 DEF Tells
    <3> QED
      BY <1>1, <3>1
  <2> QED
    BY <2>2, <2>3, <2>4, <2>5
<1> QED
  BY <1>2, <1>3

(* p's files, when the request of somebody else is executed, or one that p *)
(* has given up.                                                           *)
LEMMA SharesOthers ==
  ASSUME GInv, NEW p \in Peers, Shares(p), NEW c \in Conns, sock[p] # c,
         Serves(c), Tells(c), UNCHANGED <<session, sockets, files, shell, command, sock>>
  PROVE  Shares(p)'
<1>1. sock[p] # None => Undisturbed(sock[p])
  BY DEF GInv, ClientInv, Waits, OrNone, Serves
<1>2. /\ Done(p)' <=> Done(p)
      /\ Granted(p)' <=> Granted(p)
      /\ \A op : Awaits(p, op)' <=> Awaits(p, op)
  BY <1>1 DEF Done, Undisturbed, Code, Granted, Awaits
<1> SUFFICES ASSUME NEW n \in Names, NEW f \in Files, OwnName(p, n), f \notin doubtful[p]
             PROVE  InPlace(p, n, f)'
  BY DEF Shares, OwnName
<1>3. InPlace(p, n, f)
  BY DEF Shares
<1>4. Announced(p, f)' <=> Announced(p, f)
  BY <1>2 DEF Announced
<1>5. /\ published'[n][f] <= published[n][f]
      /\ published[n][f] \in Nat /\ published'[n][f] \in Nat
  BY OthersLeave DEF GInv, EntriesTyped, Serves
<1>6. /\ published'[n][f] > 1 => published[n][f] > 1
      /\ published'[n][f] > 0 => published[n][f] > 0
      /\ published[n][f] = 0 => published'[n][f] = 0
  BY <1>5
<1>7. ASSUME NEW d \in Conns, phase'[d] # "idle"
      PROVE  phase[d] # "idle" /\ request'[d] = request[d]
  BY <1>7 DEF Serves, Undisturbed
<1> QED
  BY <1>2, <1>3, <1>4, <1>6, <1>7 DEF InPlace

(* The client that is served knows nothing yet, and is told now.           *)
LEMMA Told ==
  ASSUME GInv, NEW p \in Peers, sock[p] # None, Serves(sock[p]), UNCHANGED sock
  PROVE  /\ ~Done(p) /\ ~Granted(p) /\ Done(p)'
         /\ Granted(p)' <=> reply'[sock[p]].code = 0
         /\ Sent(p) /\ shell[p] \in {"recv", "recv disconnect"}
BY DEF Done, Granted, Code, Serves, GInv, ClientInv, Waits

(* ... and when p's request is executed.                                   *)
LEMMA SharesServes ==
  ASSUME OneName, GInv, NEW p \in Peers, sock[p] # None, Serves(sock[p]), Tells(sock[p]),
         UNCHANGED <<session, sockets, files, shell, command, sock>>, Shares(p)
  PROVE  Shares(p)'
<1> DEFINE r == request[sock[p]]
<1>0. /\ ~Done(p) /\ ~Granted(p) /\ Done(p)' /\ Sent(p)
      /\ Granted(p)' <=> reply'[sock[p]].code = 0
      /\ shell[p] \in {"recv", "recv disconnect"} /\ sock[p] \in Conns
      /\ \A op : Awaits(p, op)' <=> Awaits(p, op)
  BY Told, RequestedName DEF Awaits
<1> SUFFICES ASSUME NEW n \in Names, NEW f \in Files, OwnName(p, n), f \notin doubtful[p]
             PROVE  InPlace(p, n, f)'
  BY DEF Shares, OwnName
<1>1. InPlace(p, n, f)
  BY DEF Shares
<1>2. ~(published[n][f] > 1) /\ (published[n][f] > 0 => f \in disk[p])
  BY <1>0, <1>1 DEF InPlace, Announced
<1>3. published[n][f] \in Nat /\ published'[n][f] \in Nat
  BY DEF GInv, EntriesTyped, Serves
<1>4. /\ Awaits(p, "PUBLISH") <=> r.op = "PUBLISH"
      /\ Awaits(p, "DELETE") <=> r.op = "DELETE"
      /\ r.op \in {"PUBLISH", "DELETE"} =>
           r.username = Sender(p) /\ r.filename = command[p].file /\ command[p].op = r.op
  BY <1>0 DEF Sent, Fits, Awaits
<1>5. r.op \in AccountOps \cup {"PUBLISH", "DELETE"} /\ r.username \in Names => r.username = n
  BY RequestedName DEF OneName, OwnName
<1>6. ASSUME NEW c \in Conns, phase'[c] # "idle", request'[c].op = "PUBLISH",
             request'[c].username = n, request'[c].filename = f
      PROVE  sock[p] = c
  BY <1>1, <1>6 DEF InPlace, Serves, Undisturbed
<1>7. /\ Announced(p, f)' <=> Awaits(p, "PUBLISH") /\ command[p].file = f
      /\ Awaits(p, "DELETE")' <=> Awaits(p, "DELETE")
  BY <1>0 DEF Announced
<1>8. CASE ~(published'[n][f] > published[n][f]) /\ r.op # "DELETE"
  <2>1. ~(published'[n][f] > 1) /\ (published'[n][f] > 0 => published[n][f] > 0)
    BY <1>2, <1>3, <1>8
  <2> QED
    BY <1>2, <1>4, <1>6, <1>7, <1>8, <2>1 DEF InPlace
<1>9. CASE r.op \notin {"PUBLISH", "DELETE", "UNREGISTER"}
  <2>1. published' = published
    BY <1>9 DEF Tells
  <2> QED
    BY <1>3, <1>8, <1>9, <2>1
<1>10. CASE r.op = "UNREGISTER"
  <2>1. r.username = n
    <3>1. r.username \in Names
      BY <1>0, <1>10 DEF GInv, Proper, AccountOps, Serves
    <3> QED
      BY <1>5, <1>10, <3>1 DEF AccountOps
  <2>2. published' = published \/ published'[n][f] = 0
    BY <1>10, <2>1 DEF Tells
  <2> QED
    BY <1>3, <1>8, <1>10, <2>2
<1>11. CASE r.op = "PUBLISH"
  <2>1. CASE published' = published \/ published'[n][f] = published[n][f]
    BY <1>3, <1>8, <1>11, <2>1
  <2>2. CASE ~(published' = published \/ published'[n][f] = published[n][f])
    <3>1. /\ r.username \in Names
          /\ reply'[sock[p]].code = 0 <=> published[r.username][r.filename] = 0
          /\ published'[r.username][r.filename] = published[r.username][r.filename] + 1
          /\ \A g \in Files \ {r.filename} :
               published'[r.username][g] = published[r.username][g]
      BY <1>11, <2>2 DEF Tells
    <3>2. r.username = n /\ r.filename = f
      BY <1>5, <1>11, <2>2, <3>1
    <3>3. /\ published'[n][f] = published[n][f] + 1
          /\ Granted(p)' <=> published[n][f] = 0
      BY <1>0, <3>1, <3>2
    <3>4. published'[n][f] > 1 => ~Granted(p)'
      BY <1>3, <3>3
    <3>5. Announced(p, f)' /\ ~Awaits(p, "DELETE")'
      BY <1>4, <1>7, <1>11, <3>2
    <3> QED
      BY <1>6, <3>4, <3>5 DEF InPlace
  <2> QED
    BY <2>1, <2>2
<1>12. CASE r.op = "DELETE"
  <2>1. Awaits(p, "DELETE") /\ ~Awaits(p, "PUBLISH") /\ command[p].file = r.filename
    BY <1>4, <1>12
  <2>2. CASE reply'[sock[p]].code # 0 /\ published' = published
    BY <1>0, <1>2, <1>6, <1>7, <2>1, <2>2 DEF InPlace
  <2>3. CASE /\ r.username \in Names
             /\ published'[r.username][r.filename] = published[r.username][r.filename] - 1
             /\ \A g \in Files \ {r.filename} :
                  published'[r.username][g] = published[r.username][g]
    <3>1. r.username = n
      BY <1>5, <1>12, <2>3
    <3>2. CASE f = r.filename
      <4>1. published'[n][f] = published[n][f] - 1
        BY <2>3, <3>1, <3>2
      <4>2. published'[n][f] = 0
        BY <1>2, <1>3, <4>1
      <4> QED
        BY <1>6, <4>2 DEF InPlace
    <3>3. CASE f # r.filename
      <4>1. published'[n][f] = published[n][f] /\ command'[p].file # f
        BY <2>1, <2>3, <3>1, <3>3
      <4> QED
        BY <1>2, <1>6, <4>1 DEF InPlace
    <3> QED
      BY <3>2, <3>3
  <2> QED
    BY <1>12, <2>2, <2>3 DEF Tells
<1> QED
  BY <1>9, <1>10, <1>11, <1>12

(* Nothing is listed.                                                      *)
LEMMA InitFInv == Init => FInv
BY DEF Init, Dir!Init, Dir!NoFiles, FInv, Shares, InPlace, Announced, Awaits, Granted, Done, OwnName,
       NoCommand

(* A connection that ends takes its request with it.                       *)
LEMMA SharesHungUp ==
  ASSUME GInv, NEW p \in Peers, Shares(p), NEW c \in Conns, HangUp(c)
  PROVE  Shares(p)'
<1>1. /\ UNCHANGED <<session, sockets, files, shell, command, sock, published>>
      /\ phase' = [phase EXCEPT ![c] = "idle"] /\ sock[p] # c
      /\ request' = [request EXCEPT ![c] = Dir!NoRequest]
      /\ reply' = [reply EXCEPT ![c] = Dir!NoReply]
  BY DEF HangUp, Dir!Return
<1>2. phase'[c] = "idle" /\ \A d \in Conns \ {c} : Undisturbed(d)
  BY <1>1 DEF GInv, Lines, Undisturbed
<1>3. sock[p] # None => Undisturbed(sock[p])
  BY <1>1, <1>2 DEF GInv, ClientInv, Waits, OrNone
<1>4. /\ Done(p)' <=> Done(p)
      /\ Granted(p)' <=> Granted(p)
      /\ \A op : Awaits(p, op)' <=> Awaits(p, op)
  BY <1>1, <1>3 DEF Done, Undisturbed, Code, Granted, Awaits
<1> SUFFICES ASSUME NEW n \in Names, NEW f \in Files, OwnName(p, n), f \notin doubtful[p]
             PROVE  InPlace(p, n, f)'
  BY <1>1 DEF Shares, OwnName
<1>5. InPlace(p, n, f)
  BY DEF Shares
<1>6. Announced(p, f)' <=> Announced(p, f)
  BY <1>1, <1>4 DEF Announced
<1>7. ASSUME NEW d \in Conns, phase'[d] # "idle"
      PROVE  phase[d] # "idle" /\ request'[d] = request[d]
  BY <1>2, <1>7 DEF Undisturbed
<1> QED
  BY <1>1, <1>4, <1>5, <1>6, <1>7 DEF InPlace

(* Every step keeps the files.                                             *)
LEMMA NextFInv ==
  ASSUME OneName, GInv, FInv, [Next]_vars PROVE FInv'
<1>1. ASSUME NEW p \in Peers, Type(p) \/ Run(p) \/ Kill(p) \/ Start(p) PROVE FInv'
  <2>1. Turn(p) /\ (Asks(p) \/ GoesOn(p))
    BY <1>1, ClientTurn
  <2>2. ASSUME NEW q \in Peers PROVE Shares(q)'
    BY <2>1, OthersShare, SharesTurn DEF FInv
  <2> QED
    BY <2>2 DEF FInv
<1>2. ASSUME NEW c \in Conns, Perform(c) PROVE FInv'
  <2>1. /\ UNCHANGED <<session, sockets, files, shell, command, sock>>
        /\ Serves(c) /\ Tells(c)
    BY <1>2, PerformServes DEF Perform
  <2>2. ASSUME NEW p \in Peers PROVE Shares(p)'
    <3>1. CASE sock[p] = c
      <4>1. sock[p] # None /\ Serves(sock[p]) /\ Tells(sock[p])
        BY <2>1, <3>1
      <4> QED
        BY <2>1, <4>1, SharesServes DEF FInv
    <3>2. CASE sock[p] # c
      BY <2>1, <3>2, SharesOthers DEF FInv
    <3> QED
      BY <3>1, <3>2
  <2> QED
    BY <2>2 DEF FInv
<1>3. ASSUME NEW c \in Conns, HangUp(c) PROVE FInv'
  BY <1>3, SharesHungUp DEF FInv
<1>4. CASE UNCHANGED vars
  BY <1>4 DEF vars, dirvars, session, sockets, FInv, Shares, InPlace, Announced, Awaits, Granted,
              Done, Code, OwnName
<1> QED
  BY <1>1, <1>2, <1>3, <1>4 DEF Next

(* When one name is typed at each client, what the server lists for a user *)
(* is on the disk of that user's client once it is back at its prompt,     *)
(* whatever goes wrong: the files that are listed and missing are those    *)
(* that a PUBLISH or a GET_FILE has reported as failed.                    *)
THEOREM FilesAreThere == OneName /\ Spec => []ListedIsOnDisk
<1>1. Init => GInv /\ FInv
  BY InitGInv, InitFInv
<1>2. GInv /\ FInv => ListedIsOnDisk
  <2> SUFFICES ASSUME GInv, FInv, NEW p \in Peers, NEW n \in Names, AtPrompt(p), OwnName(p, n),
                      NEW f \in Files, published[n][f] > 0, f \notin doubtful[p]
               PROVE  f \in disk[p]
    BY DEF ListedIsOnDisk
  <2> QED
    BY DEF FInv, Shares, InPlace, Announced, AtPrompt, Awaits
<1>3. CASE ~OneName
  BY <1>3
<1>4. CASE OneName
  <2>1. GInv /\ FInv /\ [Next]_vars => (GInv /\ FInv)'
    BY <1>4, NextGInv, NextFInv
  <2> QED
    BY <1>1, <1>2, <2>1, PTL DEF Spec
<1> QED
  BY <1>3, <1>4

----------------------------------------------------------------------------
(* A user that is listed can be reached.                                   *)

(* A client that hosts n still does after a step of its own.               *)
LEMMA HostsTurn ==
  ASSUME Answering, OneName, GInv, NEW p \in Peers, Turn(p), Asks(p) \/ GoesOn(p),
         NEW n \in Names, online[n] # Offline, Hosts(p, n)
  PROVE  Hosts(p, n)'
<1>1. /\ n \in Types[p] /\ listener_socket[p] = online[n] /\ listener_socket[p] # None
      /\ online' = online /\ n # None
      /\ \/ connected_user[p] = n /\ ~(shell[p] = "recv disconnect" /\ Done(p))
         \/ Awaits(p, "CONNECT") /\ command[p].user = n /\ Granted(p)
  BY DEF Hosts, Turn, GInv, EntriesTyped
<1>2. SUFFICES connected_user'[p] = n /\ listener_socket'[p] = listener_socket[p]
  BY <1>1, NothingTold DEF Hosts
<1>3. CASE Asks(p)
  BY <1>1, <1>3 DEF Asks, Dials, Granted, Done
<1>4. CASE GoesOn(p)
  <2>1. /\ Awaits(p, "CONNECT") /\ Granted(p) =>
             connected_user'[p] = command[p].user /\ listener_socket'[p] = listener_socket[p]
        /\ \/ shell[p] = "recv disconnect" /\ Done(p)
           \/ connected_user[p] = None \/ listener_socket[p] = None
           \/ connected_user'[p] # None /\ listener_socket'[p] = listener_socket[p]
        /\ connected_user'[p] \in OrNone(Types[p])
    BY <1>4 DEF GoesOn, ClientInv, SessionTyped
  <2>2. connected_user'[p] # None => (connected_user'[p] = n <=> connected_user'[p] \in Types[p])
    BY <1>1 DEF OneName
  <2> QED
    BY <1>1, <2>1, <2>2 DEF OrNone
<1> QED
  BY <1>3, <1>4

(* ... and after one of another client.                                    *)
LEMMA OthersHost ==
  ASSUME GInv, NEW p \in Peers, Turn(p), Dials(p) \/ Drops(p), NEW q \in Peers \ {p},
         NEW n \in Names, Hosts(q, n)
  PROVE  Hosts(q, n)'
<1>1. /\ Still(q) /\ UNCHANGED online
      /\ (Done(q)' <=> Done(q)) /\ (Granted(q)' <=> Granted(q))
      /\ \A op : Awaits(q, op)' <=> Awaits(q, op)
  BY StillKnown DEF Turn
<1> QED
  BY <1>1 DEF Still, Hosts

(* What a client has been told does not change when another one is served. *)
LEMMA OthersTold ==
  ASSUME GInv, NEW p \in Peers, sock[p] # None, Serves(sock[p]),
         UNCHANGED <<session, sockets, files, shell, command, sock>>,
         NEW q \in Peers \ {p}
  PROVE  /\ Done(q)' <=> Done(q)
         /\ Granted(q)' <=> Granted(q)
         /\ \A op : Awaits(q, op)' <=> Awaits(q, op)
<1>1. sock[q] # None => Undisturbed(sock[q])
  BY DEF GInv, OwnLines, ClientInv, Waits, OrNone, Serves
<1>2. Done(q)' <=> Done(q)
  BY <1>1 DEF Done, Undisturbed
<1>3. Granted(q)' <=> Granted(q)
  BY <1>1, <1>2 DEF Granted, Done, Code, Undisturbed
<1> QED
  BY <1>2, <1>3 DEF Awaits

(* A request that leaves a user online was granted to the client that sent *)
(* it, or has not touched the user's entry.                                *)
LEMMA OnlineServes ==
  ASSUME DInv, GInv, NEW p \in Peers, sock[p] # None, Serves(sock[p]), Tells(sock[p]),
         UNCHANGED <<session, sockets, files, shell, command, sock>>,
         NEW n \in Names, online'[n] # Offline
  PROVE  /\ online'[n] = online[n] \/ Hosts(p, n)'
         /\ request[sock[p]].op = "DISCONNECT" => request[sock[p]].username # n
<1> DEFINE r == request[sock[p]]
<1>0. Granted(p)' <=> reply'[sock[p]].code = 0
  BY Told
<1>1. Sent(p) /\ shell[p] \in {"recv", "recv disconnect"} /\ CommandTyped(p)
  BY Told, Remembered
<1>2. r.op = "DISCONNECT" => r.username # n
  <2> SUFFICES ASSUME r.op = "DISCONNECT", r.username = n PROVE FALSE
    OBVIOUS
  <2>1. online' = online /\ n \notin registered
    BY DEF Tells
  <2> QED
    BY <2>1 DEF DInv, NothingOfNobody
<1>3. online'[n] = online[n] \/ (r.op = "CONNECT" /\ r.username = n /\ reply'[sock[p]].code = 0
                                   /\ online'[n] = r.endpoint)
  BY <1>2 DEF Serves, Tells
<1>4. r.op = "CONNECT" =>
        /\ Awaits(p, "CONNECT") /\ r.username = command[p].user
        /\ r.endpoint = listener_socket[p] /\ command[p].user \in Types[p]
  BY <1>1 DEF Sent, Fits, Awaits, AccountOps, CommandTyped
<1>5. CASE r.op = "CONNECT" /\ r.username = n /\ reply'[sock[p]].code = 0 /\ online'[n] = r.endpoint
  BY <1>0, <1>4, <1>5 DEF Hosts, Awaits, sockets, session
<1> QED
  BY <1>2, <1>3, <1>5

(* Nobody is online.                                                       *)
LEMMA InitHInv == Init => HInv
BY DEF Init, Dir!Init, HInv, NoOrphans

(* Every step keeps a host for every user online.                          *)
LEMMA NextHInv ==
  ASSUME Answering, OneName, DInv, GInv, HInv, [Next]_vars PROVE HInv'
<1>0. Patient
  BY DEF Answering, Patient
<1>1. ASSUME NEW p \in Peers, Type(p) \/ Run(p) \/ Kill(p) \/ Start(p) PROVE HInv'
  <2>1. Turn(p) /\ (Asks(p) \/ GoesOn(p))
    BY <1>1, ClientTurn
  <2>2. (Dials(p) \/ Drops(p)) /\ UNCHANGED online
    BY <2>1 DEF Asks, GoesOn, Turn
  <2>3. NoOrphans'
    BY <1>0, <2>1, NoOrphansTurn DEF HInv
  <2>4. ASSUME NEW n \in Names, online'[n] # Offline PROVE \E q \in Peers : Hosts(q, n)'
    <3>1. online[n] # Offline
      BY <2>2, <2>4
    <3>2. PICK q \in Peers : Hosts(q, n)
      BY <3>1 DEF HInv
    <3>3. Hosts(q, n)'
      BY <2>1, <2>2, <3>1, <3>2, HostsTurn, OthersHost
    <3> QED
      BY <3>3
  <2> QED
    BY <2>3, <2>4 DEF HInv
<1>2. ASSUME NEW c \in Conns, Perform(c) PROVE HInv'
  <2>1. /\ NoOrphans' /\ UNCHANGED <<session, sockets, files, shell, command, sock>>
        /\ \E p \in Peers : sock[p] # None /\ Serves(sock[p]) /\ Tells(sock[p])
    BY <1>2, ServesSomebody DEF HInv
  <2>2. PICK p \in Peers : sock[p] # None /\ Serves(sock[p]) /\ Tells(sock[p])
    BY <2>1
  <2>3. ASSUME NEW n \in Names, online'[n] # Offline PROVE \E q \in Peers : Hosts(q, n)'
    <3>1. /\ online'[n] = online[n] \/ Hosts(p, n)'
          /\ request[sock[p]].op = "DISCONNECT" => request[sock[p]].username # n
      BY <2>1, <2>2, <2>3, OnlineServes
    <3>2. CASE Hosts(p, n)'
      BY <3>2
    <3>3. CASE online'[n] = online[n]
      <4>1. PICK q \in Peers : Hosts(q, n)
        BY <2>3, <3>3 DEF HInv
      <4>2. CASE q # p
        <5>1. /\ (Done(q)' <=> Done(q)) /\ (Granted(q)' <=> Granted(q))
              /\ \A op : Awaits(q, op)' <=> Awaits(q, op)
          BY <2>1, <2>2, <4>2, OthersTold
        <5>2. Hosts(q, n)'
          BY <2>1, <3>3, <4>1, <5>1 DEF Hosts, session, sockets
        <5> QED
          BY <5>2
      <4>3. CASE q = p
        <5>1. ~Granted(p) /\ Sent(p) /\ shell[p] \in {"recv", "recv disconnect"}
          BY <2>1, <2>2, Told
        <5>2. n \in Types[p] /\ listener_socket[p] = online[n] /\ connected_user[p] = n
          BY <4>1, <4>3, <5>1 DEF Hosts
        <5>3. shell[p] # "recv disconnect"
          <6> SUFFICES ASSUME shell[p] = "recv disconnect" PROVE FALSE
            OBVIOUS
          <6>1. User(p) \in Types[p]
            BY DisconnectedName
          <6>2. User(p) = n
            BY <5>2, <6>1 DEF OneName
          <6> QED
            BY <3>1, <5>1, <6>2 DEF Sent, Fits
        <5>4. Hosts(p, n)'
          BY <2>1, <3>3, <5>2, <5>3 DEF Hosts, session, sockets
        <5> QED
          BY <5>4
      <4> QED
        BY <4>2, <4>3
    <3> QED
      BY <3>1, <3>2, <3>3
  <2> QED
    BY <2>1, <2>3 DEF HInv
<1>3. ASSUME NEW c \in Conns, HangUp(c) PROVE HInv'
  BY <1>3, NobodyGone DEF HInv
<1>4. CASE UNCHANGED vars
  <2>1. NoOrphans' /\ UNCHANGED online
    BY <1>4 DEF vars, dirvars, HInv, NoOrphans
  <2>2. ASSUME NEW q \in Peers, NEW n \in Names, Hosts(q, n) PROVE Hosts(q, n)'
    BY <1>4, <2>2 DEF vars, dirvars, session, sockets, Hosts, Awaits, Granted, Done, Code
  <2> QED
    BY <2>1, <2>2 DEF HInv
<1> QED
  BY <1>1, <1>2, <1>3, <1>4 DEF Next

(* A port has one holder: a listener, or old threads.                      *)
PortsApart ==
  \A p, q \in Peers : listener_socket[p] # None =>
    /\ listener_socket[p] \notin old_threads[q]
    /\ listener_socket[q] = listener_socket[p] => p = q

(* What a step of p may do to the ports: take a free one, keep its own or  *)
(* give it up, perhaps to an old thread.                                   *)
Ports(p) ==
  /\ \A q \in Peers \ {p} : listener_socket'[q] = listener_socket[q]
  /\ listener_socket'[p] \in {None, listener_socket[p]} \/ listener_socket'[p] \notin Taken
  /\ \A q \in Peers : \A e \in old_threads'[q] :
       \/ e \in old_threads[q]
       \/ q = p /\ e = listener_socket[p] /\ listener_socket'[p] = None

(* Every step of a client does only that.                                  *)
LEMMA PortsTurn ==
  ASSUME GInv, NEW p \in Peers, Type(p) \/ Run(p) \/ Kill(p) \/ Start(p)
  PROVE  Ports(p)
<1>1. Shapes
  BY DEF GInv
<1>2. CASE UNCHANGED sockets
  BY <1>2 DEF Ports, sockets
<1>3. CASE CloseListener(p)
  BY <1>1, <1>3 DEF CloseListener, Ports, Shapes
<1>4. CASE connect(p)
  <2>1. \/ UNCHANGED listener_socket
        \/ \E e \in IF listener_socket[p] = None THEN Endpoints \ Taken
                   ELSE {listener_socket[p]} :
             listener_socket' = [listener_socket EXCEPT ![p] = e]
        \/ \E e \in Endpoints \ Taken :
             listener_socket' = [listener_socket EXCEPT ![p] = e]
    BY <1>4 DEF connect, ListenFails
  <2>2. UNCHANGED old_threads
    BY <1>4 DEF connect
  <2> QED
    BY <1>1, <2>1, <2>2 DEF Ports, Shapes
<1>5. CASE \E q \in Peers : Serve(p, q)
  <2>1. PICK q \in Peers : Serve(p, q)
    BY <1>5
  <2>2. /\ UNCHANGED listener_socket
        /\ \/ UNCHANGED old_threads
           \/ old_threads' = [old_threads EXCEPT ![q] = @ \ {command[p].remote}]
    BY <2>1 DEF Serve
  <2>3. \A s \in Peers : old_threads'[s] \subseteq old_threads[s]
    BY <1>1, <2>2 DEF Shapes
  <2> QED
    BY <2>2, <2>3 DEF Ports
<1>6. CASE Exit(p)
  BY <1>1, <1>6 DEF Exit, Ports, Shapes
<1>7. ASSUME Run(p) PROVE Ports(p)
  <2>1. disconnect(p) => UNCHANGED sockets \/ CloseListener(p)
    BY DEF disconnect, StopListening
  <2>2. Quit(p) => UNCHANGED sockets \/ Exit(p)
    BY DEF Quit
  <2>3. register(p) \/ unregister(p) \/ publish(p) \/ delete(p) => UNCHANGED sockets
    BY DEF register, unregister, publish, delete
  <2>4. listusers(p) \/ listcontent(p) \/ getfile(p) \/ DialFails(p) \/ Download(p)
          => UNCHANGED sockets
    BY DEF listusers, listcontent, getfile, DialFails, Download
  <2> QED
    BY <1>2, <1>3, <1>4, <1>5, <1>6, <1>7, <2>1, <2>2, <2>3, <2>4 DEF Run
<1>8. Type(p) \/ Start(p) => UNCHANGED sockets
  BY DEF Type, Start
<1>9. Kill(p) => Exit(p)
  BY DEF Kill
<1> QED
  BY <1>2, <1>6, <1>7, <1>8, <1>9

(* ... and keeps the ports apart.                                          *)
LEMMA NextPortsApart == GInv /\ PortsApart /\ [Next]_vars => PortsApart'
<1> SUFFICES ASSUME GInv, PortsApart, [Next]_vars PROVE PortsApart'
  OBVIOUS
<1>1. ASSUME NEW p \in Peers, Type(p) \/ Run(p) \/ Kill(p) \/ Start(p)
      PROVE  PortsApart'
  <2>1. Ports(p)
    BY <1>1, PortsTurn
  <2>2. listener_socket'[p] \in {None, listener_socket[p]}
          \/ \A q \in Peers : listener_socket'[p] # listener_socket[q]
                              /\ listener_socket'[p] \notin old_threads[q]
    BY <2>1 DEF Ports, Taken
  <2> QED
    BY <2>1, <2>2 DEF PortsApart, Ports
<1>2. ASSUME NEW c \in Conns, Perform(c) \/ HangUp(c) PROVE PortsApart'
  BY <1>2 DEF Perform, HangUp, sockets, PortsApart
<1>3. CASE UNCHANGED vars
  BY <1>3 DEF vars, sockets, PortsApart
<1> QED
  BY <1>1, <1>2, <1>3 DEF Next

(* When every request is answered and each client has one user at most,    *)
(* every user the server lists is typed at a client that listens where the *)
(* server says, even if two clients are told the same name and one         *)
(* disconnects it under the other, and although threads may not start; and *)
(* nobody else holds that port: GET_FILE finds that client there or nobody.*)
THEOREM ListedCanBeReached == Answering /\ OneName /\ Spec => []OnlineReachable
<1>1. Init => DInv /\ GInv /\ HInv /\ PortsApart
  <2>1. Init => PortsApart
    BY DEF Init, PortsApart
  <2> QED
    BY <2>1, InitDInv, InitGInv, InitHInv
<1>2. GInv /\ HInv /\ PortsApart => OnlineReachable
  <2> SUFFICES ASSUME GInv, HInv, PortsApart, NEW n \in Names, online[n] # Offline
               PROVE  \E p \in Peers :
                        /\ n \in Types[p] /\ listener_socket[p] = online[n]
                        /\ \A q \in Peers : /\ online[n] \notin old_threads[q]
                                           /\ listener_socket[q] = online[n] => q = p
    BY DEF OnlineReachable
  <2>1. PICK p \in Peers : n \in Types[p] /\ listener_socket[p] = online[n]
    BY DEF HInv, Hosts
  <2>2. listener_socket[p] # None
    BY <2>1 DEF GInv, EntriesTyped
  <2>3. \A q \in Peers : /\ online[n] \notin old_threads[q]
                        /\ listener_socket[q] = online[n] => q = p
    BY <2>1, <2>2 DEF PortsApart
  <2> QED
    BY <2>1, <2>3
<1>3. CASE ~(Answering /\ OneName)
  BY <1>3
<1>4. CASE Answering /\ OneName
  <2>1. /\ DInv /\ GInv /\ HInv /\ PortsApart /\ [Next]_vars
        => (DInv /\ GInv /\ HInv /\ PortsApart)'
    BY <1>4, NextDInv, NextGInv, NextHInv, NextPortsApart
  <2> QED
    BY <1>1, <1>2, <2>1, PTL DEF Spec
<1> QED
  BY <1>3, <1>4

=============================================================================
