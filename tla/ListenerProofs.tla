---------------------------- MODULE ListenerProofs ----------------------------
(***************************************************************************)
(* The listener keeps accepting, and no port is kept by nobody, for any    *)
(* number of sockets, of threads left over and of connections.             *)
(***************************************************************************)
EXTENDS Listener, TLAPS

(* What the statements of connect and disconnect have reached so far.      *)
Progress ==
  /\ shell \in {"prompt", "created", "running", "stopped"} /\ listener_socket # None =>
       state[listener_socket] = "open"
  /\ shell \in {"created", "running"} => listener_socket # None
  /\ shell = "running" => running
  /\ shell = "prompt" /\ listener_socket # None => running
  /\ shell = "closed" => \A s \in Socks : state[s] # "open"
  /\ shell = "joining" => listener_socket = None

IInv == TypeOK /\ Progress /\ KeepsAccepting /\ PortsAreHeld

USE ListenerAssumption

LEMMA InitIInv == Init => IInv
<1> SUFFICES ASSUME Init PROVE IInv
  OBVIOUS
<1>1. TypeOK
  <2>1. queue \in [Socks -> Seq(Dials)]
    <3>1. <<>> \in Seq(Dials)
      OBVIOUS
    <3> QED
      BY <3>1 DEF Init
  <2>2. None \notin Threads
    OBVIOUS
  <2> QED
    BY <2>1, <2>2 DEF Init, TypeOK
<1>2. Progress /\ KeepsAccepting
  BY DEF Init, Progress, KeepsAccepting
<1>3. PortsAreHeld
  BY DEF Init, PortsAreHeld, Blocked
<1> QED
  BY <1>1, <1>2, <1>3 DEF IInv

(* A queue emptied or served from its head stays a queue.                  *)
LEMMA QueueType ==
  ASSUME TypeOK, NEW s \in Socks,
         \/ queue' = [queue EXCEPT ![s] = <<>>]
         \/ queue[s] # <<>> /\ queue' = [queue EXCEPT ![s] = Tail(queue[s])]
         \/ queue' = [queue EXCEPT ![s] = queue[s]]
         \/ UNCHANGED queue
  PROVE  queue' \in [Socks -> Seq(Dials)]
<1>1. <<>> \in Seq(Dials)
  OBVIOUS
<1>2. queue[s] # <<>> => Tail(queue[s]) \in Seq(Dials)
  BY DEF TypeOK
<1> QED
  BY <1>1, <1>2 DEF TypeOK

(* However a thread leaves accept: what becomes of its socket, and where   *)
(* the thread goes.                                                        *)
Left(t) ==
  LET s == holds[t]
  IN  /\ pc[t] = "accept" /\ s \in Socks
      /\ \/ /\ state[s] = "closed" /\ Blocked(s) = {t} /\ Destroy(s)
         \/ /\ ~(state[s] = "closed" /\ Blocked(s) = {t}) /\ UNCHANGED state
            /\ \/ queue[s] # <<>> /\ queue' = [queue EXCEPT ![s] = Tail(queue[s])]
               \/ queue' = [queue EXCEPT ![s] = queue[s]]
      /\ holds' = [holds EXCEPT ![t] = None]
      /\ \E label \in {"test", "none"} : pc' = [pc EXCEPT ![t] = label]
      /\ UNCHANGED <<running, listener_socket, listener_thread, shell>>
      /\ failed' \in BOOLEAN
      /\ t = listener_thread => failed' \/ pc'[t] = "test"
      /\ failed => failed'

LEMMA AcceptLeaves ==
  ASSUME TypeOK, NEW t \in Threads, Accept(t) \/ AcceptFails(t)
  PROVE  Left(t)
<1>1. pc[t] = "accept" /\ holds[t] \in Socks
  BY DEF TypeOK, Accept, AcceptFails
<1>2. pc[t] \in {"accept"} /\ pc \in [Threads -> {"none", "test", "load", "call", "accept"}]
  BY <1>1 DEF TypeOK
<1>3. CASE Accept(t)
  BY <1>1, <1>2, <1>3 DEF TypeOK, Accept, LeaveAccept, Left, Goto, session
<1>4. CASE AcceptFails(t)
  BY <1>1, <1>2, <1>4 DEF TypeOK, AcceptFails, LeaveAccept, Left, Goto, session
<1> QED
  BY <1>3, <1>4

LEMMA TypeStep == IInv /\ [Next]_vars => TypeOK'
<1> SUFFICES ASSUME IInv, [Next]_vars PROVE TypeOK'
  OBVIOUS
<1> USE DEF IInv, TypeOK, Progress, Step, Goto, session
<1>1. CASE create_listener_socket
  BY <1>1 DEF create_listener_socket
<1>2. CASE ClearRunning
  BY <1>2 DEF ClearRunning
<1>3. CASE SetRunning
  BY <1>3 DEF SetRunning
<1>4. CASE StartThread
  BY <1>4 DEF StartThread
<1>5. CASE CloseSocket
  <2>1. CASE listener_socket = None
    BY <1>5, <2>1 DEF CloseSocket
  <2>2. CASE listener_socket # None
    <3>1. queue' \in [Socks -> Seq(Dials)]
      BY <1>5, <2>2, QueueType DEF CloseSocket, Destroy
    <3>2. state' \in [Socks -> {"gone", "open", "closed"}]
      BY <1>5, <2>2 DEF CloseSocket, Destroy
    <3> QED
      BY <1>5, <2>2, <3>1, <3>2 DEF CloseSocket
  <2> QED
    BY <2>1, <2>2
<1>6. CASE ClearSocket
  BY <1>6 DEF ClearSocket
<1>7. CASE Join
  BY <1>7 DEF Join
<1>8. CASE \E t \in Threads : listener_thread_step(t) \/ AcceptFails(t)
  <2> PICK t \in Threads : listener_thread_step(t) \/ AcceptFails(t)
    BY <1>8
  <2>1. CASE TestRunning(t)
    BY <2>1 DEF TestRunning, End
  <2>2. CASE LoadSocket(t)
    BY <2>2 DEF LoadSocket, End
  <2>3. CASE CallAccept(t)
    BY <2>3 DEF CallAccept, End
  <2>4. CASE Accept(t) \/ AcceptFails(t)
    <3>0. Left(t)
      BY <2>4, AcceptLeaves
    <3>1. holds[t] \in Socks
      BY <3>0 DEF Left
    <3>2. queue' \in [Socks -> Seq(Dials)]
      BY <3>0, <3>1, QueueType DEF Left, Destroy
    <3>3. state' \in [Socks -> {"gone", "open", "closed"}]
      BY <3>0, <3>1 DEF Left, Destroy
    <3> QED
      BY <3>0, <3>1, <3>2, <3>3 DEF Left
  <2> QED
    BY <2>1, <2>2, <2>3, <2>4 DEF listener_thread_step
<1>9. CASE \E d \in Dials, s \in Socks : Dial(d, s)
  BY <1>9 DEF Dial
<1>10. CASE UNCHANGED vars
  BY <1>10 DEF vars
<1> QED
  BY <1>1, <1>2, <1>3, <1>4, <1>5, <1>6, <1>7, <1>8, <1>9, <1>10 DEF Next, MainThread

(* The session moves forward only with the main thread, and a step of a    *)
(* listener thread never closes the socket that is open.                   *)
LEMMA SessionStep == IInv /\ [Next]_vars => (Progress /\ KeepsAccepting)'
<1> SUFFICES ASSUME IInv, [Next]_vars PROVE (Progress /\ KeepsAccepting)'
  OBVIOUS
<1> USE DEF IInv, TypeOK, Progress, KeepsAccepting, Step, Goto, session
<1>1. CASE create_listener_socket
  BY <1>1 DEF create_listener_socket
<1>2. CASE ClearRunning
  BY <1>2 DEF ClearRunning
<1>3. CASE SetRunning
  BY <1>3 DEF SetRunning
<1>4. CASE StartThread
  BY <1>4 DEF StartThread
<1>5. CASE CloseSocket
  <2>1. ASSUME NEW s \in Socks PROVE state'[s] # "open"
    <3>1. s # listener_socket => state'[s] = state[s] /\ state[s] # "open"
      BY <1>5 DEF CloseSocket, Destroy, PortsAreHeld
    <3>2. s = listener_socket => state'[s] \in {"gone", "closed"}
      BY <1>5 DEF CloseSocket, Destroy
    <3> QED
      BY <3>1, <3>2
  <2> QED
    BY <1>5, <2>1 DEF CloseSocket
<1>6. CASE ClearSocket
  BY <1>6 DEF ClearSocket
<1>7. CASE Join
  BY <1>7 DEF Join
<1>8. CASE \E t \in Threads : listener_thread_step(t) \/ AcceptFails(t)
  <2> PICK t \in Threads : listener_thread_step(t) \/ AcceptFails(t)
    BY <1>8
  <2>1. CASE TestRunning(t)
    BY <2>1 DEF TestRunning, End
  <2>2. CASE LoadSocket(t)
    BY <2>2 DEF LoadSocket, End
  <2>3. CASE CallAccept(t)
    BY <2>3 DEF CallAccept, End
  <2>4. CASE Accept(t) \/ AcceptFails(t)
    <3>1. Left(t)
      BY <2>4, AcceptLeaves
    <3>2. \A s \in Socks : state[s] = "open" <=> state'[s] = "open"
      BY <3>1 DEF Left, Destroy
    <3> QED
      BY <3>1, <3>2 DEF Left
  <2> QED
    BY <2>1, <2>2, <2>3, <2>4 DEF listener_thread_step
<1>9. CASE \E d \in Dials, s \in Socks : Dial(d, s)
  BY <1>9 DEF Dial
<1>10. CASE UNCHANGED vars
  BY <1>10 DEF vars
<1> QED
  BY <1>1, <1>2, <1>3, <1>4, <1>5, <1>6, <1>7, <1>8, <1>9, <1>10 DEF Next, MainThread

(* The threads blocked on a socket change only by CallAccept and Accept.   *)
LEMMA PortsStep == IInv /\ [Next]_vars => PortsAreHeld'
<1> SUFFICES ASSUME IInv, [Next]_vars PROVE PortsAreHeld'
  OBVIOUS
<1> USE DEF IInv, TypeOK, Progress, PortsAreHeld, Blocked, Step, Goto, session
<1>1. CASE create_listener_socket
  BY <1>1 DEF create_listener_socket
<1>2. CASE ClearRunning
  BY <1>2 DEF ClearRunning
<1>3. CASE SetRunning
  BY <1>3 DEF SetRunning
<1>4. CASE StartThread
  BY <1>4 DEF StartThread
<1>5. CASE CloseSocket
  <2>1. CASE listener_socket = None
    BY <1>5, <2>1 DEF CloseSocket
  <2>2. CASE listener_socket # None
    <3>1. \A s \in Socks : Blocked(s)' = Blocked(s)
      BY <1>5 DEF CloseSocket
    <3>2. \A s \in Socks \ {listener_socket} : state'[s] = state[s]
      BY <1>5, <2>2 DEF CloseSocket, Destroy
    <3>3. \/ Blocked(listener_socket) = {} /\ state'[listener_socket] = "gone"
          \/ Blocked(listener_socket) # {} /\ state'[listener_socket] = "closed"
      BY <1>5, <2>2 DEF CloseSocket, Destroy
    <3>4. listener_socket' = listener_socket
      BY <1>5 DEF CloseSocket
    <3>5. SUFFICES ASSUME NEW s \in Socks
          PROVE /\ state'[s] = "open" => listener_socket = s
                /\ state'[s] = "closed" => Blocked(s) # {}
                /\ Blocked(s) # {} => state'[s] # "gone"
      BY <3>1, <3>4, Zenon DEF PortsAreHeld
    <3> QED
      BY <3>2, <3>3
  <2> QED
    BY <2>1, <2>2
<1>6. CASE ClearSocket
  BY <1>6 DEF ClearSocket
<1>7. CASE Join
  BY <1>7 DEF Join
<1>8. CASE \E t \in Threads : listener_thread_step(t) \/ AcceptFails(t)
  <2> PICK t \in Threads : listener_thread_step(t) \/ AcceptFails(t)
    BY <1>8
  <2>1. CASE TestRunning(t)
    BY <2>1 DEF TestRunning, End
  <2>2. CASE LoadSocket(t)
    <3>1. \A s \in Socks : Blocked(s)' = Blocked(s)
      BY <2>2 DEF LoadSocket, End
    <3> QED
      BY <2>2, <3>1 DEF LoadSocket
  <2>3. CASE CallAccept(t)
    <3>1. CASE state[holds[t]] = "open"
      <4>1. holds[t] \in Socks
        BY <2>3 DEF CallAccept
      <4>2. \A s \in Socks : Blocked(s)' = IF s = holds[t] THEN Blocked(s) \cup {t}
                                                          ELSE Blocked(s)
        BY <2>3, <3>1, <4>1 DEF CallAccept
      <4> QED
        BY <2>3, <3>1, <4>1, <4>2 DEF CallAccept
    <3>2. CASE state[holds[t]] # "open"
      <4>1. \A s \in Socks : Blocked(s)' = Blocked(s)
        BY <2>3, <3>2 DEF CallAccept, End
      <4> QED
        BY <2>3, <3>2, <4>1 DEF CallAccept
    <3> QED
      BY <3>1, <3>2
  <2>4. CASE Accept(t) \/ AcceptFails(t)
    <3>0. Left(t)
      BY <2>4, AcceptLeaves
    <3>1. holds[t] \in Socks
      BY <3>0 DEF Left
    <3>2. \A s \in Socks : Blocked(s)' = Blocked(s) \ {t}
      BY <3>0 DEF Left
    <3>3. \A s \in Socks \ {holds[t]} : t \notin Blocked(s) /\ state'[s] = state[s]
      BY <3>0, <3>1 DEF Left, Destroy
    <3>4. CASE state[holds[t]] = "closed" /\ Blocked(holds[t]) = {t}
      <4>1. state'[holds[t]] = "gone"
        BY <3>0, <3>1, <3>4 DEF Left, Destroy
      <4> QED
        BY <3>0, <3>1, <3>2, <3>3, <3>4, <4>1 DEF Left
    <3>5. CASE ~(state[holds[t]] = "closed" /\ Blocked(holds[t]) = {t})
      <4>1. UNCHANGED <<state, listener_socket>>
        BY <3>0, <3>5 DEF Left
      <4>2. t \in Blocked(holds[t])
        BY <3>0 DEF Left
      <4>3. state[holds[t]] = "closed" => Blocked(holds[t]) \ {t} # {}
        BY <3>5, <4>2
      <4>4. SUFFICES ASSUME NEW s \in Socks
            PROVE /\ state[s] = "open" => listener_socket = s
                  /\ state[s] = "closed" => Blocked(s) \ {t} # {}
                  /\ Blocked(s) \ {t} # {} => state[s] # "gone"
        BY <3>2, <4>1, Zenon DEF PortsAreHeld
      <4> QED
        BY <3>1, <3>3, <4>3
    <3> QED
      BY <3>4, <3>5
  <2> QED
    BY <2>1, <2>2, <2>3, <2>4 DEF listener_thread_step
<1>9. CASE \E d \in Dials, s \in Socks : Dial(d, s)
  BY <1>9 DEF Dial
<1>10. CASE UNCHANGED vars
  BY <1>10 DEF vars
<1> QED
  BY <1>1, <1>2, <1>3, <1>4, <1>5, <1>6, <1>7, <1>8, <1>9, <1>10 DEF Next, MainThread

(* The inductive invariant: the session's progress, the thread that        *)
(* accepts, and the ports with the threads blocked on them.                *)
THEOREM ListenerInvariant == Spec => []IInv
<1>1. IInv /\ [Next]_vars => IInv'
  BY TypeStep, SessionStep, PortsStep DEF IInv
<1> QED
  BY InitIInv, <1>1, PTL DEF Spec

(* Back at the prompt with a listening socket, the client accepts on it,   *)
(* whatever threads of earlier connections are still about, unless the     *)
(* thread of this socket failed: its start, an accept of it, or the start  *)
(* of a thread for a connection it accepted.                               *)
THEOREM AlwaysAccepting == Spec => []KeepsAccepting
<1>1. IInv => KeepsAccepting
  BY DEF IInv
<1> QED
  BY ListenerInvariant, <1>1, PTL

(* A port that disconnect has closed is kept only by a thread blocked on   *)
(* it, and no other socket than _listener_socket is open.                  *)
THEOREM NoPortLeaks == Spec => []PortsAreHeld
<1>1. IInv => PortsAreHeld
  BY DEF IInv
<1> QED
  BY ListenerInvariant, <1>1, PTL

(* TypeOK: the main thread is at a statement of connect or disconnect, the *)
(* threads left over are the ones that were started, and the queue of a    *)
(* socket holds connections that have been dialled.                        *)
THEOREM ListenerTyped == Spec => []TypeOK
<1>1. IInv => TypeOK
  BY DEF IInv
<1> QED
  BY ListenerInvariant, <1>1, PTL

=============================================================================
