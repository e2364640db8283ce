------------------------------- MODULE Listener -------------------------------
(***************************************************************************)
(* One client's listening socket and the threads that accept on it, at the *)
(* granularity of the statements of connect, disconnect and                *)
(* listener_thread that touch _running, _listener_socket and               *)
(* _listener_thread: the main thread and the listener threads share those  *)
(* without a lock.                                                         *)
(*                                                                         *)
(* Linux does not wake a thread blocked in accept when another closes the  *)
(* socket: the descriptor is gone, but the port stays open until that      *)
(* accept returns.                                                         *)
(*                                                                         *)
(* Two things may fail where the code goes on without a listener thread:   *)
(* the start of that thread, which leaves the socket and a thread object   *)
(* that cannot be joined, and accept or the start of a thread for the      *)
(* connection, either of which ends the listener thread.                   *)
(***************************************************************************)
EXTENDS Integers, Sequences, FiniteSets

CONSTANTS
  Socks,     \* listening sockets; one that is gone may be made again
  Threads,   \* listener threads; one that has ended may be started again
  Dials,     \* connections of other clients
  None,
  Unstarted, \* a thread object whose start has failed
  MayFail    \* may accept, or the start of a thread, fail?

ASSUME ListenerAssumption ==
  /\ None \notin Socks \cup Threads \cup {Unstarted} /\ Unstarted \notin Threads
  /\ MayFail \in BOOLEAN

VARIABLES
  running,          \* _running
  listener_socket,  \* _listener_socket
  listener_thread,  \* _listener_thread
  shell,            \* where the main thread is in connect or disconnect
  state,            \* of a socket: "gone", "open", or "closed" but in use
  pc,               \* where each listener thread is
  holds,            \* the socket on which it calls accept
  queue,            \* the connections that wait on a socket to be accepted
  failed            \* has the thread of the current socket failed? (history)

session == <<running, listener_socket, listener_thread, shell>>
vars == <<session, state, pc, holds, queue, failed>>

Init ==
  /\ running = TRUE /\ listener_socket = None /\ listener_thread = None
  /\ shell = "prompt"
  /\ state = [s \in Socks |-> "gone"]
  /\ pc = [t \in Threads |-> "none"]
  /\ holds = [t \in Threads |-> None]
  /\ queue = [s \in Socks |-> <<>>]
  /\ failed = FALSE

Goto(t, label) == pc' = [pc EXCEPT ![t] = label]

----------------------------------------------------------------------------
(* The main thread.  The exchanges with the server in between touch none   *)
(* of this and are left out.                                               *)

Step(from, to) == shell = from /\ shell' = to

(* connect with no listening socket: create_listener_socket, which changes *)
(* nothing when it fails.  A socket that is there is used again, with or   *)
(* without a thread.  Bound: a thread and a socket are free to be made.    *)
create_listener_socket ==
  /\ Step("prompt", "created") /\ listener_socket = None
  /\ failed' = FALSE
  /\ \E t \in Threads : pc[t] = "none"
  /\ \E s \in Socks :
       /\ state[s] = "gone" /\ \A t \in Threads : holds[t] # s
       /\ listener_socket' = s
       /\ state' = [state EXCEPT ![s] = "open"]
  /\ UNCHANGED <<running, listener_thread, pc, holds, queue>>

(* _running keeps the value of the last disconnect. *)
FaultySetRunning == Step("created", "running") /\ UNCHANGED
  <<running, listener_socket, listener_thread, state, pc, holds, queue, failed>>

SetRunning ==
  /\ Step("created", "running")
  /\ running' = TRUE
  /\ UNCHANGED <<listener_socket, listener_thread, state, pc, holds, queue, failed>>

(* A thread is made, remembered and started.  If the start fails, connect  *)
(* does, and leaves the socket and the thread object behind.               *)
StartThread ==
  /\ Step("running", "prompt")
  /\ \/ \E t \in Threads :
          /\ pc[t] = "none"
          /\ listener_thread' = t
          /\ Goto(t, "test")
          /\ UNCHANGED failed
     \/ /\ MayFail
        /\ listener_thread' = Unstarted
        /\ failed' = TRUE /\ UNCHANGED pc
  /\ UNCHANGED <<running, listener_socket, state, holds, queue>>

(* disconnect, whatever the server said. *)
ClearRunning ==
  /\ Step("prompt", "stopped")
  /\ running' = FALSE
  /\ UNCHANGED <<listener_socket, listener_thread, state, pc, holds, queue, failed>>

Blocked(s) == {t \in Threads : pc[t] = "accept" /\ holds[t] = s}

(* The socket ends: what still waited on it is reset. *)
Destroy(s) ==
  /\ state' = [state EXCEPT ![s] = "gone"]
  /\ queue' = [queue EXCEPT ![s] = <<>>]

(* The socket is only forgotten. *)
FaultyCloseSocket == Step("stopped", "closed") /\ UNCHANGED
  <<running, listener_socket, listener_thread, state, pc, holds, queue, failed>>

CloseSocket ==
  /\ Step("stopped", "closed")
  /\ LET s == listener_socket
     IN  \/ s = None /\ UNCHANGED <<state, queue>>
         \/ s # None /\ Blocked(s) = {} /\ Destroy(s)
         \/ /\ s # None /\ Blocked(s) # {}
            /\ state' = [state EXCEPT ![s] = "closed"] /\ UNCHANGED queue
  /\ UNCHANGED <<running, listener_socket, listener_thread, pc, holds, failed>>

ClearSocket ==
  /\ Step("closed", "joining")
  /\ listener_socket' = None
  /\ UNCHANGED <<running, listener_thread, state, pc, holds, queue, failed>>

(* The thread is still remembered. *)
FaultyJoin == Step("joining", "prompt") /\ UNCHANGED
  <<running, listener_socket, listener_thread, state, pc, holds, queue, failed>>

(* join(1) returns when the thread has ended, or after a second.  Of a     *)
(* thread that was not started it raises, and raises again in the handler  *)
(* of that exception: disconnect ends there.                               *)
Join ==
  /\ Step("joining", "prompt")
  /\ \/ listener_thread # Unstarted /\ listener_thread' = None
     \/ listener_thread = Unstarted /\ UNCHANGED listener_thread
  /\ UNCHANGED <<running, listener_socket, state, pc, holds, queue, failed>>

----------------------------------------------------------------------------
(* A listener thread. *)

End(t) == Goto(t, "none") /\ holds' = [holds EXCEPT ![t] = None]

(* while client._running *)
TestRunning(t) ==
  /\ pc[t] = "test"
  /\ \/ running /\ Goto(t, "load") /\ UNCHANGED holds
     \/ ~running /\ End(t)
  /\ UNCHANGED <<session, state, queue, failed>>

(* The evaluation of client._listener_socket; None has no accept, and the  *)
(* exception ends the thread.                                              *)
LoadSocket(t) ==
  /\ pc[t] = "load"
  /\ \/ listener_socket = None /\ End(t)
     \/ /\ listener_socket # None /\ Goto(t, "call")
        /\ holds' = [holds EXCEPT ![t] = listener_socket]
  /\ UNCHANGED <<session, state, queue, failed>>

(* accept on a closed descriptor raises, which ends the thread. *)
CallAccept(t) ==
  /\ pc[t] = "call"
  /\ \/ state[holds[t]] = "open" /\ Goto(t, "accept") /\ UNCHANGED holds
     \/ state[holds[t]] # "open" /\ End(t)
  /\ UNCHANGED <<session, state, queue, failed>>

(* The thread leaves accept.  The last one to leave a closed socket        *)
(* destroys it.                                                            *)
LeaveAccept(t, rest) ==
  LET s == holds[t]
  IN  /\ \/ state[s] = "closed" /\ Blocked(s) = {t} /\ Destroy(s)
         \/ /\ ~(state[s] = "closed" /\ Blocked(s) = {t})
            /\ queue' = [queue EXCEPT ![s] = rest] /\ UNCHANGED state
      /\ holds' = [holds EXCEPT ![t] = None]
      /\ UNCHANGED session

(* One connection is served, and no other. *)
FaultyAccept(t) ==
  /\ pc[t] = "accept" /\ queue[holds[t]] # <<>>
  /\ LeaveAccept(t, Tail(queue[holds[t]]))
  /\ Goto(t, "none")
  /\ UNCHANGED failed

(* The first connection is accepted and given a thread of its own. *)
Accept(t) ==
  /\ pc[t] = "accept" /\ queue[holds[t]] # <<>>
  /\ LeaveAccept(t, Tail(queue[holds[t]]))
  /\ Goto(t, "test")
  /\ UNCHANGED failed

(* accept raises, or the thread for the connection, which is then closed,  *)
(* cannot be started: the loop is left, the socket stays.                  *)
AcceptFails(t) ==
  /\ MayFail /\ pc[t] = "accept"
  /\ \/ LeaveAccept(t, queue[holds[t]])
     \/ queue[holds[t]] # <<>> /\ LeaveAccept(t, Tail(queue[holds[t]]))
  /\ Goto(t, "none")
  /\ failed' = (failed \/ t = listener_thread)

Waits(d) == \E s \in Socks : \E i \in DOMAIN queue[s] : queue[s][i] = d

(* getfile of another client, with an endpoint it once read. *)
Dial(d, s) ==
  /\ ~Waits(d) /\ state[s] # "gone"
  /\ queue' = [queue EXCEPT ![s] = Append(@, d)]
  /\ UNCHANGED <<session, state, pc, holds, failed>>

MainThread ==
  \/ SetRunning \/ StartThread \/ CloseSocket \/ ClearSocket \/ Join

listener_thread_step(t) ==
  TestRunning(t) \/ LoadSocket(t) \/ CallAccept(t) \/ Accept(t)

Next ==
  \/ create_listener_socket \/ ClearRunning \/ MainThread
  \/ \E t \in Threads : listener_thread_step(t) \/ AcceptFails(t)
  \/ \E d \in Dials, s \in Socks : Dial(d, s)

Spec == Init /\ [][Next]_vars

----------------------------------------------------------------------------
(* Every variable has its type, a thread holds a socket exactly while it   *)
(* calls accept, and at the prompt a listening socket has a thread object, *)
(* which disconnect forgets if it was ever started.                        *)
TypeOK ==
  /\ running \in BOOLEAN
  /\ listener_socket \in Socks \cup {None}
  /\ listener_thread \in Threads \cup {None, Unstarted}
  /\ shell \in {"prompt", "created", "running", "stopped", "closed", "joining"}
  /\ state \in [Socks -> {"gone", "open", "closed"}]
  /\ pc \in [Threads -> {"none", "test", "load", "call", "accept"}]
  /\ holds \in [Threads -> Socks \cup {None}]
  /\ queue \in [Socks -> Seq(Dials)]
  /\ failed \in BOOLEAN
  /\ \A t \in Threads : holds[t] # None <=> pc[t] \in {"call", "accept"}
  /\ shell = "prompt" =>
       /\ listener_socket # None => listener_thread # None
       /\ listener_thread \in Threads => listener_socket # None

(* Back at the prompt with a listening socket, the thread started last is  *)
(* alive, sees _running, and calls accept on this socket and no other,     *)
(* unless its own start, its accept or a start it made has failed.  What   *)
(* threads of earlier connections do, or fail to do, cannot stop it, and a *)
(* failure does not outlive the socket: the next DISCONNECT and CONNECT    *)
(* make one that is served again.                                          *)
KeepsAccepting ==
  shell = "prompt" /\ listener_socket # None /\ ~failed =>
    /\ running /\ state[listener_socket] = "open"
    /\ listener_thread \in Threads /\ pc[listener_thread] # "none"
    /\ pc[listener_thread] \in {"call", "accept"} =>
         holds[listener_thread] = listener_socket

(* A thread of an earlier connection is blocked only on a port that is     *)
(* still open, or one that it alone keeps: no port is kept by nobody.      *)
PortsAreHeld ==
  \A s \in Socks :
    /\ state[s] = "open" => listener_socket = s
    /\ state[s] = "closed" => Blocked(s) # {}
    /\ Blocked(s) # {} => state[s] # "gone"

FairSpec ==
  /\ Spec /\ WF_vars(MainThread)
  /\ \A t \in Threads : WF_vars(listener_thread_step(t))

(* A connection that reached a listening port is accepted or reset, and    *)
(* the getfile behind it, which waits without a timeout, gets on; unless   *)
(* the listener thread has failed, and then it may wait for ever.          *)
DialEnds == \A d \in Dials : Waits(d) ~> ~Waits(d) \/ failed

=============================================================================
