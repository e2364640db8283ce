--------------------------- MODULE PeersProperties ---------------------------
(***************************************************************************)
(* What is claimed of the client program.                                  *)
(***************************************************************************)
EXTENDS Peers

OrNone(S) == S \cup {None}

Labels ==
  {"prompt", "exited", "recv", "disconnect", "recv disconnect", "unregister",
   "break", "dial", "receive"} \cup Commands

(* Every variable has its type, and a client waits on a connection exactly *)
(* while one of its methods is between the sends and the answer.           *)
TypeOK ==
  /\ registered \subseteq Names
  /\ online \in [Names -> Endpoints \cup {Offline}]
  /\ registered_user \in [Peers -> OrNone(Names)]
  /\ connected_user \in [Peers -> OrNone(Names)]
  /\ listener_socket \in [Peers -> OrNone(Endpoints)]
  /\ old_threads \in [Peers -> SUBSET Endpoints]
  /\ unstarted \subseteq Peers
  /\ disk \in [Peers -> SUBSET (Files \cup Downloads)]
  /\ doubtful \in [Peers -> SUBSET (Files \cup Downloads)]
  /\ shell \in [Peers -> Labels]
  /\ sock \in [Peers -> OrNone(Conns)]
  /\ \A p \in Peers : sock[p] # None <=> shell[p] \in {"recv", "recv disconnect"}

AtPrompt(p) == shell[p] = "prompt"

(* The name is typed at this client only: nothing in the protocol stops    *)
(* one client from disconnecting or unregistering the users of another.    *)
OwnName(p, n) == n \in Types[p] /\ \A q \in Peers \ {p} : n \notin Types[q]

(* Connections may be refused or end unanswered, and the disk may fail,    *)
(* but no answer is lost, no client is killed and its threads start.       *)
Reliable == Faults \cap {"broken", "killed", "threads"} = {}

(* At the prompt, a client that believes it is connected is: the server    *)
(* lists its user, at the port this client listens on, whatever other      *)
(* clients do and whichever of its requests were refused or not answered.  *)
(* (Where Reliable does not hold the code does not keep it: an answer to a *)
(* nested DISCONNECT is lost and its request executed late, say.)          *)
BelievedOnline ==
  \A p \in Peers :
    AtPrompt(p) /\ OwnName(p, connected_user[p]) =>
      /\ listener_socket[p] # None
      /\ online[connected_user[p]] = listener_socket[p]

(* A client that takes itself for connected listens: each of the seven     *)
(* ends of disconnect, and every failure before, during and after a        *)
(* CONNECT, keeps the two together, or others would be sent to a port      *)
(* where nobody serves.  One failure is excepted: after a thread that did  *)
(* not start, DISCONNECT raises where it joins it, and does not forget the *)
(* user although the socket is closed.                                     *)
ConnectedListens ==
  \A p \in Peers : connected_user[p] # None => listener_socket[p] # None \/ p \in unstarted

(* A user the server lists is listening where the server says, and nobody  *)
(* else holds that port, a thread of an earlier listener included: the     *)
(* endpoint GET_FILE reads leads to that user and to nobody else, although *)
(* ports are closed, kept by old threads and handed out again.             *)
OnlineReachable ==
  \A n \in Names :
    online[n] # Offline =>
      \E p \in Peers :
        /\ n \in Types[p] /\ listener_socket[p] = online[n]
        /\ \A q \in Peers : /\ online[n] \notin old_threads[q]
                           /\ listener_socket[q] = online[n] => q = p

(* What the server lists for a user is on the disk of the client of that   *)
(* user, once that client is back at its prompt, over restarts, lost       *)
(* answers and requests executed late: a file that is listed and missing   *)
(* is one that a PUBLISH whose last word was not "PUBLISH OK", or a        *)
(* GET_FILE that failed into the same name, has left so.  A DELETE never   *)
(* does, as long as one name is typed at each client: a file on disk is    *)
(* shared by all the names of its client, and deleted in one of them.      *)
ListedIsOnDisk ==
  \A p \in Peers, n \in Names :
    AtPrompt(p) /\ OwnName(p, n) =>
      {f \in Files : published[n][f] > 0} \subseteq disk[p] \cup doubtful[p]

(* Nothing is kept of a name that is not registered: UNREGISTER takes the  *)
(* user's connection and files with it, whatever order the requests of     *)
(* several clients arrive in, so a later user of the same name starts      *)
(* offline and without files.                                              *)
NothingOfNobody ==
  \A n \in Names \ registered :
    online[n] = Offline /\ \A f \in Files : published[n][f] = 0

=============================================================================
