------------------------------ MODULE Directory ------------------------------
(***************************************************************************)
(* What the main server promises its clients: a directory of users in      *)
(* which every request takes effect at one instant between its arrival and *)
(* its answer, and answers with the codes of the protocol.                 *)
(*                                                                         *)
(* There are no slots, no indexes, no threads and no lock here.  A user's  *)
(* files are a bag, because a PUBLISH answered 3 (already published) adds  *)
(* a copy and a DELETE takes one copy away.                                *)
(***************************************************************************)
EXTENDS Integers

CONSTANTS
  Names, Files, Endpoints,
  Clients,      \* the callers, each with one request at a time
  Anonymous,    \* "__NONE__": content requests in this name answer 1
  Requests,     \* the requests that may be sent
  MayLose,      \* may a REGISTER be answered 0 and not take effect?
  Offline       \* the endpoint of a user who is not connected

VARIABLES
  registered,   \* the registered names
  online,       \* [Names -> Endpoints \cup {Offline}]
  published,    \* [Names -> [Files -> Nat]], the copies of each file
  phase,        \* of each caller: "idle", "pending" or "done"
  request,      \* what it asked, NoRequest when idle
  reply         \* the answer, once it is done

dirvars == <<registered, online, published, phase, request, reply>>

NoFiles == [f \in Files |-> 0]

NoRequest == [op |-> "NONE"]

NoReply == [code |-> 0, listing |-> {}]

Init ==
  /\ registered = {}
  /\ online = [n \in Names |-> Offline]
  /\ published = [n \in Names |-> NoFiles]
  /\ phase = [c \in Clients |-> "idle"]
  /\ request = [c \in Clients |-> NoRequest]
  /\ reply = [c \in Clients |-> NoReply]

Invoke(c, r) ==
  /\ phase[c] = "idle"
  /\ phase' = [phase EXCEPT ![c] = "pending"]
  /\ request' = [request EXCEPT ![c] = r]
  /\ UNCHANGED <<registered, online, published, reply>>

(* The answer, fixed at the instant the request takes effect. *)
Answer(c, code, listing) ==
  /\ phase' = [phase EXCEPT ![c] = "done"]
  /\ reply' = [reply EXCEPT ![c] = [code |-> code, listing |-> listing]]
  /\ UNCHANGED request

Refuse(c, code) == Answer(c, code, {}) /\ UNCHANGED <<registered, online, published>>

(* The caller gets its answer, or the connection ends without one; a       *)
(* request that is abandoned while pending has no effect.                  *)
Return(c) ==
  /\ phase[c] # "idle"
  /\ phase' = [phase EXCEPT ![c] = "idle"]
  /\ request' = [request EXCEPT ![c] = NoRequest]
  /\ reply' = [reply EXCEPT ![c] = NoReply]
  /\ UNCHANGED <<registered, online, published>>

Pending(c, op) == phase[c] = "pending" /\ request[c].op = op

Caller(c) == request[c].username

IsOnline(n) == online[n] # Offline

Register(c) ==
  /\ Pending(c, "REGISTER")
  /\ \/ Caller(c) \in registered /\ Refuse(c, 1)
     \/ /\ Caller(c) \notin registered
        /\ Answer(c, 0, {})
        /\ registered' = registered \cup {Caller(c)}
        /\ UNCHANGED <<online, published>>
     \/ MayLose /\ Caller(c) \notin registered /\ Refuse(c, 0)

(* The files outlive the user. *)
FaultyUnregister(c) ==
  /\ Pending(c, "UNREGISTER")
  /\ \/ Caller(c) \notin registered /\ Refuse(c, 1)
     \/ /\ Caller(c) \in registered
        /\ Answer(c, 0, {})
        /\ registered' = registered \ {Caller(c)}
        /\ online' = [online EXCEPT ![Caller(c)] = Offline]
        /\ UNCHANGED published

(* Everything known of the user goes, connected or not. *)
Unregister(c) ==
  /\ Pending(c, "UNREGISTER")
  /\ \/ Caller(c) \notin registered /\ Refuse(c, 1)
     \/ /\ Caller(c) \in registered
        /\ Answer(c, 0, {})
        /\ registered' = registered \ {Caller(c)}
        /\ online' = [online EXCEPT ![Caller(c)] = Offline]
        /\ published' = [published EXCEPT ![Caller(c)] = NoFiles]

Connect(c) ==
  /\ Pending(c, "CONNECT")
  /\ \/ Caller(c) \notin registered /\ Refuse(c, 1)
     \/ IsOnline(Caller(c)) /\ Refuse(c, 2)
     \/ /\ Caller(c) \in registered /\ ~IsOnline(Caller(c))
        /\ Answer(c, 0, {})
        /\ online' = [online EXCEPT ![Caller(c)] = request[c].endpoint]
        /\ UNCHANGED <<registered, published>>

(* The files of a user who disconnects stay listed. *)
Disconnect(c) ==
  /\ Pending(c, "DISCONNECT")
  /\ \/ Caller(c) \notin registered /\ Refuse(c, 1)
     \/ Caller(c) \in registered /\ ~IsOnline(Caller(c)) /\ Refuse(c, 2)
     \/ /\ IsOnline(Caller(c))
        /\ Answer(c, 0, {})
        /\ online' = [online EXCEPT ![Caller(c)] = Offline]
        /\ UNCHANGED <<registered, published>>

(* The access control of the four content requests. *)
Denied(c) ==
  \/ Caller(c) = Anonymous /\ Refuse(c, 1)
  \/ Caller(c) \notin registered /\ Refuse(c, 1)
  \/ Caller(c) \in registered /\ ~IsOnline(Caller(c)) /\ Refuse(c, 2)

Admitted(c) == Caller(c) # Anonymous /\ IsOnline(Caller(c))

(* Code 4, no effect: a field could not be read, or no memory to add it. *)
Publish(c) ==
  /\ Pending(c, "PUBLISH")
  /\ LET copies == published[Caller(c)][request[c].filename]
     IN  \/ Denied(c)
         \/ /\ Admitted(c)
            /\ Answer(c, IF copies = 0 THEN 0 ELSE 3, {})
            /\ published' = [published EXCEPT
                               ![Caller(c)][request[c].filename] = copies + 1]
            /\ UNCHANGED <<registered, online>>
         \/ Refuse(c, 4)

Delete(c) ==
  /\ Pending(c, "DELETE")
  /\ LET copies == published[Caller(c)][request[c].filename]
     IN  \/ Denied(c)
         \/ Admitted(c) /\ copies = 0 /\ Refuse(c, 3)
         \/ /\ Admitted(c) /\ copies > 0
            /\ Answer(c, 0, {})
            /\ published' = [published EXCEPT
                               ![Caller(c)][request[c].filename] = copies - 1]
            /\ UNCHANGED <<registered, online>>

(* Who is online, and where: one consistent snapshot. *)
OnlineUsers == {<<n, online[n]>> : n \in {m \in registered : IsOnline(m)}}

ListUsers(c) ==
  /\ Pending(c, "LIST_USERS")
  /\ \/ Denied(c)
     \/ /\ Admitted(c)
        /\ Answer(c, 0, OnlineUsers)
        /\ UNCHANGED <<registered, online, published>>

(* The files of a user, with the number of copies of each. *)
Content(n) ==
  {<<f, published[n][f]>> : f \in {g \in Files : published[n][g] > 0}}

(* The other user need not be online. *)
ListContent(c) ==
  /\ Pending(c, "LIST_CONTENT")
  /\ \/ Denied(c)
     \/ Admitted(c) /\ request[c].remote \notin registered /\ Refuse(c, 3)
     \/ /\ Admitted(c) /\ request[c].remote \in registered
        /\ Answer(c, 0, Content(request[c].remote))
        /\ UNCHANGED <<registered, online, published>>

Perform(c) ==
  \/ Register(c) \/ Unregister(c) \/ Connect(c) \/ Disconnect(c)
  \/ Publish(c) \/ Delete(c) \/ ListUsers(c) \/ ListContent(c)

Next ==
  \E c \in Clients :
    (\E r \in Requests : Invoke(c, r)) \/ Perform(c) \/ Return(c)

DirectorySpec == Init /\ [][Next]_dirvars

=============================================================================
