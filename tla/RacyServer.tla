------------------------------ MODULE RacyServer ------------------------------
(***************************************************************************)
(* The server of part 1, whose REGISTER and UNREGISTER hold users_mutex    *)
(* for their first search only: add_user and remove_user then change the   *)
(* array, its size and num_users unlocked, while other threads run.        *)
(*                                                                         *)
(* add_user and remove_user are cut at the points where another thread     *)
(* makes a difference; num_users++ and num_users-- are a load and a store, *)
(* and a realloc that moves the array has freed the old one before users   *)
(* is assigned.  The steps of one thread take effect in the order of the   *)
(* program, as in the unoptimised build that README.md gives, on x86.  A   *)
(* slot keeps a name and the connected flag: the file arrays are not here. *)
(* A thread about to touch memory that is not in the array stops: what the *)
(* C program does next is undefined.                                       *)
(***************************************************************************)
EXTENDS Integers, FiniteSets

CONSTANTS
  Threads,    \* the connections handled at the same time
  Names,      \* the usernames
  Ops,        \* the operations the clients send
  MAX_USERS,  \* initial size of the array
  AllocFails, \* may calloc and realloc fail?
  Capacity,   \* bound on the users of an instance
  Garbage,    \* the username of a slot nobody has written
  Nobody      \* value of users_mutex when it is free

VARIABLES
  slots,        \* users[], as far as the memory reaches
  allocated,    \* the number of slots of the array
  dangling,     \* has the array that users points to been freed?
  num_users,
  max_users,
  users_mutex,
  pc,
  request,
  index,        \* the result of find_user
  loaded,       \* num_users as num_users++ or num_users-- has read it
  response

memory == <<allocated, dangling, max_users>>
locals == <<request, index, loaded, response>>
vars == <<slots, memory, num_users, users_mutex, pc, locals>>

NotFound == -1

AccountOps == {"REGISTER", "UNREGISTER"}

Requests == [op : Ops, username : Names]

NoRequest == [op |-> "NONE"]

Live == 0 .. num_users - 1

find_user(name) ==
  LET found == {i \in Live : slots[i].username = name}
  IN  IF found = {} THEN NotFound
      ELSE CHOOSE i \in found : \A j \in found : i <= j

Goto(t, label) == pc' = [pc EXCEPT ![t] = label]

At(t, label) == pc[t] = label

Registering == {t \in Threads : request[t].op = "REGISTER"}

(* The slots that the next step of a thread touches.  free_user_resources  *)
(* takes users[index].files whatever the index.                            *)
Touches(t) ==
  CASE pc[t] \in {"find", "search"}  -> Live
    [] pc[t] = "apply"               -> {index[t]} \ {NotFound}
    [] pc[t] = "free"                -> {index[t]}
    [] pc[t] = "move"                -> {i \in {index[t], num_users - 1} :
                                           index[t] < num_users - 1}
    [] pc[t] \in {"name", "fields"}  -> {num_users}
    [] OTHER                         -> {}

(* They are in the array, and the array has not been freed.                *)
Inside(t) ==
  /\ Touches(t) \subseteq 0 .. allocated - 1
  /\ Touches(t) # {} \/ pc[t] = "realloc" => ~dangling

----------------------------------------------------------------------------
Init ==
  /\ slots = [i \in 0 .. Capacity - 1 |-> [username |-> Garbage, connected |-> FALSE]]
  /\ allocated = MAX_USERS /\ max_users = MAX_USERS /\ dangling = FALSE
  /\ num_users = 0
  /\ users_mutex = Nobody
  /\ pc = [t \in Threads |-> "idle"]
  /\ request = [t \in Threads |-> NoRequest]
  /\ index = [t \in Threads |-> NotFound]
  /\ loaded = [t \in Threads |-> 0]
  /\ response = [t \in Threads |-> 0]

(* Capacity bounds the REGISTERs that are sent. *)
Accept(t, r) ==
  /\ At(t, "idle")
  /\ r.op = "REGISTER" => num_users + Cardinality(Registering) < Capacity
  /\ request' = [request EXCEPT ![t] = r]
  /\ Goto(t, "lock")
  /\ UNCHANGED <<slots, memory, num_users, users_mutex, index, loaded, response>>

Lock(t) ==
  /\ At(t, "lock") /\ users_mutex = Nobody
  /\ users_mutex' = t
  /\ Goto(t, "find")
  /\ UNCHANGED <<slots, memory, num_users, locals>>

(* The search; REGISTER and UNREGISTER have only this under the mutex. *)
Find(t) ==
  /\ At(t, "find")
  /\ index' = [index EXCEPT ![t] = find_user(request[t].username)]
  /\ Goto(t, IF request[t].op \in AccountOps THEN "unlock" ELSE "apply")
  /\ UNCHANGED <<slots, memory, num_users, users_mutex, request, loaded, response>>

Unlock(t) ==
  /\ At(t, "unlock")
  /\ users_mutex' = Nobody
  /\ Goto(t, IF request[t].op \in AccountOps THEN "decide" ELSE "reply")
  /\ UNCHANGED <<slots, memory, num_users, locals>>

Respond(t, code) == response' = [response EXCEPT ![t] = code]

(* CONNECT and DISCONNECT decide and write under the mutex. *)
SetConnected(t, op, flag) ==
  /\ At(t, "apply") /\ request[t].op = op
  /\ Goto(t, "unlock")
  /\ \/ index[t] = NotFound /\ Respond(t, 1) /\ UNCHANGED slots
     \/ /\ index[t] # NotFound
        /\ slots[index[t]].connected = flag
        /\ Respond(t, 2) /\ UNCHANGED slots
     \/ /\ index[t] # NotFound
        /\ slots[index[t]].connected # flag
        /\ Respond(t, 0)
        /\ slots' = [slots EXCEPT ![index[t]].connected = flag]
  /\ UNCHANGED <<memory, num_users, users_mutex, request, index, loaded>>

Connect(t) == SetConnected(t, "CONNECT", TRUE)

Disconnect(t) == SetConnected(t, "DISCONNECT", FALSE)

----------------------------------------------------------------------------
(* The part of REGISTER and UNREGISTER that runs without the mutex. *)

Decide(t) ==
  /\ At(t, "decide")
  /\ \/ /\ request[t].op = "REGISTER"
        /\ IF index[t] = NotFound THEN Goto(t, "grow") /\ UNCHANGED response
           ELSE Goto(t, "reply") /\ Respond(t, 1)
     \/ /\ request[t].op = "UNREGISTER"
        /\ IF index[t] # NotFound THEN Goto(t, "search") /\ UNCHANGED response
           ELSE Goto(t, "reply") /\ Respond(t, 1)
  /\ UNCHANGED <<slots, memory, num_users, users_mutex, request, index, loaded>>

(* add_user returns early, and REGISTER answers 0 all the same. *)
GiveUp(t) == AllocFails /\ Goto(t, "reply") /\ Respond(t, 0)

(* add_user: a full array is doubled ... *)
Grow(t) ==
  /\ At(t, "grow")
  /\ \/ num_users < max_users /\ Goto(t, "name") /\ UNCHANGED max_users
     \/ /\ num_users >= max_users /\ Goto(t, "realloc")
        /\ max_users' = 2 * max_users
  /\ UNCHANGED <<slots, allocated, dangling, num_users, users_mutex, locals>>

(* ... where it is, or elsewhere, and then the old one is freed before     *)
(* users is assigned; max_users is not restored when realloc fails.        *)
Realloc(t) ==
  /\ At(t, "realloc")
  /\ \/ /\ allocated' = max_users
        /\ \/ Goto(t, "name") /\ UNCHANGED dangling
           \/ Goto(t, "assign") /\ dangling' = TRUE
        /\ UNCHANGED response
     \/ GiveUp(t) /\ UNCHANGED <<allocated, dangling>>
  /\ UNCHANGED <<slots, max_users, num_users, users_mutex, request, index, loaded>>

Assign(t) ==
  /\ At(t, "assign") /\ Goto(t, "name")
  /\ dangling' = FALSE
  /\ UNCHANGED <<slots, allocated, max_users, num_users, users_mutex, locals>>

(* The name, then the other fields, with a calloc for the files, then      *)
(* num_users++; each statement reads num_users again.                      *)
WriteName(t) ==
  /\ At(t, "name")
  /\ slots' = [slots EXCEPT ![num_users].username = request[t].username]
  /\ Goto(t, "fields")
  /\ UNCHANGED <<memory, num_users, users_mutex, locals>>

WriteFields(t) ==
  /\ At(t, "fields")
  /\ slots' = [slots EXCEPT ![num_users].connected = FALSE]
  /\ \/ Goto(t, "load") /\ UNCHANGED response
     \/ GiveUp(t)
  /\ UNCHANGED <<memory, num_users, users_mutex, request, index, loaded>>

(* remove_user searches again, without the mutex ... *)
SearchAgain(t) ==
  /\ At(t, "search")
  /\ index' = [index EXCEPT ![t] = find_user(request[t].username)]
  /\ Goto(t, "free")
  /\ UNCHANGED <<slots, memory, num_users, users_mutex, request, loaded, response>>

(* ... frees the files of users[index] before it tests index != -1 ... *)
Free(t) ==
  /\ At(t, "free")
  /\ Goto(t, "move")
  /\ UNCHANGED <<slots, memory, num_users, users_mutex, locals>>

(* ... and moves the last user to the hole. *)
Move(t) ==
  /\ At(t, "move")
  /\ slots' = IF index[t] < num_users - 1
                THEN [slots EXCEPT ![index[t]] = slots[num_users - 1]] ELSE slots
  /\ Goto(t, "load")
  /\ UNCHANGED <<memory, num_users, users_mutex, locals>>

Load(t) ==
  /\ At(t, "load")
  /\ loaded' = [loaded EXCEPT ![t] = num_users]
  /\ Goto(t, "store")
  /\ UNCHANGED <<slots, memory, num_users, users_mutex, request, index, response>>

Store(t) ==
  /\ At(t, "store")
  /\ num_users' = IF request[t].op = "REGISTER" THEN loaded[t] + 1 ELSE loaded[t] - 1
  /\ Respond(t, 0)
  /\ Goto(t, "reply")
  /\ UNCHANGED <<slots, memory, users_mutex, request, index, loaded>>

----------------------------------------------------------------------------
Reply(t) ==
  /\ At(t, "reply")
  /\ Goto(t, "idle")
  /\ request' = [request EXCEPT ![t] = NoRequest]
  /\ index' = [index EXCEPT ![t] = NotFound]
  /\ loaded' = [loaded EXCEPT ![t] = 0]
  /\ Respond(t, 0)
  /\ UNCHANGED <<slots, memory, num_users, users_mutex>>

Handle(t) ==
  /\ Inside(t)
  /\ \/ Lock(t) \/ Find(t) \/ Connect(t) \/ Disconnect(t) \/ Unlock(t)
     \/ Decide(t) \/ Grow(t) \/ Realloc(t) \/ Assign(t)
     \/ WriteName(t) \/ WriteFields(t)
     \/ SearchAgain(t) \/ Free(t) \/ Move(t)
     \/ Load(t) \/ Store(t) \/ Reply(t)

Next == \E t \in Threads : Handle(t) \/ \E r \in Requests : Accept(t, r)

Spec == Init /\ [][Next]_vars

----------------------------------------------------------------------------
(* What the code would keep if, as README.md:220 says of it, the mutex     *)
(* protected the shared structures.                                        *)

(* No handler touches memory outside of the array, or in an array that     *)
(* another one has freed.                                                  *)
NoWildAccess == \A t \in Threads : Inside(t)

=============================================================================
