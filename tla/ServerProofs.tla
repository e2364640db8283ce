----------------------------- MODULE ServerProofs -----------------------------
(***************************************************************************)
(* Proofs about the main server, for any number of threads, names, files   *)
(* and endpoints, and any length of the table.                             *)
(*                                                                         *)
(* The argument: the critical sections exclude each other (MutexHeld), so  *)
(* what a handler has found stays true until it acts on it (IndexFresh),   *)
(* so each operation meets the precondition under which it keeps names     *)
(* unique (UniqueNames), which is what makes the search of the next one    *)
(* find the right slot.                                                    *)
(*                                                                         *)
(* The second half proves that the server implements the directory: first  *)
(* what each operation on the table does to the directory the table stands *)
(* for; then the invariant of the listing loops, which write one           *)
(* consistent snapshot; then one lemma per step of the server, which maps  *)
(* it to a step of the directory or to a stutter.                          *)
(***************************************************************************)
EXTENDS ServerProperties, SequenceTheorems, FiniteSetTheorems,
        WellFoundedInduction, TLAPS

(***************************************************************************)
(* What the operations on the user table return and preserve, for tables   *)
(* of any length.                                                          *)
(***************************************************************************)

(* No two slots hold the same name: what users_mutex keeps true. *)
Unique(table) ==
  \A i, j \in DOMAIN table : table[i].username = table[j].username => i = j

(* A table is indexed from 1 to its length, and each slot is a user. *)
LEMMA TableSlots ==
  ASSUME NEW table \in Table
  PROVE  /\ Len(table) \in Nat
         /\ DOMAIN table = 1 .. Len(table)
         /\ \A i \in DOMAIN table : table[i] \in User
BY LenProperties, ElementOfSeq DEF Table

(* find_user returns the slot that holds the name, NotFound if none does.  *)
LEMMA FindUser ==
  ASSUME NEW table \in Table, Unique(table), NEW name
  PROVE  \/ /\ find_user(table, name) = NotFound
            /\ \A i \in DOMAIN table : table[i].username # name
         \/ /\ find_user(table, name) \in DOMAIN table
            /\ table[find_user(table, name)].username = name
<1>1. CASE \A i \in DOMAIN table : table[i].username # name
  BY <1>1 DEF find_user
<1>2. CASE \E i \in DOMAIN table : table[i].username = name
  <2>1. PICK i \in DOMAIN table : table[i].username = name
    BY <1>2
  <2>2. \A j \in 1 .. i - 1 : table[j].username # name
    BY <2>1, TableSlots DEF Unique
  <2>3. find_user(table, name) =
          CHOOSE k \in DOMAIN table :
            /\ table[k].username = name
            /\ \A j \in 1 .. k - 1 : table[j].username # name
    BY <1>2 DEF find_user
  <2> QED
    BY <2>1, <2>2, <2>3
<1> QED
  BY <1>1, <1>2

(* What find_user returns is an index or NotFound. *)
LEMMA FindUserType ==
  ASSUME NEW table \in Table, Unique(table), NEW name
  PROVE  find_user(table, name) \in Nat
BY FindUser, TableSlots DEF NotFound

(* Deletion by moving the last element yields a sequence one shorter. *)
LEMMA MoveLast ==
  ASSUME NEW S, NEW s \in Seq(S), NEW i, Len(s) # 0
  PROVE  /\ MoveLastTo(s, i) \in Seq(S)
         /\ DOMAIN MoveLastTo(s, i) = 1 .. Len(s) - 1
         /\ Len(MoveLastTo(s, i)) = Len(s) - 1
<1> DEFINE n == Len(s) - 1
<1>1. n \in Nat /\ \A j \in 1 .. Len(s) : s[j] \in S
  BY LenProperties, ElementOfSeq
<1>2. MoveLastTo(s, i) \in [1 .. n -> S]
  BY <1>1 DEF MoveLastTo
<1>3. MoveLastTo(s, i) \in Seq(S)
  BY <1>1, <1>2, SeqDef
<1>4. DOMAIN MoveLastTo(s, i) = 1 .. n
  BY <1>2
<1> QED
  BY <1>1, <1>3, <1>4, LenProperties

(* add_user of a name that is not in the table keeps names unique. *)
LEMMA AddUser ==
  ASSUME NEW table \in Table, Unique(table),
         NEW name \in Names, NEW stale \in Endpoints,
         find_user(table, name) = NotFound
  PROVE  add_user(table, name, stale) \in Table /\ Unique(add_user(table, name, stale))
<1> DEFINE new == [username |-> name, connected |-> FALSE, endpoint |-> stale,
                   files |-> <<>>]
           t2 == add_user(table, name, stale)
<1>1. new \in User
  BY EmptySeq DEF User
<1>2. t2 = Append(table, new)
  BY DEF add_user
<1>3. t2 \in Table /\ Len(t2) = Len(table) + 1
  BY <1>1, <1>2, AppendProperties DEF Table
<1>4. \A i \in 1 .. Len(table) : t2[i] = table[i]
  BY <1>1, <1>2, AppendProperties DEF Table
<1>5. t2[Len(table) + 1] = new
  BY <1>1, <1>2, AppendProperties DEF Table
<1>6. \A i \in 1 .. Len(table) : table[i].username # name
  BY FindUser, TableSlots DEF NotFound
<1>7. Unique(t2)
  <2> SUFFICES ASSUME NEW i \in DOMAIN t2, NEW j \in DOMAIN t2,
                      t2[i].username = t2[j].username
               PROVE  i = j
    BY DEF Unique
  <2>1. i \in 1 .. Len(table) + 1 /\ j \in 1 .. Len(table) + 1
    BY <1>3, TableSlots
  <2>2. new.username = name
    OBVIOUS
  <2>3. CASE i \in 1 .. Len(table) /\ j \in 1 .. Len(table)
    BY <2>3, <1>4, TableSlots DEF Unique
  <2>4. CASE i = Len(table) + 1 /\ j \in 1 .. Len(table)
    BY <2>4, <2>2, <1>4, <1>5, <1>6
  <2>5. CASE j = Len(table) + 1 /\ i \in 1 .. Len(table)
    BY <2>5, <2>2, <1>4, <1>5, <1>6
  <2> QED
    BY <2>1, <2>3, <2>4, <2>5, TableSlots
<1> QED
  BY <1>3, <1>7

(* remove_user keeps names unique, although it moves a slot. *)
LEMMA RemoveUser ==
  ASSUME NEW table \in Table, Unique(table), NEW name
  PROVE  remove_user(table, name) \in Table /\ Unique(remove_user(table, name))
<1> DEFINE i == find_user(table, name)
<1>1. CASE i = NotFound
  BY <1>1 DEF remove_user
<1>2. CASE i # NotFound
  <2>1. i \in 1 .. Len(table) /\ Len(table) # 0 /\ Len(table) \in Nat
    BY <1>2, FindUser, TableSlots
  <2>2. remove_user(table, name) = MoveLastTo(table, i)
    BY <1>2 DEF remove_user
  <2>3. /\ MoveLastTo(table, i) \in Table
        /\ DOMAIN MoveLastTo(table, i) = 1 .. Len(table) - 1
    BY <2>1, MoveLast DEF Table
  <2>4. Unique(MoveLastTo(table, i))
    BY <2>1, <2>3, TableSlots DEF Unique, MoveLastTo
  <2> QED
    BY <2>2, <2>3, <2>4
<1> QED
  BY <1>1, <1>2

(* Replacing a slot by one of the same name keeps names unique. *)
LEMMA SameNames ==
  ASSUME NEW table \in Table, Unique(table), NEW i \in DOMAIN table,
         NEW u \in User, u.username = table[i].username
  PROVE  [table EXCEPT ![i] = u] \in Table /\ Unique([table EXCEPT ![i] = u])
<1>1. [table EXCEPT ![i] = u] \in Table
  BY ExceptSeq, TableSlots DEF Table
<1>2. Unique([table EXCEPT ![i] = u])
  BY DEF Unique
<1> QED
  BY <1>1, <1>2

(* The connected flag and the endpoint of a slot. *)
LEMMA ConnectUser ==
  ASSUME NEW table \in Table, Unique(table), NEW i \in DOMAIN table,
         NEW endpoint \in Endpoints
  PROVE  /\ connect_user(table, i, endpoint) \in Table
         /\ Unique(connect_user(table, i, endpoint))
         /\ disconnect_user(table, i) \in Table
         /\ Unique(disconnect_user(table, i))
<1> DEFINE u == [table[i] EXCEPT !.connected = TRUE, !.endpoint = endpoint]
           v == [table[i] EXCEPT !.connected = FALSE]
<1>1. table[i] \in User
  BY TableSlots
<1>2. /\ u \in User /\ u.username = table[i].username
      /\ v \in User /\ v.username = table[i].username
  BY <1>1 DEF User
<1>3. connect_user(table, i, endpoint) = [table EXCEPT ![i] = u]
  BY DEF connect_user
<1>4. disconnect_user(table, i) = [table EXCEPT ![i] = v]
  BY DEF disconnect_user
<1> HIDE DEF u, v
<1>5. connect_user(table, i, endpoint) \in Table /\ Unique(connect_user(table, i, endpoint))
  BY <1>2, <1>3, SameNames
<1>6. disconnect_user(table, i) \in Table /\ Unique(disconnect_user(table, i))
  BY <1>2, <1>4, SameNames
<1> QED
  BY <1>5, <1>6

(* The list of files of a slot. *)
LEMMA ChangeFiles ==
  ASSUME NEW table \in Table, Unique(table), NEW i \in DOMAIN table,
         NEW filename \in Files
  PROVE  /\ add_file(table, i, filename) \in Table
         /\ Unique(add_file(table, i, filename))
         /\ remove_file(table, i, filename) \in Table
         /\ Unique(remove_file(table, i, filename))
<1> DEFINE files == table[i].files
           k == file_index(table, i, filename)
<1>1. table[i] \in User /\ files \in Seq(Files)
  BY TableSlots DEF User
<1>2. add_file(table, i, filename) \in Table /\ Unique(add_file(table, i, filename))
  <2> DEFINE u == [table[i] EXCEPT !.files = Append(files, filename)]
  <2>1. Append(files, filename) \in Seq(Files)
    BY <1>1, AppendProperties
  <2>2. u \in User /\ u.username = table[i].username
    BY <1>1, <2>1 DEF User
  <2>3. add_file(table, i, filename) = [table EXCEPT ![i] = u]
    BY DEF add_file
  <2> QED
    BY <2>2, <2>3, SameNames
<1>3. /\ remove_file(table, i, filename) \in Table
      /\ Unique(remove_file(table, i, filename))
  <2>1. CASE k = NotFound
    BY <2>1 DEF remove_file
  <2>2. CASE k # NotFound
    <3> DEFINE u == [table[i] EXCEPT !.files = MoveLastTo(files, k)]
    <3>1. Len(files) # 0
      BY <2>2, <1>1, LenProperties DEF file_index
    <3>2. MoveLastTo(files, k) \in Seq(Files)
      BY <1>1, <3>1, MoveLast
    <3>3. u \in User /\ u.username = table[i].username
      BY <1>1, <3>2 DEF User
    <3>4. remove_file(table, i, filename) = [table EXCEPT ![i] = u]
      BY <2>2 DEF remove_file
    <3> QED
      BY <3>3, <3>4, SameNames
  <2> QED
    BY <2>1, <2>2
<1> QED
  BY <1>2, <1>3

----------------------------------------------------------------------------
(* What the operations leave alone: the records of the other names. *)

Records(table, name) ==
  {table[i] : i \in {j \in DOMAIN table : table[j].username = name}}

(* A new user is a record of its own name only. *)
LEMMA AddUserOthers ==
  ASSUME NEW table \in Table, NEW owner \in Names, NEW stale \in Endpoints,
         NEW name, name # owner
  PROVE  Records(add_user(table, owner, stale), name) = Records(table, name)
<1> DEFINE new == [username |-> owner, connected |-> FALSE, endpoint |-> stale,
                   files |-> <<>>]
           t2 == add_user(table, owner, stale)
<1>1. new \in User /\ new.username = owner
  BY EmptySeq DEF User
<1>2. t2 = Append(table, new)
  BY DEF add_user
<1>3. t2 \in Table /\ Len(t2) = Len(table) + 1
  BY <1>1, <1>2, AppendProperties DEF Table
<1>4. /\ \A i \in 1 .. Len(table) : t2[i] = table[i]
      /\ t2[Len(table) + 1] = new
  BY <1>1, <1>2, AppendProperties DEF Table
<1>5. DOMAIN t2 = 1 .. Len(table) + 1 /\ DOMAIN table = 1 .. Len(table)
  BY <1>3, TableSlots
<1> HIDE DEF t2, new
<1>6. {j \in DOMAIN t2 : t2[j].username = name}
        = {j \in DOMAIN table : table[j].username = name}
  BY <1>1, <1>4, <1>5, TableSlots
<1>7. \A j \in DOMAIN table : t2[j] = table[j]
  BY <1>4, <1>5
<1>8. Records(t2, name) = Records(table, name)
  BY <1>6, <1>7 DEF Records
<1> QED
  BY <1>8 DEF t2

(* Replacing the record of a name by another of that name. *)
LEMMA ReplaceOthers ==
  ASSUME NEW table \in Table, NEW i \in DOMAIN table,
         NEW u, u.username = table[i].username,
         NEW name, name # table[i].username
  PROVE  Records([table EXCEPT ![i] = u], name) = Records(table, name)
BY DEF Records

(* The last user, who is moved, keeps its record; only the removed one's   *)
(* is gone.                                                                *)
LEMMA RemoveUserOthers ==
  ASSUME NEW table \in Table, Unique(table), NEW owner, NEW name, name # owner
  PROVE  Records(remove_user(table, owner), name) = Records(table, name)
<1> DEFINE i == find_user(table, owner)
           t2 == MoveLastTo(table, i)
           n == Len(table)
<1>1. CASE i = NotFound
  BY <1>1 DEF remove_user
<1>2. CASE i # NotFound
  <2>1. i \in 1 .. n /\ n # 0 /\ n \in Nat /\ table[i].username = owner
    BY <1>2, FindUser, TableSlots
  <2>2. /\ remove_user(table, owner) = t2
        /\ t2 = [j \in 1 .. n - 1 |-> IF j = i THEN table[n] ELSE table[j]]
    BY <1>2 DEF remove_user, MoveLastTo
  <2>3. DOMAIN table = 1 .. n
    BY TableSlots
  <2> HIDE DEF t2, i, n
  <2>4. ASSUME NEW r \in Records(t2, name) PROVE r \in Records(table, name)
    <3>1. PICK j \in 1 .. n - 1 : t2[j].username = name /\ r = t2[j]
      BY <2>2, <2>4 DEF Records
    <3>2. \E k \in 1 .. n : t2[j] = table[k]
      BY <2>1, <2>2, <3>1
    <3> QED
      BY <2>3, <3>1, <3>2 DEF Records
  <2>5. ASSUME NEW r \in Records(table, name) PROVE r \in Records(t2, name)
    <3>1. PICK j \in 1 .. n : table[j].username = name /\ r = table[j]
      BY <2>3, <2>5 DEF Records
    <3>2. j # i
      BY <2>1, <3>1
    <3>3. \E k \in 1 .. n - 1 : t2[k] = table[j]
      <4>1. CASE j = n
        <5>1. i \in 1 .. n - 1 /\ t2[i] = table[j]
          BY <2>1, <2>2, <3>2, <4>1
        <5> QED
          BY <5>1
      <4>2. CASE j # n
        <5>1. j \in 1 .. n - 1 /\ t2[j] = table[j]
          BY <2>1, <2>2, <3>2, <4>2
        <5> QED
          BY <5>1
      <4> QED
        BY <4>1, <4>2
    <3> QED
      BY <2>2, <3>1, <3>3 DEF Records
  <2> QED
    BY <2>2, <2>4, <2>5
<1> QED
  BY <1>1, <1>2

(* The four operations on one slot. *)
LEMMA ChangeOthers ==
  ASSUME NEW table \in Table, NEW i \in DOMAIN table, NEW endpoint, NEW filename,
         NEW name, name # table[i].username
  PROVE  /\ Records(connect_user(table, i, endpoint), name) = Records(table, name)
         /\ Records(disconnect_user(table, i), name) = Records(table, name)
         /\ Records(add_file(table, i, filename), name) = Records(table, name)
         /\ Records(remove_file(table, i, filename), name) = Records(table, name)
<1> DEFINE k == file_index(table, i, filename)
           c == [table[i] EXCEPT !.connected = TRUE, !.endpoint = endpoint]
           d == [table[i] EXCEPT !.connected = FALSE]
           a == [table[i] EXCEPT !.files = Append(table[i].files, filename)]
           r == [table[i] EXCEPT !.files = MoveLastTo(table[i].files, k)]
<1>1. table[i] \in User
  BY TableSlots
<1>2. /\ c.username = table[i].username /\ d.username = table[i].username
      /\ a.username = table[i].username /\ r.username = table[i].username
  BY <1>1 DEF User
<1>3. /\ connect_user(table, i, endpoint) = [table EXCEPT ![i] = c]
      /\ disconnect_user(table, i) = [table EXCEPT ![i] = d]
      /\ add_file(table, i, filename) = [table EXCEPT ![i] = a]
      /\ remove_file(table, i, filename) \in {table, [table EXCEPT ![i] = r]}
  BY DEF connect_user, disconnect_user, add_file, remove_file
<1> HIDE DEF k, c, d, a, r
<1>4. ASSUME NEW u \in {c, d, a, r}
      PROVE  Records([table EXCEPT ![i] = u], name) = Records(table, name)
  <2>1. u.username = table[i].username
    BY <1>2
  <2> QED
    BY <2>1, ReplaceOthers
<1> QED
  BY <1>3, <1>4

----------------------------------------------------------------------------
(* The server. *)

(* At most one thread is in its critical section: the one users_mutex names. *)
MutexHeld == \A t \in Threads : InSection(t) => users_mutex = t

(* A thread that is not idle has read a request. *)
Active == \A t \in Threads : pc[t] # "idle" => request[t] \in Requests

(* Only the two listings reach their loops, LIST_CONTENT with a slot. *)
ListingLoop ==
  \A t \in Threads : pc[t] = "list" =>
    /\ request[t].op \in {"LIST_USERS", "LIST_CONTENT"}
    /\ request[t].op = "LIST_CONTENT" => remote_index[t] # NotFound

(* The inductive invariant. *)
IInv ==
  /\ TypeOK
  /\ MutexHeld
  /\ Active
  /\ UniqueNames
  /\ IndexFresh
  /\ ListingLoop

----------------------------------------------------------------------------
LEMMA Initially == Init => IInv
<1> SUFFICES ASSUME Init PROVE IInv
  OBVIOUS
<1>1. TypeOK
  BY ServerAssumption, EmptySeq
  DEF Init, TypeOK, Table, Labels, NotFound
<1>2. MutexHeld /\ Active /\ IndexFresh /\ ListingLoop
  BY DEF Init, MutexHeld, Active, IndexFresh, ListingLoop, InSection
<1>3. UniqueNames
  BY DEF Init, UniqueNames
<1> QED
  BY <1>1, <1>2, <1>3 DEF IInv

(* What every step of t leaves alone. *)
Others(t) ==
  \A s \in Threads \ {t} :
    /\ pc'[s] = pc[s] /\ request'[s] = request[s]
    /\ user_index'[s] = user_index[s] /\ remote_index'[s] = remote_index[s]

(* A step that goes from a label outside the critical section to another   *)
(* and leaves the table alone.                                             *)
LEMMA StepOutside ==
  ASSUME IInv, NEW t \in Threads, TypeOK', Others(t),
         UNCHANGED <<users, users_mutex>>,
         ~InSection(t)',
         pc'[t] # "idle" => request'[t] \in Requests
  PROVE  IInv'
<1>1. MutexHeld'
  BY DEF IInv, MutexHeld, Others, InSection
<1>2. Active'
  BY DEF IInv, Active, Others
<1>3. UniqueNames'
  BY DEF IInv, UniqueNames
<1>4. IndexFresh'
  BY DEF IInv, IndexFresh, Others, InSection
<1>5. ListingLoop'
  BY DEF IInv, ListingLoop, Others, InSection
<1> QED
  BY <1>1, <1>2, <1>3, <1>4, <1>5 DEF IInv

(* A step that ends the execution of a request with a well-formed table. *)
LEMMA StepApply ==
  ASSUME IInv, NEW t \in Threads, TypeOK', Others(t),
         pc[t] = "apply", pc'[t] = "unlock", Unique(users'),
         UNCHANGED <<users_mutex, request>>
  PROVE  IInv'
<1>1. \A s \in Threads \ {t} : pc'[s] \notin {"apply", "list"}
  BY DEF IInv, MutexHeld, InSection, Others
<1>2. MutexHeld'
  BY DEF IInv, MutexHeld, Others, InSection
<1>3. Active'
  BY DEF IInv, Active, Others
<1>4. UniqueNames'
  BY DEF UniqueNames, Unique
<1>5. IndexFresh'
  BY <1>1 DEF IndexFresh
<1>6. ListingLoop'
  BY <1>1 DEF ListingLoop
<1> QED
  BY <1>2, <1>3, <1>4, <1>5, <1>6 DEF IInv

----------------------------------------------------------------------------
(* The steps outside the critical section. *)

LEMMA AcceptStep ==
  ASSUME IInv, NEW t \in Threads, NEW r \in Requests, Accept(t, r)
  PROVE  IInv'
<1>1. TypeOK'
  BY DEF IInv, TypeOK, Accept, Goto, Labels, Table
<1>2. Others(t) /\ ~InSection(t)' /\ request'[t] \in Requests
  BY DEF IInv, TypeOK, Accept, Goto, Others, InSection
<1> QED
  BY <1>1, <1>2, StepOutside DEF Accept

LEMMA CloseStep ==
  ASSUME IInv, NEW t \in Threads, Close(t)
  PROVE  IInv'
<1>1. TypeOK'
  BY EmptySeq DEF IInv, TypeOK, Close, Goto, Labels, Table, NotFound
<1>2. Others(t) /\ ~InSection(t)' /\ pc'[t] = "idle"
  BY DEF IInv, TypeOK, Close, Goto, Others, InSection
<1> QED
  BY <1>1, <1>2, StepOutside DEF Close

LEMMA ReceiveStep ==
  ASSUME IInv, NEW t \in Threads, Receive(t)
  PROVE  IInv'
<1>1. TypeOK'
  BY DEF IInv, TypeOK, Receive, Goto, Labels, Table, locals
<1>2. Others(t) /\ ~InSection(t)' /\ request'[t] \in Requests
  BY DEF IInv, TypeOK, Active, Receive, At, Goto, Others, InSection, locals
<1> QED
  BY <1>1, <1>2, StepOutside DEF Receive

LEMMA AnswerOutsideStep ==
  ASSUME IInv, NEW t \in Threads,
         PublishReadError(t) \/ RejectAnonymous(t) \/ send_log(t)
  PROVE  IInv'
<1>1. TypeOK'
  <2>1. CASE PublishReadError(t)
    BY <2>1 DEF IInv, TypeOK, PublishReadError, Goto, Labels, Table
  <2>2. CASE RejectAnonymous(t)
    BY <2>2 DEF IInv, TypeOK, RejectAnonymous, Goto, Labels, Table
  <2>3. CASE send_log(t)
    BY <2>3 DEF IInv, TypeOK, send_log, Goto, Labels, Table
  <2> QED
    BY <2>1, <2>2, <2>3
<1>2. /\ pc[t] # "idle"
      /\ \E label \in {"reply", "logged"} : pc' = [pc EXCEPT ![t] = label]
      /\ UNCHANGED <<users, users_mutex, request, user_index, remote_index>>
  BY DEF PublishReadError, RejectAnonymous, send_log, At, Goto
<1>3. Others(t) /\ ~InSection(t)'
  BY <1>2 DEF IInv, TypeOK, Others, InSection
<1>4. request'[t] \in Requests
  BY <1>2 DEF IInv, Active
<1> QED
  BY <1>1, <1>2, <1>3, <1>4, StepOutside

(* Taking the mutex: it was free, so no thread is in its section. *)
LEMMA LockStep ==
  ASSUME IInv, NEW t \in Threads, Lock(t)
  PROVE  IInv'
<1>1. TypeOK'
  BY DEF IInv, TypeOK, Lock, Goto, Labels, Table, locals
<1>2. Others(t) /\ pc'[t] = "find" /\ pc[t] = "logged"
  BY DEF IInv, TypeOK, Lock, At, Goto, Others, locals
<1>3. MutexHeld'
  BY <1>2, ServerAssumption DEF IInv, MutexHeld, Lock, Others, InSection
<1>4. Active'
  BY <1>2 DEF IInv, Active, Lock, Others, locals
<1>5. UniqueNames' /\ IndexFresh' /\ ListingLoop'
  BY <1>2 DEF IInv, UniqueNames, IndexFresh, ListingLoop, Lock, Others, locals
<1> QED
  BY <1>1, <1>3, <1>4, <1>5 DEF IInv

(* Freeing it: the thread that does is the one that holds it. *)
LEMMA UnlockStep ==
  ASSUME IInv, NEW t \in Threads, Unlock(t)
  PROVE  IInv'
<1>1. TypeOK'
  BY DEF IInv, TypeOK, Unlock, Goto, Labels, Table, locals
<1>2. Others(t) /\ pc'[t] = "reply" /\ pc[t] = "unlock"
  BY DEF IInv, TypeOK, Unlock, At, Goto, Others, locals
<1>3. \A s \in Threads \ {t} : ~InSection(s)
  BY <1>2 DEF IInv, MutexHeld, InSection
<1>4. MutexHeld'
  BY <1>2, <1>3 DEF MutexHeld, Others, InSection
<1>5. Active'
  BY <1>2 DEF IInv, Active, Unlock, Others, locals
<1>6. UniqueNames' /\ IndexFresh' /\ ListingLoop'
  BY <1>2 DEF IInv, UniqueNames, IndexFresh, ListingLoop, Unlock, Others, locals
<1> QED
  BY <1>1, <1>4, <1>5, <1>6 DEF IInv

(* The search, whose results are fresh when it makes them. *)
LEMMA FindStep ==
  ASSUME IInv, NEW t \in Threads, Find(t)
  PROVE  IInv'
<1>1. users \in Table /\ Unique(users)
  BY DEF IInv, TypeOK, UniqueNames, Unique
<1>2. /\ find_user(users, request[t].username) \in Nat
      /\ find_user(users, request[t].remote) \in Nat
  BY <1>1, FindUserType
<1>3. TypeOK'
  BY <1>2 DEF IInv, TypeOK, Find, Goto, Labels, Table, NotFound
<1>4. Others(t) /\ pc'[t] = "apply" /\ pc[t] = "find"
  BY DEF IInv, TypeOK, Find, At, Goto, Others
<1>5. MutexHeld'
  BY <1>4 DEF IInv, MutexHeld, Find, Others, InSection
<1>6. Active'
  BY <1>4 DEF IInv, Active, Find, Others
<1>7. UniqueNames' /\ ListingLoop'
  BY <1>4 DEF IInv, UniqueNames, ListingLoop, Find, Others
<1>8. /\ user_index'[t] = find_user(users, request[t].username)
      /\ request[t].op = "LIST_CONTENT" =>
           remote_index'[t] = find_user(users, request[t].remote)
  BY DEF IInv, TypeOK, Find
<1>9. IndexFresh'
  BY <1>4, <1>8 DEF IInv, IndexFresh, Find, Others
<1> QED
  BY <1>3, <1>5, <1>6, <1>7, <1>9 DEF IInv

----------------------------------------------------------------------------
(* The execution of a request, under the mutex. *)

(* The index a handler has found is a slot of the table. *)
LEMMA SlotFound ==
  ASSUME IInv, NEW t \in Threads, pc[t] \in {"apply", "list"}
  PROVE  /\ users \in Table /\ Unique(users)
         /\ request[t] \in Requests
         /\ Known(t) => user_index[t] \in DOMAIN users
         /\ ~Known(t) => find_user(users, request[t].username) = NotFound
         /\ request[t].op = "LIST_CONTENT" /\ remote_index[t] # NotFound =>
              remote_index[t] \in DOMAIN users
<1>1. users \in Table /\ Unique(users) /\ request[t] \in Requests
  BY DEF IInv, TypeOK, Active, UniqueNames, Unique
<1>2. /\ user_index[t] = find_user(users, request[t].username)
      /\ request[t].op = "LIST_CONTENT" =>
           remote_index[t] = find_user(users, request[t].remote)
  BY DEF IInv, IndexFresh
<1> QED
  BY <1>1, <1>2, FindUser DEF Known

(* What the fields of a request hold. *)
LEMMA RequestFields ==
  ASSUME NEW r \in Requests
  PROVE  /\ r.username \in Names
         /\ r.op = "CONNECT" => r.endpoint \in Endpoints
         /\ r.op \in {"PUBLISH", "DELETE"} => r.filename \in Files
         /\ r.op = "LIST_CONTENT" => r.remote \in Names
BY DEF Requests

(* A handler that answers and leaves a table with unique names. *)
LEMMA AnswerStep ==
  ASSUME IInv, NEW t \in Threads, pc[t] = "apply",
         NEW code \in 0 .. 4, Answer(t, code),
         users' \in Table, Unique(users')
  PROVE  IInv'
<1>1. TypeOK'
  BY DEF IInv, TypeOK, Answer, Goto, Labels
<1>2. Others(t) /\ pc'[t] = "unlock"
  BY DEF IInv, TypeOK, Answer, Goto, Others
<1> QED
  BY <1>1, <1>2, StepApply DEF Answer

LEMMA RefuseStep ==
  ASSUME IInv, NEW t \in Threads, pc[t] = "apply",
         NEW code \in 0 .. 4, Refuse(t, code)
  PROVE  IInv'
BY SlotFound, AnswerStep DEF Refuse

LEMMA RegisterStep ==
  ASSUME IInv, NEW t \in Threads, Register(t)
  PROVE  IInv'
<1>1. pc[t] = "apply"
  BY DEF Register, Executes, At
<1>2. CASE Known(t) /\ Refuse(t, 1)
  BY <1>1, <1>2, RefuseStep
<1>3. CASE ~Known(t) /\ Answer(t, 0)
           /\ \E stale \in Endpoints : users' = add_user(users, request[t].username, stale)
  <2>1. users' \in Table /\ Unique(users')
    BY <1>1, <1>3, SlotFound, RequestFields, AddUser
  <2> QED
    BY <1>1, <1>3, <2>1, AnswerStep
<1>4. CASE Answer(t, 0) /\ UNCHANGED users
  BY <1>1, <1>4, SlotFound, AnswerStep
<1> QED
  BY <1>2, <1>3, <1>4 DEF Register

LEMMA UnregisterStep ==
  ASSUME IInv, NEW t \in Threads, Unregister(t)
  PROVE  IInv'
<1>1. pc[t] = "apply"
  BY DEF Unregister, Executes, At
<1>2. CASE Refuse(t, 1)
  BY <1>1, <1>2, RefuseStep
<1>3. CASE Answer(t, 0) /\ users' = remove_user(users, request[t].username)
  BY <1>1, <1>3, SlotFound, RemoveUser, AnswerStep
<1> QED
  BY <1>2, <1>3 DEF Unregister

LEMMA ConnectStep ==
  ASSUME IInv, NEW t \in Threads, Connect(t)
  PROVE  IInv'
<1>1. pc[t] = "apply" /\ request[t].op = "CONNECT"
  BY DEF Connect, Executes, At
<1>2. CASE Refuse(t, 1) \/ Refuse(t, 2)
  BY <1>1, <1>2, RefuseStep
<1>3. CASE /\ Known(t) /\ Answer(t, 0)
           /\ users' = connect_user(users, user_index[t], request[t].endpoint)
  <2>1. users' \in Table /\ Unique(users')
    BY <1>1, <1>3, SlotFound, RequestFields, ConnectUser
  <2> QED
    BY <1>1, <1>3, <2>1, AnswerStep
<1> QED
  BY <1>2, <1>3 DEF Connect

LEMMA DisconnectStep ==
  ASSUME IInv, NEW t \in Threads, Disconnect(t)
  PROVE  IInv'
<1>1. pc[t] = "apply"
  BY DEF Disconnect, Executes, At
<1>2. CASE Refuse(t, 1) \/ Refuse(t, 2)
  BY <1>1, <1>2, RefuseStep
<1>3. CASE /\ Known(t) /\ Answer(t, 0)
           /\ users' = disconnect_user(users, user_index[t])
  <2>1. users' \in Table /\ Unique(users')
    BY <1>1, <1>3, SlotFound, ServerAssumption, ConnectUser
  <2> QED
    BY <1>1, <1>3, <2>1, AnswerStep
<1> QED
  BY <1>2, <1>3 DEF Disconnect, Online

LEMMA PublishStep ==
  ASSUME IInv, NEW t \in Threads, Publish(t)
  PROVE  IInv'
<1>1. pc[t] = "apply" /\ request[t].op = "PUBLISH"
  BY DEF Publish, Executes, At
<1>2. CASE Refuse(t, 1) \/ Refuse(t, 2) \/ Refuse(t, 4)
  BY <1>1, <1>2, RefuseStep
<1>3. CASE /\ Known(t) /\ (Answer(t, 0) \/ Answer(t, 3))
           /\ users' = add_file(users, user_index[t], request[t].filename)
  <2>1. users' \in Table /\ Unique(users')
    BY <1>1, <1>3, SlotFound, RequestFields, ChangeFiles
  <2> QED
    BY <1>1, <1>3, <2>1, AnswerStep
<1> QED
  BY <1>2, <1>3 DEF Publish, Online

LEMMA DeleteStep ==
  ASSUME IInv, NEW t \in Threads, Delete(t)
  PROVE  IInv'
<1>1. pc[t] = "apply" /\ request[t].op = "DELETE"
  BY DEF Delete, Executes, At
<1>2. CASE Refuse(t, 1) \/ Refuse(t, 2)
  BY <1>1, <1>2, RefuseStep
<1>3. CASE /\ Known(t) /\ (Answer(t, 0) \/ Answer(t, 3))
           /\ users' = remove_file(users, user_index[t], request[t].filename)
  <2>1. users' \in Table /\ Unique(users')
    BY <1>1, <1>3, SlotFound, RequestFields, ChangeFiles
  <2> QED
    BY <1>1, <1>3, <2>1, AnswerStep
<1> QED
  BY <1>2, <1>3 DEF Delete, Online

----------------------------------------------------------------------------
(* The listings. *)

LEMMA SlotsFinite ==
  ASSUME users \in Table
  PROVE  IsFiniteSet(ConnectedSlots) /\ Cardinality(ConnectedSlots) \in Nat
<1>1. IsFiniteSet(1 .. Len(users))
  BY TableSlots, FS_Interval
<1>2. ConnectedSlots \in SUBSET (1 .. Len(users))
  BY TableSlots DEF ConnectedSlots
<1> QED
  BY <1>1, <1>2, FS_Subset, FS_CardinalityType

(* A listing that is announced enters its loop with what Find returned. *)
LEMMA AnnounceStep ==
  ASSUME IInv, NEW t \in Threads, pc[t] = "apply",
         request[t].op \in {"LIST_USERS", "LIST_CONTENT"},
         request[t].op = "LIST_CONTENT" => remote_index[t] # NotFound,
         NEW n \in Nat, Announce(t, n)
  PROVE  IInv'
<1>1. TypeOK'
  BY DEF IInv, TypeOK, Announce, Goto, Labels, Table
<1>2. Others(t) /\ pc'[t] = "list"
  BY DEF IInv, TypeOK, Announce, Goto, Others
<1>3. MutexHeld'
  BY <1>2 DEF IInv, MutexHeld, Announce, Others, InSection
<1>4. Active' /\ UniqueNames' /\ ListingLoop'
  BY <1>2 DEF IInv, Active, UniqueNames, ListingLoop, Announce, Others
<1>5. IndexFresh'
  BY <1>2 DEF IInv, IndexFresh, Announce, Others
<1> QED
  BY <1>1, <1>3, <1>4, <1>5 DEF IInv

LEMMA ListUsersStep ==
  ASSUME IInv, NEW t \in Threads, ListUsers(t)
  PROVE  IInv'
<1>1. pc[t] = "apply" /\ request[t].op = "LIST_USERS"
  BY DEF ListUsers, Executes, At
<1>2. CASE Refuse(t, 1) \/ Refuse(t, 2)
  BY <1>1, <1>2, RefuseStep
<1>3. CASE Announce(t, Cardinality(ConnectedSlots))
  BY <1>1, <1>3, SlotFound, SlotsFinite, AnnounceStep
<1> QED
  BY <1>2, <1>3 DEF ListUsers

LEMMA ListContentStep ==
  ASSUME IInv, NEW t \in Threads, ListContent(t)
  PROVE  IInv'
<1>1. pc[t] = "apply" /\ request[t].op = "LIST_CONTENT"
  BY DEF ListContent, Executes, At
<1>2. CASE Refuse(t, 1) \/ Refuse(t, 2) \/ Refuse(t, 3)
  BY <1>1, <1>2, RefuseStep
<1>3. CASE /\ remote_index[t] # NotFound
           /\ Announce(t, Len(users[remote_index[t]].files))
  <2>1. users[remote_index[t]].files \in Seq(Files)
    BY <1>1, <1>3, SlotFound, TableSlots DEF User
  <2> QED
    BY <1>1, <1>3, <2>1, LenProperties, AnnounceStep
<1> QED
  BY <1>2, <1>3 DEF ListContent

(* One more iteration, which writes entries of the right type. *)
LEMMA IterateStep ==
  ASSUME IInv, NEW t \in Threads, pc[t] = "list",
         NEW n \in Nat, NEW writes \in Seq(Files \cup (Names \X Endpoints)),
         Iterate(t, n, writes)
  PROVE  IInv'
<1>1. sent[t] \o writes \in Seq(Files \cup (Names \X Endpoints))
  BY ConcatProperties DEF IInv, TypeOK
<1>2. TypeOK'
  BY <1>1 DEF IInv, TypeOK, Iterate, Table
<1>3. Others(t) /\ UNCHANGED <<users, users_mutex, pc, request, user_index, remote_index>>
  BY DEF Iterate, Others
<1>4. MutexHeld' /\ Active' /\ UniqueNames' /\ ListingLoop'
  BY <1>3 DEF IInv, MutexHeld, Active, UniqueNames, ListingLoop, InSection
<1>5. IndexFresh'
  BY <1>3 DEF IInv, IndexFresh
<1> QED
  BY <1>2, <1>4, <1>5 DEF IInv

LEMMA ListNextUserStep ==
  ASSUME IInv, NEW t \in Threads, ListNextUser(t)
  PROVE  IInv'
<1> DEFINE k == cursor[t]
           writes == IF users[k].connected THEN <<Entry(k)>> ELSE <<>>
<1>1. pc[t] = "list" /\ Iterate(t, Len(users), writes)
  BY DEF ListNextUser, At
<1>2. users \in Table /\ k \in Nat \ {0} /\ k <= Len(users)
  BY <1>1, SlotFound DEF IInv, TypeOK, Iterate
<1>3. users[k] \in User
  BY <1>2, TableSlots
<1>4. Entry(k) \in Names \X Endpoints
  BY <1>3 DEF Entry, User
<1>5. writes \in Seq(Files \cup (Names \X Endpoints))
  <2> DEFINE S == Files \cup (Names \X Endpoints)
             e == Entry(k)
  <2>1. e \in S
    BY <1>4
  <2> HIDE DEF S, e
  <2>2. <<e>> \in Seq(S) /\ <<>> \in Seq(S)
    BY <2>1
  <2> QED
    BY <2>2 DEF S, e
<1>6. Len(users) \in Nat
  BY <1>2, TableSlots
<1> QED
  BY <1>1, <1>5, <1>6, IterateStep

LEMMA ListNextFileStep ==
  ASSUME IInv, NEW t \in Threads, ListNextFile(t)
  PROVE  IInv'
<1> DEFINE k == cursor[t]
           files == users[remote_index[t]].files
<1>1. pc[t] = "list" /\ request[t].op = "LIST_CONTENT" /\ Iterate(t, Len(files), <<files[k]>>)
  BY DEF ListNextFile, At
<1>2. remote_index[t] # NotFound
  BY <1>1 DEF IInv, ListingLoop
<1>3. files \in Seq(Files)
  BY <1>1, <1>2, SlotFound, TableSlots DEF User
<1>4. Len(files) \in Nat /\ k \in 1 .. Len(files)
  BY <1>1, <1>3, LenProperties DEF IInv, TypeOK, Iterate
<1>5. files[k] \in Files
  BY <1>3, <1>4, ElementOfSeq
<1>6. <<files[k]>> \in Seq(Files \cup (Names \X Endpoints))
  BY <1>5
<1> HIDE DEF files
<1> QED
  BY <1>1, <1>4, <1>6, IterateStep

LEMMA ListEndStep ==
  ASSUME IInv, NEW t \in Threads, ListEnd(t)
  PROVE  IInv'
<1>1. TypeOK'
  BY DEF IInv, TypeOK, ListEnd, Goto, Labels, Table, locals
<1>2. Others(t) /\ pc[t] = "list" /\ pc'[t] = "unlock"
  BY DEF IInv, TypeOK, ListEnd, At, Goto, Others, locals
<1>3. MutexHeld'
  BY <1>2 DEF IInv, MutexHeld, ListEnd, Others, InSection
<1>4. Active' /\ UniqueNames' /\ ListingLoop'
  BY <1>2 DEF IInv, Active, UniqueNames, ListingLoop, ListEnd, Others, locals
<1>5. IndexFresh'
  BY <1>2 DEF IInv, IndexFresh, ListEnd, Others, locals
<1> QED
  BY <1>1, <1>3, <1>4, <1>5 DEF IInv

----------------------------------------------------------------------------
LEMMA Inductive == IInv /\ [Next]_vars => IInv'
<1> SUFFICES ASSUME IInv, [Next]_vars PROVE IInv'
  OBVIOUS
<1>1. ASSUME NEW t \in Threads, Client(t) PROVE IInv'
  BY <1>1, AcceptStep, ReceiveStep, CloseStep, AnswerOutsideStep
  DEF Client, ReadError, PeerLost
<1>2. ASSUME NEW t \in Threads, Execute(t) PROVE IInv'
  BY <1>2, RegisterStep, UnregisterStep, ConnectStep, DisconnectStep,
     PublishStep, DeleteStep, ListUsersStep, ListContentStep
  DEF Execute
<1>3. ASSUME NEW t \in Threads, Handle(t) PROVE IInv'
  BY <1>2, <1>3, AnswerOutsideStep, LockStep, FindStep, ListNextUserStep,
     ListNextFileStep, ListEndStep, UnlockStep, CloseStep
  DEF Handle, Work, WriteEntry, Reply
<1>4. CASE UNCHANGED vars
  <2>1. TypeOK' /\ MutexHeld' /\ Active' /\ UniqueNames' /\ ListingLoop'
    BY <1>4 DEF IInv, TypeOK, MutexHeld, Active, UniqueNames, ListingLoop, InSection,
                Table, vars, locals
  <2>2. IndexFresh'
    BY <1>4 DEF IInv, IndexFresh, vars, locals
  <2> QED
    BY <2>1, <2>2 DEF IInv
<1> QED
  BY <1>1, <1>3, <1>4 DEF Next

THEOREM InductiveInvariant == Spec => []IInv
BY Initially, Inductive, PTL DEF Spec

(* Every variable keeps its type and the table stays a sequence of users,  *)
(* whatever the number of connections.                                     *)
THEOREM TypeCorrect == Spec => []TypeOK
<1>1. IInv => TypeOK
  BY DEF IInv
<1> QED
  BY <1>1, InductiveInvariant, PTL

(* No two threads are between pthread_mutex_lock and unlock: at each       *)
(* moment, users_mutex names the only one.                                 *)
THEOREM MutualExclusion == Spec => []MutexHeld
<1>1. IInv => MutexHeld
  BY DEF IInv
<1> QED
  BY <1>1, InductiveInvariant, PTL

(* REGISTERs and UNREGISTERs that race never give a username two slots.    *)
THEOREM NamesStayUnique == Spec => []UniqueNames
<1>1. IInv => UniqueNames
  BY DEF IInv
<1> QED
  BY <1>1, InductiveInvariant, PTL

(* A handler never acts on an index that a move of slots has made stale.   *)
THEOREM IndexStaysFresh == Spec => []IndexFresh
<1>1. IInv => IndexFresh
  BY DEF IInv
<1> QED
  BY <1>1, InductiveInvariant, PTL

----------------------------------------------------------------------------
(* Whose record a step changes. *)

(* The request that t executes changes no record but its user's. *)
LEMMA ExecuteOthers ==
  ASSUME IInv, NEW t \in Threads, Execute(t), NEW name \in Names,
         name # request[t].username
  PROVE  Records(users', name) = Records(users, name)
<1>1. pc[t] = "apply"
  BY DEF Execute, Register, Unregister, Connect, Disconnect, Publish, Delete,
         ListUsers, ListContent, Executes, At
<1>2. users \in Table /\ Unique(users) /\ request[t] \in Requests
  BY <1>1, SlotFound
<1>3. ASSUME Known(t)
      PROVE  user_index[t] \in DOMAIN users /\ name # users[user_index[t]].username
  <2>1. user_index[t] = find_user(users, request[t].username)
    BY <1>1 DEF IInv, IndexFresh
  <2> QED
    BY <1>2, <1>3, <2>1, FindUser DEF Known
<1>4. CASE UNCHANGED users
  BY <1>4
<1>5. CASE Register(t) /\ users' # users
  <2>1. PICK stale \in Endpoints : users' = add_user(users, request[t].username, stale)
    BY <1>5 DEF Register, Refuse
  <2> QED
    BY <1>2, <2>1, RequestFields, AddUserOthers
<1>6. CASE Unregister(t) /\ users' # users
  BY <1>2, <1>6, RemoveUserOthers DEF Unregister, Refuse
<1>7. CASE Connect(t) /\ users' # users
  BY <1>2, <1>3, <1>7, ChangeOthers DEF Connect, Refuse
<1>8. CASE Disconnect(t) /\ users' # users
  BY <1>2, <1>3, <1>8, ChangeOthers DEF Disconnect, Online, Refuse
<1>9. CASE Publish(t) /\ users' # users
  BY <1>2, <1>3, <1>9, ChangeOthers DEF Publish, Online, Refuse
<1>10. CASE Delete(t) /\ users' # users
  BY <1>2, <1>3, <1>10, ChangeOthers DEF Delete, Online, Refuse
<1>11. CASE ListUsers(t) \/ ListContent(t)
  BY <1>4, <1>11 DEF ListUsers, ListContent, Refuse, Announce
<1> QED
  BY <1>4, <1>5, <1>6, <1>7, <1>8, <1>9, <1>10, <1>11 DEF Execute

(* Every other step leaves the table alone. *)
LEMMA OnlyExecuteChanges ==
  ASSUME NEW t \in Threads, Handle(t) \/ Client(t)
  PROVE  Execute(t) \/ UNCHANGED users
BY DEF Handle, Work, WriteEntry, Client, send_log, RejectAnonymous, Lock, Find, ListNextUser,
       ListNextFile, Iterate, ListEnd, Unlock, Reply, Close, Accept, Receive,
       ReadError, PublishReadError, PeerLost

(* No request alters the connection or the files of anybody but the user   *)
(* in whose name it came, though remove_user moves another user's slot.    *)
THEOREM RecordsStayOwn == Spec => OnlyOwnRecord
<1> DEFINE Owned ==
      \A name \in Names :
        RecordOf(name)' # RecordOf(name) =>
          \E t \in Threads : pc[t] = "apply" /\ request[t].username = name
<1>1. IInv /\ [Next]_vars => [Owned]_users
  <2> SUFFICES ASSUME IInv, [Next]_vars, users' # users, NEW name \in Names,
                      RecordOf(name)' # RecordOf(name)
               PROVE  \E t \in Threads : pc[t] = "apply" /\ request[t].username = name
    OBVIOUS
  <2>1. PICK t \in Threads : Execute(t)
    BY OnlyExecuteChanges DEF Next, vars
  <2>2. pc[t] = "apply"
    BY <2>1
    DEF Execute, Register, Unregister, Connect, Disconnect, Publish, Delete,
        ListUsers, ListContent, Executes, At
  <2>3. Records(users', name) # Records(users, name)
    BY DEF Records, RecordOf
  <2> QED
    BY <2>1, <2>2, <2>3, ExecuteOthers
<1> QED
  BY <1>1, InductiveInvariant, PTL DEF Spec, OnlyOwnRecord

(***************************************************************************)
(* The server implements the directory.                                    *)
(***************************************************************************)

----------------------------------------------------------------------------
(* The record of a name, and the directory entry it stands for. *)

LEMMA FindUnique ==
  ASSUME NEW table \in Table, Unique(table), NEW i \in DOMAIN table
  PROVE  find_user(table, table[i].username) = i
BY FindUser DEF Unique

(* A name is registered when find_user finds it. *)
LEMMA RegisteredFound ==
  ASSUME NEW table \in Table, Unique(table), NEW name
  PROVE  name \in RegisteredIn(table) <=> find_user(table, name) # NotFound
<1>1. NotFound \notin DOMAIN table
  BY TableSlots DEF NotFound
<1> QED
  BY <1>1, FindUser DEF RegisteredIn

(* The records of a name are the one find_user finds. *)
LEMMA FoundRecords ==
  ASSUME NEW table \in Table, Unique(table), NEW name
  PROVE  Records(table, name) =
           IF find_user(table, name) = NotFound THEN {}
           ELSE {table[find_user(table, name)]}
<1>1. NotFound \notin DOMAIN table
  BY TableSlots DEF NotFound
<1>2. CASE find_user(table, name) = NotFound
  BY <1>1, <1>2, FindUser DEF Records
<1>3. CASE find_user(table, name) # NotFound
  <2>1. /\ find_user(table, name) \in DOMAIN table
        /\ table[find_user(table, name)].username = name
    BY <1>3, FindUser
  <2>2. {j \in DOMAIN table : table[j].username = name} = {find_user(table, name)}
    BY <2>1 DEF Unique
  <2> QED
    BY <1>3, <2>2 DEF Records
<1> QED
  BY <1>2, <1>3

(* Two tables with the same records of a name agree on its entry. *)
LEMMA SameEntry ==
  ASSUME NEW t1 \in Table, Unique(t1), NEW t2 \in Table, Unique(t2),
         NEW name, Records(t1, name) = Records(t2, name)
  PROVE  /\ name \in RegisteredIn(t1) <=> name \in RegisteredIn(t2)
         /\ EndpointOf(t1, name) = EndpointOf(t2, name)
         /\ CopiesOf(t1, name) = CopiesOf(t2, name)
<1> DEFINE i == find_user(t1, name)
           j == find_user(t2, name)
<1>1. /\ Records(t1, name) = IF i = NotFound THEN {} ELSE {t1[i]}
      /\ Records(t2, name) = IF j = NotFound THEN {} ELSE {t2[j]}
  BY FoundRecords
<1>2. /\ name \in RegisteredIn(t1) <=> i # NotFound
      /\ name \in RegisteredIn(t2) <=> j # NotFound
  BY RegisteredFound
<1>3. /\ EndpointOf(t1, name) =
           IF i # NotFound /\ t1[i].connected THEN t1[i].endpoint ELSE Offline
      /\ EndpointOf(t2, name) =
           IF j # NotFound /\ t2[j].connected THEN t2[j].endpoint ELSE Offline
  BY DEF EndpointOf
<1>4. /\ CopiesOf(t1, name) =
           [f \in Files |-> IF i = NotFound THEN 0 ELSE Copies(t1[i].files, f)]
      /\ CopiesOf(t2, name) =
           [f \in Files |-> IF j = NotFound THEN 0 ELSE Copies(t2[j].files, f)]
  BY DEF CopiesOf
<1> HIDE DEF i, j
<1>5. (i = NotFound <=> j = NotFound) /\ (i # NotFound => t1[i] = t2[j])
  BY <1>1
<1> QED
  BY <1>2, <1>3, <1>4, <1>5

(* An operation that leaves the records of all names but one alone changes *)
(* the directory at that name only.                                        *)
LEMMA OneEntryChanges ==
  ASSUME NEW t1 \in Table, Unique(t1), NEW t2 \in Table, Unique(t2),
         NEW owner \in Names,
         \A name : name # owner => Records(t2, name) = Records(t1, name)
  PROVE  /\ RegisteredIn(t2) = IF owner \in RegisteredIn(t2)
                                 THEN RegisteredIn(t1) \cup {owner}
                                 ELSE RegisteredIn(t1) \ {owner}
         /\ OnlineIn(t2) = [OnlineIn(t1) EXCEPT ![owner] = EndpointOf(t2, owner)]
         /\ PublishedIn(t2) = [PublishedIn(t1) EXCEPT ![owner] = CopiesOf(t2, owner)]
<1>1. ASSUME NEW name, name # owner
      PROVE  /\ name \in RegisteredIn(t2) <=> name \in RegisteredIn(t1)
             /\ EndpointOf(t2, name) = EndpointOf(t1, name)
             /\ CopiesOf(t2, name) = CopiesOf(t1, name)
  BY <1>1, SameEntry
<1>2. \A name : name # owner =>
        (name \in RegisteredIn(t2) <=> name \in RegisteredIn(t1))
  BY <1>1
<1>3. OnlineIn(t2) = [OnlineIn(t1) EXCEPT ![owner] = EndpointOf(t2, owner)]
  BY <1>1 DEF OnlineIn
<1>4. PublishedIn(t2) = [PublishedIn(t1) EXCEPT ![owner] = CopiesOf(t2, owner)]
  BY <1>1 DEF PublishedIn
<1> QED
  BY <1>2, <1>3, <1>4

----------------------------------------------------------------------------
(* The number of copies of a file. *)

LEMMA CopiesFinite ==
  ASSUME NEW files \in Seq(Files), NEW f
  PROVE  /\ IsFiniteSet({k \in DOMAIN files : files[k] = f})
         /\ Copies(files, f) \in Nat
         /\ Copies(files, f) = 0 <=> \A k \in DOMAIN files : files[k] # f
<1> DEFINE S == {k \in DOMAIN files : files[k] = f}
<1>1. Len(files) \in Nat /\ DOMAIN files = 1 .. Len(files)
  BY LenProperties
<1>2. IsFiniteSet(1 .. Len(files))
  BY <1>1, FS_Interval
<1>3. IsFiniteSet(S)
  <2>1. S \in SUBSET (1 .. Len(files))
    BY <1>1
  <2> QED
    BY <1>2, <2>1, FS_Subset
<1>4. Copies(files, f) = Cardinality(S)
  BY DEF Copies
<1>5. Cardinality(S) \in Nat /\ (Cardinality(S) = 0 <=> S = {})
  <2> HIDE DEF S
  <2> QED
    BY <1>3, FS_CardinalityType, FS_EmptySet
<1>6. S = {} <=> \A k \in DOMAIN files : files[k] # f
  OBVIOUS
<1> QED
  BY <1>3, <1>4, <1>5, <1>6

(* Appending a file adds one copy of it. *)
LEMMA CopiesAppend ==
  ASSUME NEW files \in Seq(Files), NEW f \in Files, NEW g
  PROVE  Copies(Append(files, f), g) = Copies(files, g) + IF g = f THEN 1 ELSE 0
<1> DEFINE n == Len(files)
           more == Append(files, f)
           S == {k \in DOMAIN files : files[k] = g}
           T == {k \in DOMAIN more : more[k] = g}
<1>1. n \in Nat /\ DOMAIN files = 1 .. n
  BY LenProperties
<1>2. /\ more \in Seq(Files) /\ Len(more) = n + 1
      /\ \A k \in 1 .. n : more[k] = files[k]
      /\ more[n + 1] = f
  BY AppendProperties
<1>3. DOMAIN more = 1 .. n + 1
  BY <1>2, LenProperties
<1>4. IsFiniteSet(S) /\ n + 1 \notin S
  <2>1. IsFiniteSet(S)
    BY CopiesFinite
  <2> QED
    BY <1>1, <2>1
<1>5. Copies(files, g) = Cardinality(S) /\ Copies(more, g) = Cardinality(T)
  BY DEF Copies
<1>6. Cardinality(S) \in Nat
  BY <1>5, CopiesFinite
<1>7. CASE g = f
  <2>1. T = S \cup {n + 1}
    <3> HIDE DEF more
    <3> QED
      BY <1>1, <1>2, <1>3, <1>7
  <2> HIDE DEF S, T, more
  <2>2. Cardinality(S \cup {n + 1}) = Cardinality(S) + 1
    BY <1>4, FS_AddElement
  <2> QED
    BY <1>5, <1>7, <2>1, <2>2 DEF more
<1>8. CASE g # f
  <2>1. T = S
    <3> HIDE DEF more
    <3> QED
      BY <1>1, <1>2, <1>3, <1>8
  <2> HIDE DEF S, T, more
  <2> QED
    BY <1>5, <1>6, <1>8, <2>1 DEF more
<1> QED
  BY <1>7, <1>8

(* Deleting by moving the last file over one takes a copy of that one.     *)
LEMMA CopiesMoveLast ==
  ASSUME NEW files \in Seq(Files), NEW k \in DOMAIN files, NEW g
  PROVE  Copies(MoveLastTo(files, k), g) =
           Copies(files, g) - IF g = files[k] THEN 1 ELSE 0
<1> DEFINE n == Len(files)
           less == MoveLastTo(files, k)
           S == {j \in DOMAIN files : files[j] = g}
           T == {j \in DOMAIN less : less[j] = g}
<1>1. n \in Nat /\ DOMAIN files = 1 .. n /\ k \in 1 .. n /\ n # 0
  BY LenProperties
<1>2. /\ DOMAIN less = 1 .. n - 1
      /\ \A j \in 1 .. n - 1 : less[j] = IF j = k THEN files[n] ELSE files[j]
  BY <1>1 DEF MoveLastTo
<1>3. IsFiniteSet(S)
  BY CopiesFinite
<1>4. Copies(files, g) = Cardinality(S) /\ Copies(less, g) = Cardinality(T)
  BY DEF Copies
<1>5. Cardinality(S) \in Nat
  BY <1>4, CopiesFinite
<1> HIDE DEF less, n
<1>6. \A j \in 1 .. n : j \in S <=> files[j] = g
  BY <1>1
<1>7. \A j : j \in T <=> j \in 1 .. n - 1 /\ (IF j = k THEN files[n] ELSE files[j]) = g
  BY <1>2
<1>8. \A j \in S : j \in 1 .. n
  BY <1>1
<1> HIDE DEF S, T
<1>9. CASE files[k] = g /\ files[n] = g
  <2>1. T = S \ {n}
    BY <1>1, <1>6, <1>7, <1>8, <1>9
  <2>2. n \in S
    BY <1>1, <1>6, <1>9
  <2>3. Cardinality(S \ {n}) = Cardinality(S) - 1
    BY <1>3, <2>2, FS_RemoveElement
  <2> QED
    BY <1>4, <1>9, <2>1, <2>3 DEF less
<1>10. CASE files[k] = g /\ files[n] # g
  <2>1. T = S \ {k}
    BY <1>1, <1>6, <1>7, <1>8, <1>10
  <2>2. k \in S
    BY <1>1, <1>6, <1>10
  <2>3. Cardinality(S \ {k}) = Cardinality(S) - 1
    BY <1>3, <2>2, FS_RemoveElement
  <2> QED
    BY <1>4, <1>10, <2>1, <2>3 DEF less
<1>11. CASE files[k] # g /\ files[n] = g
  <2>1. T = (S \ {n}) \cup {k} /\ k \notin S \ {n} /\ n \in S
    BY <1>1, <1>6, <1>7, <1>8, <1>11
  <2>2. Cardinality(S \ {n}) = Cardinality(S) - 1 /\ IsFiniteSet(S \ {n})
    BY <1>3, <2>1, FS_RemoveElement
  <2>3. Cardinality(T) = Cardinality(S \ {n}) + 1
    BY <2>1, <2>2, FS_AddElement
  <2> QED
    BY <1>4, <1>5, <1>11, <2>2, <2>3 DEF less
<1>12. CASE files[k] # g /\ files[n] # g
  <2>1. ASSUME NEW j PROVE j \in T <=> j \in S
    BY <1>1, <1>6, <1>7, <1>8, <1>12
  <2>2. T = S
    BY <2>1
  <2> QED
    BY <1>4, <1>5, <1>12, <2>2 DEF less
<1> QED
  BY <1>9, <1>10, <1>11, <1>12

(* A non-empty set of natural numbers has a least element. *)
LEMMA LeastNat ==
  ASSUME NEW S, S \in SUBSET Nat, S # {}
  PROVE  \E m \in S : \A k \in S : m <= k
<1> DEFINE R == {ss \in Nat \X Nat : ss[1] < ss[2]}
<1>1. IsWellFoundedOn(R, Nat)
  BY NatLessThanWellFounded DEF OpToRel
<1>2. \A k, m \in Nat : <<k, m>> \in R <=> k < m
  OBVIOUS
<1> HIDE DEF R
<1>3. PICK m \in S : \A k \in S : ~ (<<k, m>> \in R)
  BY <1>1, WFMin
<1>4. ASSUME NEW k \in S PROVE m <= k
  <2>1. k \in Nat /\ m \in Nat
    OBVIOUS
  <2>2. ~ (k < m)
    BY <1>2, <1>3, <2>1
  <2> QED
    BY <2>1, <2>2
<1> QED
  BY <1>3, <1>4

(* add_file and remove_file find a file the user lists. *)
LEMMA FileIndex ==
  ASSUME NEW table \in Table, NEW i \in DOMAIN table, NEW f
  PROVE  /\ file_index(table, i, f) = NotFound <=> Copies(table[i].files, f) = 0
         /\ file_index(table, i, f) # NotFound =>
              /\ file_index(table, i, f) \in DOMAIN table[i].files
              /\ table[i].files[file_index(table, i, f)] = f
<1> DEFINE files == table[i].files
           First(k) == files[k] = f /\ \A j \in 1 .. k - 1 : files[j] # f
<1>1. files \in Seq(Files)
  BY TableSlots DEF User
<1>2. Len(files) \in Nat /\ DOMAIN files = 1 .. Len(files)
  BY <1>1, LenProperties
<1>3. Copies(files, f) = 0 <=> \A k \in DOMAIN files : files[k] # f
  BY <1>1, CopiesFinite
<1>4. CASE \A k \in DOMAIN files : files[k] # f
  BY <1>3, <1>4 DEF file_index
<1>5. CASE \E k \in DOMAIN files : files[k] = f
  <2>1. file_index(table, i, f) = CHOOSE k \in DOMAIN files : First(k)
    BY <1>5 DEF file_index
  <2>2. \E k \in DOMAIN files : First(k)
    <3> DEFINE S == {k \in DOMAIN files : files[k] = f}
    <3>1. S \in SUBSET Nat /\ S # {}
      BY <1>2, <1>5
    <3>2. PICK m \in S : \A k \in S : m <= k
      <4> HIDE DEF S
      <4> QED
        BY <3>1, LeastNat
    <3>3. First(m)
      BY <1>2, <3>2
    <3> QED
      BY <3>2, <3>3
  <2> DEFINE c == CHOOSE k \in DOMAIN files : First(k)
  <2>3. c \in DOMAIN files /\ First(c)
    BY <2>2
  <2> HIDE DEF c
  <2>4. c # NotFound
    BY <1>2, <2>3 DEF NotFound
  <2> QED
    BY <1>3, <1>5, <2>1, <2>3, <2>4 DEF c
<1> QED
  BY <1>4, <1>5

----------------------------------------------------------------------------
(* What each operation on the table does to the directory. *)

NoCopies == [f \in Files |-> 0]

(* The entry of a user who has slot i. *)
LEMMA SlotEntry ==
  ASSUME NEW table \in Table, Unique(table), NEW i \in DOMAIN table
  PROVE  /\ table[i].username \in Names
         /\ table[i].username \in RegisteredIn(table)
         /\ EndpointOf(table, table[i].username) =
              IF table[i].connected THEN table[i].endpoint ELSE Offline
         /\ CopiesOf(table, table[i].username) =
              [f \in Files |-> Copies(table[i].files, f)]
<1>1. i # NotFound /\ table[i] \in User
  BY TableSlots DEF NotFound
<1>2. find_user(table, table[i].username) = i
  BY FindUnique
<1> QED
  BY <1>1, <1>2 DEF EndpointOf, CopiesOf, RegisteredIn, User

(* The entry of a name that is in no slot. *)
LEMMA NoEntry ==
  ASSUME NEW table \in Table, Unique(table), NEW name,
         find_user(table, name) = NotFound
  PROVE  /\ name \notin RegisteredIn(table)
         /\ EndpointOf(table, name) = Offline
         /\ CopiesOf(table, name) = NoCopies
BY RegisteredFound DEF EndpointOf, CopiesOf, NoCopies

Put(table, i, u) == [table EXCEPT ![i] = u]

(* Replacing the record in a slot by another of the same user. *)
LEMMA SlotChanges ==
  ASSUME NEW table \in Table, Unique(table), NEW i \in DOMAIN table,
         NEW u \in User, u.username = table[i].username
  PROVE  /\ RegisteredIn(Put(table, i, u)) = RegisteredIn(table)
         /\ OnlineIn(Put(table, i, u)) = [OnlineIn(table) EXCEPT
              ![u.username] = IF u.connected THEN u.endpoint ELSE Offline]
         /\ PublishedIn(Put(table, i, u)) = [PublishedIn(table) EXCEPT
              ![u.username] = [f \in Files |-> Copies(u.files, f)]]
<1> DEFINE owner == u.username
           t2 == Put(table, i, u)
<1>1. t2 \in Table /\ Unique(t2)
  BY SameNames DEF Put
<1>2. i \in DOMAIN t2 /\ t2[i] = u /\ t2[i].username = owner
  BY DEF Put
<1>3. /\ owner \in Names /\ owner \in RegisteredIn(t2)
      /\ EndpointOf(t2, owner) = IF u.connected THEN u.endpoint ELSE Offline
      /\ CopiesOf(t2, owner) = [f \in Files |-> Copies(u.files, f)]
  BY <1>1, <1>2, SlotEntry
<1>4. owner \in RegisteredIn(table)
  BY SlotEntry
<1>5. ASSUME NEW name, name # owner
      PROVE  Records(t2, name) = Records(table, name)
  BY <1>5, ReplaceOthers DEF Put
<1>6. /\ RegisteredIn(t2) = RegisteredIn(table) \cup {owner}
      /\ OnlineIn(t2) = [OnlineIn(table) EXCEPT ![owner] = EndpointOf(t2, owner)]
      /\ PublishedIn(t2) = [PublishedIn(table) EXCEPT ![owner] = CopiesOf(t2, owner)]
  BY <1>1, <1>3, <1>5, OneEntryChanges
<1>7. RegisteredIn(t2) = RegisteredIn(table)
  BY <1>4, <1>6
<1> QED
  BY <1>1, <1>3, <1>6, <1>7

(* add_user: a registered name that is offline and lists nothing. *)
LEMMA AddUserEntry ==
  ASSUME NEW table \in Table, Unique(table),
         NEW name \in Names, NEW stale \in Endpoints,
         find_user(table, name) = NotFound,
         NEW t2, t2 = add_user(table, name, stale)
  PROVE  /\ RegisteredIn(t2) = RegisteredIn(table) \cup {name}
         /\ OnlineIn(t2) = OnlineIn(table)
         /\ PublishedIn(t2) = PublishedIn(table)
<1> DEFINE new == [username |-> name, connected |-> FALSE, endpoint |-> stale,
                   files |-> <<>>]
           i == Len(table) + 1
<1>1. t2 \in Table /\ Unique(t2)
  BY AddUser
<1>2. new \in User /\ new.username = name /\ new.connected = FALSE /\ new.files = <<>>
  BY EmptySeq DEF User
<1>3. t2 = Append(table, new)
  BY DEF add_user
<1> HIDE DEF new
<1>4. i \in DOMAIN t2 /\ t2[i] = new
  BY <1>1, <1>2, <1>3, AppendProperties, TableSlots DEF Table
<1> HIDE DEF i
<1>5. ASSUME NEW f PROVE Copies(<<>>, f) = 0
  <2>1. <<>> \in Seq(Files) /\ DOMAIN <<>> = {}
    BY EmptySeq
  <2> QED
    BY <2>1, CopiesFinite
<1>6. /\ name \in RegisteredIn(t2) /\ EndpointOf(t2, name) = Offline
      /\ CopiesOf(t2, name) = NoCopies
  <2>1. /\ name \in RegisteredIn(t2) /\ EndpointOf(t2, name) = Offline
        /\ CopiesOf(t2, name) = [f \in Files |-> Copies(<<>>, f)]
    <3>1. /\ t2[i].username \in RegisteredIn(t2)
          /\ EndpointOf(t2, t2[i].username) =
               IF t2[i].connected THEN t2[i].endpoint ELSE Offline
          /\ CopiesOf(t2, t2[i].username) = [f \in Files |-> Copies(t2[i].files, f)]
      BY <1>1, <1>4, SlotEntry
    <3> QED
      BY <1>2, <1>4, <3>1
  <2> QED
    BY <1>5, <2>1 DEF NoCopies
<1>7. EndpointOf(table, name) = Offline /\ CopiesOf(table, name) = NoCopies
  BY NoEntry
<1>8. \A other : other # name => Records(t2, other) = Records(table, other)
  BY AddUserOthers
<1>9. /\ RegisteredIn(t2) = RegisteredIn(table) \cup {name}
      /\ OnlineIn(t2) = [OnlineIn(table) EXCEPT ![name] = Offline]
      /\ PublishedIn(t2) = [PublishedIn(table) EXCEPT ![name] = NoCopies]
  BY <1>1, <1>6, <1>8, OneEntryChanges
<1> QED
  BY <1>7, <1>9 DEF OnlineIn, PublishedIn

(* remove_user finds the name no more. *)
LEMMA RemovedNotFound ==
  ASSUME NEW table \in Table, Unique(table), NEW name,
         find_user(table, name) # NotFound
  PROVE  find_user(remove_user(table, name), name) = NotFound
<1> DEFINE i == find_user(table, name)
           n == Len(table)
           t2 == MoveLastTo(table, i)
<1>1. i \in 1 .. n /\ n \in Nat /\ DOMAIN table = 1 .. n /\ table[i].username = name
  BY FindUser, TableSlots
<1>2. \A j \in 1 .. n : table[j].username = name => j = i
  BY <1>1 DEF Unique
<1>3. remove_user(table, name) = t2 /\ t2 \in Table /\ Unique(t2)
  BY RemoveUser DEF remove_user
<1>4. /\ DOMAIN t2 = 1 .. n - 1
      /\ \A j \in 1 .. n - 1 : t2[j] = IF j = i THEN table[n] ELSE table[j]
  BY <1>1 DEF MoveLastTo
<1> HIDE DEF i, n, t2
<1>5. ASSUME NEW j \in DOMAIN t2 PROVE t2[j].username # name
  <2>1. j \in 1 .. n - 1 /\ j \in 1 .. n /\ n \in 1 .. n /\ n # j
    BY <1>1, <1>4
  <2>2. CASE j = i
    BY <1>2, <1>4, <2>1, <2>2
  <2>3. CASE j # i
    BY <1>2, <1>4, <2>1, <2>3
  <2> QED
    BY <2>2, <2>3
<1> QED
  BY <1>3, <1>5, FindUser

(* remove_user: nothing is known of the user any more. *)
LEMMA RemoveUserEntry ==
  ASSUME NEW table \in Table, Unique(table), NEW name \in Names,
         find_user(table, name) # NotFound,
         NEW t2, t2 = remove_user(table, name)
  PROVE  /\ RegisteredIn(t2) = RegisteredIn(table) \ {name}
         /\ OnlineIn(t2) = [OnlineIn(table) EXCEPT ![name] = Offline]
         /\ PublishedIn(t2) = [PublishedIn(table) EXCEPT ![name] = NoCopies]
<1>1. t2 \in Table /\ Unique(t2)
  BY RemoveUser
<1>2. /\ name \notin RegisteredIn(t2) /\ EndpointOf(t2, name) = Offline
      /\ CopiesOf(t2, name) = NoCopies
  BY <1>1, RemovedNotFound, NoEntry
<1>3. \A other : other # name => Records(t2, other) = Records(table, other)
  BY RemoveUserOthers
<1> QED
  BY <1>1, <1>2, <1>3, OneEntryChanges

(* connect_user and disconnect_user change where a user is, nothing else. *)
LEMMA ConnectEntry ==
  ASSUME NEW table \in Table, Unique(table), NEW i \in DOMAIN table,
         NEW endpoint \in Endpoints, NEW name, name = table[i].username
  PROVE  /\ RegisteredIn(connect_user(table, i, endpoint)) = RegisteredIn(table)
         /\ OnlineIn(connect_user(table, i, endpoint)) =
              [OnlineIn(table) EXCEPT ![name] = endpoint]
         /\ PublishedIn(connect_user(table, i, endpoint)) = PublishedIn(table)
         /\ RegisteredIn(disconnect_user(table, i)) = RegisteredIn(table)
         /\ OnlineIn(disconnect_user(table, i)) =
              [OnlineIn(table) EXCEPT ![name] = Offline]
         /\ PublishedIn(disconnect_user(table, i)) = PublishedIn(table)
<1> DEFINE u == [table[i] EXCEPT !.connected = TRUE, !.endpoint = endpoint]
           v == [table[i] EXCEPT !.connected = FALSE]
           copies == [f \in Files |-> Copies(table[i].files, f)]
<1>1. table[i] \in User
  BY TableSlots
<1>2. /\ u \in User /\ u.username = name /\ u.connected = TRUE
      /\ u.endpoint = endpoint /\ u.files = table[i].files
      /\ v \in User /\ v.username = name /\ v.connected = FALSE
      /\ v.files = table[i].files
  BY <1>1 DEF User
<1>3. /\ connect_user(table, i, endpoint) = Put(table, i, u)
      /\ disconnect_user(table, i) = Put(table, i, v)
  BY DEF connect_user, disconnect_user, Put
<1>4. name \in Names /\ CopiesOf(table, name) = copies
  BY SlotEntry
<1>5. [PublishedIn(table) EXCEPT ![name] = copies] = PublishedIn(table)
  BY <1>4 DEF PublishedIn
<1> HIDE DEF u, v
<1>6. /\ RegisteredIn(connect_user(table, i, endpoint)) = RegisteredIn(table)
      /\ OnlineIn(connect_user(table, i, endpoint)) =
           [OnlineIn(table) EXCEPT ![name] = endpoint]
      /\ PublishedIn(connect_user(table, i, endpoint)) =
           [PublishedIn(table) EXCEPT ![name] = copies]
  <2> DEFINE t2 == Put(table, i, u)
  <2>1. /\ RegisteredIn(t2) = RegisteredIn(table)
        /\ OnlineIn(t2) = [OnlineIn(table) EXCEPT
             ![u.username] = IF u.connected THEN u.endpoint ELSE Offline]
        /\ PublishedIn(t2) = [PublishedIn(table) EXCEPT
             ![u.username] = [f \in Files |-> Copies(u.files, f)]]
    BY <1>2, SlotChanges
  <2> QED
    BY <1>2, <1>3, <2>1
<1>7. /\ RegisteredIn(disconnect_user(table, i)) = RegisteredIn(table)
      /\ OnlineIn(disconnect_user(table, i)) =
           [OnlineIn(table) EXCEPT ![name] = Offline]
      /\ PublishedIn(disconnect_user(table, i)) =
           [PublishedIn(table) EXCEPT ![name] = copies]
  <2> DEFINE t2 == Put(table, i, v)
  <2>1. /\ RegisteredIn(t2) = RegisteredIn(table)
        /\ OnlineIn(t2) = [OnlineIn(table) EXCEPT
             ![v.username] = IF v.connected THEN v.endpoint ELSE Offline]
        /\ PublishedIn(t2) = [PublishedIn(table) EXCEPT
             ![v.username] = [f \in Files |-> Copies(v.files, f)]]
    BY <1>2, SlotChanges
  <2> QED
    BY <1>2, <1>3, <2>1
<1> QED
  BY <1>5, <1>6, <1>7

PutFiles(table, i, files) == [table EXCEPT ![i].files = files]

(* files has as many copies as old of every file but f. *)
CopiesBut(files, old, f) ==
  \A g \in Files : g # f => Copies(files, g) = Copies(old, g)

(* A change of the copies of a file in a slot changes them for its user    *)
(* only.                                                                   *)
LEMMA FilesChange ==
  ASSUME NEW table \in Table, Unique(table), NEW i \in DOMAIN table,
         NEW files \in Seq(Files), NEW f \in Files,
         CopiesBut(files, table[i].files, f)
  PROVE  /\ RegisteredIn(PutFiles(table, i, files)) = RegisteredIn(table)
         /\ OnlineIn(PutFiles(table, i, files)) = OnlineIn(table)
         /\ PublishedIn(PutFiles(table, i, files)) =
              [PublishedIn(table) EXCEPT ![table[i].username][f] = Copies(files, f)]
<1> DEFINE u == [table[i] EXCEPT !.files = files]
           name == table[i].username
           t2 == PutFiles(table, i, files)
<1>1. table[i] \in User
  BY TableSlots
<1>2. /\ u \in User /\ u.username = name /\ u.connected = table[i].connected
      /\ u.endpoint = table[i].endpoint /\ u.files = files
  BY <1>1 DEF User
<1>3. t2 = Put(table, i, u)
  BY DEF Put, PutFiles
<1>4. /\ name \in Names
      /\ EndpointOf(table, name) =
           IF table[i].connected THEN table[i].endpoint ELSE Offline
      /\ CopiesOf(table, name) = [g \in Files |-> Copies(table[i].files, g)]
  BY SlotEntry
<1> HIDE DEF u
<1>5. /\ RegisteredIn(t2) = RegisteredIn(table)
      /\ OnlineIn(t2) = [OnlineIn(table) EXCEPT ![name] = EndpointOf(table, name)]
      /\ PublishedIn(t2) = [PublishedIn(table) EXCEPT
           ![name] = [g \in Files |-> Copies(files, g)]]
  <2>1. /\ RegisteredIn(t2) = RegisteredIn(table)
        /\ OnlineIn(t2) = [OnlineIn(table) EXCEPT
             ![u.username] = IF u.connected THEN u.endpoint ELSE Offline]
        /\ PublishedIn(t2) = [PublishedIn(table) EXCEPT
             ![u.username] = [g \in Files |-> Copies(u.files, g)]]
    BY <1>2, <1>3, SlotChanges
  <2> QED
    BY <1>2, <1>4, <2>1
<1>6. OnlineIn(t2) = OnlineIn(table)
  BY <1>4, <1>5 DEF OnlineIn
<1>7. [g \in Files |-> Copies(files, g)] =
        [CopiesOf(table, name) EXCEPT ![f] = Copies(files, f)]
  BY <1>4 DEF CopiesBut
<1>8. PublishedIn(table)[name] = CopiesOf(table, name)
  BY <1>4 DEF PublishedIn
<1> QED
  BY <1>5, <1>6, <1>7, <1>8

(* add_file adds a copy. *)
LEMMA AddFileEntry ==
  ASSUME NEW table \in Table, Unique(table), NEW i \in DOMAIN table,
         NEW f \in Files
  PROVE  /\ RegisteredIn(add_file(table, i, f)) = RegisteredIn(table)
         /\ OnlineIn(add_file(table, i, f)) = OnlineIn(table)
         /\ PublishedIn(add_file(table, i, f)) = [PublishedIn(table) EXCEPT
              ![table[i].username][f] = Copies(table[i].files, f) + 1]
<1> DEFINE files == table[i].files
           more == Append(files, f)
<1>1. files \in Seq(Files)
  BY TableSlots DEF User
<1>2. more \in Seq(Files)
  BY <1>1, AppendProperties
<1>3. ASSUME NEW g \in Files
      PROVE  Copies(more, g) = IF g = f THEN Copies(files, f) + 1 ELSE Copies(files, g)
  <2>1. Copies(more, g) = Copies(files, g) + IF g = f THEN 1 ELSE 0
    BY <1>1, CopiesAppend
  <2>2. Copies(files, g) \in Nat
    BY <1>1, CopiesFinite
  <2> QED
    BY <2>1, <2>2
<1>4. add_file(table, i, f) = PutFiles(table, i, more)
  BY DEF add_file, PutFiles
<1> HIDE DEF more
<1>5. CopiesBut(more, table[i].files, f)
  BY <1>3 DEF CopiesBut
<1>6. Copies(more, f) = Copies(table[i].files, f) + 1
  BY <1>3
<1> QED
  BY <1>2, <1>4, <1>5, <1>6, FilesChange

(* remove_file takes one away, when there is one. *)
LEMMA RemoveFileEntry ==
  ASSUME NEW table \in Table, Unique(table), NEW i \in DOMAIN table,
         NEW f \in Files, file_index(table, i, f) # NotFound
  PROVE  /\ RegisteredIn(remove_file(table, i, f)) = RegisteredIn(table)
         /\ OnlineIn(remove_file(table, i, f)) = OnlineIn(table)
         /\ PublishedIn(remove_file(table, i, f)) = [PublishedIn(table) EXCEPT
              ![table[i].username][f] = Copies(table[i].files, f) - 1]
<1> DEFINE files == table[i].files
           k == file_index(table, i, f)
           less == MoveLastTo(files, k)
<1>1. files \in Seq(Files)
  BY TableSlots DEF User
<1>2. k \in DOMAIN files /\ files[k] = f
  BY FileIndex
<1>3. Len(files) # 0
  BY <1>1, <1>2, LenProperties
<1>4. remove_file(table, i, f) = PutFiles(table, i, less)
  BY DEF remove_file, PutFiles
<1> HIDE DEF k
<1>5. less \in Seq(Files)
  BY <1>1, <1>3, MoveLast
<1>6. ASSUME NEW g \in Files
      PROVE  Copies(less, g) = IF g = f THEN Copies(files, f) - 1 ELSE Copies(files, g)
  <2>1. Copies(less, g) = Copies(files, g) - IF g = files[k] THEN 1 ELSE 0
    BY <1>1, <1>2, CopiesMoveLast
  <2>2. Copies(files, g) \in Nat
    BY <1>1, CopiesFinite
  <2> QED
    BY <1>2, <2>1, <2>2
<1> HIDE DEF less
<1>7. CopiesBut(less, table[i].files, f)
  BY <1>6 DEF CopiesBut
<1>8. Copies(less, f) = Copies(table[i].files, f) - 1
  BY <1>6
<1>9. /\ RegisteredIn(PutFiles(table, i, less)) = RegisteredIn(table)
      /\ OnlineIn(PutFiles(table, i, less)) = OnlineIn(table)
      /\ PublishedIn(PutFiles(table, i, less)) = [PublishedIn(table) EXCEPT
           ![table[i].username][f] = Copies(less, f)]
  <2>1. ASSUME NEW s \in Seq(Files), CopiesBut(s, table[i].files, f)
        PROVE  /\ RegisteredIn(PutFiles(table, i, s)) = RegisteredIn(table)
               /\ OnlineIn(PutFiles(table, i, s)) = OnlineIn(table)
               /\ PublishedIn(PutFiles(table, i, s)) = [PublishedIn(table) EXCEPT
                    ![table[i].username][f] = Copies(s, f)]
    BY <2>1, FilesChange
  <2> QED
    BY <1>5, <1>7, <2>1
<1> QED
  BY <1>4, <1>8, <1>9

----------------------------------------------------------------------------
(* The listing loops. *)

ConnectedBefore(table, c) == {i \in DOMAIN table : table[i].connected /\ i < c}

EntriesBefore(table, c) ==
  {<<table[i].username, table[i].endpoint>> : i \in ConnectedBefore(table, c)}

(* What LIST_USERS has written when its loop is at slot c. *)
UsersWritten(table, c, s) ==
  Items(s) = EntriesBefore(table, c) /\ Len(s) = Cardinality(ConnectedBefore(table, c))

(* What LIST_CONTENT has written when its loop is at file c. *)
FilesWritten(files, c, s) ==
  /\ c <= Len(files) + 1 /\ Len(s) = c - 1
  /\ \A k \in 1 .. c - 1 : s[k] = files[k]

(* Nothing is written before the loops. *)
Fresh(t) ==
  pc[t] \in {"idle", "read", "log", "logged", "find", "apply"} =>
    response[t] = 0 /\ announced[t] = 0 /\ cursor[t] = 1 /\ sent[t] = <<>>

(* A content request in nobody's name never takes the mutex. *)
Permitted(t) ==
  InSection(t) => ~(request[t].op \in NeedsUser /\ request[t].username = Anonymous)

(* In a loop, what is written so far is a prefix of the listing of the     *)
(* table as it was when its length was announced: it has not changed.      *)
Looping(t) ==
  pc[t] = "list" =>
    /\ response[t] = 0 /\ Online(t)
    /\ request[t].op = "LIST_USERS" =>
         /\ announced[t] = Cardinality(ConnectedBefore(users, Len(users) + 1))
         /\ UsersWritten(users, cursor[t], sent[t])
    /\ request[t].op = "LIST_CONTENT" =>
         /\ announced[t] = Len(users[remote_index[t]].files)
         /\ FilesWritten(users[remote_index[t]].files, cursor[t], sent[t])

(* After it, the listing is complete. *)
Ended(t) ==
  pc[t] = "unlock" =>
    /\ announced[t] = Len(sent[t])
    /\ request[t].op = "LIST_USERS" /\ response[t] = 0 =>
         Items(sent[t]) = EntriesBefore(users, Len(users) + 1)

LoopInv(t) == Fresh(t) /\ Permitted(t) /\ Looping(t) /\ Ended(t)

(* The inductive invariant of the listings. *)
LInv == IInv /\ \A t \in Threads : LoopInv(t)

(* A step of t moves no other thread. *)
Elsewhere(t) ==
  \A s \in Threads \ {t} :
    /\ pc'[s] = pc[s] /\ request'[s] = request[s]
    /\ user_index'[s] = user_index[s] /\ remote_index'[s] = remote_index[s]
    /\ response'[s] = response[s] /\ announced'[s] = announced[s]
    /\ cursor'[s] = cursor[s] /\ sent'[s] = sent[s]

LEMMA OneThreadMoves ==
  ASSUME IInv, NEW t \in Threads, Handle(t) \/ Client(t)
  PROVE  Elsewhere(t)
<1>1. /\ pc \in [Threads -> Labels] /\ request \in [Threads -> Requests \cup {NoRequest}]
      /\ user_index \in [Threads -> Nat] /\ remote_index \in [Threads -> Nat]
      /\ response \in [Threads -> 0 .. 4] /\ announced \in [Threads -> Nat]
      /\ cursor \in [Threads -> Nat \ {0}]
      /\ sent \in [Threads -> Seq(Files \cup (Names \X Endpoints))]
  BY DEF IInv, TypeOK
<1>2. ASSUME Close(t) PROVE Elsewhere(t)
  BY <1>1, <1>2 DEF Close, Goto, Elsewhere
<1>3. ASSUME NEW code, Answer(t, code) PROVE Elsewhere(t)
  BY <1>1, <1>3 DEF Answer, Goto, Elsewhere
<1>4. ASSUME NEW n, Announce(t, n) PROVE Elsewhere(t)
  BY <1>1, <1>4 DEF Announce, Goto, Elsewhere
<1>5. ASSUME NEW n, NEW writes, Iterate(t, n, writes) PROVE Elsewhere(t)
  BY <1>1, <1>5 DEF Iterate, Elsewhere
<1>6. ASSUME NEW r, Accept(t, r) PROVE Elsewhere(t)
  BY <1>1, <1>6 DEF Accept, Goto, Elsewhere
<1>7. CASE Receive(t) \/ Lock(t) \/ ListEnd(t) \/ Unlock(t)
  BY <1>1, <1>7 DEF Receive, Lock, ListEnd, Unlock, Goto, Elsewhere, locals
<1>8. CASE PublishReadError(t) \/ RejectAnonymous(t)
  BY <1>1, <1>8 DEF PublishReadError, RejectAnonymous, Goto, Elsewhere
<1>9. CASE send_log(t)
  BY <1>1, <1>9 DEF send_log, Goto, Elsewhere
<1>10. CASE Find(t)
  BY <1>1, <1>10 DEF Find, Goto, Elsewhere
<1>11. CASE Execute(t)
  BY <1>3, <1>4, <1>11
  DEF Execute, Register, Unregister, Connect, Disconnect, Publish, Delete,
      ListUsers, ListContent, Refuse
<1>12. CASE ListNextUser(t) \/ ListNextFile(t)
  BY <1>5, <1>12 DEF ListNextUser, ListNextFile
<1> QED
  BY <1>2, <1>6, <1>7, <1>8, <1>9, <1>10, <1>11, <1>12
  DEF Handle, Work, WriteEntry, Client, Reply, ReadError, PeerLost

(* Nor does it disturb what another thread has written: if it changes the  *)
(* table, the other is not in its critical section.                        *)
LEMMA OtherLoops ==
  ASSUME LInv, NEW t \in Threads, Handle(t) \/ Client(t), NEW s \in Threads \ {t}
  PROVE  LoopInv(s)'
<1>1. IInv /\ LoopInv(s)
  BY DEF LInv
<1>2. /\ pc'[s] = pc[s] /\ request'[s] = request[s]
      /\ user_index'[s] = user_index[s] /\ remote_index'[s] = remote_index[s]
      /\ response'[s] = response[s] /\ announced'[s] = announced[s]
      /\ cursor'[s] = cursor[s] /\ sent'[s] = sent[s]
  BY <1>1, OneThreadMoves DEF Elsewhere
<1>3. Fresh(s)' /\ Permitted(s)'
  BY <1>1, <1>2 DEF LoopInv, Fresh, Permitted, InSection
<1>4. CASE UNCHANGED users
  BY <1>1, <1>2, <1>3, <1>4 DEF LoopInv, Looping, Ended, Online, Known
<1>5. CASE Execute(t)
  <2>1. pc[t] = "apply"
    BY <1>5
    DEF Execute, Register, Unregister, Connect, Disconnect, Publish, Delete,
        ListUsers, ListContent, Executes, At
  <2>2. ~InSection(s)
    BY <1>1, <2>1 DEF IInv, MutexHeld, InSection
  <2>3. pc'[s] \notin {"list", "unlock"}
    BY <1>2, <2>2 DEF InSection
  <2> QED
    BY <1>3, <2>3 DEF LoopInv, Looping, Ended
<1> QED
  BY <1>4, <1>5, OnlyExecuteChanges

----------------------------------------------------------------------------
(* What a step leaves of the invariant of its own thread. *)

(* Outside the critical section and before the loops. *)
LEMMA LoopOutside ==
  ASSUME LInv, NEW t \in Threads,
         \/ \E r \in Requests : Accept(t, r)
         \/ Receive(t) \/ send_log(t) \/ Lock(t) \/ Find(t) \/ Unlock(t) \/ Close(t)
         \/ PublishReadError(t) \/ RejectAnonymous(t)
  PROVE  LoopInv(t)'
<1> USE DEF LoopInv, Fresh, Permitted, Looping, Ended, InSection
<1>1. /\ pc \in [Threads -> Labels] /\ request \in [Threads -> Requests \cup {NoRequest}]
      /\ response \in [Threads -> 0 .. 4] /\ announced \in [Threads -> Nat]
      /\ cursor \in [Threads -> Nat \ {0}]
      /\ sent \in [Threads -> Seq(Files \cup (Names \X Endpoints))]
  BY DEF LInv, IInv, TypeOK
<1>2. LoopInv(t)
  BY DEF LInv
<1>3. CASE \E r \in Requests : Accept(t, r)
  BY <1>1, <1>2, <1>3 DEF Accept, At, Goto
<1>4. CASE Receive(t)
  BY <1>1, <1>2, <1>4 DEF Receive, At, Goto, locals
<1>5. CASE send_log(t)
  BY <1>1, <1>2, <1>5 DEF send_log, At, Goto
<1>6. CASE Lock(t)
  BY <1>1, <1>2, <1>6 DEF Lock, At, Goto, locals
<1>7. CASE Find(t)
  BY <1>1, <1>2, <1>7 DEF Find, At, Goto
<1>8. CASE Unlock(t) \/ PublishReadError(t) \/ RejectAnonymous(t)
  BY <1>1, <1>8 DEF Unlock, PublishReadError, RejectAnonymous, Goto
<1>9. CASE Close(t)
  BY <1>1, <1>9 DEF Close, Goto
<1> QED
  BY <1>3, <1>4, <1>5, <1>6, <1>7, <1>8, <1>9

(* An answer: no listing, so nothing was announced and nothing written. *)
LEMMA LoopAnswer ==
  ASSUME LInv, NEW t \in Threads, pc[t] = "apply", NEW code, Answer(t, code),
         request[t].op = "LIST_USERS" => code # 0
  PROVE  LoopInv(t)'
<1>1. /\ pc \in [Threads -> Labels] /\ response \in [Threads -> 0 .. 4]
  BY DEF LInv, IInv, TypeOK
<1>2. /\ announced[t] = 0 /\ sent[t] = <<>>
      /\ ~(request[t].op \in NeedsUser /\ request[t].username = Anonymous)
  BY DEF LInv, LoopInv, Fresh, Permitted, InSection
<1>3. /\ pc'[t] = "unlock" /\ response'[t] = code
      /\ announced'[t] = 0 /\ sent'[t] = <<>> /\ request'[t] = request[t]
  BY <1>1, <1>2 DEF Answer, Goto
<1>4. Len(<<>>) = 0
  OBVIOUS
<1>5. Ended(t)'
  BY <1>3, <1>4 DEF Ended
<1> QED
  BY <1>2, <1>3, <1>5 DEF LoopInv, Fresh, Permitted, Looping

(* The announcement: the loop starts with nothing written. *)
LEMMA LoopAnnounce ==
  ASSUME LInv, NEW t \in Threads, pc[t] = "apply", Online(t), NEW n, Announce(t, n),
         request[t].op = "LIST_USERS" => n = Cardinality(ConnectedSlots),
         request[t].op = "LIST_CONTENT" =>
           remote_index[t] # NotFound /\ n = Len(users[remote_index[t]].files)
  PROVE  LoopInv(t)'
<1>1. /\ pc \in [Threads -> Labels] /\ response \in [Threads -> 0 .. 4]
      /\ announced \in [Threads -> Nat]
  BY DEF LInv, IInv, TypeOK
<1>2. /\ cursor[t] = 1 /\ sent[t] = <<>>
      /\ ~(request[t].op \in NeedsUser /\ request[t].username = Anonymous)
  BY DEF LInv, LoopInv, Fresh, Permitted, InSection
<1>3. /\ pc'[t] = "list" /\ response'[t] = 0 /\ announced'[t] = n
      /\ UNCHANGED <<users, request, user_index, remote_index, cursor, sent>>
  BY <1>1 DEF Announce, Goto
<1>4. users \in Table
  BY SlotFound DEF LInv
<1>5. Online(t)'
  BY <1>3 DEF Online, Known
<1>6. CASE request[t].op = "LIST_USERS"
  <2>1. ConnectedSlots = ConnectedBefore(users, Len(users) + 1)
    BY <1>4, TableSlots DEF ConnectedSlots, ConnectedBefore
  <2>2. ConnectedBefore(users, 1) = {}
    BY <1>4, TableSlots DEF ConnectedBefore
  <2>3. Items(<<>>) = {} /\ Len(<<>>) = 0
    BY DEF Items
  <2>4. UsersWritten(users, 1, <<>>)
    BY <2>2, <2>3, FS_EmptySet DEF UsersWritten, EntriesBefore
  <2> QED
    BY <1>2, <1>3, <1>5, <1>6, <2>1, <2>4 DEF LoopInv, Fresh, Permitted, Looping, Ended
<1>7. CASE request[t].op = "LIST_CONTENT"
  <2>1. users[remote_index[t]].files \in Seq(Files)
    BY <1>4, <1>7, SlotFound, TableSlots DEF LInv, User
  <2>2. FilesWritten(users[remote_index[t]].files, 1, <<>>)
    BY <2>1, LenProperties DEF FilesWritten
  <2> QED
    BY <1>2, <1>3, <1>5, <1>7, <2>2 DEF LoopInv, Fresh, Permitted, Looping, Ended
<1>8. CASE request[t].op \notin {"LIST_USERS", "LIST_CONTENT"}
  BY <1>2, <1>3, <1>5, <1>8 DEF LoopInv, Fresh, Permitted, Looping, Ended
<1> QED
  BY <1>6, <1>7, <1>8

(* What one iteration of LIST_USERS adds. *)
LEMMA NextUserWritten ==
  ASSUME NEW table \in Table, NEW c \in DOMAIN table,
         NEW S, NEW s \in Seq(S), UsersWritten(table, c, s),
         NEW e \in S, e = <<table[c].username, table[c].endpoint>>
  PROVE  UsersWritten(table, c + 1,
                      s \o (IF table[c].connected THEN <<e>> ELSE <<>>))
<1>1. DOMAIN table = 1 .. Len(table) /\ Len(table) \in Nat /\ c \in 1 .. Len(table)
  BY TableSlots
<1>2. Len(s) \in Nat /\ DOMAIN s = 1 .. Len(s)
  BY LenProperties
<1>3. CASE table[c].connected
  <2> DEFINE more == s \o <<e>>
             B == ConnectedBefore(table, c)
  <2>1. <<e>> \in Seq(S) /\ Len(<<e>>) = 1 /\ <<e>>[1] = e
    OBVIOUS
  <2>2. /\ more \in Seq(S) /\ Len(more) = Len(s) + 1
        /\ \A k \in 1 .. Len(s) : more[k] = s[k]
        /\ more[Len(s) + 1] = e
    BY <1>2, <2>1, ConcatProperties
  <2>3. DOMAIN more = 1 .. Len(s) + 1
    BY <2>2, LenProperties
  <2>4. ConnectedBefore(table, c + 1) = B \cup {c} /\ c \notin B
    BY <1>1, <1>3 DEF ConnectedBefore
  <2>5. IsFiniteSet(B)
    <3>1. B \in SUBSET (1 .. Len(table))
      BY <1>1 DEF ConnectedBefore
    <3>2. IsFiniteSet(1 .. Len(table))
      BY <1>1, FS_Interval
    <3> QED
      BY <3>1, <3>2, FS_Subset
  <2> HIDE DEF more, B
  <2>6. Cardinality(B \cup {c}) = Cardinality(B) + 1
    BY <2>4, <2>5, FS_AddElement
  <2>7. Items(more) = Items(s) \cup {e}
    <3>1. ASSUME NEW x \in Items(more) PROVE x \in Items(s) \cup {e}
      <4>1. PICK k \in 1 .. Len(s) + 1 : x = more[k]
        BY <2>3 DEF Items
      <4>2. CASE k = Len(s) + 1
        BY <2>2, <4>1, <4>2
      <4>3. CASE k # Len(s) + 1
        <5>1. k \in 1 .. Len(s)
          BY <1>2, <4>3
        <5> QED
          BY <1>2, <2>2, <4>1, <5>1 DEF Items
      <4> QED
        BY <4>2, <4>3
    <3>2. ASSUME NEW x \in Items(s) PROVE x \in Items(more)
      <4>1. PICK k \in 1 .. Len(s) : x = s[k]
        BY <1>2 DEF Items
      <4>2. k \in 1 .. Len(s) + 1 /\ x = more[k]
        BY <1>2, <2>2, <4>1
      <4> QED
        BY <2>3, <4>2 DEF Items
    <3>3. e \in Items(more)
      <4>1. Len(s) + 1 \in 1 .. Len(s) + 1
        BY <1>2
      <4> QED
        BY <2>2, <2>3, <4>1 DEF Items
    <3> QED
      BY <3>1, <3>2, <3>3
  <2>8. EntriesBefore(table, c + 1) = EntriesBefore(table, c) \cup {e}
    BY <2>4 DEF EntriesBefore, B
  <2>9. UsersWritten(table, c + 1, more)
    BY <2>2, <2>4, <2>6, <2>7, <2>8 DEF UsersWritten, B
  <2> QED
    BY <1>3, <2>9 DEF more
<1>4. CASE ~table[c].connected
  <2>1. ConnectedBefore(table, c + 1) = ConnectedBefore(table, c)
    BY <1>1, <1>4 DEF ConnectedBefore
  <2>2. s \o <<>> = s
    BY ConcatEmptySeq
  <2> QED
    BY <1>4, <2>1, <2>2 DEF UsersWritten, EntriesBefore
<1> QED
  BY <1>3, <1>4

LEMMA LoopNextUser ==
  ASSUME LInv, NEW t \in Threads, ListNextUser(t)
  PROVE  LoopInv(t)'
<1> DEFINE c == cursor[t]
           S == Files \cup (Names \X Endpoints)
           writes == IF users[c].connected THEN <<Entry(c)>> ELSE <<>>
<1>1. pc[t] = "list" /\ request[t].op = "LIST_USERS" /\ Iterate(t, Len(users), writes)
  BY DEF ListNextUser, At
<1>2. users \in Table /\ c \in Nat \ {0} /\ c <= Len(users) /\ sent[t] \in Seq(S)
  BY <1>1, SlotFound DEF LInv, IInv, TypeOK, Iterate
<1>3. c \in DOMAIN users
  BY <1>2, TableSlots
<1>4. Entry(c) \in S
  BY <1>2, <1>3, TableSlots DEF Entry, User
<1>5. /\ LoopInv(t)
      /\ UsersWritten(users, c, sent[t])
  BY <1>1 DEF LInv, LoopInv, Looping
<1>6. UsersWritten(users, c + 1, sent[t] \o writes)
  <2> HIDE DEF S, c
  <2> QED
    BY <1>2, <1>3, <1>4, <1>5, NextUserWritten DEF Entry
<1>7. cursor \in [Threads -> Nat \ {0}] /\ sent \in [Threads -> Seq(S)]
  BY DEF LInv, IInv, TypeOK
<1>8. /\ cursor'[t] = c + 1 /\ sent'[t] = sent[t] \o writes
      /\ UNCHANGED <<users, pc, request, user_index, remote_index, response, announced>>
  BY <1>1, <1>7 DEF Iterate
<1> HIDE DEF writes, c, S
<1>9. UsersWritten(users', cursor'[t], sent'[t])
  BY <1>6, <1>8
<1>10. Looping(t)'
  BY <1>1, <1>5, <1>8, <1>9 DEF LoopInv, Looping, Online, Known
<1> QED
  BY <1>1, <1>5, <1>8, <1>10 DEF LoopInv, Fresh, Permitted, Ended, InSection

(* What one iteration of LIST_CONTENT adds. *)
LEMMA NextFileWritten ==
  ASSUME NEW files \in Seq(Files), NEW c \in DOMAIN files,
         NEW S, NEW s \in Seq(S), FilesWritten(files, c, s), files[c] \in S
  PROVE  FilesWritten(files, c + 1, s \o <<files[c]>>)
<1> DEFINE e == files[c]
           more == s \o <<e>>
<1>1. Len(files) \in Nat /\ c \in 1 .. Len(files)
  BY LenProperties
<1>2. Len(s) = c - 1 /\ \A k \in 1 .. c - 1 : s[k] = files[k]
  BY DEF FilesWritten
<1> HIDE DEF e
<1>3. e \in S
  BY DEF e
<1>4. <<e>> \in Seq(S) /\ Len(<<e>>) = 1 /\ <<e>>[1] = e
  BY <1>3
<1>5. /\ Len(more) = c
      /\ \A k \in 1 .. c - 1 : more[k] = s[k]
      /\ more[c] = e
  BY <1>1, <1>2, <1>4, ConcatProperties
<1>6. ASSUME NEW k \in 1 .. c PROVE more[k] = files[k]
  <2>1. CASE k = c
    BY <1>5, <2>1 DEF e
  <2>2. CASE k # c
    <3>1. k \in 1 .. c - 1
      BY <1>1, <2>2
    <3> QED
      BY <1>2, <1>5, <3>1
  <2> QED
    BY <2>1, <2>2
<1> QED
  BY <1>1, <1>5, <1>6 DEF FilesWritten, e

LEMMA LoopNextFile ==
  ASSUME LInv, NEW t \in Threads, ListNextFile(t)
  PROVE  LoopInv(t)'
<1> DEFINE c == cursor[t]
           S == Files \cup (Names \X Endpoints)
           files == users[remote_index[t]].files
<1>1. pc[t] = "list" /\ request[t].op = "LIST_CONTENT"
      /\ Iterate(t, Len(files), <<files[c]>>)
  BY DEF ListNextFile, At
<1>2. remote_index[t] # NotFound
  BY <1>1 DEF LInv, IInv, ListingLoop
<1>3. files \in Seq(Files)
  BY <1>1, <1>2, SlotFound, TableSlots DEF LInv, User
<1>4. c \in Nat \ {0} /\ c <= Len(files) /\ sent[t] \in Seq(S)
  BY <1>1 DEF LInv, IInv, TypeOK, Iterate
<1>5. c \in DOMAIN files
  BY <1>3, <1>4, LenProperties
<1>6. files[c] \in S
  BY <1>3, <1>5, ElementOfSeq, LenProperties
<1>7. LoopInv(t) /\ FilesWritten(files, c, sent[t])
  BY <1>1 DEF LInv, LoopInv, Looping
<1>8. cursor \in [Threads -> Nat \ {0}] /\ sent \in [Threads -> Seq(S)]
  BY DEF LInv, IInv, TypeOK
<1>9. /\ cursor'[t] = c + 1 /\ sent'[t] = sent[t] \o <<files[c]>>
      /\ UNCHANGED <<users, pc, request, user_index, remote_index, response, announced>>
  BY <1>1, <1>8 DEF Iterate
<1> HIDE DEF c, S
<1>10. FilesWritten(files, c + 1, sent[t] \o <<files[c]>>)
  <2> HIDE DEF files
  <2> QED
    BY <1>3, <1>4, <1>5, <1>6, <1>7, NextFileWritten
<1>11. FilesWritten(users'[remote_index'[t]].files, cursor'[t], sent'[t])
  BY <1>9, <1>10
<1>12. Looping(t)'
  BY <1>1, <1>7, <1>9, <1>11 DEF LoopInv, Looping, Online, Known
<1> QED
  BY <1>1, <1>7, <1>9, <1>12 DEF LoopInv, Fresh, Permitted, Ended, InSection

(* When a loop ends, the listing is complete. *)
LEMMA ListingComplete ==
  ASSUME LInv, NEW t \in Threads, ListEnd(t)
  PROVE  /\ announced[t] = Len(sent[t])
         /\ request[t].op = "LIST_USERS" =>
              Items(sent[t]) = EntriesBefore(users, Len(users) + 1)
         /\ request[t].op = "LIST_CONTENT" =>
              sent[t] = users[remote_index[t]].files
<1>1. pc[t] = "list" /\ LoopInv(t) /\ IInv
  BY DEF ListEnd, At, LInv
<1>2. users \in Table /\ cursor[t] \in Nat
      /\ sent[t] \in Seq(Files \cup (Names \X Endpoints))
  BY <1>1, SlotFound DEF IInv, TypeOK
<1>3. request[t].op \in {"LIST_USERS", "LIST_CONTENT"}
  BY <1>1 DEF IInv, ListingLoop
<1>4. CASE request[t].op = "LIST_USERS"
  <2>1. cursor[t] > Len(users)
    BY <1>4 DEF ListEnd
  <2>2. ConnectedBefore(users, cursor[t]) = ConnectedBefore(users, Len(users) + 1)
    BY <1>2, <2>1, TableSlots DEF ConnectedBefore
  <2>3. UsersWritten(users, cursor[t], sent[t])
        /\ announced[t] = Cardinality(ConnectedBefore(users, Len(users) + 1))
    BY <1>1, <1>4 DEF LoopInv, Looping
  <2> QED
    BY <1>4, <2>2, <2>3 DEF UsersWritten, EntriesBefore
<1>5. CASE request[t].op = "LIST_CONTENT"
  <2> DEFINE files == users[remote_index[t]].files
             s == sent[t]
  <2>1. files \in Seq(Files)
    BY <1>1, <1>5, SlotFound, TableSlots DEF IInv, ListingLoop, User
  <2>2. cursor[t] > Len(files)
    BY <1>5 DEF ListEnd
  <2>3. FilesWritten(files, cursor[t], s) /\ announced[t] = Len(files)
    BY <1>1, <1>5 DEF LoopInv, Looping
  <2>4. s \in Seq(Files \cup (Names \X Endpoints)) /\ cursor[t] \in Nat
    BY <1>2
  <2> HIDE DEF files, s
  <2>5. Len(files) \in Nat /\ cursor[t] = Len(files) + 1 /\ Len(s) = Len(files)
    BY <2>1, <2>2, <2>3, <2>4, LenProperties DEF FilesWritten
  <2>6. \A k \in 1 .. Len(s) : s[k] = files[k]
    BY <2>3, <2>5 DEF FilesWritten
  <2>7. s = files
    BY <2>1, <2>4, <2>5, <2>6, SeqEqual
  <2> QED
    BY <1>5, <2>3, <2>5, <2>7 DEF files, s
<1> QED
  BY <1>3, <1>4, <1>5

LEMMA LoopEnd ==
  ASSUME LInv, NEW t \in Threads, ListEnd(t)
  PROVE  LoopInv(t)'
<1>1. LoopInv(t) /\ pc \in [Threads -> Labels]
  BY DEF LInv, IInv, TypeOK
<1>2. /\ pc[t] = "list" /\ pc'[t] = "unlock"
      /\ UNCHANGED <<users, request, response, announced, sent>>
  BY <1>1 DEF ListEnd, At, Goto, locals
<1> QED
  BY <1>1, <1>2, ListingComplete
  DEF LoopInv, Fresh, Permitted, Looping, Ended, InSection

----------------------------------------------------------------------------
LEMMA LoopsInitially == Init => LInv
<1> SUFFICES ASSUME Init PROVE LInv
  OBVIOUS
<1>1. \A t \in Threads : LoopInv(t)
  BY DEF Init, LoopInv, Fresh, Permitted, Looping, Ended, InSection
<1> QED
  BY <1>1, Initially DEF LInv

(* The own step of a thread. *)
LEMMA OwnLoop ==
  ASSUME LInv, NEW t \in Threads, Handle(t) \/ Client(t)
  PROVE  LoopInv(t)'
<1>1. ASSUME NEW code \in 1 .. 4, pc[t] = "apply", Refuse(t, code) PROVE LoopInv(t)'
  BY <1>1, LoopAnswer DEF Refuse
<1>2. ASSUME NEW op \in {"REGISTER", "UNREGISTER", "CONNECT", "DISCONNECT", "PUBLISH", "DELETE"},
             NEW code, Executes(t, op), Answer(t, code)
      PROVE  LoopInv(t)'
  BY <1>2, LoopAnswer DEF Executes, At
<1>3. CASE Register(t) \/ Unregister(t) \/ Connect(t) \/ Disconnect(t)
  BY <1>2, <1>3 DEF Register, Unregister, Connect, Disconnect, Refuse
<1>4. CASE Publish(t) \/ Delete(t)
  BY <1>2, <1>4 DEF Publish, Delete, Refuse
<1>5. CASE ListUsers(t)
  <2>1. pc[t] = "apply" /\ request[t].op = "LIST_USERS"
    BY <1>5 DEF ListUsers, Executes, At
  <2>2. CASE Refuse(t, 1) \/ Refuse(t, 2)
    BY <1>1, <2>1, <2>2
  <2>3. CASE Online(t) /\ Announce(t, Cardinality(ConnectedSlots))
    BY <2>1, <2>3, LoopAnnounce
  <2> QED
    BY <1>5, <2>2, <2>3 DEF ListUsers
<1>6. CASE ListContent(t)
  <2>1. pc[t] = "apply" /\ request[t].op = "LIST_CONTENT"
    BY <1>6 DEF ListContent, Executes, At
  <2>2. CASE Refuse(t, 1) \/ Refuse(t, 2) \/ Refuse(t, 3)
    BY <1>1, <2>1, <2>2
  <2>3. CASE /\ Online(t) /\ remote_index[t] # NotFound
             /\ Announce(t, Len(users[remote_index[t]].files))
    BY <2>1, <2>3, LoopAnnounce
  <2> QED
    BY <1>6, <2>2, <2>3 DEF ListContent
<1>7. CASE Execute(t)
  BY <1>3, <1>4, <1>5, <1>6, <1>7 DEF Execute
<1>8. CASE ListNextUser(t) \/ ListNextFile(t) \/ ListEnd(t)
  BY <1>8, LoopNextUser, LoopNextFile, LoopEnd
<1> QED
  BY <1>7, <1>8, LoopOutside DEF Handle, Work, WriteEntry, Client, Reply, ReadError, PeerLost

LEMMA LoopsInductive == LInv /\ [Next]_vars => LInv'
<1> SUFFICES ASSUME LInv, [Next]_vars PROVE LInv'
  OBVIOUS
<1>1. IInv'
  BY Inductive DEF LInv
<1>2. ASSUME NEW t \in Threads, Handle(t) \/ Client(t), NEW s \in Threads
      PROVE  LoopInv(s)'
  BY <1>2, OtherLoops, OwnLoop
<1>3. ASSUME UNCHANGED vars, NEW s \in Threads
      PROVE  LoopInv(s)'
  BY <1>3
  DEF LInv, LoopInv, Fresh, Permitted, Looping, Ended, InSection, Online, Known,
      vars, locals
<1> QED
  BY <1>1, <1>2, <1>3 DEF Next, LInv

THEOREM LoopInvariant == Spec => []LInv
BY LoopsInitially, LoopsInductive, PTL DEF Spec

(* Every listing has the number of entries it announced, and a LIST_USERS  *)
(* names exactly the users connected when it ends, at their endpoints.     *)
THEOREM ListingsStayTruthful == Spec => []ListingTruthful
<1>1. LInv => ListingTruthful
  <2> SUFFICES ASSUME LInv, NEW t \in Threads, pc[t] = "unlock"
               PROVE  /\ announced[t] = Len(sent[t])
                      /\ request[t].op = "LIST_USERS" /\ response[t] = 0 =>
                           Items(sent[t]) = {Entry(i) : i \in ConnectedSlots}
    BY DEF ListingTruthful
  <2>1. Ended(t)
    BY DEF LInv, LoopInv
  <2>2. users \in Table
    BY DEF LInv, IInv, TypeOK
  <2>3. EntriesBefore(users, Len(users) + 1) = {Entry(i) : i \in ConnectedSlots}
    BY <2>2, TableSlots DEF EntriesBefore, ConnectedBefore, ConnectedSlots, Entry
  <2> QED
    BY <2>1, <2>3 DEF Ended
<1> QED
  BY <1>1, LoopInvariant, PTL

----------------------------------------------------------------------------
(* The mapping of steps. *)

(* A step of t changes what the directory sees of t only. *)
LEMMA OneCallerMoves ==
  ASSUME NEW t \in Threads, Elsewhere(t)
  PROVE  /\ Phases' = [Phases EXCEPT ![t] = Phase(t)']
         /\ Replies' = [Replies EXCEPT ![t] = ReplyTo(t)']
<1>1. ASSUME NEW s \in Threads \ {t}
      PROVE  Phase(s)' = Phase(s) /\ ReplyTo(s)' = ReplyTo(s)
  <2>1. /\ pc'[s] = pc[s] /\ request'[s] = request[s]
        /\ response'[s] = response[s] /\ sent'[s] = sent[s]
    BY DEF Elsewhere
  <2>2. Phase(s)' = Phase(s)
    BY <2>1 DEF Phase
  <2>3. Listing(s)' = Listing(s)
    BY <2>1 DEF Listing
  <2> QED
    BY <2>1, <2>2, <2>3 DEF ReplyTo
<1>2. Phases' = [Phases EXCEPT ![t] = Phase(t)']
  BY <1>1 DEF Phases
<1>3. Replies' = [Replies EXCEPT ![t] = ReplyTo(t)']
  BY <1>1 DEF Replies
<1> QED
  BY <1>2, <1>3

(* A step the directory does not see. *)
LEMMA Stutters ==
  ASSUME NEW t \in Threads, Elsewhere(t), UNCHANGED <<users, request>>,
         Phase(t)' = Phase(t), ReplyTo(t)' = ReplyTo(t)
  PROVE  UNCHANGED Dir!dirvars
<1>1. Phases' = [Phases EXCEPT ![t] = Phase(t)] /\ Phases[t] = Phase(t)
  BY OneCallerMoves DEF Phases
<1>2. Replies' = [Replies EXCEPT ![t] = ReplyTo(t)] /\ Replies[t] = ReplyTo(t)
  BY OneCallerMoves DEF Replies
<1>3. Phases' = Phases /\ Replies' = Replies
  BY <1>1, <1>2 DEF Phases, Replies
<1> QED
  BY <1>3 DEF Dir!dirvars

(* The step at which a request takes effect fixes its answer. *)
LEMMA Answers ==
  ASSUME NEW t \in Threads, Elsewhere(t), UNCHANGED request,
         pc'[t] \in {"unlock", "reply"},
         NEW code, response'[t] = code, NEW listing, Listing(t)' = listing
  PROVE  Dir!Answer(t, code, listing)
<1>1. Phase(t)' = "done"
  BY DEF Phase
<1>2. ReplyTo(t)' = [code |-> code, listing |-> listing]
  BY <1>1 DEF ReplyTo
<1>3. /\ Phases' = [Phases EXCEPT ![t] = "done"]
      /\ Replies' = [Replies EXCEPT ![t] = [code |-> code, listing |-> listing]]
  BY <1>1, <1>2, OneCallerMoves
<1> QED
  BY <1>3 DEF Dir!Answer

(* The connection ends. *)
LEMMA Returns ==
  ASSUME LInv, NEW t \in Threads, Elsewhere(t), pc[t] # "idle", Close(t)
  PROVE  Dir!Return(t)
<1>1. pc'[t] = "idle" /\ request' = [request EXCEPT ![t] = NoRequest]
  BY DEF LInv, IInv, TypeOK, Close, Goto
<1>2. Phase(t)' = "idle" /\ ReplyTo(t)' = [code |-> 0, listing |-> {}]
  BY <1>1 DEF Phase, ReplyTo
<1>3. Phases[t] # "idle"
  BY DEF Phases, Phase
<1>4. /\ Phases' = [Phases EXCEPT ![t] = "idle"]
      /\ Replies' = [Replies EXCEPT ![t] = [code |-> 0, listing |-> {}]]
  BY <1>2, OneCallerMoves
<1>5. UNCHANGED users
  BY DEF Close
<1> QED
  BY <1>1, <1>3, <1>4, <1>5 DEF Dir!Return, Dir!NoRequest, Dir!NoReply, NoRequest

(* The caller of a thread that executes, as the directory knows it. *)
LEMMA CallerEntry ==
  ASSUME LInv, NEW t \in Threads, pc[t] \in {"apply", "list"}
  PROVE  /\ Phases[t] = "pending"
         /\ Dir!Caller(t) = request[t].username /\ request[t].username \in Names
         /\ request[t].op \in NeedsUser => request[t].username # Anonymous
         /\ Dir!Caller(t) \in RegisteredIn(users) <=> Known(t)
         /\ Dir!IsOnline(Dir!Caller(t)) <=> Online(t)
         /\ Known(t) => /\ user_index[t] \in DOMAIN users
                        /\ users[user_index[t]].username = request[t].username
<1> DEFINE n == request[t].username
           i == user_index[t]
<1>1. Phases[t] = "pending"
  BY DEF Phases, Phase
<1>2. Dir!Caller(t) = n
  BY DEF Dir!Caller
<1>3. users \in Table /\ Unique(users) /\ request[t] \in Requests
  BY SlotFound DEF LInv
<1>4. n \in Names
  BY <1>3, RequestFields
<1>5. request[t].op \in NeedsUser => n # Anonymous
  BY DEF LInv, LoopInv, Permitted, InSection
<1>6. i = find_user(users, n)
  BY DEF LInv, IInv, IndexFresh
<1>7. Known(t) => i \in DOMAIN users /\ users[i].username = n
  BY <1>3, <1>6, FindUser DEF Known
<1>8. n \in RegisteredIn(users) <=> Known(t)
  BY <1>3, <1>6, RegisteredFound DEF Known
<1>9. Known(t) => users[i].endpoint \in Endpoints
  BY <1>3, <1>7, TableSlots DEF User
<1>10. OnlineIn(users)[n] = IF Online(t) THEN users[i].endpoint ELSE Offline
  BY <1>4, <1>6 DEF OnlineIn, EndpointOf, Online, Known
<1>11. OnlineIn(users)[n] # Offline <=> Online(t)
  BY <1>9, <1>10, OfflineIsNoEndpoint DEF Online
<1>12. Dir!IsOnline(Dir!Caller(t)) <=> Online(t)
  BY <1>2, <1>11 DEF Dir!IsOnline
<1> QED
  BY <1>1, <1>2, <1>4, <1>5, <1>7, <1>8, <1>12

(* An answer given while the mutex is held. *)
LEMMA AnswerMaps ==
  ASSUME LInv, NEW t \in Threads, Elsewhere(t), NEW code, Answer(t, code),
         request[t].op \in {"LIST_USERS", "LIST_CONTENT"} => code # 0
  PROVE  Dir!Answer(t, code, {})
<1>1. pc'[t] = "unlock" /\ response'[t] = code /\ request' = request
  BY DEF LInv, IInv, TypeOK, Answer, Goto
<1>2. Listing(t)' = {}
  BY <1>1 DEF Listing
<1> QED
  BY <1>1, <1>2, Answers

LEMMA RefuseMaps ==
  ASSUME LInv, NEW t \in Threads, Elsewhere(t), NEW code, Refuse(t, code), code # 0
  PROVE  Dir!Refuse(t, code)
<1>1. Answer(t, code) /\ UNCHANGED users
  BY DEF Refuse
<1>2. Dir!Answer(t, code, {})
  BY <1>1, AnswerMaps
<1> QED
  BY <1>1, <1>2 DEF Dir!Refuse

(* Each operation takes effect at the step that executes it. *)

LEMMA RegisterMaps ==
  ASSUME LInv, NEW t \in Threads, Elsewhere(t), Register(t)
  PROVE  Dir!Register(t)
<1>1. pc[t] = "apply" /\ request[t].op = "REGISTER"
  BY DEF Register, Executes, At
<1>2. /\ Dir!Pending(t, "REGISTER")
      /\ Dir!Caller(t) = request[t].username /\ request[t].username \in Names
      /\ Dir!Caller(t) \in RegisteredIn(users) <=> Known(t)
  BY <1>1, CallerEntry DEF Dir!Pending
<1>3. CASE Known(t) /\ Refuse(t, 1)
  BY <1>2, <1>3, RefuseMaps DEF Dir!Register
<1>4. CASE ~Known(t) /\ Answer(t, 0)
  <2>1. Dir!Answer(t, 0, {})
    BY <1>1, <1>4, AnswerMaps
  <2>2. CASE \E stale \in Endpoints : users' = add_user(users, request[t].username, stale)
    <3>1. /\ users \in Table /\ Unique(users)
          /\ find_user(users, request[t].username) = NotFound
      BY <1>1, <1>4, SlotFound DEF LInv
    <3>2. /\ RegisteredIn(users') = RegisteredIn(users) \cup {request[t].username}
          /\ OnlineIn(users') = OnlineIn(users)
          /\ PublishedIn(users') = PublishedIn(users)
      BY <1>2, <2>2, <3>1, AddUserEntry
    <3> QED
      BY <1>2, <1>4, <2>1, <3>2 DEF Dir!Register
  <2>3. CASE AllocFails /\ UNCHANGED users
    BY <1>2, <1>4, <2>1, <2>3 DEF Dir!Register, Dir!Refuse
  <2> QED
    BY <1>3, <1>4, <2>2, <2>3 DEF Register
<1> QED
  BY <1>3, <1>4 DEF Register

LEMMA UnregisterMaps ==
  ASSUME LInv, NEW t \in Threads, Elsewhere(t), Unregister(t)
  PROVE  Dir!Unregister(t)
<1>1. pc[t] = "apply" /\ request[t].op = "UNREGISTER"
  BY DEF Unregister, Executes, At
<1>2. /\ Dir!Pending(t, "UNREGISTER")
      /\ Dir!Caller(t) = request[t].username /\ request[t].username \in Names
      /\ Dir!Caller(t) \in RegisteredIn(users) <=> Known(t)
  BY <1>1, CallerEntry DEF Dir!Pending
<1>3. CASE ~Known(t) /\ Refuse(t, 1)
  BY <1>2, <1>3, RefuseMaps DEF Dir!Unregister
<1>4. CASE /\ Known(t) /\ Answer(t, 0)
           /\ users' = remove_user(users, request[t].username)
  <2>1. Dir!Answer(t, 0, {})
    BY <1>1, <1>4, AnswerMaps
  <2>2. /\ users \in Table /\ Unique(users)
        /\ find_user(users, request[t].username) # NotFound
    BY <1>1, <1>2, <1>4, SlotFound, RegisteredFound DEF LInv
  <2>3. /\ RegisteredIn(users') = RegisteredIn(users) \ {request[t].username}
        /\ OnlineIn(users') = [OnlineIn(users) EXCEPT ![request[t].username] = Offline]
        /\ PublishedIn(users') = [PublishedIn(users) EXCEPT ![request[t].username] = NoCopies]
    BY <1>2, <1>4, <2>2, RemoveUserEntry
  <2> QED
    BY <1>2, <1>4, <2>1, <2>3 DEF Dir!Unregister, Dir!NoFiles, NoCopies
<1> QED
  BY <1>3, <1>4 DEF Unregister

LEMMA ConnectMaps ==
  ASSUME LInv, NEW t \in Threads, Elsewhere(t), Connect(t)
  PROVE  Dir!Connect(t)
<1> DEFINE n == request[t].username
           i == user_index[t]
           e == request[t].endpoint
<1>1. pc[t] = "apply" /\ request[t].op = "CONNECT"
  BY DEF Connect, Executes, At
<1>2. /\ Dir!Pending(t, "CONNECT") /\ Dir!Caller(t) = n
      /\ Dir!Caller(t) \in RegisteredIn(users) <=> Known(t)
      /\ Dir!IsOnline(Dir!Caller(t)) <=> Online(t)
      /\ Known(t) => i \in DOMAIN users /\ users[i].username = n
  BY <1>1, CallerEntry DEF Dir!Pending
<1>3. CASE \/ ~Known(t) /\ Refuse(t, 1)
           \/ Online(t) /\ Refuse(t, 2)
  BY <1>2, <1>3, RefuseMaps DEF Dir!Connect
<1>4. CASE /\ Known(t) /\ ~Online(t) /\ Answer(t, 0)
           /\ users' = connect_user(users, i, e)
  <2>1. Dir!Answer(t, 0, {})
    BY <1>1, <1>4, AnswerMaps
  <2>2. users \in Table /\ Unique(users) /\ e \in Endpoints
    BY <1>1, SlotFound, RequestFields DEF LInv
  <2>3. /\ RegisteredIn(users') = RegisteredIn(users)
        /\ OnlineIn(users') = [OnlineIn(users) EXCEPT ![n] = e]
        /\ PublishedIn(users') = PublishedIn(users)
    BY <1>2, <1>4, <2>2, ConnectEntry
  <2> QED
    BY <1>2, <1>4, <2>1, <2>3 DEF Dir!Connect
<1> QED
  BY <1>3, <1>4 DEF Connect

LEMMA DisconnectMaps ==
  ASSUME LInv, NEW t \in Threads, Elsewhere(t), Disconnect(t)
  PROVE  Dir!Disconnect(t)
<1> DEFINE n == request[t].username
           i == user_index[t]
<1>1. pc[t] = "apply" /\ request[t].op = "DISCONNECT"
  BY DEF Disconnect, Executes, At
<1>2. /\ Dir!Pending(t, "DISCONNECT") /\ Dir!Caller(t) = n
      /\ Dir!Caller(t) \in RegisteredIn(users) <=> Known(t)
      /\ Dir!IsOnline(Dir!Caller(t)) <=> Online(t)
      /\ Known(t) => i \in DOMAIN users /\ users[i].username = n
  BY <1>1, CallerEntry DEF Dir!Pending
<1>3. CASE \/ ~Known(t) /\ Refuse(t, 1)
           \/ Known(t) /\ ~Online(t) /\ Refuse(t, 2)
  BY <1>2, <1>3, RefuseMaps DEF Dir!Disconnect
<1>4. CASE /\ Online(t) /\ Answer(t, 0)
           /\ users' = disconnect_user(users, i)
  <2>1. Dir!Answer(t, 0, {})
    BY <1>1, <1>4, AnswerMaps
  <2>2. users \in Table /\ Unique(users)
    BY <1>1, SlotFound DEF LInv
  <2>3. i \in DOMAIN users /\ users[i].username = n
    BY <1>2, <1>4 DEF Online
  <2>4. PICK e \in Endpoints : TRUE
    BY ServerAssumption
  <2>5. /\ RegisteredIn(users') = RegisteredIn(users)
        /\ OnlineIn(users') = [OnlineIn(users) EXCEPT ![n] = Offline]
        /\ PublishedIn(users') = PublishedIn(users)
    BY <1>4, <2>2, <2>3, <2>4, ConnectEntry
  <2> QED
    BY <1>2, <1>4, <2>1, <2>5 DEF Dir!Disconnect
<1> QED
  BY <1>3, <1>4 DEF Disconnect

(* The four content requests are refused alike. *)
LEMMA DeniedMaps ==
  ASSUME LInv, NEW t \in Threads, Elsewhere(t), pc[t] = "apply",
         \/ ~Known(t) /\ Refuse(t, 1)
         \/ Known(t) /\ ~Online(t) /\ Refuse(t, 2)
  PROVE  Dir!Denied(t)
<1>1. /\ Dir!Caller(t) \in RegisteredIn(users) <=> Known(t)
      /\ Dir!IsOnline(Dir!Caller(t)) <=> Online(t)
  BY CallerEntry
<1> QED
  BY <1>1, RefuseMaps DEF Dir!Denied

(* What a content request that is served finds in the directory. *)
LEMMA AdmittedMaps ==
  ASSUME LInv, NEW t \in Threads, pc[t] \in {"apply", "list"}, Online(t),
         request[t].op \in NeedsUser
  PROVE  /\ Dir!Admitted(t) /\ Dir!Caller(t) = request[t].username
         /\ user_index[t] \in DOMAIN users
         /\ users[user_index[t]].username = request[t].username
         /\ \A f \in Files : PublishedIn(users)[Dir!Caller(t)][f] =
                              Copies(users[user_index[t]].files, f)
<1> DEFINE n == request[t].username
           i == user_index[t]
<1>1. /\ Dir!Caller(t) = n /\ n \in Names /\ n # Anonymous
      /\ Dir!IsOnline(Dir!Caller(t))
      /\ i \in DOMAIN users /\ users[i].username = n
  BY CallerEntry DEF Online
<1>2. users \in Table /\ Unique(users)
  BY SlotFound DEF LInv
<1>3. CopiesOf(users, n) = [f \in Files |-> Copies(users[i].files, f)]
  BY <1>1, <1>2, SlotEntry
<1>4. \A f \in Files : PublishedIn(users)[n][f] = Copies(users[i].files, f)
  BY <1>1, <1>3 DEF PublishedIn
<1>5. Dir!Admitted(t)
  BY <1>1 DEF Dir!Admitted
<1> QED
  BY <1>1, <1>4, <1>5

LEMMA PublishMaps ==
  ASSUME LInv, NEW t \in Threads, Elsewhere(t), Publish(t)
  PROVE  Dir!Publish(t)
<1> DEFINE i == user_index[t]
           f == request[t].filename
           n == request[t].username
           found == file_index(users, i, f)
           copies == PublishedIn(users)[Dir!Caller(t)][f]
<1>1. pc[t] = "apply" /\ request[t].op = "PUBLISH"
  BY DEF Publish, Executes, At
<1>2. Dir!Pending(t, "PUBLISH")
  BY <1>1, CallerEntry DEF Dir!Pending
<1>3. CASE \/ ~Known(t) /\ Refuse(t, 1)
           \/ Known(t) /\ ~Online(t) /\ Refuse(t, 2)
  <2>1. Dir!Denied(t)
    BY <1>1, <1>3, DeniedMaps
  <2> QED
    BY <1>2, <2>1 DEF Dir!Publish
<1>4. CASE Refuse(t, 4)
  <2>1. Dir!Refuse(t, 4)
    BY <1>4, RefuseMaps
  <2> QED
    BY <1>2, <2>1 DEF Dir!Publish
<1>5. CASE /\ Online(t) /\ Answer(t, IF found = NotFound THEN 0 ELSE 3)
           /\ users' = add_file(users, i, f)
  <2>1. users \in Table /\ Unique(users) /\ f \in Files
    BY <1>1, SlotFound, RequestFields DEF LInv
  <2>2. /\ Dir!Admitted(t) /\ Dir!Caller(t) = n
        /\ i \in DOMAIN users /\ users[i].username = n
        /\ copies = Copies(users[i].files, f)
    BY <1>1, <1>5, <2>1, AdmittedMaps DEF NeedsUser
  <2>3. found = NotFound <=> copies = 0
    BY <2>1, <2>2, FileIndex
  <2>4. Dir!Answer(t, IF copies = 0 THEN 0 ELSE 3, {})
    BY <1>1, <1>5, <2>3, AnswerMaps
  <2>5. /\ RegisteredIn(users') = RegisteredIn(users)
        /\ OnlineIn(users') = OnlineIn(users)
        /\ PublishedIn(users') = [PublishedIn(users) EXCEPT ![n][f] = copies + 1]
    BY <1>5, <2>1, <2>2, AddFileEntry
  <2> HIDE DEF i, f, n, found
  <2> QED
    BY <1>2, <2>2, <2>4, <2>5 DEF Dir!Publish, f, n
<1> QED
  BY <1>3, <1>4, <1>5 DEF Publish

LEMMA DeleteMaps ==
  ASSUME LInv, NEW t \in Threads, Elsewhere(t), Delete(t)
  PROVE  Dir!Delete(t)
<1> DEFINE i == user_index[t]
           f == request[t].filename
           n == request[t].username
           found == file_index(users, i, f)
           copies == PublishedIn(users)[Dir!Caller(t)][f]
<1>1. pc[t] = "apply" /\ request[t].op = "DELETE"
  BY DEF Delete, Executes, At
<1>2. Dir!Pending(t, "DELETE")
  BY <1>1, CallerEntry DEF Dir!Pending
<1>3. CASE \/ ~Known(t) /\ Refuse(t, 1)
           \/ Known(t) /\ ~Online(t) /\ Refuse(t, 2)
  <2>1. Dir!Denied(t)
    BY <1>1, <1>3, DeniedMaps
  <2> QED
    BY <1>2, <2>1 DEF Dir!Delete
<1>4. CASE /\ Online(t) /\ Answer(t, IF found = NotFound THEN 3 ELSE 0)
           /\ users' = remove_file(users, i, f)
  <2>1. users \in Table /\ Unique(users) /\ f \in Files
    BY <1>1, SlotFound, RequestFields DEF LInv
  <2>2. /\ Dir!Admitted(t) /\ Dir!Caller(t) = n
        /\ i \in DOMAIN users /\ users[i].username = n
        /\ copies = Copies(users[i].files, f)
    BY <1>1, <1>4, <2>1, AdmittedMaps DEF NeedsUser
  <2>3. found = NotFound <=> copies = 0
    BY <2>1, <2>2, FileIndex
  <2>4. CASE found = NotFound
    <3>1. users' = users
      BY <1>4, <2>4 DEF remove_file
    <3>2. Dir!Answer(t, 3, {})
      BY <1>1, <1>4, <2>4, AnswerMaps
    <3> QED
      BY <1>2, <2>2, <2>3, <2>4, <3>1, <3>2 DEF Dir!Delete, Dir!Refuse
  <2>5. CASE found # NotFound
    <3>1. Dir!Answer(t, 0, {})
      BY <1>1, <1>4, <2>5, AnswerMaps
    <3>2. /\ RegisteredIn(users') = RegisteredIn(users)
          /\ OnlineIn(users') = OnlineIn(users)
          /\ PublishedIn(users') = [PublishedIn(users) EXCEPT ![n][f] = copies - 1]
      BY <1>4, <2>1, <2>2, <2>5, RemoveFileEntry
    <3>3. copies > 0
      <4>1. users[i].files \in Seq(Files)
        BY <2>1, <2>2, TableSlots DEF User
      <4>2. Copies(users[i].files, f) \in Nat
        BY <4>1, CopiesFinite
      <4> QED
        BY <2>2, <2>3, <2>5, <4>2
    <3> HIDE DEF i, f, n, found
    <3> QED
      BY <1>2, <2>2, <3>1, <3>2, <3>3 DEF Dir!Delete, f, n
  <2> QED
    BY <2>4, <2>5
<1> QED
  BY <1>3, <1>4 DEF Delete

----------------------------------------------------------------------------
(* The listings take effect when their loop ends. *)

(* The connected slots are the online users of the directory. *)
LEMMA OnlineEntries ==
  ASSUME IInv
  PROVE  Dir!OnlineUsers = EntriesBefore(users, Len(users) + 1)
<1>1. users \in Table /\ Unique(users)
  BY DEF IInv, TypeOK, UniqueNames, Unique
<1>2. Dir!OnlineUsers =
        {<<n, OnlineIn(users)[n]>> : n \in {m \in RegisteredIn(users) :
                                          OnlineIn(users)[m] # Offline}}
  BY DEF Dir!OnlineUsers, Dir!IsOnline
<1>3. ASSUME NEW i \in DOMAIN users
      PROVE  /\ users[i].username \in RegisteredIn(users)
             /\ OnlineIn(users)[users[i].username] =
                  IF users[i].connected THEN users[i].endpoint ELSE Offline
             /\ users[i].endpoint # Offline /\ i < Len(users) + 1
  <2>1. /\ users[i].username \in Names
        /\ users[i].username \in RegisteredIn(users)
        /\ EndpointOf(users, users[i].username) =
             IF users[i].connected THEN users[i].endpoint ELSE Offline
    BY <1>1, SlotEntry
  <2>2. users[i] \in User /\ i < Len(users) + 1
    BY <1>1, TableSlots
  <2>3. users[i].endpoint # Offline
    BY <2>2, OfflineIsNoEndpoint DEF User
  <2> QED
    BY <2>1, <2>2, <2>3 DEF OnlineIn
<1>4. ASSUME NEW e \in Dir!OnlineUsers PROVE e \in EntriesBefore(users, Len(users) + 1)
  <2>1. PICK n \in RegisteredIn(users) :
          OnlineIn(users)[n] # Offline /\ e = <<n, OnlineIn(users)[n]>>
    BY <1>2
  <2>2. PICK i \in DOMAIN users : n = users[i].username
    BY DEF RegisteredIn
  <2>3. users[i].connected /\ e = <<users[i].username, users[i].endpoint>> /\ i < Len(users) + 1
    BY <1>3, <2>1, <2>2
  <2> QED
    BY <2>3 DEF EntriesBefore, ConnectedBefore
<1>5. ASSUME NEW e \in EntriesBefore(users, Len(users) + 1) PROVE e \in Dir!OnlineUsers
  <2>1. PICK i \in DOMAIN users :
          users[i].connected /\ e = <<users[i].username, users[i].endpoint>>
    BY DEF EntriesBefore, ConnectedBefore
  <2>2. /\ users[i].username \in RegisteredIn(users)
        /\ OnlineIn(users)[users[i].username] # Offline
        /\ e = <<users[i].username, OnlineIn(users)[users[i].username]>>
    BY <1>3, <2>1
  <2> QED
    BY <1>2, <2>2
<1> QED
  BY <1>4, <1>5

(* The files in a slot, counted, are the content of its user. *)
LEMMA ContentEntries ==
  ASSUME IInv, NEW i \in DOMAIN users, NEW n, n = users[i].username,
         NEW files, files = users[i].files
  PROVE  Dir!Content(n) = {<<f, Copies(files, f)>> : f \in Items(files)}
<1>1. users \in Table /\ Unique(users)
  BY DEF IInv, TypeOK, UniqueNames, Unique
<1>2. files \in Seq(Files)
  BY <1>1, TableSlots DEF User
<1>3. n \in Names /\ CopiesOf(users, n) = [f \in Files |-> Copies(files, f)]
  BY <1>1, SlotEntry
<1>4. \A f \in Files : PublishedIn(users)[n][f] = Copies(files, f)
  BY <1>3 DEF PublishedIn
<1>5. Items(files) = {g \in Files : PublishedIn(users)[n][g] > 0}
  <2>1. ASSUME NEW g \in Files PROVE g \in Items(files) <=> Copies(files, g) > 0
    <3>1. /\ Copies(files, g) \in Nat
          /\ Copies(files, g) = 0 <=> \A k \in DOMAIN files : files[k] # g
      BY <1>2, CopiesFinite
    <3>2. g \in Items(files) <=> \E k \in DOMAIN files : files[k] = g
      BY DEF Items
    <3> QED
      BY <3>1, <3>2
  <2>2. \A g \in Items(files) : g \in Files
    BY <1>2, ElementOfSeq, LenProperties DEF Items
  <2> QED
    BY <1>4, <2>1, <2>2
<1>6. Dir!Content(n) =
        {<<f, PublishedIn(users)[n][f]>> : f \in {g \in Files : PublishedIn(users)[n][g] > 0}}
  BY DEF Dir!Content
<1>7. \A f \in Items(files) : PublishedIn(users)[n][f] = Copies(files, f)
  BY <1>4, <1>5
<1> QED
  BY <1>5, <1>6, <1>7

LEMMA ListEndMaps ==
  ASSUME LInv, NEW t \in Threads, Elsewhere(t), ListEnd(t)
  PROVE  Dir!ListUsers(t) \/ Dir!ListContent(t)
<1>1. pc[t] = "list" /\ IInv /\ Looping(t)
  BY DEF ListEnd, At, LInv, LoopInv
<1>2. /\ pc'[t] = "unlock"
      /\ UNCHANGED <<users, request, response, sent>>
  BY <1>1 DEF IInv, TypeOK, ListEnd, Goto, locals
<1>3. response'[t] = 0 /\ Online(t)
  BY <1>1, <1>2 DEF Looping
<1>4. request[t].op \in {"LIST_USERS", "LIST_CONTENT"}
  BY <1>1 DEF IInv, ListingLoop
<1>5. Dir!Admitted(t)
  BY <1>1, <1>3, <1>4, AdmittedMaps DEF NeedsUser
<1>6. Phases[t] = "pending"
  BY <1>1, CallerEntry
<1>7. CASE request[t].op = "LIST_USERS"
  <2>1. Items(sent[t]) = Dir!OnlineUsers
    BY <1>1, <1>7, ListingComplete, OnlineEntries
  <2>2. Listing(t)' = Dir!OnlineUsers
    BY <1>2, <1>3, <1>7, <2>1 DEF Listing
  <2> DEFINE listing == Dir!OnlineUsers
  <2> HIDE DEF listing
  <2>3. Dir!Answer(t, 0, listing)
    BY <1>2, <1>3, <2>2, Answers DEF listing
  <2> QED
    BY <1>2, <1>5, <1>6, <1>7, <2>3 DEF Dir!ListUsers, Dir!Pending, listing
<1>8. CASE request[t].op = "LIST_CONTENT"
  <2> DEFINE i == remote_index[t]
             r == request[t].remote
             listing == Dir!Content(request[t].remote)
  <2>1. i # NotFound /\ i = find_user(users, r)
    BY <1>1, <1>8 DEF IInv, ListingLoop, IndexFresh
  <2>2. users \in Table /\ Unique(users)
    BY <1>1, SlotFound
  <2>3. i \in DOMAIN users /\ users[i].username = r /\ r \in RegisteredIn(users)
    BY <2>1, <2>2, FindUser DEF RegisteredIn
  <2>4. sent[t] = users[i].files
    BY <1>8, ListingComplete
  <2>5. listing = {<<f, Copies(sent[t], f)>> : f \in Items(sent[t])}
    BY <1>1, <2>3, <2>4, ContentEntries
  <2> HIDE DEF listing
  <2>6. Listing(t)' = {<<f, Copies(sent[t], f)>> : f \in Items(sent[t])}
    BY <1>2, <1>3, <1>8 DEF Listing
  <2>7. Dir!Answer(t, 0, listing)
    BY <1>2, <1>3, <2>5, <2>6, Answers
  <2> QED
    BY <1>2, <1>5, <1>6, <1>8, <2>3, <2>7 DEF Dir!ListContent, Dir!Pending, listing
<1> QED
  BY <1>4, <1>7, <1>8

(* The two listings refuse, or begin a loop the directory does not see. *)
LEMMA ListingMaps ==
  ASSUME LInv, NEW t \in Threads, Elsewhere(t), ListUsers(t) \/ ListContent(t)
  PROVE  Dir!ListUsers(t) \/ Dir!ListContent(t) \/ UNCHANGED Dir!dirvars
<1>1. pc[t] = "apply" /\ request[t].op \in {"LIST_USERS", "LIST_CONTENT"}
  BY DEF ListUsers, ListContent, Executes, At
<1>2. /\ request[t].op = "LIST_USERS" => Dir!Pending(t, "LIST_USERS")
      /\ request[t].op = "LIST_CONTENT" => Dir!Pending(t, "LIST_CONTENT")
  BY <1>1, CallerEntry DEF Dir!Pending
<1>3. CASE \/ ~Known(t) /\ Refuse(t, 1)
           \/ Known(t) /\ ~Online(t) /\ Refuse(t, 2)
  <2>1. Dir!Denied(t)
    BY <1>1, <1>3, DeniedMaps
  <2> QED
    BY <1>1, <1>2, <2>1 DEF Dir!ListUsers, Dir!ListContent
<1>4. CASE \E n : Announce(t, n)
  <2>1. UNCHANGED <<users, request>> /\ pc'[t] = "list"
    BY <1>4 DEF LInv, IInv, TypeOK, Announce, Goto
  <2>2. Phase(t)' = Phase(t) /\ ReplyTo(t)' = ReplyTo(t)
    BY <1>1, <2>1 DEF Phase, ReplyTo
  <2> QED
    BY <2>1, <2>2, Stutters
<1>5. CASE /\ request[t].op = "LIST_CONTENT" /\ Online(t)
           /\ remote_index[t] = NotFound /\ Refuse(t, 3)
  <2>1. Dir!Admitted(t)
    BY <1>1, <1>5, AdmittedMaps DEF NeedsUser
  <2>2. users \in Table /\ Unique(users) /\ remote_index[t] = find_user(users, request[t].remote)
    BY <1>1, <1>5, SlotFound DEF LInv, IInv, IndexFresh
  <2>3. request[t].remote \notin RegisteredIn(users)
    BY <1>5, <2>2, RegisteredFound
  <2>4. Dir!Refuse(t, 3)
    BY <1>5, RefuseMaps
  <2> QED
    BY <1>2, <1>5, <2>1, <2>3, <2>4 DEF Dir!ListContent
<1> QED
  BY <1>3, <1>4, <1>5 DEF ListUsers, ListContent, Executes

----------------------------------------------------------------------------
(* The steps around the critical section. *)

LEMMA AcceptMaps ==
  ASSUME LInv, NEW t \in Threads, Elsewhere(t), NEW r \in Requests, Accept(t, r)
  PROVE  Dir!Invoke(t, r)
<1>1. pc[t] = "idle" /\ pc'[t] = "read" /\ UNCHANGED users
      /\ request' = [request EXCEPT ![t] = r]
  BY DEF LInv, IInv, TypeOK, Accept, At, Goto
<1>2. /\ Phases[t] = "idle" /\ Phase(t)' = "pending"
      /\ ReplyTo(t)' = ReplyTo(t)
  BY <1>1 DEF Phases, Phase, ReplyTo
<1>3. Phases' = [Phases EXCEPT ![t] = "pending"]
  BY <1>2, OneCallerMoves
<1>4. Replies' = Replies
  <2>1. Replies' = [Replies EXCEPT ![t] = ReplyTo(t)] /\ Replies[t] = ReplyTo(t)
    BY <1>2, OneCallerMoves DEF Replies
  <2> QED
    BY <2>1 DEF Replies
<1> QED
  BY <1>1, <1>2, <1>3, <1>4 DEF Dir!Invoke

LEMMA RejectionMaps ==
  ASSUME LInv, NEW t \in Threads, Elsewhere(t), PublishReadError(t) \/ RejectAnonymous(t)
  PROVE  Dir!Perform(t)
<1>1. Phases[t] = "pending"
  BY DEF PublishReadError, RejectAnonymous, At, Phases, Phase
<1>2. CASE PublishReadError(t)
  <2>1. /\ pc'[t] = "reply" /\ response'[t] = 4 /\ request[t].op = "PUBLISH"
        /\ UNCHANGED <<users, request>>
    BY <1>2 DEF LInv, IInv, TypeOK, PublishReadError, Goto
  <2>2. Listing(t)' = {}
    BY <2>1 DEF Listing
  <2>3. Dir!Refuse(t, 4)
    BY <2>1, <2>2, Answers DEF Dir!Refuse
  <2> QED
    BY <1>1, <2>1, <2>3 DEF Dir!Perform, Dir!Publish, Dir!Pending
<1>3. CASE RejectAnonymous(t)
  <2>1. /\ pc'[t] = "reply" /\ response'[t] = 1
        /\ request[t].op \in NeedsUser /\ request[t].username = Anonymous
        /\ UNCHANGED <<users, request>>
    BY <1>3 DEF LInv, IInv, TypeOK, RejectAnonymous, Goto
  <2>2. Listing(t)' = {}
    BY <2>1 DEF Listing
  <2>3. Dir!Denied(t)
    BY <2>1, <2>2, Answers DEF Dir!Refuse, Dir!Denied, Dir!Caller
  <2> QED
    BY <1>1, <2>1, <2>3
    DEF Dir!Perform, Dir!Publish, Dir!Delete, Dir!ListUsers, Dir!ListContent,
        Dir!Pending, NeedsUser
<1> QED
  BY <1>2, <1>3

LEMMA HiddenMaps ==
  ASSUME LInv, NEW t \in Threads, Elsewhere(t),
         \/ Receive(t) \/ send_log(t) \/ Lock(t) \/ Find(t)
         \/ ListNextUser(t) \/ ListNextFile(t) \/ Unlock(t)
  PROVE  UNCHANGED Dir!dirvars
<1>1. pc \in [Threads -> Labels]
  BY DEF LInv, IInv, TypeOK
<1>2. CASE Unlock(t)
  <2>1. /\ pc[t] = "unlock" /\ pc'[t] = "reply"
        /\ UNCHANGED <<users, request, response, sent>>
    BY <1>1, <1>2 DEF Unlock, At, Goto, locals
  <2>2. Listing(t)' = Listing(t)
    BY <2>1 DEF Listing
  <2>3. Phase(t)' = Phase(t) /\ ReplyTo(t)' = ReplyTo(t)
    BY <2>1, <2>2 DEF Phase, ReplyTo
  <2> QED
    BY <2>1, <2>3, Stutters
<1>3. CASE \/ Receive(t) \/ send_log(t) \/ Lock(t) \/ Find(t)
           \/ ListNextUser(t) \/ ListNextFile(t)
  <2>1. /\ pc[t] \in {"read", "log", "logged", "find", "list"}
        /\ pc'[t] \in {"log", "logged", "find", "apply", "list"}
        /\ UNCHANGED <<users, request>>
    BY <1>1, <1>3
    DEF Receive, send_log, Lock, Find, ListNextUser, ListNextFile, Iterate, At,
        Goto, locals
  <2>2. Phase(t)' = Phase(t) /\ ReplyTo(t)' = ReplyTo(t)
    BY <2>1 DEF Phase, ReplyTo
  <2> QED
    BY <2>1, <2>2, Stutters
<1> QED
  BY <1>2, <1>3

----------------------------------------------------------------------------
LEMMA DirectoryInitially == Init => Dir!Init
<1> SUFFICES ASSUME Init PROVE Dir!Init
  OBVIOUS
<1>1. users = <<>> /\ pc = [t \in Threads |-> "idle"]
      /\ request = [t \in Threads |-> NoRequest]
  BY DEF Init
<1>2. \A n : find_user(<<>>, n) = NotFound
  BY DEF find_user
<1>3. RegisteredIn(users) = {}
  BY <1>1 DEF RegisteredIn
<1>4. OnlineIn(users) = [n \in Names |-> Offline]
  BY <1>1, <1>2 DEF OnlineIn, EndpointOf
<1>5. PublishedIn(users) = [n \in Names |-> [f \in Files |-> 0]]
  BY <1>1, <1>2 DEF PublishedIn, CopiesOf
<1>6. Phases = [t \in Threads |-> "idle"]
  BY <1>1 DEF Phases, Phase
<1>7. Replies = [t \in Threads |-> [code |-> 0, listing |-> {}]]
  BY <1>1 DEF Replies, ReplyTo, Phase
<1> QED
  BY <1>1, <1>3, <1>4, <1>5, <1>6, <1>7
  DEF Dir!Init, Dir!NoFiles, Dir!NoRequest, Dir!NoReply, NoRequest

LEMMA StepMaps == LInv /\ [Next]_vars => [Dir!Next]_(Dir!dirvars)
<1> SUFFICES ASSUME LInv, [Next]_vars PROVE Dir!Next \/ UNCHANGED Dir!dirvars
  OBVIOUS
<1>1. ASSUME NEW t \in Threads, Execute(t), Elsewhere(t)
      PROVE  Dir!Perform(t) \/ UNCHANGED Dir!dirvars
  BY <1>1, RegisterMaps, UnregisterMaps, ConnectMaps, DisconnectMaps,
     PublishMaps, DeleteMaps, ListingMaps
  DEF Execute, Dir!Perform
<1>2. ASSUME NEW t \in Threads, Handle(t), Elsewhere(t)
      PROVE  Dir!Perform(t) \/ Dir!Return(t) \/ UNCHANGED Dir!dirvars
  <2>1. CASE Reply(t)
    BY <1>2, <2>1, Returns DEF Reply, At
  <2>2. CASE ListEnd(t)
    BY <1>2, <2>2, ListEndMaps DEF Dir!Perform
  <2> QED
    BY <1>1, <1>2, <2>1, <2>2, RejectionMaps, HiddenMaps DEF Handle, Work, WriteEntry
<1>3. ASSUME NEW t \in Threads, Client(t), Elsewhere(t)
      PROVE  \/ \E r \in Requests : Dir!Invoke(t, r)
             \/ Dir!Perform(t) \/ Dir!Return(t) \/ UNCHANGED Dir!dirvars
  <2>1. CASE ReadError(t) \/ PeerLost(t)
    BY <1>3, <2>1, Returns DEF ReadError, PeerLost, At
  <2>2. CASE \E r \in Requests : Accept(t, r)
    BY <1>3, <2>2, AcceptMaps
  <2> QED
    BY <1>3, <2>1, <2>2, RejectionMaps, HiddenMaps DEF Client
<1>4. CASE UNCHANGED vars
  <2>1. UNCHANGED <<users, pc, request, response, sent>>
    BY <1>4 DEF vars, locals
  <2>2. \A t \in Threads : Phase(t)' = Phase(t) /\ ReplyTo(t)' = ReplyTo(t)
    BY <2>1 DEF Phase, ReplyTo, Listing
  <2>3. Phases' = Phases /\ Replies' = Replies
    BY <2>2 DEF Phases, Replies
  <2> QED
    BY <2>1, <2>3 DEF Dir!dirvars
<1>5. ASSUME NEW t \in Threads, Handle(t) \/ Client(t)
      PROVE  Elsewhere(t)
  BY <1>5, OneThreadMoves DEF LInv
<1> QED
  BY <1>2, <1>3, <1>4, <1>5 DEF Next, Dir!Next

(* The main server implements the directory: every request takes effect at *)
(* one instant between its arrival and its answer, with the answer the     *)
(* directory gives, whatever the threads, the lock and the slots do.       *)
THEOREM Linearizable == Spec => ImplementsDirectory
BY DirectoryInitially, StepMaps, LoopInvariant, PTL
DEF Spec, ImplementsDirectory, Dir!DirectorySpec

=============================================================================
