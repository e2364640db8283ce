-------------------------- MODULE TableMemoryProofs --------------------------
(***************************************************************************)
(* Who owns the memory of the user table, for arrays of any sizes and any  *)
(* allocations that fail.                                                  *)
(*                                                                         *)
(* The argument: while no signal has come, every live slot is inside the   *)
(* array and owns one file array of its own (Owned), but for the slot that *)
(* remove_user is emptying; so an access can only leave the allocated      *)
(* memory through a bound that is larger than its array.                   *)
(***************************************************************************)
EXTENDS TableMemory, FiniteSetTheorems, TLAPS

USE MemoryAssumption

(* The array has no holes.                                                 *)
Array == \E n \in Nat : DOMAIN users = 0 .. n - 1

LEMMA SameArray == ASSUME Array, DOMAIN users' = DOMAIN users PROVE Array'
BY DEF Array

LEMMA ArrayOf == ASSUME NEW n \in Nat, DOMAIN users' = 0 .. n - 1 PROVE Array'
BY DEF Array

(* The types. *)
Types ==
  /\ Array
  /\ \A k \in DOMAIN users : users[k] \in Slot
  /\ num_users \in Nat /\ max_users \in Nat \ {0} /\ num_users <= max_users
  /\ DOMAIN heap \subseteq Blocks
  /\ \A b \in DOMAIN heap : heap[b] \in Nat
  /\ step \in {"idle", "null", "move"} /\ index \in Nat
  /\ sigint \in {"no", "free", "null", "exiting", "exited"} /\ i \in Nat
  /\ wild \in BOOLEAN

(* remove_user works on a live slot.                                       *)
AtWork == step # "idle" => index \in Live

(* The live slots are in the array, until handle_sigint frees it.          *)
Inside == Freed \/ \A k \in Live : k \in DOMAIN users

(* The live slots that point to a file array.                              *)
Owners == {k \in Live : step = "idle" \/ k # index}

Owned ==
  /\ \A k \in Live : k \in DOMAIN users
  /\ \A k \in Owners : users[k].files \in DOMAIN heap
  /\ \A b \in DOMAIN heap : \E k \in Owners : users[k].files = b
  /\ \A k, l \in Owners : users[k].files = users[l].files => k = l
  /\ \A k \in Live : users[k].num_files <= users[k].max_files /\ users[k].max_files # 0

(* A bound larger than its array, with the size of the array as a number.  *)
TooLarge ==
  \/ \E m \in Nat : m < max_users /\ m \notin DOMAIN users
  \/ \E k \in Live \cap DOMAIN users :
       users[k].files \in DOMAIN heap /\ users[k].max_files > heap[users[k].files]

IInv ==
  /\ Types
  /\ AtWork
  /\ Inside
  /\ sigint = "no" => Owned /\ (wild => TooLarge)

----------------------------------------------------------------------------
(* The number of slots of an array.                                        *)
LEMMA SizeOf ==
  ASSUME NEW n \in Nat, DOMAIN users = 0 .. n - 1
  PROVE  Cardinality(DOMAIN users) = n
BY FS_Interval

LEMMA InvImplies == IInv => TypeOK /\ BlocksOwned /\ WildHasCause
<1> SUFFICES ASSUME IInv PROVE TypeOK /\ BlocksOwned /\ WildHasCause
  OBVIOUS
<1>1. PICK n \in Nat : DOMAIN users = 0 .. n - 1
  BY DEF IInv, Types, Array
<1>2. Cardinality(DOMAIN users) = n
  BY <1>1, SizeOf
<1>3. TypeOK
  BY <1>1, <1>2 DEF IInv, Types, TypeOK
<1>4. BlocksOwned
  BY DEF IInv, Owned, Owners, BlocksOwned
<1>5. ASSUME TooLarge PROVE Overstated
  BY <1>1, <1>2, <1>5 DEF TooLarge, Overstated, IInv, Types
<1>6. WildHasCause
  BY <1>5 DEF IInv, Types, WildHasCause
<1> QED
  BY <1>3, <1>4, <1>6

LEMMA InitIInv == Init => IInv
<1> SUFFICES ASSUME Init PROVE IInv
  OBVIOUS
<1>1. Types
  <2>1. DOMAIN users = 0 .. MAX_USERS - 1 /\ MAX_USERS \in Nat
    BY DEF Init
  <2>2. \A k \in DOMAIN users : users[k] \in Slot
    BY DEF Init, Slot, Unwritten
  <2>3. Array
    BY <2>1 DEF Array
  <2>4. DOMAIN heap \subseteq Blocks /\ \A b \in DOMAIN heap : heap[b] \in Nat
    BY DEF Init
  <2>5. /\ num_users \in Nat /\ max_users \in Nat \ {0} /\ num_users <= max_users
        /\ step \in {"idle", "null", "move"} /\ index \in Nat
        /\ sigint \in {"no", "free", "null", "exiting", "exited"} /\ i \in Nat
    BY DEF Init
  <2>6. wild \in BOOLEAN
    BY Zenon DEF Init
  <2> QED
    BY <2>2, <2>3, <2>4, <2>5, <2>6 DEF Types
<1>2. AtWork /\ Owned /\ ~wild
  BY DEF Init, AtWork, Owned, Owners, Live
<1>3. Inside
  BY DEF Init, Inside, Live
<1> QED
  BY <1>1, <1>2, <1>3 DEF IInv

----------------------------------------------------------------------------
(* An access outside of the memory, before any signal, has its cause.      *)
LEMMA WildStep ==
  ASSUME IInv, Wild, sigint # "no" \/ TooLarge PROVE IInv'
BY SameArray
DEF IInv, Wild, Types, AtWork, Inside, Freed, Owned, Owners, Live, TooLarge,
    counts, handlers, signal

(* A new user in the slot after the last, in an array of n slots.          *)
LEMMA NewUserStep ==
  ASSUME IInv, step = "idle", NEW slots, NEW n \in Nat, DOMAIN slots = 0 .. n - 1,
         \A k \in DOMAIN slots : slots[k] \in Slot,
         sigint = "no" => \A k \in Live : k \in DOMAIN slots /\ slots[k] = users[k],
         DOMAIN slots = {} \/ \A k \in Live : k \in DOMAIN slots,
         max_users' \in Nat \ {0}, num_users < max_users',
         NewUser(slots), ~wild, UNCHANGED <<handlers, signal>>
  PROVE  IInv'
<1>1. CASE num_users \notin DOMAIN slots
  <2>1. users' = slots /\ UNCHANGED <<num_users, heap, handlers, signal>> /\ wild'
    BY <1>1 DEF NewUser
  <2>2. Types'
    BY <2>1, ArrayOf DEF IInv, Types, handlers, signal
  <2>3. AtWork' /\ Inside'
    BY <2>1 DEF IInv, AtWork, Inside, Freed, Live, handlers
  <2>4. sigint = "no" => Owned' /\ TooLarge'
    BY <2>1, <1>1 DEF IInv, Types, Owned, Owners, Live, TooLarge, handlers, signal
  <2> QED
    BY <2>1, <2>2, <2>3, <2>4 DEF IInv, signal
<1>2. ASSUME NEW b \in Blocks \ DOMAIN heap,
             num_users \in DOMAIN slots, UNCHANGED wild,
             heap' = [c \in DOMAIN heap \cup {b} |-> IF c = b THEN INITIAL_FILES ELSE heap[c]],
             users' = [slots EXCEPT ![num_users] =
                         [files |-> b, num_files |-> 0, max_files |-> INITIAL_FILES]],
             num_users' = num_users + 1
      PROVE  IInv'
  <2>1. /\ DOMAIN users' = 0 .. n - 1
        /\ users'[num_users] = [files |-> b, num_files |-> 0, max_files |-> INITIAL_FILES]
        /\ \A k \in DOMAIN slots : k # num_users => users'[k] = slots[k]
    BY <1>2
  <2>2. Types' /\ AtWork' /\ Inside'
    <3>1. Array'
      BY <2>1, ArrayOf
    <3>2. (\A k \in DOMAIN users : users[k] \in Slot)'
      BY <2>1 DEF Slot
    <3>3. Types'
      BY <1>2, <3>1, <3>2 DEF IInv, Types, handlers, signal
    <3>4. AtWork' /\ Inside'
      BY <1>2, <2>1 DEF IInv, Types, AtWork, Inside, Live, handlers
    <3> QED
      BY <3>3, <3>4
  <2>3. ASSUME sigint = "no" PROVE Owned'
    <3>1. Live' = Live \cup {num_users} /\ num_users \notin Live
      BY <1>2 DEF Live, IInv, Types
    <3>2. Owners = Live /\ Owners' = Live'
      BY DEF Owners, handlers
    <3>3. \A k \in Live : users'[k] = users[k] /\ k \in DOMAIN users'
      BY <2>1, <2>3, <3>1
    <3>4. \A k \in Live : users[k].files \in DOMAIN heap
      BY <2>3, <3>2 DEF IInv, Owned
    <3>5. (\A k \in Live : k \in DOMAIN users)'
      BY <1>2, <2>1, <3>1, <3>3
    <3>6. (\A k \in Owners : users[k].files \in DOMAIN heap)'
      BY <1>2, <2>1, <3>1, <3>2, <3>3, <3>4
    <3>7. (\A c \in DOMAIN heap : \E k \in Owners : users[k].files = c)'
      BY <1>2, <2>1, <2>3, <3>1, <3>2, <3>3 DEF IInv, Owned
    <3>8. (\A k, l \in Owners : users[k].files = users[l].files => k = l)'
      BY <1>2, <2>1, <2>3, <3>1, <3>2, <3>3, <3>4 DEF IInv, Owned
    <3>9. (\A k \in Live : users[k].num_files <= users[k].max_files
                             /\ users[k].max_files # 0)'
      BY <1>2, <2>1, <2>3, <3>1, <3>3 DEF IInv, Owned
    <3> QED
      BY <3>5, <3>6, <3>7, <3>8, <3>9 DEF Owned
  <2> QED
    BY <1>2, <2>2, <2>3 DEF IInv, signal
<1>3. ASSUME num_users \in DOMAIN slots, UNCHANGED <<wild, num_users, heap>>,
             users' = [slots EXCEPT ![num_users] =
                         [files |-> NULL, num_files |-> 0, max_files |-> INITIAL_FILES]]
      PROVE  IInv'
  <2>1. /\ DOMAIN users' = 0 .. n - 1
        /\ users'[num_users] = [files |-> NULL, num_files |-> 0, max_files |-> INITIAL_FILES]
        /\ \A k \in DOMAIN slots : k # num_users => users'[k] = slots[k]
    BY <1>3
  <2>2. Types' /\ AtWork' /\ Inside'
    <3>1. Array'
      BY <2>1, ArrayOf
    <3>2. (\A k \in DOMAIN users : users[k] \in Slot)'
      BY <2>1 DEF Slot
    <3>3. Types'
      BY <1>3, <3>1, <3>2 DEF IInv, Types, handlers, signal
    <3>4. AtWork' /\ Inside'
      BY <1>3, <2>1 DEF IInv, Types, AtWork, Inside, Live, handlers
    <3> QED
      BY <3>3, <3>4
  <2>3. ASSUME sigint = "no" PROVE Owned'
    <3>1. Live' = Live /\ num_users \notin Live /\ Owners' = Owners /\ Owners = Live
      BY <1>3 DEF Live, IInv, Types, Owners, handlers
    <3>2. \A k \in Live : users'[k] = users[k] /\ k \in DOMAIN users'
      BY <2>1, <2>3, <3>1
    <3> QED
      BY <1>3, <2>3, <3>1, <3>2 DEF IInv, Owned
  <2> QED
    BY <1>3, <2>2, <2>3 DEF IInv, signal
<1> QED
  BY <1>1, <1>2, <1>3 DEF NewUser

LEMMA AddUserStep == ASSUME IInv, add_user PROVE IInv'
<1> PICK n \in Nat : DOMAIN users = 0 .. n - 1
  BY DEF IInv, Types, Array
<1>0. /\ step = "idle" /\ ~wild /\ UNCHANGED <<handlers, signal>>
      /\ \A k \in DOMAIN users : users[k] \in Slot
      /\ num_users \in Nat /\ max_users \in Nat \ {0} /\ num_users <= max_users
      /\ sigint = "no" => \A k \in Live : k \in DOMAIN users
      /\ DOMAIN users = {} \/ \A k \in Live : k \in DOMAIN users
  BY DEF add_user, Running, IInv, Types, Inside, Freed, Owned, Wild
<1>1. CASE ~Full /\ NewUser(users) /\ UNCHANGED max_users
  BY <1>0, <1>1, NewUserStep DEF Full
<1>2. CASE Full /\ Freed /\ Wild
  <2>1. sigint # "no" \/ TooLarge
    BY <1>0, <1>2 DEF Full, Freed, Live, TooLarge
  <2> QED
    BY <1>2, <2>1, WildStep
<1>3. CASE /\ Full /\ max_users' = 2 * max_users
           /\ NewUser([k \in 0 .. 2 * max_users - 1 |->
                         IF k \in DOMAIN users THEN users[k] ELSE Unwritten])
  <2> DEFINE slots == [k \in 0 .. 2 * max_users - 1 |->
                         IF k \in DOMAIN users THEN users[k] ELSE Unwritten]
             m == 2 * max_users
  <2>1. m \in Nat /\ DOMAIN slots = 0 .. m - 1
    BY <1>0
  <2>2. \A k \in DOMAIN slots : slots[k] \in Slot
    BY <1>0 DEF Slot, Unwritten
  <2>3. sigint = "no" => \A k \in Live : k \in DOMAIN slots /\ slots[k] = users[k]
    BY <1>0 DEF Live
  <2>4. /\ max_users' \in Nat \ {0} /\ num_users < max_users'
        /\ \A k \in Live : k \in DOMAIN slots
    BY <1>0, <1>3 DEF Live
  <2>5. NewUser(slots)
    BY <1>3
  <2> HIDE DEF slots, m
  <2> QED
    BY <1>0, <2>1, <2>2, <2>3, <2>4, <2>5, NewUserStep
<1>4. CASE /\ max_users' = 2 * max_users
           /\ UNCHANGED <<users, num_users, heap, wild>>
  <2>1. Types' /\ AtWork' /\ Inside'
    <3>1. Types'
      BY <1>0, <1>4, SameArray DEF IInv, Types, handlers, signal
    <3>2. AtWork' /\ Inside'
      BY <1>0, <1>4 DEF IInv, AtWork, Inside, Freed, Live, handlers
    <3> QED
      BY <3>1, <3>2
  <2>2. sigint = "no" => Owned'
    BY <1>0, <1>4 DEF IInv, Owned, Owners, Live, handlers
  <2> QED
    BY <1>0, <1>4, <2>1, <2>2 DEF IInv, signal
<1> QED
  BY <1>1, <1>2, <1>3, <1>4 DEF add_user

----------------------------------------------------------------------------
(* The slot is emptied in two steps and filled with the last in a third.   *)

LEMMA StartRemoveStep == ASSUME IInv, StartRemove PROVE IInv'
<1>0. step = "idle" /\ ~wild
  BY DEF StartRemove, Running, IInv, Types
<1>1. ASSUME NEW k \in Live, FreeFiles(k), index' = k, step' = "null",
             UNCHANGED <<users, counts, signal, wild>>
      PROVE  IInv'
  <2>1. /\ k \in DOMAIN users /\ users[k].files \in DOMAIN heap \cup {NULL}
        /\ DOMAIN heap' = DOMAIN heap \ {users[k].files}
        /\ \A b \in DOMAIN heap' : heap'[b] = heap[b]
    BY <1>1 DEF FreeFiles, Free
  <2>2. Live' = Live /\ Owners = Live /\ Owners' = Live \ {k}
    BY <1>0, <1>1 DEF Live, Owners, counts
  <2>3. Types'
    BY <1>1, <2>1, SameArray DEF IInv, Types, Live, counts, signal
  <2>4. AtWork' /\ Inside'
    BY <1>1, <2>2 DEF IInv, AtWork, Inside, Freed
  <2>5. sigint = "no" => Owned'
    BY <1>1, <2>1, <2>2 DEF IInv, Owned
  <2> QED
    BY <1>0, <1>1, <2>3, <2>4, <2>5 DEF IInv, signal
<1>2. ASSUME NEW k \in Live, Wild,
             k \in DOMAIN users => users[k].files \notin DOMAIN heap \cup {NULL}
      PROVE  IInv'
  <2>1. sigint # "no"
    BY <1>0, <1>2 DEF IInv, Owned, Owners
  <2> QED
    BY <1>2, <2>1, WildStep
<1> QED
  BY <1>1, <1>2 DEF StartRemove

LEMMA ClearFilesStep == ASSUME IInv, ClearFiles PROVE IInv'
<1>0. step = "null" /\ ~wild /\ index \in Live
  BY DEF ClearFiles, Running, IInv, Types, AtWork
<1>1. CASE /\ users' = [users EXCEPT ![index].files = NULL] /\ step' = "move"
           /\ UNCHANGED <<counts, heap, index, signal, wild>>
  <2>1. /\ DOMAIN users' = DOMAIN users
        /\ \A k \in DOMAIN users : k # index => users'[k] = users[k]
        /\ index \in DOMAIN users => users'[index] = [users[index] EXCEPT !.files = NULL]
    BY <1>1
  <2>2. Live' = Live /\ Owners' = Owners /\ index \notin Owners
    BY <1>0, <1>1 DEF Live, Owners, counts
  <2>3. Types'
    BY <1>1, <2>1, SameArray DEF IInv, Types, Slot, counts, signal
  <2>4. AtWork' /\ Inside'
    BY <1>0, <1>1, <2>1, <2>2 DEF IInv, AtWork, Inside, Freed
  <2>5. ASSUME sigint = "no" PROVE Owned'
    <3>1. Owned /\ \A k \in Owners : k \in DOMAIN users /\ users'[k] = users[k]
      BY <2>1, <2>2, <2>5 DEF IInv, Owned, Owners
    <3>2. \A k \in Live : /\ users[k] \in Slot
                          /\ users'[k].num_files = users[k].num_files
                          /\ users'[k].max_files = users[k].max_files
      BY <2>1, <3>1 DEF IInv, Types, Owned, Slot
    <3> QED
      BY <1>1, <2>1, <2>2, <3>1, <3>2 DEF Owned
  <2> QED
    BY <1>0, <1>1, <2>3, <2>4, <2>5 DEF IInv, signal
<1>2. CASE index \notin DOMAIN users /\ Wild
  <2>1. sigint # "no"
    BY <1>0, <1>2 DEF IInv, Owned
  <2> QED
    BY <1>2, <2>1, WildStep
<1> QED
  BY <1>1, <1>2 DEF ClearFiles

LEMMA MoveLastStep == ASSUME IInv, MoveLast PROVE IInv'
<1>0. step = "move" /\ ~wild /\ index \in Live
  BY DEF MoveLast, Running, IInv, Types, AtWork
<1>1. CASE /\ users' = IF index < num_users - 1
                       THEN [users EXCEPT ![index] = users[num_users - 1]] ELSE users
           /\ num_users' = num_users - 1 /\ step' = "idle" /\ index' = 0
           /\ UNCHANGED <<max_users, heap, signal, wild>>
           /\ ~Freed
  <2> DEFINE last == num_users - 1
  <2>0. num_users \in Nat /\ last \in Live /\ last \in Nat
    BY <1>0 DEF Live, IInv, Types
  <2>1. Live' = Live \ {last} /\ Owners = Live \ {index} /\ Owners' = Live'
    BY <1>0, <1>1, <2>0 DEF Live, Owners
  <2>2. ASSUME sigint = "no" PROVE Owned'
    <3>1. Owned /\ \A k \in Live : k \in DOMAIN users
      BY <2>2 DEF IInv, Owned
    <3>2. /\ DOMAIN users' = DOMAIN users
          /\ \A k \in Live' : users'[k] = IF k = index THEN users[last] ELSE users[k]
      BY <1>0, <1>1, <2>0, <2>1, <3>1 DEF Live
    <3> DEFINE from(k) == IF k = index THEN last ELSE k
    <3>3. \A k \in Live' : from(k) \in Owners /\ users'[k] = users[from(k)]
      BY <1>0, <2>0, <2>1, <3>2
    <3>4. \A k \in Owners : \E l \in Live' : from(l) = k
      BY <1>0, <2>0, <2>1
    <3>5. \A k, l \in Live' : from(k) = from(l) => k = l
      BY <1>0, <2>0, <2>1
    <3> HIDE DEF from, last
    <3>6. Owners \subseteq Live
      BY DEF Owners
    <3>7. (\A k \in Live : k \in DOMAIN users)'
      BY <2>1, <3>1, <3>2
    <3>8. (\A k \in Owners : users[k].files \in DOMAIN heap)'
      <4> SUFFICES ASSUME NEW k \in Live' PROVE users'[k].files \in DOMAIN heap
        BY <1>1, <2>1
      <4> QED
        BY <3>1, <3>3 DEF Owned
    <3>9. (\A b \in DOMAIN heap : \E k \in Owners : users[k].files = b)'
      <4> SUFFICES ASSUME NEW b \in DOMAIN heap
                   PROVE  \E k \in Live' : users'[k].files = b
        BY <1>1, <2>1
      <4>1. PICK k \in Owners : users[k].files = b
        BY <3>1 DEF Owned
      <4>2. PICK l \in Live' : from(l) = k
        BY <3>4
      <4> QED
        BY <3>3, <4>1, <4>2
    <3>10. (\A k, l \in Owners : users[k].files = users[l].files => k = l)'
      BY <2>1, <3>1, <3>3, <3>5 DEF Owned
    <3>11. (\A k \in Live : users[k].num_files <= users[k].max_files
                              /\ users[k].max_files # 0)'
      BY <2>1, <3>1, <3>3, <3>6 DEF Owned
    <3> QED
      BY <3>7, <3>8, <3>9, <3>10, <3>11 DEF Owned
  <2>3. Types'
    <3>1. DOMAIN users' = DOMAIN users
      BY <1>1
    <3>2. num_users - 1 \in DOMAIN users
      BY <1>1, <2>0 DEF IInv, Inside
    <3> QED
      BY <1>1, <2>0, <3>1, <3>2, SameArray DEF IInv, Types, signal
  <2>4. AtWork' /\ Inside'
    BY <1>1, <2>0, <2>1 DEF IInv, AtWork, Inside, Freed
  <2> QED
    BY <1>0, <1>1, <2>2, <2>3, <2>4 DEF IInv, signal
<1>2. CASE Freed /\ Wild
  <2>1. sigint # "no"
    BY <1>0, <1>2 DEF IInv, Owned, Freed
  <2> QED
    BY <1>2, <2>1, WildStep
<1> QED
  BY <1>1, <1>2 DEF MoveLast

----------------------------------------------------------------------------
(* The files of a user. *)

(* A slot whose counts alone change.                                       *)
LEMMA CountsStep ==
  ASSUME IInv, step = "idle", ~wild, NEW k \in Live, k \in DOMAIN users,
         NEW slot \in Slot, slot.files = users[k].files,
         sigint = "no" => slot.num_files <= slot.max_files /\ slot.max_files # 0,
         users' = [users EXCEPT ![k] = slot],
         DOMAIN heap' = DOMAIN heap, \A b \in DOMAIN heap' : heap'[b] \in Nat,
         UNCHANGED <<counts, handlers, signal, wild>>
  PROVE  IInv'
<1>1. /\ DOMAIN users' = DOMAIN users /\ users'[k] = slot
      /\ \A l \in DOMAIN users : l # k => users'[l] = users[l]
  OBVIOUS
<1>2. Live' = Live /\ Owners' = Live /\ Owners = Live
  BY DEF Live, Owners, counts, handlers
<1>3. Types'
  BY <1>1, SameArray DEF IInv, Types, counts, handlers, signal
<1>4. AtWork' /\ Inside'
  BY <1>1, <1>2 DEF IInv, AtWork, Inside, Freed, handlers
<1>5. ASSUME sigint = "no" PROVE Owned'
  <2>1. Owned /\ \A l \in Live : l \in DOMAIN users /\ users'[l].files = users[l].files
    BY <1>1, <1>5 DEF IInv, Owned
  <2>2. \A l \in Live : users'[l].num_files <= users'[l].max_files
                          /\ users'[l].max_files # 0
    BY <1>1, <1>5, <2>1 DEF Owned
  <2> QED
    BY <1>1, <1>2, <2>1, <2>2 DEF Owned
<1> QED
  BY <1>3, <1>4, <1>5 DEF IInv, signal

LEMMA AddFileStep == ASSUME IInv, add_file PROVE IInv'
<1>0. step = "idle" /\ ~wild
  BY DEF add_file, Running, IInv, Types
<1> PICK k \in Live :
      LET slot == users[k]
          size == IF slot.files \in DOMAIN heap THEN heap[slot.files] ELSE 0
          twice == [slot EXCEPT !.max_files = 2 * @]
          reads == slot.num_files > 0
      IN  \/ /\ k \in DOMAIN users => reads /\ slot.files \notin DOMAIN heap
             /\ Wild
          \/ /\ k \in DOMAIN users
             /\ UNCHANGED <<counts, handlers, signal>>
             /\ \/ /\ slot.num_files < slot.max_files
                   /\ NewFile(k, slot, size)
                   /\ UNCHANGED heap
                \/ /\ slot.num_files >= slot.max_files
                   /\ reads => slot.files \in DOMAIN heap
                   /\ heap' = [heap EXCEPT ![slot.files] = twice.max_files]
                   /\ NewFile(k, twice, twice.max_files)
                \/ /\ slot.num_files >= slot.max_files
                   /\ users' = [users EXCEPT ![k] = twice]
                   /\ UNCHANGED <<heap, wild>>
  BY DEF add_file
<1> DEFINE slot == users[k]
           size == IF slot.files \in DOMAIN heap THEN heap[slot.files] ELSE 0
           twice == [slot EXCEPT !.max_files = 2 * @]
           reads == slot.num_files > 0
<1>1. sigint = "no" => /\ k \in DOMAIN users /\ slot.files \in DOMAIN heap
                       /\ slot.num_files <= slot.max_files /\ slot.max_files # 0
  BY <1>0 DEF IInv, Owned, Owners
<1>2. CASE Wild /\ (k \in DOMAIN users => reads /\ slot.files \notin DOMAIN heap)
  BY <1>1, <1>2, WildStep
<1>3. ASSUME k \in DOMAIN users
      PROVE  /\ slot \in Slot /\ slot.num_files \in Nat /\ slot.max_files \in Nat
             /\ twice \in Slot /\ twice.files = slot.files
             /\ twice.num_files = slot.num_files /\ twice.max_files = 2 * slot.max_files
             /\ [slot EXCEPT !.num_files = @ + 1] \in Slot
             /\ [twice EXCEPT !.num_files = @ + 1] \in Slot
  <2>1. slot \in Slot
    BY <1>3 DEF IInv, Types
  <2> HIDE DEF slot
  <2>2. /\ slot.num_files \in Nat /\ slot.max_files \in Nat
        /\ [slot EXCEPT !.num_files = @ + 1] \in Slot
    BY <2>1 DEF Slot
  <2>3. /\ twice \in Slot /\ twice.files = slot.files
        /\ twice.num_files = slot.num_files /\ twice.max_files = 2 * slot.max_files
    BY <2>1 DEF Slot
  <2> HIDE DEF twice
  <2>4. [twice EXCEPT !.num_files = @ + 1] \in Slot
    BY <2>3 DEF Slot
  <2> QED
    BY <2>1, <2>2, <2>3, <2>4
<1>4. CASE /\ k \in DOMAIN users /\ slot.num_files < slot.max_files
           /\ NewFile(k, slot, size)
           /\ UNCHANGED <<counts, heap, handlers, signal>>
  <2>1. CASE users' = users /\ wild' = TRUE /\ ~(slot.files \in DOMAIN heap /\ slot.num_files < size)
    <3>1. Wild
      BY <1>4, <2>1 DEF Wild
    <3>2. sigint = "no" => TooLarge
      BY <1>1, <1>3, <1>4, <2>1 DEF TooLarge, IInv, Types
    <3> QED
      BY <3>1, <3>2, WildStep
  <2>2. CASE users' = [users EXCEPT ![k] = [slot EXCEPT !.num_files = @ + 1]] /\ UNCHANGED wild
    <3> DEFINE more == [slot EXCEPT !.num_files = @ + 1]
    <3>1. /\ more \in Slot /\ more.files = slot.files /\ more.max_files = slot.max_files
          /\ more.num_files = slot.num_files + 1
      BY <1>3, <1>4 DEF Slot
    <3>2. more.num_files <= more.max_files /\ more.max_files # 0
      BY <1>3, <1>4, <3>1
    <3>3. \A b \in DOMAIN heap' : heap'[b] \in Nat
      BY <1>4 DEF IInv, Types
    <3>4. users' = [users EXCEPT ![k] = more]
      BY <2>2
    <3> HIDE DEF more
    <3> QED
      BY <1>0, <1>4, <2>2, <3>1, <3>2, <3>3, <3>4, CountsStep
  <2> QED
    BY <1>4, <2>1, <2>2 DEF NewFile
<1>5. CASE /\ k \in DOMAIN users /\ slot.num_files >= slot.max_files
           /\ heap' = [heap EXCEPT ![slot.files] = twice.max_files]
           /\ NewFile(k, twice, twice.max_files)
           /\ UNCHANGED <<counts, handlers, signal>>
  <2>1. DOMAIN heap' = DOMAIN heap /\ \A b \in DOMAIN heap' : heap'[b] \in Nat
    BY <1>3, <1>5 DEF IInv, Types
  <2>2. CASE users' = users /\ wild' = TRUE
             /\ ~(twice.files \in DOMAIN heap /\ twice.num_files < twice.max_files)
    <3>1. sigint # "no"
      BY <1>1, <1>3, <1>5, <2>2
    <3>2. Types' /\ AtWork' /\ Inside'
      <4>1. Types'
        BY <1>5, <2>1, <2>2, SameArray DEF IInv, Types, counts, handlers, signal
      <4>2. AtWork' /\ Inside'
        BY <1>5, <2>2 DEF IInv, AtWork, Inside, Freed, Live, counts, handlers
      <4> QED
        BY <4>1, <4>2
    <3> QED
      BY <1>5, <3>1, <3>2 DEF IInv, signal
  <2>3. CASE users' = [users EXCEPT ![k] = [twice EXCEPT !.num_files = @ + 1]]
             /\ twice.num_files < twice.max_files /\ UNCHANGED wild
    <3> DEFINE more == [twice EXCEPT !.num_files = @ + 1]
    <3>1. /\ more \in Slot /\ more.files = slot.files /\ more.max_files = twice.max_files
          /\ more.num_files = twice.num_files + 1
      <4>1. twice \in Slot /\ twice.files = slot.files /\ more \in Slot
        BY <1>3, <1>5
      <4> HIDE DEF twice, slot
      <4> QED
        BY <4>1 DEF Slot
    <3>2. more.num_files <= more.max_files /\ more.max_files # 0
      BY <1>3, <1>5, <2>3, <3>1
    <3>4. users' = [users EXCEPT ![k] = more]
      BY <2>3
    <3> HIDE DEF more, twice
    <3> QED
      BY <1>0, <1>5, <2>1, <2>3, <3>1, <3>2, <3>4, CountsStep
  <2> QED
    BY <1>5, <2>2, <2>3 DEF NewFile
<1>6. CASE /\ k \in DOMAIN users /\ slot.num_files >= slot.max_files
           /\ users' = [users EXCEPT ![k] = twice]
           /\ UNCHANGED <<counts, heap, wild, handlers, signal>>
  <2>1. twice \in Slot /\ twice.files = slot.files
    BY <1>3, <1>6
  <2>2. sigint = "no" => twice.num_files <= twice.max_files /\ twice.max_files # 0
    BY <1>1, <1>3, <1>6
  <2>3. \A b \in DOMAIN heap' : heap'[b] \in Nat
    BY <1>6 DEF IInv, Types
  <2> HIDE DEF twice
  <2> QED
    BY <1>0, <1>6, <2>1, <2>2, <2>3, CountsStep
<1> QED
  BY <1>2, <1>4, <1>5, <1>6

LEMMA RemoveFileStep == ASSUME IInv, remove_file PROVE IInv'
<1>0. step = "idle" /\ ~wild
  BY DEF remove_file, Running, IInv, Types
<1> PICK k \in Live :
      \/ k \notin DOMAIN users /\ Wild
      \/ users[k].files \notin DOMAIN heap /\ Wild
      \/ /\ k \in DOMAIN users /\ users[k].num_files > 0
         /\ users' = [users EXCEPT ![k].num_files = @ - 1]
         /\ UNCHANGED <<counts, heap, handlers, signal, wild>>
  BY DEF remove_file
<1> DEFINE slot == users[k]
           less == [slot EXCEPT !.num_files = @ - 1]
<1>1. sigint = "no" => /\ k \in DOMAIN users /\ slot.files \in DOMAIN heap
                       /\ slot.num_files <= slot.max_files /\ slot.max_files # 0
  BY <1>0 DEF IInv, Owned, Owners
<1>2. CASE Wild /\ (k \notin DOMAIN users \/ slot.files \notin DOMAIN heap)
  BY <1>1, <1>2, WildStep
<1>3. CASE /\ k \in DOMAIN users /\ slot.num_files > 0 /\ users' = [users EXCEPT ![k] = less]
           /\ UNCHANGED <<counts, heap, handlers, signal, wild>>
  <2>1. slot \in Slot
    BY <1>3 DEF IInv, Types
  <2>2. /\ less \in Slot /\ less.files = slot.files /\ less.max_files = slot.max_files
        /\ less.num_files = slot.num_files - 1
        /\ slot.num_files \in Nat /\ slot.max_files \in Nat
    <3> HIDE DEF slot
    <3> QED
      BY <1>3, <2>1 DEF Slot
  <2>3. sigint = "no" => less.num_files <= less.max_files /\ less.max_files # 0
    BY <1>1, <2>2
  <2>4. \A b \in DOMAIN heap' : heap'[b] \in Nat
    BY <1>3 DEF IInv, Types
  <2> HIDE DEF less
  <2> QED
    BY <1>0, <1>3, <2>2, <2>3, <2>4, CountsStep
<1> QED
  BY <1>2, <1>3

----------------------------------------------------------------------------
(* handle_sigint, after whose start only the types and the places matter.  *)
LEMMA SigintStep == ASSUME IInv, handle_sigint PROVE IInv'
<1>0. ~wild /\ i \in Nat
  BY DEF handle_sigint, Interrupt, FreeUser, ClearUser, FreeTable, Exit, Running,
         IInv, Types
<1>1. ASSUME UNCHANGED <<users, counts, handlers>>, sigint' # "no",
             sigint' \in {"no", "free", "null", "exiting", "exited"}, i' \in Nat,
             DOMAIN heap' \subseteq DOMAIN heap,
             \A b \in DOMAIN heap' : heap'[b] = heap[b], wild' \in BOOLEAN
      PROVE  IInv'
  <2>1. Types'
    BY <1>1, SameArray DEF IInv, Types, counts, handlers
  <2>2. AtWork' /\ Inside'
    BY <1>1 DEF IInv, AtWork, Inside, Freed, Live, counts, handlers
  <2> QED
    BY <1>1, <2>1, <2>2 DEF IInv
<1>2. CASE Interrupt \/ Exit
  BY <1>0, <1>1, <1>2 DEF Interrupt, Exit, IInv, Types
<1>3. CASE FreeUser
  <2>1. CASE FreeFiles(i) /\ sigint' = "null" /\ UNCHANGED <<users, counts, handlers, i, wild>>
    <3>1. /\ DOMAIN heap' \subseteq DOMAIN heap
          /\ \A b \in DOMAIN heap' : heap'[b] = heap[b]
      BY <2>1 DEF FreeFiles, Free
    <3>2. wild' \in BOOLEAN
      BY <2>1 DEF IInv, Types
    <3> QED
      BY <1>0, <1>1, <2>1, <3>1, <3>2
  <2>2. CASE Wild
    BY <1>3, <2>2, WildStep DEF FreeUser
  <2> QED
    BY <1>3, <2>1, <2>2 DEF FreeUser
<1>4. CASE ClearUser
  <2>1. DOMAIN users' = DOMAIN users
    BY <1>4 DEF ClearUser
  <2>2. (\A k \in DOMAIN users : users[k] \in Slot)'
    BY <1>4 DEF ClearUser, IInv, Types, Slot
  <2>3. Types'
    BY <1>0, <1>4, <2>1, <2>2, SameArray DEF ClearUser, IInv, Types, counts, handlers
  <2>4. AtWork' /\ Inside'
    BY <1>4, <2>1 DEF ClearUser, IInv, AtWork, Inside, Freed, Live, counts, handlers
  <2>5. sigint' # "no"
    BY <1>4 DEF ClearUser
  <2> QED
    BY <2>3, <2>4, <2>5 DEF IInv
<1>5. CASE FreeTable
  <2>1. DOMAIN users' = {} /\ DOMAIN users' = 0 .. 0 - 1
    BY <1>5 DEF FreeTable
  <2>2. Array'
    BY <2>1, ArrayOf
  <2>3. Types'
    BY <1>5, <2>1, <2>2 DEF FreeTable, IInv, Types, counts, handlers
  <2>4. AtWork' /\ Inside'
    BY <1>5, <2>1 DEF FreeTable, IInv, AtWork, Inside, Freed, Live, counts, handlers
  <2>5. sigint' # "no"
    BY <1>5 DEF FreeTable
  <2> QED
    BY <2>3, <2>4, <2>5 DEF IInv
<1> QED
  BY <1>2, <1>3, <1>4, <1>5 DEF handle_sigint

LEMMA NextIInv == IInv /\ [Next]_vars => IInv'
<1> SUFFICES ASSUME IInv, [Next]_vars PROVE IInv'
  OBVIOUS
<1>1. CASE UNCHANGED vars
  <2>1. Types'
    BY <1>1, SameArray DEF vars, IInv, Types, counts, handlers, signal
  <2>2. AtWork' /\ Inside'
    BY <1>1 DEF vars, IInv, AtWork, Inside, Freed, Live, counts, handlers
  <2>3. sigint' = "no" => Owned' /\ (wild' => TooLarge')
    BY <1>1 DEF vars, IInv, Owned, Owners, Live, TooLarge, counts, handlers, signal
  <2> QED
    BY <2>1, <2>2, <2>3 DEF IInv
<1> QED
  BY <1>1, AddUserStep, StartRemoveStep, ClearFilesStep, MoveLastStep, AddFileStep,
     RemoveFileStep, SigintStep
  DEF Next, remove_user

(* The arrays keep their shape: types and bounds, whatever allocations     *)
(* fail and whenever the signal comes.                                     *)
THEOREM MemoryTyped == Spec => []TypeOK
BY InitIInv, NextIInv, InvImplies, PTL DEF Spec

(* No file array is leaked, shared by two users or freed under its owner,  *)
(* whichever users and files come and go and whichever calls fail.         *)
THEOREM NeitherLeakedNorShared == Spec => []BlocksOwned
BY InitIInv, NextIInv, InvImplies, PTL DEF Spec

(* No sequence of requests makes the server leave its memory: it takes the *)
(* signal, or a realloc that has failed.                                   *)
THEOREM WildOnlyByCause == Spec => []WildHasCause
BY InitIInv, NextIInv, InvImplies, PTL DEF Spec

=============================================================================
