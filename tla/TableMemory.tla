----------------------------- MODULE TableMemory -----------------------------
(***************************************************************************)
(* The memory under the user table: the array users, which add_user        *)
(* doubles when it is full, and the array of files of each slot, which     *)
(* add_file doubles.  The names are UserTable's concern; here a slot has   *)
(* its pointer and its two counts.  One handler at a time is at work, the  *)
(* holder of users_mutex, while handle_sigint, which takes no lock, may    *)
(* run between any two of its steps.                                       *)
(*                                                                         *)
(* An access outside of an allocated block ends the model: what the C      *)
(* program does next is undefined.                                         *)
(***************************************************************************)
EXTENDS Integers, FiniteSets

CONSTANTS
  MAX_USERS, INITIAL_FILES,   \* the first sizes
  UserBound, FileBound,       \* bounds on what is registered and published
  Blocks,                     \* the addresses of file arrays
  NULL,
  Events                      \* "calloc" and "realloc" may fail, "SIGINT" may come

ASSUME MemoryAssumption ==
  /\ MAX_USERS \in Nat \ {0} /\ INITIAL_FILES \in Nat \ {0}
  /\ UserBound \in Nat /\ FileBound \in Nat
  /\ NULL \notin Blocks

VARIABLES
  users,      \* the slots that are allocated, by index
  num_users, max_users,
  heap,       \* the file arrays that are allocated, with their sizes
  step,       \* the holder of the mutex: "idle" or within remove_user
  index,      \* the slot remove_user works on
  sigint,     \* handle_sigint: "no", "free", "null", "exiting", "exited"
  i,          \* its loop variable
  wild        \* has anything been accessed that is not allocated?

counts == <<num_users, max_users>>
handlers == <<step, index>>
signal == <<sigint, i>>
vars == <<users, counts, heap, handlers, signal, wild>>

Slot == [files : Blocks \cup {NULL}, num_files : Nat, max_files : Nat]

(* Memory that nobody has written yet. *)
Unwritten == [files |-> NULL, num_files |-> 0, max_files |-> 0]

Live == 0 .. num_users - 1

Init ==
  /\ users = [k \in 0 .. MAX_USERS - 1 |-> Unwritten]
  /\ num_users = 0 /\ max_users = MAX_USERS
  /\ heap = [b \in {} |-> 0]
  /\ step = "idle" /\ index = 0
  /\ sigint = "no" /\ i = 0
  /\ wild = FALSE

Wild == wild' = TRUE /\ UNCHANGED <<users, counts, heap, handlers, signal>>

(* handle_sigint has freed the array of users. *)
Freed == DOMAIN users = {}

Running == ~wild /\ sigint # "exited"

Free(b) == heap' = [c \in DOMAIN heap \ {b} |-> heap[c]]

----------------------------------------------------------------------------
(* Writing a new user into the slot num_users of slots. *)
NewUser(slots) ==
  \/ /\ num_users \in DOMAIN slots
     /\ \/ \E b \in Blocks \ DOMAIN heap :
             /\ heap' = [c \in DOMAIN heap \cup {b} |->
                           IF c = b THEN INITIAL_FILES ELSE heap[c]]
             /\ users' = [slots EXCEPT ![num_users] =
                            [files |-> b, num_files |-> 0, max_files |-> INITIAL_FILES]]
             /\ num_users' = num_users + 1
        \/ /\ "calloc" \in Events
           /\ users' = [slots EXCEPT ![num_users] =
                          [files |-> NULL, num_files |-> 0, max_files |-> INITIAL_FILES]]
           /\ UNCHANGED <<num_users, heap>>
     /\ UNCHANGED wild
  \/ /\ num_users \notin DOMAIN slots
     /\ wild' = TRUE
     /\ users' = slots
     /\ UNCHANGED <<num_users, heap>>

(* One user too many goes in before the array grows. *)
FaultyFull == num_users > max_users

Full == num_users >= max_users

(* max_users is doubled whether or not realloc then succeeds. *)
add_user ==
  /\ Running /\ step = "idle" /\ num_users < UserBound
  /\ \/ ~Full /\ NewUser(users) /\ UNCHANGED max_users
     \/ Full /\ Freed /\ Wild
     \/ /\ Full /\ ~Freed
        /\ max_users' = 2 * max_users
        /\ \/ NewUser([k \in 0 .. 2 * max_users - 1 |->
                         IF k \in DOMAIN users THEN users[k] ELSE Unwritten])
           \/ "realloc" \in Events /\ UNCHANGED <<users, num_users, heap, wild>>
  /\ UNCHANGED <<handlers, signal>>

(* free(users[index].files), and the same statement of handle_sigint. *)
FreeFiles(k) ==
  LET b == users[k].files
  IN  /\ k \in DOMAIN users /\ b \in DOMAIN heap \cup {NULL}
      /\ Free(b)

(* remove_user: free_user_resources, then the last user is moved. *)
StartRemove ==
  /\ Running /\ step = "idle"
  /\ \E k \in Live :
       \/ /\ FreeFiles(k)
          /\ index' = k /\ step' = "null"
          /\ UNCHANGED <<users, counts, signal, wild>>
       \/ /\ k \in DOMAIN users => users[k].files \notin DOMAIN heap \cup {NULL}
          /\ Wild

ClearFiles ==
  /\ Running /\ step = "null"
  /\ \/ /\ index \in DOMAIN users
        /\ users' = [users EXCEPT ![index].files = NULL]
        /\ step' = "move"
        /\ UNCHANGED <<counts, heap, index, signal, wild>>
     \/ index \notin DOMAIN users /\ Wild

(* The removed slot is left as it is. *)
FaultyMoveLast ==
  /\ Running /\ step = "move"
  /\ num_users' = num_users - 1
  /\ step' = "idle" /\ index' = 0
  /\ UNCHANGED <<users, max_users, heap, signal, wild>>

(* The handler of UNREGISTER counts the user out a second time. *)
FaultyDecrement ==
  /\ Running /\ step = "move"
  /\ num_users' = num_users - 2
  /\ step' = "idle" /\ index' = 0
  /\ UNCHANGED <<users, max_users, heap, signal, wild>>

MoveLast ==
  /\ Running /\ step = "move"
  /\ \/ /\ ~Freed
        /\ users' = IF index < num_users - 1
                    THEN [users EXCEPT ![index] = users[num_users - 1]] ELSE users
        /\ num_users' = num_users - 1
        /\ step' = "idle" /\ index' = 0
        /\ UNCHANGED <<max_users, heap, signal, wild>>
     \/ Freed /\ Wild

remove_user == StartRemove \/ ClearFiles \/ MoveLast

(* The write of files[num_files], in an array of this size. *)
NewFile(k, slot, size) ==
  IF slot.files \in DOMAIN heap /\ slot.num_files < size
  THEN /\ users' = [users EXCEPT ![k] = [slot EXCEPT !.num_files = @ + 1]]
       /\ UNCHANGED wild
  ELSE users' = users /\ wild' = TRUE

add_file ==
  /\ Running /\ step = "idle"
  /\ \E k \in Live :
       LET slot == users[k]
           size == IF slot.files \in DOMAIN heap THEN heap[slot.files] ELSE 0
           twice == [slot EXCEPT !.max_files = 2 * @]
           reads == slot.num_files > 0       \* the search for the name
       IN  \/ /\ k \in DOMAIN users => reads /\ slot.files \notin DOMAIN heap
              /\ Wild
           \/ /\ k \in DOMAIN users
              /\ reads => slot.files \in DOMAIN heap
              /\ slot.num_files < FileBound
              /\ UNCHANGED <<counts, handlers, signal>>
              /\ \/ /\ slot.num_files < slot.max_files
                    /\ NewFile(k, slot, size)
                    /\ UNCHANGED heap
                 \/ /\ slot.num_files >= slot.max_files
                    /\ heap' = [heap EXCEPT ![slot.files] = twice.max_files]
                    /\ NewFile(k, twice, twice.max_files)
                 \/ /\ slot.num_files >= slot.max_files /\ "realloc" \in Events
                    /\ users' = [users EXCEPT ![k] = twice]
                    /\ UNCHANGED <<heap, wild>>

remove_file ==
  /\ Running /\ step = "idle"
  /\ \E k \in Live :
       \/ k \notin DOMAIN users /\ Wild
       \/ /\ k \in DOMAIN users /\ users[k].num_files > 0
          /\ \/ /\ users[k].files \in DOMAIN heap
                /\ users' = [users EXCEPT ![k].num_files = @ - 1]
                /\ UNCHANGED <<counts, heap, handlers, signal, wild>>
             \/ users[k].files \notin DOMAIN heap /\ Wild

----------------------------------------------------------------------------
(* handle_sigint, on a thread that does not hold the mutex or on the one   *)
(* that does, whose next step then never comes.                            *)

Interrupt ==
  /\ Running /\ sigint = "no" /\ "SIGINT" \in Events
  /\ sigint' = "free" /\ i' = 0
  /\ UNCHANGED <<users, counts, heap, handlers, wild>>

(* One half of free_user_resources(i), then the other. *)
FreeUser ==
  /\ Running /\ sigint = "free" /\ i < num_users
  /\ \/ /\ FreeFiles(i)
        /\ sigint' = "null"
        /\ UNCHANGED <<users, counts, handlers, i, wild>>
     \/ ~(users[i].files \in DOMAIN heap \cup {NULL}) /\ Wild

ClearUser ==
  /\ Running /\ sigint = "null"
  /\ users' = [users EXCEPT ![i].files = NULL]
  /\ sigint' = "free" /\ i' = i + 1
  /\ UNCHANGED <<counts, heap, handlers, wild>>

(* free(users), after which other threads run until exit has ended them.   *)
FreeTable ==
  /\ Running /\ sigint = "free" /\ i >= num_users
  /\ users' = [k \in {} |-> Unwritten]
  /\ sigint' = "exiting"
  /\ UNCHANGED <<counts, heap, handlers, i, wild>>

Exit ==
  /\ Running /\ sigint = "exiting"
  /\ sigint' = "exited"
  /\ UNCHANGED <<users, counts, heap, handlers, i, wild>>

handle_sigint == Interrupt \/ FreeUser \/ ClearUser \/ FreeTable \/ Exit

Next == add_user \/ remove_user \/ add_file \/ remove_file \/ handle_sigint

Spec == Init /\ [][Next]_vars

----------------------------------------------------------------------------
TypeOK ==
  /\ DOMAIN users = 0 .. Cardinality(DOMAIN users) - 1
  /\ \A k \in DOMAIN users : users[k] \in Slot
  /\ num_users \in Nat /\ max_users \in Nat /\ num_users <= max_users
  /\ DOMAIN heap \subseteq Blocks
  /\ step \in {"idle", "null", "move"} /\ index \in Nat
  /\ sigint \in {"no", "free", "null", "exiting", "exited"} /\ i \in Nat
  /\ wild \in BOOLEAN

(* The file arrays are neither leaked, nor shared by two slots, nor freed  *)
(* while a slot still points to them: between two requests the live slots  *)
(* own what is allocated, through every move of the last user into a       *)
(* removed slot and every failure of an allocation.                        *)
BlocksOwned ==
  step = "idle" /\ sigint = "no" =>
    /\ \A k \in Live \cap DOMAIN users : users[k].files \in DOMAIN heap
    /\ \A b \in DOMAIN heap : \E k \in Live \cap DOMAIN users : users[k].files = b
    /\ \A k, l \in Live \cap DOMAIN users : users[k].files = users[l].files => k = l

(* A bound that is larger than its array, which a failed realloc leaves.   *)
Overstated ==
  \/ max_users > Cardinality(DOMAIN users)
  \/ \E k \in Live \cap DOMAIN users :
       users[k].files \in DOMAIN heap /\ users[k].max_files > heap[users[k].files]

(* The server touches memory it does not own only after SIGINT, whose      *)
(* handler frees the table under the others, or with a bound that a failed *)
(* realloc has left too large: no sequence of requests does it by itself,  *)
(* failures of calloc included.                                            *)
WildHasCause == wild => sigint # "no" \/ Overstated

=============================================================================
