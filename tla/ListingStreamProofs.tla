------------------------- MODULE ListingStreamProofs -------------------------
(***************************************************************************)
(* Proofs about the listings as streams, for any number of clients, slots, *)
(* endpoints and files, and buffers of any size.                           *)
(*                                                                         *)
(* The argument: the table is that of the snapshot as long as the mutex is *)
(* held (Section), so the string the cursor is at is the next one of the   *)
(* snapshot, and how far the handler is says how much it has written       *)
(* (InStep).  What is in the buffer continues what has been read (Stream), *)
(* so a client that reads what was announced has all of it, and closes its *)
(* connection only when nothing is left to write (Parted).                 *)
(***************************************************************************)
EXTENDS ListingStream, SequenceTheorems, FiniteSetTheorems,
        WellFoundedInduction, TLAPS

----------------------------------------------------------------------------
(* The rows of a table. *)

(* The slots in front of i that a listing of the users shows. *)
Before(i) == Cardinality({j \in Slots : j < i /\ users[j] # None})

(* A non-empty set of natural numbers has a least element. *)
LEMMA LeastNat ==
  ASSUME NEW S, S \in SUBSET Nat, S # {}
  PROVE  \E m \in S : \A k \in S : m <= k
<1> DEFINE R == {ss \in Nat \X Nat : ss[1] < ss[2]}
<1>1. IsWellFoundedOn(R, Nat)
  BY NatLessThanWellFounded DEF OpToRel
<1>2. \A k, m \in Nat : <<k, m>> \in R <=> k < m
  OBVIOUS
<1> HIDE DEF R
<1>3. PICK m \in S : \A k \in S : ~ (<<k, m>> \in R)
  BY <1>1, WFMin
<1>4. ASSUME NEW k \in S PROVE m <= k
  <2>1. k \in Nat /\ m \in Nat
    OBVIOUS
  <2>2. ~ (k < m)
    BY <1>2, <1>3, <2>1
  <2> QED
    BY <2>1, <2>2
<1> QED
  BY <1>3, <1>4

(* The concatenations of the first, the first two, ... of the sequences s, *)
(* of which FlattenSeq takes the last.                                     *)
Concats(g, s, n, S) ==
  /\ g \in [1 .. n -> Seq(S)]
  /\ g[1] = s[1]
  /\ \A i \in 2 .. n : g[i] = g[i - 1] \o s[i]

(* They exist, however many sequences there are. *)
LEMMA ConcatsExist ==
  ASSUME NEW S, NEW n \in Nat \ {0}, NEW s \in [1 .. n -> Seq(S)]
  PROVE  \A m \in 1 .. n : \E g : Concats(g, s, m, S)
<1> DEFINE Bad == {m \in 1 .. n : ~ \E g : Concats(g, s, m, S)}
<1>1. SUFFICES ASSUME Bad # {} PROVE FALSE
  OBVIOUS
<1>2. PICK m \in Bad : \A k \in Bad : m <= k
  <2>1. Bad \in SUBSET Nat
    OBVIOUS
  <2> QED
    BY <1>1, <2>1, LeastNat
<1>3. m \in Nat /\ n \in Nat /\ 1 <= m /\ m <= n
  BY <1>2
<1>4. CASE m = 1
  <2>1. Concats([i \in 1 .. 1 |-> s[i]], s, 1, S)
    BY <1>3 DEF Concats
  <2> QED
    BY <1>2, <1>4, <2>1
<1>5. CASE m # 1
  <2>1. m - 1 \in 1 .. n /\ m - 1 \notin Bad
    <3>1. m - 1 \in 1 .. n /\ ~ (m <= m - 1)
      BY <1>3, <1>5
    <3> QED
      BY <1>2, <3>1
  <2>2. PICK f : Concats(f, s, m - 1, S)
    BY <2>1
  <2> DEFINE g == [i \in 1 .. m |-> IF i = m THEN f[m - 1] \o s[m] ELSE f[i]]
  <2>3. f[m - 1] \o s[m] \in Seq(S)
    BY <1>3, <1>5, <2>2, ConcatProperties DEF Concats
  <2>4. g \in [1 .. m -> Seq(S)]
    BY <1>3, <2>2, <2>3 DEF Concats
  <2>5. g[1] = s[1]
    BY <1>3, <1>5, <2>2 DEF Concats
  <2>6. ASSUME NEW i \in 2 .. m PROVE g[i] = g[i - 1] \o s[i]
    <3>0. i \in 1 .. m /\ i - 1 \in 1 .. m /\ i - 1 # m
      BY <1>3, <1>5
    <3>1. CASE i = m
      BY <3>0, <3>1
    <3>2. CASE i # m
      <4>1. i \in 2 .. m - 1
        BY <1>3, <3>2
      <4>2. f[i] = f[i - 1] \o s[i]
        BY <2>2, <4>1 DEF Concats
      <4> QED
        BY <3>0, <3>2, <4>2
    <3> QED
      BY <3>1, <3>2
  <2>7. Concats(g, s, m, S)
    BY <2>4, <2>5, <2>6 DEF Concats
  <2> QED
    BY <1>2, <2>7
<1> QED
  BY <1>4, <1>5

(* FlattenSeq of the community modules is the last of them. *)
LEMMA Flattened ==
  ASSUME NEW S, NEW n \in Nat \ {0}, NEW s \in [1 .. n -> Seq(S)]
  PROVE  \E g : Concats(g, s, n, S) /\ FlattenSeq(s) = g[n]
<1> DEFINE Rec(f) == f = [i \in 1 .. n |-> IF i = 1 THEN s[i] ELSE f[i - 1] \o s[i]]
           h == CHOOSE f : Rec(f)
           Bad == {i \in 1 .. n : h[i] \notin Seq(S)}
<1>1. Len(s) = n
  <2>1. s \in Seq(Seq(S))
    OBVIOUS
  <2> QED
    BY <2>1
<1>2. FlattenSeq(s) = h[n]
  BY <1>1 DEF FlattenSeq
<1>3. PICK g : Concats(g, s, n, S)
  BY ConcatsExist
<1>4. Rec(g)
  <2>1. g = [i \in 1 .. n |-> g[i]]
    BY <1>3 DEF Concats
  <2>2. ASSUME NEW i \in 1 .. n
        PROVE  g[i] = IF i = 1 THEN s[i] ELSE g[i - 1] \o s[i]
    <3>1. i # 1 => i \in 2 .. n
      OBVIOUS
    <3> QED
      BY <1>3, <3>1 DEF Concats
  <2> QED
    BY <2>1, <2>2
<1>5. Rec(h)
  BY <1>4
<1> HIDE DEF h
<1>6. \A i \in 1 .. n : h[i] = IF i = 1 THEN s[i] ELSE h[i - 1] \o s[i]
  BY <1>5
<1>7. Bad = {}
  <2>1. SUFFICES ASSUME Bad # {} PROVE FALSE
    OBVIOUS
  <2>2. PICK m \in Bad : \A k \in Bad : m <= k
    <3>1. Bad \in SUBSET Nat
      OBVIOUS
    <3> QED
      BY <2>1, <3>1, LeastNat
  <2>3. m # 1
    BY <1>6, <2>2
  <2>4. m - 1 \in 1 .. n /\ m - 1 \notin Bad
    BY <2>2, <2>3
  <2>5. h[m - 1] \o s[m] \in Seq(S)
    BY <2>2, <2>4, ConcatProperties
  <2> QED
    BY <1>6, <2>2, <2>3, <2>5
<1>8. h \in [1 .. n -> Seq(S)]
  BY <1>5, <1>7
<1>9. Concats(h, s, n, S)
  <2>1. \A i \in 2 .. n : i \in 1 .. n /\ i # 1
    OBVIOUS
  <2>2. 1 \in 1 .. n
    OBVIOUS
  <2> QED
    BY <1>6, <1>8, <2>1, <2>2 DEF Concats
<1> QED
  BY <1>2, <1>9

TableTyped == users \in [Slots -> Endpoints \cup {None}] /\ files \in Seq(Files)

(* The slots of the table are numbered from 1, and there is one. *)
LEMMA SlotNumbers == NumUsers \in Nat /\ 1 \in Slots /\ NumUsers \in Slots
BY ListingAssumption DEF Slots

(* How Before grows, slot by slot, from none to the count of the listing. *)
LEMMA BeforeSteps ==
  /\ Before(1) = 0
  /\ Before(NumUsers + 1) = Count("LIST_USERS")
  /\ \A i \in Slots \cup {NumUsers + 1} : Before(i) \in Nat
  /\ \A i \in Slots :
       Before(i + 1) = IF users[i] = None THEN Before(i) ELSE Before(i) + 1
<1> DEFINE B(i) == {j \in Slots : j < i /\ users[j] # None}
<1>1. NumUsers \in Nat /\ IsFiniteSet(Slots)
  BY SlotNumbers, FS_Interval DEF Slots
<1>2. ASSUME NEW i PROVE IsFiniteSet(B(i)) /\ Cardinality(B(i)) \in Nat
  BY <1>1, FS_Subset, FS_CardinalityType
<1>3. B(1) = {}
  BY DEF Slots
<1>4. B(NumUsers + 1) = {j \in Slots : users[j] # None}
  BY <1>1 DEF Slots
<1>5. ASSUME NEW i \in Slots
      PROVE  Before(i + 1) = IF users[i] = None THEN Before(i) ELSE Before(i) + 1
  <2>1. \A j \in Slots : j < i + 1 <=> j < i \/ j = i
    BY <1>1 DEF Slots
  <2>2. i \notin B(i)
    BY DEF Slots
  <2>3. CASE users[i] = None
    <3>1. B(i + 1) = B(i)
      BY <2>1, <2>3
    <3> QED
      BY <2>3, <3>1 DEF Before
  <2>4. CASE users[i] # None
    <3>1. B(i + 1) = B(i) \cup {i}
      BY <2>1, <2>4
    <3>2. Cardinality(B(i) \cup {i}) = Cardinality(B(i)) + 1
      BY <1>2, <2>2, FS_AddElement
    <3> QED
      BY <2>4, <3>1, <3>2 DEF Before
  <2> QED
    BY <2>3, <2>4
<1>6. Before(1) = 0
  BY <1>3, FS_EmptySet DEF Before
<1>7. Before(NumUsers + 1) = Count("LIST_USERS")
  BY <1>4 DEF Before, Count
<1> QED
  BY <1>2, <1>5, <1>6, <1>7 DEF Before

(* The strings of an entry. *)
LEMMA EntryTyped ==
  ASSUME TableTyped, NEW i \in Slots, users[i] # None
  PROVE  /\ Entry(i) \in Seq(Strings)
         /\ Len(Entry(i)) = 3
         /\ \A k \in 1 .. 3 : Entry(i)[k] \in Strings
<1>1. users[i] \in Endpoints
  BY DEF TableTyped
<1>2. /\ <<"username", i>> \in Strings /\ <<"ip", users[i]>> \in Strings
      /\ <<"port", users[i]>> \in Strings
  BY <1>1 DEF Strings
<1> QED
  BY <1>2 DEF Entry

(* The listing of the users: three strings for each connected one, after   *)
(* those of the slots in front.                                            *)
LEMMA RowsOfUsers ==
  ASSUME TableTyped
  PROVE  /\ Rows("LIST_USERS") \in Seq(Strings)
         /\ Len(Rows("LIST_USERS")) = 3 * Count("LIST_USERS")
         /\ \A i \in Slots : users[i] # None => \A k \in 1 .. 3 :
              /\ 3 * Before(i) + k <= Len(Rows("LIST_USERS"))
              /\ Rows("LIST_USERS")[3 * Before(i) + k] = Entry(i)[k]
<1> DEFINE s == [i \in Slots |-> IF users[i] # None THEN Entry(i) ELSE <<>>]
           n == NumUsers
<1>1. n \in Nat \ {0} /\ Slots = 1 .. n
  BY SlotNumbers DEF Slots
<1>2. s \in [1 .. n -> Seq(Strings)]
  <2>1. \A i \in Slots :
          (IF users[i] # None THEN Entry(i) ELSE <<>>) \in Seq(Strings)
    BY EntryTyped
  <2> QED
    BY <1>1, <2>1
<1>3. PICK g : Concats(g, s, n, Strings) /\ FlattenSeq(s) = g[n]
  BY <1>1, <1>2, Flattened
<1> DEFINE Good(m) ==
             /\ g[m] \in Seq(Strings)
             /\ Len(g[m]) = 3 * Before(m + 1)
             /\ \A i \in 1 .. m : users[i] # None => \A k \in 1 .. 3 :
                  /\ 3 * Before(i) + k <= Len(g[m])
                  /\ g[m][3 * Before(i) + k] = Entry(i)[k]
           Bad == {m \in 1 .. n : ~Good(m)}
<1>4. ASSUME NEW m \in 1 .. n, m # 1 => Good(m - 1) PROVE Good(m)
  <2>0. m \in Slots /\ m \in Nat /\ 1 <= m /\ m <= n
    BY <1>1
  <2> DEFINE b == Before(m)
             front == IF m = 1 THEN <<>> ELSE g[m - 1]
  <2>1. b \in Nat
    BY <2>0, BeforeSteps
  <2>2. /\ front \in Seq(Strings) /\ Len(front) = 3 * b
        /\ \A i \in 1 .. m - 1 : users[i] # None => \A k \in 1 .. 3 :
             /\ 3 * Before(i) + k <= Len(front)
             /\ front[3 * Before(i) + k] = Entry(i)[k]
    <3>1. CASE m = 1
      BY <3>1, BeforeSteps
    <3>2. CASE m # 1
      <4>1. (m - 1) + 1 = m
        BY <2>0
      <4> QED
        BY <1>4, <3>2, <4>1
    <3> QED
      BY <3>1, <3>2
  <2> HIDE DEF front
  <2>3. g[m] = front \o s[m]
    <3>1. CASE m = 1
      <4>1. g[1] = s[1] /\ s[1] \in Seq(Strings)
        BY <1>1, <1>2, <1>3 DEF Concats
      <4> QED
        BY <3>1, <4>1, ConcatEmptySeq DEF front
    <3>2. CASE m # 1
      <4>1. m \in 2 .. n
        BY <2>0, <3>2
      <4> QED
        BY <1>3, <3>2, <4>1 DEF Concats, front
    <3> QED
      BY <3>1, <3>2
  <2>4. CASE users[m] = None
    <3>1. s[m] = <<>>
      BY <2>0, <2>4
    <3>2. g[m] = front
      BY <2>2, <2>3, <3>1, ConcatEmptySeq
    <3>3. Before(m + 1) = b
      BY <2>0, <2>4, BeforeSteps
    <3>4. \A i \in 1 .. m : users[i] # None => i \in 1 .. m - 1
      BY <2>0, <2>4
    <3> QED
      BY <2>2, <3>2, <3>3, <3>4
  <2>5. CASE users[m] # None
    <3>1. /\ s[m] = Entry(m) /\ Entry(m) \in Seq(Strings)
          /\ Len(Entry(m)) = 3
      BY <2>0, <2>5, EntryTyped
    <3>2. Before(m + 1) = b + 1
      BY <2>0, <2>5, BeforeSteps
    <3> HIDE DEF s, b
    <3>3. /\ g[m] \in Seq(Strings)
          /\ Len(g[m]) = 3 * b + 3
          /\ \A p \in 1 .. 3 * b + 3 :
               g[m][p] = IF p <= 3 * b THEN front[p] ELSE Entry(m)[p - 3 * b]
      <4> DEFINE e == Entry(m)
      <4>1. e \in Seq(Strings) /\ Len(e) = 3 /\ g[m] = front \o e
        BY <2>3, <3>1
      <4> HIDE DEF e
      <4>0. front \in Seq(Strings) /\ e \in Seq(Strings)
        BY <2>2, <4>1
      <4>2. /\ front \o e \in Seq(Strings)
            /\ Len(front \o e) = Len(front) + Len(e)
            /\ \A p \in 1 .. Len(front) + Len(e) : (front \o e)[p] =
                 IF p <= Len(front) THEN front[p] ELSE e[p - Len(front)]
        BY <4>0, ConcatProperties
      <4>3. \A p \in 1 .. 3 * b + 3 :
              g[m][p] = IF p <= 3 * b THEN front[p] ELSE e[p - 3 * b]
        BY <2>1, <2>2, <4>1, <4>2
      <4> QED
        BY <2>2, <4>1, <4>2, <4>3 DEF e
    <3>4. ASSUME NEW i \in 1 .. m, users[i] # None, NEW k \in 1 .. 3
          PROVE  /\ 3 * Before(i) + k <= Len(g[m])
                 /\ g[m][3 * Before(i) + k] = Entry(i)[k]
      <4>1. CASE i = m
        <5>1. 3 * b + k \in 1 .. 3 * b + 3 /\ ~ (3 * b + k <= 3 * b)
              /\ (3 * b + k) - 3 * b = k
          BY <2>1
        <5> QED
          BY <2>1, <3>3, <4>1, <5>1 DEF b
      <4>2. CASE i # m
        <5>1. i \in 1 .. m - 1 /\ i \in Slots
          BY <1>1, <2>0, <4>2
        <5>2. Before(i) \in Nat
          BY <5>1, BeforeSteps
        <5>3. /\ 3 * Before(i) + k <= 3 * b
              /\ front[3 * Before(i) + k] = Entry(i)[k]
          BY <2>2, <3>4, <5>1
        <5>4. 3 * Before(i) + k \in 1 .. 3 * b + 3
          BY <2>1, <5>2, <5>3
        <5> QED
          BY <2>1, <3>3, <5>2, <5>3, <5>4
      <4> QED
        BY <4>1, <4>2
    <3>5. Len(g[m]) = 3 * Before(m + 1)
      BY <2>1, <3>2, <3>3
    <3> QED
      BY <3>3, <3>4, <3>5
  <2> QED
    BY <2>4, <2>5
<1>5. Bad = {}
  <2>1. SUFFICES ASSUME Bad # {} PROVE FALSE
    OBVIOUS
  <2>2. PICK m \in Bad : \A k \in Bad : m <= k
    <3>1. Bad \in SUBSET Nat
      OBVIOUS
    <3> HIDE DEF Bad
    <3> QED
      BY <2>1, <3>1, LeastNat
  <2>3. m \in 1 .. n /\ ~Good(m)
    BY <2>2
  <2> HIDE DEF Good
  <2>4. m # 1 => Good(m - 1)
    <3>1. SUFFICES ASSUME m # 1 PROVE Good(m - 1)
      OBVIOUS
    <3>2. m - 1 \in 1 .. n /\ ~ (m <= m - 1)
      BY <1>1, <2>3, <3>1
    <3> QED
      BY <2>2, <3>2
  <2> QED
    BY <1>4, <2>3, <2>4
<1>6. Good(n)
  <2>1. n \in 1 .. n
    BY <1>1
  <2> HIDE DEF Good
  <2> QED
    BY <1>5, <2>1
<1>7. Rows("LIST_USERS") = g[n]
  BY <1>3 DEF Rows
<1>8. Before(n + 1) = Count("LIST_USERS")
  BY BeforeSteps
<1> QED
  BY <1>1, <1>6, <1>7, <1>8

(* The listing of the files: one string for each. *)
LEMMA RowsOfFiles ==
  ASSUME TableTyped
  PROVE  /\ Rows("LIST_CONTENT") \in Seq(Strings)
         /\ Len(Rows("LIST_CONTENT")) = Len(files)
         /\ Count("LIST_CONTENT") = Len(files) /\ Len(files) \in Nat
         /\ \A i \in 1 .. Len(files) :
              /\ <<"filename", files[i]>> \in Strings
              /\ Rows("LIST_CONTENT")[i] = <<"filename", files[i]>>
<1>1. Len(files) \in Nat /\ DOMAIN files = 1 .. Len(files)
  BY LenProperties DEF TableTyped
<1>2. \A i \in 1 .. Len(files) : <<"filename", files[i]>> \in Strings
  BY ElementOfSeq DEF TableTyped, Strings
<1>3. Rows("LIST_CONTENT") = [i \in 1 .. Len(files) |-> <<"filename", files[i]>>]
  BY <1>1 DEF Rows
<1> QED
  BY <1>1, <1>2, <1>3 DEF Count

----------------------------------------------------------------------------
(* The inductive invariant. *)

InSection(c) ==
  handler[c] \in {"decide", "granted", "refused", "count", "row", "unlock"}

EndOf(c) == IF Listing(c) = "LIST_USERS" THEN NumUsers ELSE Len(files)

(* The strings of the listing in front of the cursor. *)
Position(c) ==
  IF Listing(c) = "LIST_USERS" THEN 3 * Before(cursor[c][1]) + cursor[c][2] - 1
                               ELSE cursor[c][1] - 1

(* A client that has not dialled has touched nothing; a request that has   *)
(* not got the mutex has no effect that its client could see.              *)
Fresh(c) ==
  /\ reader[c] = "prompt" =>
       handler[c] = "none" /\ link[c] = "open" /\ cursor[c] = <<1, 1>>
  /\ reader[c] = "prompt" \/ handler[c] = "lock" =>
       wire[c] = <<>> /\ received[c] = <<>> /\ result[c] = "none"
  /\ reader[c] # "done" => result[c] = "none"
  /\ server = "dead" => handler[c] = "none"

(* In the section of a listing the table is that of its beginning, and the *)
(* cursor is on a row, at its first string if it may be passed over.       *)
Section(c) ==
  /\ handler[c] \in {"granted", "refused", "count", "row"} =>
       command[c] # "CHANGE"
  /\ handler[c] = "reply" => command[c] = "CHANGE"
  /\ InSection(c) /\ command[c] # "CHANGE" => snapshot[c] = Rows(Listing(c))
  /\ handler[c] \in {"lock", "decide", "granted", "refused", "count"} =>
       cursor[c] = <<1, 1>>
  /\ handler[c] = "row" =>
       /\ cursor[c][1] \in 1 .. EndOf(c) + 1
       /\ cursor[c][2] \in 1 .. Width(Listing(c))
       /\ cursor[c][2] > 1 =>
            cursor[c][1] \in Slots /\ users[cursor[c][1]] # None

(* A client that still reads; how many strings it has read, and how many   *)
(* have been written to it.                                                *)
Flowing(c) == reader[c] \in {"response", "count", "rows"}

Consumed(c) ==
  IF reader[c] = "response" THEN 0
  ELSE IF reader[c] = "count" THEN 1 ELSE 2 + Len(received[c])

Written(c) == Consumed(c) + Len(wire[c])

(* All there is to read is the refusal, and nothing follows it. *)
Refused(c) ==
  /\ reader[c] = "response" /\ wire[c] = <<<<"response", 1>>>>
  /\ handler[c] \in {"unlock", "close", "none"} /\ command[c] # "CHANGE"

(* What can be the p-th string sent to c. *)
Matches(c, p, string) ==
  /\ p = 1 => string = <<"response", 0>> \/ Refused(c)
  /\ p = 2 => /\ string[1] = "count" /\ string[2] \in Nat
              /\ string[2] * Width(Listing(c)) = Len(snapshot[c])
  /\ p > 2 => p - 2 <= Len(snapshot[c]) /\ string = snapshot[c][p - 2]

(* How far the handler is says how much it has written. *)
InStep(c) ==
  /\ handler[c] \in {"lock", "decide", "granted", "refused", "reply"} =>
       Written(c) = 0
  /\ handler[c] = "unlock" /\ command[c] = "CHANGE" => Written(c) = 0
  /\ handler[c] = "count" => Written(c) = 1
  /\ handler[c] = "row" => Written(c) = 2 + Position(c)
  /\ handler[c] \in {"unlock", "close", "none"} /\ command[c] # "CHANGE" =>
       Refused(c) \/ Written(c) = 2 + Len(snapshot[c])
  /\ handler[c] \in {"close", "none"} /\ command[c] = "CHANGE" =>
       reader[c] = "response" /\ wire[c] = <<<<"response", 0>>>>

(* What is under way to a client that still reads. *)
Stream(c) ==
  Flowing(c) =>
    /\ reader[c] \in {"response", "count"} => received[c] = <<>>
    /\ reader[c] \in {"count", "rows"} => command[c] # "CHANGE"
    /\ reader[c] = "rows" =>
         announced[c] * Width(Listing(c)) = Len(snapshot[c])
    /\ \A j \in 1 .. Len(wire[c]) : Matches(c, Consumed(c) + j, wire[c][j])
    /\ server = "up" => InStep(c)

(* The handler will not write again. *)
Finished(c) ==
  \/ handler[c] \in {"close", "none"}
  \/ handler[c] = "unlock" /\ command[c] # "CHANGE"
  \/ handler[c] = "row" /\ Position(c) >= Len(snapshot[c])

(* Only of a deserter can the handler meet the closed connection. *)
Parted(c) ==
  link[c] # "open" =>
    reader[c] = "done" /\ (server = "up" => Deserter(c) \/ Finished(c))

(* What has been read: rows, then blanks once there is nothing else. *)
Read(c) ==
  \E n \in 0 .. Len(received[c]) :
    /\ n <= Len(snapshot[c])
    /\ \A j \in 1 .. n : received[c][j] = snapshot[c][j]
    /\ \A j \in n + 1 .. Len(received[c]) : received[c][j] = Blank
    /\ n < Len(received[c]) => server = "dead" /\ wire[c] = <<>>

(* What has been printed. *)
Printed(c) ==
  /\ result[c] = "OK" /\ command[c] \in {"LIST_USERS", "LIST_CONTENT"}
  /\ server = "up"
  => received[c] = snapshot[c]

ClientInv(c) ==
  Fresh(c) /\ Section(c) /\ Stream(c) /\ Parted(c) /\ Read(c) /\ Printed(c)

IInv ==
  TypeOK /\ (\A c \in Clients : ClientInv(c)) /\ EndedByDeserter

----------------------------------------------------------------------------
(* What a step leaves alone. *)

(* The step does not touch what c, its connection and its handler keep. *)
SameClient(c) ==
  /\ command'[c] = command[c] /\ reader'[c] = reader[c]
  /\ announced'[c] = announced[c] /\ received'[c] = received[c]
  /\ result'[c] = result[c]

Still(c) ==
  /\ SameClient(c)
  /\ handler'[c] = handler[c] /\ cursor'[c] = cursor[c]
  /\ link'[c] = link[c] /\ wire'[c] = wire[c] /\ snapshot'[c] = snapshot[c]

(* A step of another client: the table changes only outside of c's section. *)
LEMMA Bystander ==
  ASSUME NEW c \in Clients, ClientInv(c), Still(c), server' = server,
         UNCHANGED <<users, files>> \/ ~InSection(c)
  PROVE  ClientInv(c)'
<1> USE DEF Still, SameClient
<1>1. Listing(c)' = Listing(c) /\ InSection(c)' = InSection(c)
  BY DEF Listing, InSection
<1>2. InSection(c) => /\ Rows(Listing(c))' = Rows(Listing(c))
                      /\ EndOf(c)' = EndOf(c) /\ Position(c)' = Position(c)
  BY <1>1 DEF Rows, Entry, EndOf, Position, Before
<1>3. Fresh(c)'
  BY DEF ClientInv, Fresh
<1>4. Section(c)'
  <2>1. CASE InSection(c)
    <3>1. users' = users
      BY <2>1
    <3> QED
      BY <1>1, <1>2, <2>1, <3>1 DEF ClientInv, Section
  <2>2. CASE ~InSection(c)
    BY <1>1, <2>2 DEF ClientInv, Section, InSection
  <2> QED
    BY <2>1, <2>2
<1>5. Written(c)' = Written(c) /\ Consumed(c)' = Consumed(c) /\ Refused(c)' = Refused(c)
  BY DEF Written, Consumed, Refused
<1>6. Stream(c)'
  <2>1. ASSUME NEW p, NEW string, Matches(c, p, string) PROVE Matches(c, p, string)'
    BY <1>1, <1>5, <2>1 DEF Matches
  <2>2. InStep(c) => InStep(c)'
    BY <1>1, <1>2, <1>5 DEF InStep, InSection
  <2> QED
    BY <1>1, <1>5, <2>1, <2>2 DEF ClientInv, Stream, Flowing
<1>7. Parted(c)'
  <2>1. Finished(c) => Finished(c)'
    BY <1>2 DEF Finished, InSection
  <2>2. Deserter(c)' = Deserter(c)
    BY DEF Deserter, Found
  <2> QED
    BY <2>1, <2>2 DEF ClientInv, Parted
<1>8. Read(c)'
  BY DEF ClientInv, Read
<1>9. Printed(c)'
  BY DEF ClientInv, Printed
<1> QED
  BY <1>3, <1>4, <1>6, <1>7, <1>8, <1>9 DEF ClientInv

(* A handler that ends with the server leaves what it has sent. *)
LEMMA Dying ==
  ASSUME NEW c \in Clients, ClientInv(c), SameClient(c), server' = "dead",
         handler'[c] = "none", cursor'[c] = cursor[c], link'[c] = link[c],
         wire'[c] = wire[c], snapshot'[c] = snapshot[c]
  PROVE  ClientInv(c)'
<1> USE DEF SameClient
<1>1. Fresh(c)'
  BY DEF ClientInv, Fresh
<1>2. Section(c)'
  BY DEF Section, InSection
<1>3. Stream(c)'
  <2>1. Consumed(c)' = Consumed(c) /\ (Refused(c) => Refused(c)')
        /\ Listing(c)' = Listing(c)
    BY DEF Consumed, Refused, Listing
  <2>2. ASSUME NEW p, NEW string, Matches(c, p, string) PROVE Matches(c, p, string)'
    BY <2>1, <2>2 DEF Matches
  <2> QED
    BY <2>1, <2>2 DEF ClientInv, Stream, Flowing
<1>4. Parted(c)'
  BY DEF ClientInv, Parted
<1>5. Read(c)'
  BY DEF ClientInv, Read
<1>6. Printed(c)'
  BY DEF ClientInv, Printed
<1> QED
  BY <1>1, <1>2, <1>3, <1>4, <1>5, <1>6 DEF ClientInv

(* A client that has left has left for good. *)
LEMMA DeserterStays ==
  ASSUME NEW c \in Clients, Deserter(c), reader[c] = "done" => SameClient(c)
  PROVE  Deserter(c)'
BY DEF Deserter, Found, SameClient

(* A step of one client and its handler, the server living on. *)
LEMMA OneActs ==
  ASSUME IInv, NEW c \in Clients, TypeOK', ClientInv(c)',
         server' = server, reader[c] = "done" => SameClient(c),
         \A d \in Clients \ {c} : Still(d),
         UNCHANGED <<users, files>> \/ mutex = c
  PROVE  IInv'
<1>1. ASSUME NEW d \in Clients PROVE ClientInv(d)'
  <2>1. CASE d = c
    BY <2>1
  <2>2. CASE d # c
    <3>1. mutex = c => ~InSection(d)
      BY <2>2 DEF IInv, TypeOK, InSection
    <3> QED
      BY <2>2, <3>1, Bystander DEF IInv
  <2> QED
    BY <2>1, <2>2
<1>2. EndedByDeserter'
  <2>1. SUFFICES ASSUME server = "dead" PROVE \E d \in Clients : Deserter(d)'
    BY DEF EndedByDeserter
  <2>2. PICK d \in Clients : Deserter(d)
    BY <2>1 DEF IInv, EndedByDeserter
  <2>3. reader[d] = "done" => SameClient(d)
    BY DEF Still
  <2> QED
    BY <2>2, <2>3, DeserterStays
<1> QED
  BY <1>1, <1>2 DEF IInv

(* The end of the server, at the write of a handler that is not done.      *)
LEMMA DieKeeps ==
  ASSUME IInv, NEW c \in Clients, Die, link[c] = "broken", ~Finished(c),
         UNCHANGED <<command, readervars, snapshot>>
  PROVE  IInv'
<1> USE DEF readervars
<1>1. server = "up"
  BY DEF IInv, TypeOK, ClientInv, Fresh, Finished
<1>2. ASSUME NEW d \in Clients PROVE ClientInv(d)' /\ SameClient(d)
  <2>1. SameClient(d)
    BY DEF SameClient
  <2>2. /\ handler'[d] = "none" /\ cursor'[d] = cursor[d] /\ link'[d] = link[d]
        /\ wire'[d] = wire[d] /\ snapshot'[d] = snapshot[d] /\ server' = "dead"
    BY DEF Die
  <2> QED
    BY <2>1, <2>2, Dying DEF IInv
<1>3. Deserter(c)
  BY <1>1 DEF IInv, ClientInv, Parted
<1>4. EndedByDeserter'
  BY <1>2, <1>3, DeserterStays DEF EndedByDeserter
<1>5. TypeOK'
  <2>1. None \notin Clients
    BY ListingAssumption
  <2> QED
    BY <2>1 DEF IInv, TypeOK, Die
<1> QED
  BY <1>2, <1>4, <1>5 DEF IInv

(* A write on a connection, short of the signal. *)
Sent(c, string) ==
  /\ \/ /\ link[c] \in {"open", "closed", "aborted"} /\ Len(wire[c]) < Capacity
        /\ wire' = [wire EXCEPT ![c] = Append(@, string)]
        /\ UNCHANGED link
     \/ /\ link[c] = "reset"
        /\ link' = [link EXCEPT ![c] = "broken"]
        /\ UNCHANGED wire
  /\ UNCHANGED table

(* The step of a handler that writes: it goes on to h, its cursor to p. *)
Writes(c, string, h, p) ==
  /\ Sent(c, string)
  /\ handler' = [handler EXCEPT ![c] = h]
  /\ cursor' = [cursor EXCEPT ![c] = p]
  /\ UNCHANGED <<command, readervars, snapshot>>

(* The types of what a write changes. *)
LEMMA SentTyped ==
  ASSUME TypeOK, NEW c \in Clients, NEW string \in Strings, Sent(c, string)
  PROVE  /\ wire' \in [Clients -> Seq(Strings)]
         /\ \A d \in Clients : Len(wire'[d]) <= Capacity
         /\ link' \in [Clients -> {"open", "closed", "aborted", "reset", "broken"}]
         /\ \A d \in Clients \ {c} : wire'[d] = wire[d] /\ link'[d] = link[d]
         /\ link'[c] = "open" => /\ link[c] = "open"
                                 /\ wire'[c] = Append(wire[c], string)
<1>1. wire \in [Clients -> Seq(Strings)] /\ Capacity \in Nat
      /\ link \in [Clients -> {"open", "closed", "aborted", "reset", "broken"}]
      /\ \A d \in Clients : Len(wire[d]) <= Capacity
  BY ListingAssumption DEF TypeOK
<1>2. CASE wire' = wire
  <2>1. link' = link \/ link' = [link EXCEPT ![c] = "broken"]
    BY DEF Sent
  <2>2. link[c] = "reset"
    <3>1. ASSUME wire' = [wire EXCEPT ![c] = Append(@, string)] PROVE FALSE
      <4>1. wire'[c] = Append(wire[c], string)
        BY <1>1, <3>1
      <4>2. wire[c] \in Seq(Strings)
        BY <1>1
      <4>3. Len(Append(wire[c], string)) = Len(wire[c]) + 1 /\ Len(wire[c]) \in Nat
        BY <4>2, AppendProperties
      <4> QED
        BY <1>2, <4>1, <4>3
    <3> QED
      BY <3>1 DEF Sent
  <2>3. link' = [link EXCEPT ![c] = "broken"]
    BY <2>2 DEF Sent
  <2> QED
    BY <1>1, <1>2, <2>3
<1>3. CASE wire' # wire
  <2>1. /\ wire' = [wire EXCEPT ![c] = Append(@, string)]
        /\ Len(wire[c]) < Capacity /\ link' = link
    BY <1>3 DEF Sent
  <2>2. wire[c] \in Seq(Strings)
    BY <1>1
  <2>3. /\ Append(wire[c], string) \in Seq(Strings)
        /\ Len(Append(wire[c], string)) = Len(wire[c]) + 1 /\ Len(wire[c]) \in Nat
    BY <2>2, AppendProperties
  <2>4. wire'[c] = Append(wire[c], string)
    BY <1>1, <2>1
  <2>5. \A d \in Clients \ {c} : wire'[d] = wire[d]
    BY <1>1, <2>1
  <2>6. wire' \in [Clients -> Seq(Strings)]
    BY <1>1, <2>1, <2>3
  <2>7. \A d \in Clients : Len(wire'[d]) <= Capacity
    BY <1>1, <2>1, <2>3, <2>4, <2>5
  <2> QED
    BY <1>1, <2>1, <2>4, <2>5, <2>6, <2>7
<1> QED
  BY <1>2, <1>3

(* What it takes for a write to keep the invariant: the string is the next *)
(* of the stream, and the handler goes where it has written that much.     *)
LEMMA WriteKeeps ==
  ASSUME IInv, NEW c \in Clients, NEW string \in Strings, NEW h, NEW p, NEW w,
         Writes(c, string, h, p), p \in Nat \X (1 .. 3),
         ~Finished(c), ~Refused(c), w = Written(c),
         h \in {"unlock", "count", "close", "row"},
         InSection(c) <=> h # "close",
         Section(c)',
         Flowing(c) => Matches(c, w + 1, string)',
         Flowing(c) /\ Written(c)' = w + 1 => InStep(c)'
  PROVE  IInv'
<1> USE DEF readervars
<1>1. server = "up" /\ handler[c] # "none" /\ table' = table
  BY DEF IInv, TypeOK, ClientInv, Fresh, Finished, Writes, Sent
<1>2. /\ SameClient(c) /\ handler'[c] = h /\ cursor'[c] = p /\ snapshot' = snapshot
      /\ \A d \in Clients \ {c} : SameClient(d) /\ handler'[d] = handler[d]
                                  /\ cursor'[d] = cursor[d]
  BY DEF SameClient, Writes, IInv, TypeOK
<1>3. /\ wire' \in [Clients -> Seq(Strings)]
      /\ \A d \in Clients : Len(wire'[d]) <= Capacity
      /\ link' \in [Clients -> {"open", "closed", "aborted", "reset", "broken"}]
      /\ \A d \in Clients \ {c} : wire'[d] = wire[d] /\ link'[d] = link[d]
      /\ link'[c] = "open" => /\ link[c] = "open"
                              /\ wire'[c] = Append(wire[c], string)
  BY SentTyped DEF IInv, Writes
<1>4. TypeOK'
  <2>1. handler' \in [Clients -> {"none", "lock", "decide", "granted", "refused",
                                  "count", "row", "unlock", "reply", "close"}]
    BY DEF IInv, TypeOK, Writes
  <2>2. cursor' \in [Clients -> Nat \X (1 .. 3)]
    BY DEF IInv, TypeOK, Writes
  <2>3. \A d \in Clients : InSection(d)' <=> mutex = d
    <3>1. \A d \in Clients : InSection(d) <=> mutex = d
      BY DEF IInv, TypeOK, InSection
    <3>2. InSection(c)' <=> InSection(c)
      BY <1>2 DEF InSection
    <3>3. \A d \in Clients \ {c} : InSection(d)' <=> InSection(d)
      BY <1>2 DEF InSection
    <3> QED
      BY <3>1, <3>2, <3>3
  <2> QED
    BY <1>1, <1>3, <2>1, <2>2, <2>3 DEF IInv, TypeOK, Writes, table, InSection
<1>5. \A d \in Clients \ {c} : Still(d)
  BY <1>2, <1>3 DEF Still
<1>6. Fresh(c)'
  BY <1>1, <1>2 DEF IInv, ClientInv, Fresh, table, SameClient
<1>7. Stream(c)'
  <2>1. SUFFICES ASSUME Flowing(c) PROVE Stream(c)'
    BY <1>2 DEF Stream, Flowing, SameClient
  <2>2. link[c] = "open" /\ link'[c] = "open"
    BY <1>1, <2>1 DEF IInv, ClientInv, Parted, Flowing, Writes, Sent
  <2>3. wire'[c] = Append(wire[c], string) /\ wire[c] \in Seq(Strings)
    BY <1>3, <2>2 DEF IInv, TypeOK
  <2>4. /\ Len(wire[c]) \in Nat /\ Len(wire'[c]) = Len(wire[c]) + 1
        /\ \A j \in 1 .. Len(wire[c]) : wire'[c][j] = wire[c][j]
        /\ wire'[c][Len(wire[c]) + 1] = string
    BY <2>3, AppendProperties
  <2>5. Consumed(c)' = Consumed(c) /\ Listing(c)' = Listing(c)
    BY <1>2 DEF Consumed, Listing, SameClient
  <2>6. Consumed(c) \in Nat
    BY LenProperties DEF Consumed, IInv, TypeOK
  <2>7. Written(c)' = w + 1 /\ w = Consumed(c) + Len(wire[c])
    BY <2>4, <2>5, <2>6 DEF Written
  <2>8. ASSUME NEW j \in 1 .. Len(wire[c]) + 1
        PROVE  Matches(c, Consumed(c) + j, wire[c][j])'
    <3>1. CASE j = Len(wire[c]) + 1
      <4>1. Consumed(c) + j = w + 1
        BY <2>4, <2>6, <2>7, <3>1
      <4>2. wire'[c][j] = string
        BY <2>4, <3>1
      <4>3. Matches(c, w + 1, string)'
        BY <2>1
      <4> QED
        BY <2>5, <4>1, <4>2, <4>3 DEF Matches
    <3>2. CASE j # Len(wire[c]) + 1
      <4>1. j \in 1 .. Len(wire[c])
        BY <2>4, <3>2
      <4>2. Matches(c, Consumed(c) + j, wire[c][j]) /\ wire'[c][j] = wire[c][j]
        BY <2>1, <2>4, <4>1 DEF IInv, ClientInv, Stream
      <4> QED
        BY <1>2, <2>5, <4>2 DEF Matches
    <3> QED
      BY <3>1, <3>2
  <2>9. InStep(c)'
    BY <2>1, <2>7
  <2> QED
    BY <1>2, <2>1, <2>4, <2>5, <2>8, <2>9 DEF IInv, ClientInv, Stream, SameClient
<1>8. Parted(c)'
  <2>1. SUFFICES ASSUME link'[c] # "open" PROVE reader[c] = "done" /\ Deserter(c)'
    BY <1>2 DEF Parted, SameClient
  <2>2. link[c] # "open"
    BY <2>1 DEF Writes, Sent
  <2> QED
    BY <1>1, <1>2, <2>2, DeserterStays DEF IInv, ClientInv, Parted
<1>9. Read(c)'
  <2>1. SameClient(c) /\ snapshot'[c] = snapshot[c]
    BY <1>2
  <2>2. PICK n \in 0 .. Len(received[c]) :
          /\ n <= Len(snapshot[c])
          /\ \A j \in 1 .. n : received[c][j] = snapshot[c][j]
          /\ \A j \in n + 1 .. Len(received[c]) : received[c][j] = Blank
          /\ ~ (n < Len(received[c]))
    BY <1>1 DEF IInv, ClientInv, Read
  <2> QED
    BY <2>1, <2>2 DEF Read, SameClient
<1>10. Printed(c)'
  BY <1>1, <1>2 DEF IInv, ClientInv, Printed, SameClient, table
<1>11. ClientInv(c)'
  BY <1>6, <1>7, <1>8, <1>9, <1>10 DEF ClientInv
<1> QED
  BY <1>1, <1>2, <1>4, <1>5, <1>11, OneActs DEF table

----------------------------------------------------------------------------
(* The steps of the handler. *)

(* What a listing says is a matter of the table and of the request. *)
LEMMA SameTable ==
  ASSUME NEW c \in Clients, UNCHANGED <<users, files>>, command'[c] = command[c]
  PROVE  /\ Listing(c)' = Listing(c) /\ EndOf(c)' = EndOf(c)
         /\ Rows(Listing(c))' = Rows(Listing(c))
         /\ \A i : Before(i)' = Before(i)
BY DEF Listing, EndOf, Rows, Entry, Before

(* A listing is one of two. *)
LEMMA TwoListings ==
  ASSUME NEW c \in Clients
  PROVE  Listing(c) \in {"LIST_USERS", "LIST_CONTENT"}
BY DEF Listing

(* A client that still reads has its connection open. *)
LEMMA FlowingWrite ==
  ASSUME IInv, NEW c \in Clients, Flowing(c), NEW string, NEW h, NEW p,
         Writes(c, string, h, p)
  PROVE  /\ wire'[c] = Append(wire[c], string) /\ SameClient(c)
         /\ handler'[c] = h /\ cursor'[c] = p /\ snapshot' = snapshot
<1>1. link[c] = "open"
  BY DEF IInv, ClientInv, Parted, Flowing
<1> QED
  BY <1>1 DEF Writes, Sent, IInv, TypeOK, readervars, SameClient

(* Nothing has been read while nothing has been written. *)
LEMMA NothingWritten ==
  ASSUME TypeOK, NEW c \in Clients, Flowing(c), Written(c) = 0
  PROVE  reader[c] = "response" /\ wire[c] = <<>>
<1>1. Len(wire[c]) \in Nat /\ Len(received[c]) \in Nat
  BY LenProperties DEF TypeOK
<1>2. Consumed(c) + Len(wire[c]) = 0
  BY DEF Written
<1>3. Consumed(c) \in Nat /\ (Consumed(c) = 0 => reader[c] = "response")
  BY <1>1 DEF Consumed, Flowing
<1>4. Len(wire[c]) = 0 /\ Consumed(c) = 0
  BY <1>1, <1>2, <1>3
<1>5. wire[c] \in Seq(Strings)
  BY DEF TypeOK
<1> QED
  BY <1>3, <1>4, <1>5, EmptySeq

(* The refusal. *)
LEMMA RefuseKeeps ==
  ASSUME IInv, NEW c \in Clients, At(c, "refused"),
         Writes(c, <<"response", 1>>, "unlock", cursor[c])
  PROVE  IInv'
<1> DEFINE s == <<"response", 1>>
<1>1. s \in Strings
  BY DEF Strings
<1>2. handler[c] = "refused" /\ server = "up"
  BY DEF At, IInv, TypeOK, ClientInv, Fresh
<1>3. /\ ~Finished(c) /\ ~Refused(c) /\ InSection(c)
      /\ cursor[c] \in Nat \X (1 .. 3)
  BY <1>2 DEF Finished, Refused, InSection, IInv, TypeOK
<1>4. /\ handler'[c] = "unlock" /\ command'[c] = command[c]
      /\ snapshot' = snapshot /\ UNCHANGED <<users, files>>
  BY DEF Writes, IInv, TypeOK, Sent, table
<1>5. command[c] # "CHANGE"
  BY <1>2 DEF IInv, ClientInv, Section
<1>6. Section(c)'
  BY <1>2, <1>4, SameTable DEF Section, InSection, IInv, ClientInv
<1>7. ASSUME Flowing(c) PROVE Written(c) = 0 /\ Refused(c)'
  <2>1. Written(c) = 0
    BY <1>2, <1>7 DEF IInv, ClientInv, Stream, InStep
  <2>2. reader[c] = "response" /\ wire[c] = <<>>
    BY <1>7, <2>1, NothingWritten DEF IInv
  <2>3. wire'[c] = Append(wire[c], s) /\ SameClient(c)
    BY <1>7, FlowingWrite
  <2>4. wire'[c] = <<s>>
    BY <2>2, <2>3
  <2> QED
    BY <1>4, <1>5, <2>1, <2>2, <2>3, <2>4 DEF Refused, SameClient
<1>8. PICK w : w = Written(c)
  OBVIOUS
<1>9. Flowing(c) => Matches(c, w + 1, s)' /\ InStep(c)'
  BY <1>4, <1>5, <1>7, <1>8 DEF Matches, InStep
<1> QED
  BY <1>1, <1>3, <1>6, <1>8, <1>9, WriteKeeps

(* The answer that a listing follows. *)
LEMMA GrantKeeps ==
  ASSUME IInv, NEW c \in Clients, At(c, "granted"),
         Writes(c, <<"response", 0>>, "count", cursor[c])
  PROVE  IInv'
<1> DEFINE s == <<"response", 0>>
<1>1. s \in Strings
  BY DEF Strings
<1>2. handler[c] = "granted" /\ server = "up"
  BY DEF At, IInv, TypeOK, ClientInv, Fresh
<1>3. /\ ~Finished(c) /\ ~Refused(c) /\ InSection(c)
      /\ cursor[c] \in Nat \X (1 .. 3)
  BY <1>2 DEF Finished, Refused, InSection, IInv, TypeOK
<1>4. /\ handler'[c] = "count" /\ command'[c] = command[c] /\ cursor'[c] = cursor[c]
      /\ snapshot' = snapshot /\ UNCHANGED <<users, files>>
  BY DEF Writes, IInv, TypeOK, Sent, table
<1>5. Section(c)'
  BY <1>2, <1>4, SameTable DEF Section, InSection, IInv, ClientInv
<1>6. Flowing(c) => Written(c) = 0
  BY <1>2 DEF IInv, ClientInv, Stream, InStep
<1>7. PICK w : w = Written(c)
  OBVIOUS
<1>8. Flowing(c) => Matches(c, w + 1, s)'
  BY <1>6, <1>7 DEF Matches
<1>9. Flowing(c) /\ Written(c)' = w + 1 => InStep(c)'
  BY <1>4, <1>6, <1>7 DEF InStep
<1> QED
  BY <1>1, <1>3, <1>5, <1>7, <1>8, <1>9, WriteKeeps

(* The answer of the other requests. *)
LEMMA ReplyKeeps ==
  ASSUME IInv, NEW c \in Clients, At(c, "reply"),
         Writes(c, <<"response", 0>>, "close", cursor[c])
  PROVE  IInv'
<1> DEFINE s == <<"response", 0>>
<1>1. s \in Strings
  BY DEF Strings
<1>2. handler[c] = "reply" /\ server = "up" /\ command[c] = "CHANGE"
  BY DEF At, IInv, TypeOK, ClientInv, Fresh, Section
<1>3. /\ ~Finished(c) /\ ~Refused(c) /\ ~InSection(c)
      /\ cursor[c] \in Nat \X (1 .. 3)
  BY <1>2 DEF Finished, Refused, InSection, IInv, TypeOK
<1>4. /\ handler'[c] = "close" /\ command'[c] = command[c]
      /\ snapshot' = snapshot /\ UNCHANGED <<users, files>>
  BY DEF Writes, IInv, TypeOK, Sent, table
<1>5. Section(c)'
  BY <1>4 DEF Section, InSection
<1>6. ASSUME Flowing(c)
      PROVE  Written(c) = 0 /\ reader'[c] = "response" /\ wire'[c] = <<s>>
  <2>1. Written(c) = 0
    BY <1>2, <1>6 DEF IInv, ClientInv, Stream, InStep
  <2>2. reader[c] = "response" /\ wire[c] = <<>>
    BY <1>6, <2>1, NothingWritten DEF IInv
  <2>3. wire'[c] = Append(wire[c], s) /\ SameClient(c)
    BY <1>6, FlowingWrite
  <2> QED
    BY <2>1, <2>2, <2>3 DEF SameClient
<1>7. PICK w : w = Written(c)
  OBVIOUS
<1>8. Flowing(c) => Matches(c, w + 1, s)'
  BY <1>6, <1>7 DEF Matches
<1>9. Flowing(c) => InStep(c)'
  BY <1>2, <1>4, <1>6 DEF InStep
<1> QED
  BY <1>1, <1>3, <1>5, <1>7, <1>8, <1>9, WriteKeeps

(* In the section of a listing the snapshot is the listing of the table,   *)
(* announced as long as it is.                                             *)
LEMMA SnapshotLength ==
  ASSUME IInv, NEW c \in Clients, InSection(c), command[c] # "CHANGE"
  PROVE  /\ snapshot[c] = Rows(Listing(c)) /\ snapshot[c] \in Seq(Strings)
         /\ Count(Listing(c)) \in Nat
         /\ Count(Listing(c)) * Width(Listing(c)) = Len(snapshot[c])
<1>1. snapshot[c] = Rows(Listing(c))
  BY DEF IInv, ClientInv, Section
<1>2. TableTyped
  BY DEF IInv, TypeOK, TableTyped
<1>3. CASE Listing(c) = "LIST_USERS"
  <2>1. Count("LIST_USERS") \in Nat
    BY BeforeSteps
  <2>2. Count("LIST_USERS") * 3 = 3 * Count("LIST_USERS")
    BY <2>1
  <2> QED
    BY <1>1, <1>2, <1>3, <2>1, <2>2, RowsOfUsers DEF Width
<1>4. CASE Listing(c) = "LIST_CONTENT"
  BY <1>1, <1>2, <1>4, RowsOfFiles DEF Width
<1> QED
  BY <1>3, <1>4, TwoListings

(* The cursor starts in front of the first string. *)
LEMMA PositionStarts ==
  ASSUME NEW c \in Clients, cursor[c] = <<1, 1>>
  PROVE  Position(c) = 0
BY BeforeSteps DEF Position

(* The count. *)
LEMMA CountKeeps ==
  ASSUME IInv, NEW c \in Clients, At(c, "count"),
         Writes(c, <<"count", Count(Listing(c))>>, "row", cursor[c])
  PROVE  IInv'
<1>1. handler[c] = "count" /\ server = "up" /\ InSection(c)
  BY DEF At, IInv, TypeOK, ClientInv, Fresh, InSection
<1>2. command[c] # "CHANGE" /\ cursor[c] = <<1, 1>>
  BY <1>1 DEF IInv, ClientInv, Section
<1>3. PICK n \in Nat : n = Count(Listing(c))
  BY <1>1, <1>2, SnapshotLength
<1> DEFINE s == <<"count", n>>
<1>4. s \in Strings /\ s[1] = "count" /\ s[2] = n
  BY DEF Strings
<1>5. n * Width(Listing(c)) = Len(snapshot[c])
  BY <1>1, <1>2, <1>3, SnapshotLength
<1> HIDE DEF s
<1>6. Writes(c, s, "row", cursor[c])
  BY <1>3 DEF s
<1>7. ~Finished(c) /\ ~Refused(c) /\ cursor[c] \in Nat \X (1 .. 3)
  BY <1>1 DEF Finished, Refused, IInv, TypeOK
<1>8. /\ handler'[c] = "row" /\ command'[c] = command[c] /\ cursor'[c] = cursor[c]
      /\ snapshot' = snapshot /\ UNCHANGED <<users, files>>
  BY DEF Writes, IInv, TypeOK, Sent, table
<1>9. /\ Listing(c)' = Listing(c) /\ EndOf(c)' = EndOf(c)
      /\ Rows(Listing(c))' = Rows(Listing(c))
  BY <1>8, SameTable
<1>10. Section(c)'
  <2>1. EndOf(c) \in Nat
    BY SlotNumbers, LenProperties DEF EndOf, IInv, TypeOK
  <2>2. 1 \in 1 .. EndOf(c) + 1 /\ 1 \in 1 .. Width(Listing(c))
    BY <2>1 DEF Width
  <2>3. snapshot[c] = Rows(Listing(c))
    BY <1>1, <1>2, SnapshotLength
  <2> QED
    BY <1>2, <1>8, <1>9, <2>2, <2>3 DEF Section, InSection
<1>11. Flowing(c) => Written(c) = 1
  BY <1>1 DEF IInv, ClientInv, Stream, InStep
<1>12. PICK w : w = Written(c)
  OBVIOUS
<1>13. Flowing(c) => Matches(c, w + 1, s)'
  BY <1>4, <1>5, <1>8, <1>9, <1>11, <1>12 DEF Matches
<1>14. Flowing(c) /\ Written(c)' = w + 1 => InStep(c)'
  <2>1. Position(c)' = 0
    <3>1. cursor'[c] = <<1, 1>>
      BY <1>2, <1>8
    <3>2. Before(1)' = 0
      BY <1>8, SameTable, BeforeSteps
    <3> QED
      BY <3>1, <3>2 DEF Position
  <2> QED
    BY <1>8, <1>11, <1>12, <2>1 DEF InStep
<1> QED
  BY <1>1, <1>4, <1>6, <1>7, <1>10, <1>12, <1>13, <1>14, WriteKeeps

(* A string of the listing, if it is the one the cursor is at. *)
LEMMA StringKeeps ==
  ASSUME IInv, NEW c \in Clients, At(c, "row"), NEW string, NEW p, NEW q \in Nat,
         Writes(c, string, "row", p), p \in Nat \X (1 .. 3),
         q = Position(c), q + 1 <= Len(snapshot[c]),
         string = snapshot[c][q + 1],
         Section(c)', Position(c)' = q + 1
  PROVE  IInv'
<1>1. handler[c] = "row" /\ server = "up" /\ InSection(c) /\ command[c] # "CHANGE"
  BY DEF At, IInv, TypeOK, ClientInv, Fresh, InSection, Section
<1>2. snapshot[c] \in Seq(Strings) /\ Len(snapshot[c]) \in Nat
  BY LenProperties DEF IInv, TypeOK
<1>3. string \in Strings
  BY <1>2, ElementOfSeq
<1>4. ~Finished(c) /\ ~Refused(c)
  BY <1>1, <1>2 DEF Finished, Refused
<1>5. handler'[c] = "row" /\ snapshot' = snapshot
  BY DEF Writes, IInv, TypeOK
<1>6. Flowing(c) => Written(c) = 2 + q
  BY <1>1 DEF IInv, ClientInv, Stream, InStep
<1>7. PICK w : w = Written(c)
  OBVIOUS
<1>8. Flowing(c) => Matches(c, w + 1, string)'
  <2>1. SUFFICES ASSUME Flowing(c) PROVE Matches(c, q + 3, string)'
    BY <1>6, <1>7
  <2>2. q + 3 # 1 /\ q + 3 # 2 /\ (q + 3) - 2 = q + 1
    OBVIOUS
  <2> QED
    BY <1>5, <2>2 DEF Matches
<1>9. Flowing(c) /\ Written(c)' = w + 1 => InStep(c)'
  BY <1>5, <1>6, <1>7 DEF InStep
<1> QED
  BY <1>1, <1>3, <1>4, <1>7, <1>8, <1>9, WriteKeeps

(* Where the loop of LIST_USERS is, and what is there. *)
LEMMA UserRow ==
  ASSUME IInv, NEW c \in Clients, handler[c] = "row", Listing(c) = "LIST_USERS",
         NEW i \in Slots, NEW k \in 1 .. 3, cursor[c] = <<i, k>>
  PROVE  /\ Position(c) \in Nat /\ Position(c) = 3 * Before(i) + k - 1
         /\ Before(i) \in Nat
         /\ users[i] = None => k = 1
         /\ users[i] # None =>
              /\ Position(c) + 1 <= Len(snapshot[c])
              /\ Entry(i)[k] = snapshot[c][Position(c) + 1]
<1>1. Before(i) \in Nat
  BY BeforeSteps
<1>2. Position(c) = 3 * Before(i) + k - 1
  BY DEF Position
<1>3. users[i] = None => k = 1
  BY DEF IInv, ClientInv, Section
<1>4. snapshot[c] = Rows("LIST_USERS")
  BY DEF IInv, ClientInv, Section, InSection
<1>5. TableTyped
  BY DEF IInv, TypeOK, TableTyped
<1>6. users[i] # None => /\ 3 * Before(i) + k <= Len(snapshot[c])
                         /\ snapshot[c][3 * Before(i) + k] = Entry(i)[k]
  BY <1>4, <1>5, RowsOfUsers
<1>7. Position(c) + 1 = 3 * Before(i) + k /\ Position(c) \in Nat
  BY <1>1, <1>2
<1> QED
  BY <1>1, <1>2, <1>3, <1>6, <1>7

(* A string of a user's entry. *)
LEMMA UserRowKeeps ==
  ASSUME IInv, NEW c \in Clients, At(c, "row"), Listing(c) = "LIST_USERS",
         NEW i \in Slots, NEW k \in 1 .. 3, cursor[c] = <<i, k>>,
         users[i] # None, NEW p,
         p = IF k < 3 THEN <<i, k + 1>> ELSE <<i + 1, 1>>,
         Writes(c, Entry(i)[k], "row", p)
  PROVE  IInv'
<1>1. handler[c] = "row" /\ InSection(c) /\ command[c] # "CHANGE"
  BY DEF At, IInv, ClientInv, InSection, Section
<1>2. PICK q \in Nat :
        /\ q = Position(c) /\ q = 3 * Before(i) + k - 1
        /\ q + 1 <= Len(snapshot[c]) /\ Entry(i)[k] = snapshot[c][q + 1]
  BY <1>1, UserRow
<1>3. NumUsers \in Nat /\ i \in Nat /\ 1 <= i /\ i <= NumUsers
  BY SlotNumbers DEF Slots
<1>4. /\ handler'[c] = "row" /\ command'[c] = command[c] /\ cursor'[c] = p
      /\ snapshot' = snapshot /\ UNCHANGED <<users, files>>
  BY DEF Writes, IInv, TypeOK, Sent, table
<1>5. /\ Listing(c)' = "LIST_USERS" /\ EndOf(c)' = NumUsers
      /\ Rows(Listing(c))' = Rows(Listing(c))
      /\ \A j : Before(j)' = Before(j)
  BY <1>4, SameTable DEF EndOf
<1>6. Before(i) \in Nat /\ Before(i + 1) = Before(i) + 1
  BY BeforeSteps
<1>7. CASE k < 3
  <2>1. p = <<i, k + 1>> /\ k + 1 \in 1 .. 3 /\ k + 1 > 1
    BY <1>7
  <2>2. p \in Nat \X (1 .. 3)
    BY <1>3, <2>1
  <2>3. Position(c)' = q + 1
    <3>1. Position(c)' = 3 * Before(i) + (k + 1) - 1
      BY <1>4, <1>5, <2>1 DEF Position
    <3> QED
      BY <1>2, <1>6, <3>1
  <2>4. Section(c)'
    <3>1. snapshot[c] = Rows(Listing(c))
      BY <1>1, SnapshotLength
    <3>2. i \in 1 .. NumUsers + 1
      BY <1>3
    <3> QED
      BY <1>1, <1>4, <1>5, <2>1, <3>1, <3>2 DEF Section, InSection, Width
  <2> QED
    BY <1>2, <2>2, <2>3, <2>4, StringKeeps
<1>8. CASE ~(k < 3)
  <2>1. p = <<i + 1, 1>> /\ k = 3
    BY <1>8
  <2>2. p \in Nat \X (1 .. 3)
    BY <1>3, <2>1
  <2>3. Position(c)' = q + 1
    <3>1. Position(c)' = 3 * Before(i + 1) + 1 - 1
      BY <1>4, <1>5, <2>1 DEF Position
    <3> QED
      BY <1>2, <1>6, <2>1, <3>1
  <2>4. Section(c)'
    <3>1. snapshot[c] = Rows(Listing(c))
      BY <1>1, SnapshotLength
    <3>2. i + 1 \in 1 .. NumUsers + 1
      BY <1>3
    <3> QED
      BY <1>1, <1>4, <1>5, <2>1, <3>1, <3>2 DEF Section, InSection, Width
  <2> QED
    BY <1>2, <2>2, <2>3, <2>4, StringKeeps
<1> QED
  BY <1>7, <1>8

(* A filename. *)
LEMMA FileRowKeeps ==
  ASSUME IInv, NEW c \in Clients, At(c, "row"), Listing(c) = "LIST_CONTENT",
         NEW i \in 1 .. Len(files), cursor[c][1] = i,
         Writes(c, <<"filename", files[i]>>, "row", <<i + 1, 1>>)
  PROVE  IInv'
<1>1. handler[c] = "row" /\ InSection(c) /\ command[c] # "CHANGE"
  BY DEF At, IInv, ClientInv, InSection, Section
<1>2. TableTyped /\ Len(files) \in Nat
  BY LenProperties DEF IInv, TypeOK, TableTyped
<1>3. snapshot[c] = Rows("LIST_CONTENT")
  BY <1>1 DEF IInv, ClientInv, Section
<1>4. PICK q \in Nat : q + 1 = i /\ q = i - 1
  BY <1>2
<1>5. q = Position(c)
  BY <1>4 DEF Position
<1>6. q + 1 <= Len(snapshot[c]) /\ <<"filename", files[i]>> = snapshot[c][q + 1]
  BY <1>2, <1>3, <1>4, RowsOfFiles
<1>7. /\ handler'[c] = "row" /\ command'[c] = command[c]
      /\ cursor'[c] = <<i + 1, 1>>
      /\ snapshot' = snapshot /\ UNCHANGED <<users, files>>
  BY DEF Writes, IInv, TypeOK, Sent, table
<1>8. /\ Listing(c)' = "LIST_CONTENT" /\ EndOf(c)' = Len(files)
      /\ Rows(Listing(c))' = Rows(Listing(c))
  BY <1>7, SameTable DEF EndOf
<1>9. Position(c)' = q + 1
  <2>1. Position(c)' = (i + 1) - 1
    BY <1>7, <1>8 DEF Position
  <2> QED
    BY <1>4, <2>1
<1>10. Section(c)'
  <2>1. i + 1 \in 1 .. Len(files) + 1
    BY <1>2
  <2> QED
    BY <1>1, <1>3, <1>7, <1>8, <2>1 DEF Section, InSection, Width
<1>11. <<i + 1, 1>> \in Nat \X (1 .. 3)
  BY <1>2
<1> QED
  BY <1>4, <1>5, <1>6, <1>9, <1>10, <1>11, StringKeeps

(* A step of the handler that writes nothing. *)
Quiet(c) ==
  /\ server' = server
  /\ UNCHANGED <<command, readervars, link, wire>>
  /\ handler'[c] # "lock" /\ handler[c] # "none"
  /\ \A d \in Clients \ {c} : /\ handler'[d] = handler[d] /\ cursor'[d] = cursor[d]
                              /\ snapshot'[d] = snapshot[d]

(* What it takes for such a step to keep the invariant. *)
LEMMA QuietKeeps ==
  ASSUME IInv, NEW c \in Clients, Quiet(c), TypeOK',
         snapshot'[c] = snapshot[c],
         UNCHANGED <<users, files>> \/ mutex = c,
         Section(c)', Refused(c) => Refused(c)',
         Flowing(c) /\ InStep(c) => InStep(c)',
         Finished(c) => Finished(c)'
  PROVE  IInv'
<1> USE DEF readervars
<1>1. server = "up"
  BY DEF Quiet, IInv, TypeOK, ClientInv, Fresh
<1>2. /\ SameClient(c) /\ link'[c] = link[c] /\ wire'[c] = wire[c]
      /\ \A d \in Clients \ {c} : Still(d)
  BY DEF SameClient, Still, Quiet
<1>3. Fresh(c)'
  BY <1>1, <1>2 DEF IInv, ClientInv, Fresh, Quiet, SameClient
<1>4. Stream(c)'
  <2>1. /\ Listing(c)' = Listing(c) /\ Consumed(c)' = Consumed(c)
        /\ Flowing(c)' = Flowing(c)
    BY <1>2 DEF Listing, Consumed, Flowing, SameClient
  <2>2. ASSUME NEW p, NEW string, Matches(c, p, string) PROVE Matches(c, p, string)'
    BY <2>1, <2>2 DEF Matches
  <2> QED
    BY <1>1, <1>2, <2>1, <2>2 DEF IInv, ClientInv, Stream, SameClient, Flowing
<1>5. Parted(c)'
  <2>1. Deserter(c) => Deserter(c)'
    BY <1>2, DeserterStays
  <2> QED
    BY <1>1, <1>2, <2>1 DEF IInv, ClientInv, Parted, SameClient
<1>6. Read(c)'
  BY <1>1, <1>2 DEF IInv, ClientInv, Read, SameClient, Quiet
<1>7. Printed(c)'
  BY <1>1, <1>2 DEF IInv, ClientInv, Printed, SameClient, Quiet
<1>8. ClientInv(c)'
  BY <1>3, <1>4, <1>5, <1>6, <1>7 DEF ClientInv
<1> QED
  BY <1>2, <1>8, OneActs DEF Quiet

(* The mutex is taken, and what will be listed is determined. *)
LEMMA LockKeeps ==
  ASSUME IInv, NEW c \in Clients, Lock(c), UNCHANGED <<command, readervars>>
  PROVE  IInv'
<1> USE DEF readervars
<1>1. handler[c] = "lock" /\ server = "up" /\ mutex = None
  BY DEF Lock, At, IInv, TypeOK, ClientInv, Fresh
<1>2. /\ handler' = [handler EXCEPT ![c] = "decide"] /\ mutex' = c
      /\ snapshot' = [snapshot EXCEPT ![c] = Rows(Listing(c))]
      /\ UNCHANGED <<users, files, server, cursor, link, wire>>
  BY DEF Lock, Goto
<1>3. Rows(Listing(c)) \in Seq(Strings)
  BY TwoListings, RowsOfUsers, RowsOfFiles DEF TableTyped, IInv, TypeOK
<1>4. /\ handler'[c] = "decide" /\ snapshot'[c] = Rows(Listing(c))
      /\ SameClient(c) /\ \A d \in Clients \ {c} : Still(d)
  BY <1>2 DEF IInv, TypeOK, SameClient, Still
<1>5. TypeOK'
  <2>1. \A d \in Clients : InSection(d)' <=> d = c
    <3>1. None \notin Clients
      BY ListingAssumption
    <3>2. \A d \in Clients : ~InSection(d)
      BY <1>1, <3>1 DEF IInv, TypeOK, InSection
    <3> QED
      BY <1>4, <3>2 DEF InSection, Still
  <2>2. \A d \in Clients : InSection(d)' <=> mutex' = d
    BY <1>2, <2>1
  <2> QED
    BY <1>2, <1>3, <2>2 DEF IInv, TypeOK, InSection
<1>6. wire[c] = <<>> /\ received[c] = <<>> /\ result[c] = "none"
  BY <1>1 DEF IInv, ClientInv, Fresh
<1>7. Fresh(c)'
  BY <1>1, <1>2, <1>4, <1>6 DEF IInv, ClientInv, Fresh, SameClient
<1>8. Section(c)'
  BY <1>1, <1>2, <1>4, SameTable DEF IInv, ClientInv, Section, InSection
<1>9. Stream(c)'
  <2>1. SUFFICES ASSUME Flowing(c) PROVE Stream(c)'
    BY <1>4 DEF Stream, Flowing, SameClient
  <2>2. Written(c) = 0
    BY <1>1, <2>1 DEF IInv, ClientInv, Stream, InStep
  <2>3. reader[c] = "response"
    BY <2>1, <2>2, NothingWritten DEF IInv
  <2>4. Written(c)' = 0
    BY <1>2, <1>4, <2>2 DEF Written, Consumed, SameClient
  <2>5. InStep(c)'
    BY <1>4, <2>4 DEF InStep
  <2>6. Len(wire'[c]) = 0
    BY <1>2, <1>6
  <2> QED
    BY <1>4, <1>6, <2>3, <2>5, <2>6 DEF Stream, SameClient
<1>10. Parted(c)'
  <2>1. Deserter(c) => Deserter(c)'
    BY <1>4, DeserterStays
  <2>2. ~Finished(c)
    BY <1>1 DEF Finished
  <2> QED
    BY <1>1, <1>2, <1>4, <2>1, <2>2 DEF IInv, ClientInv, Parted, SameClient
<1>11. Read(c)'
  <2>1. received'[c] = <<>> /\ Len(received'[c]) = 0
    BY <1>4, <1>6 DEF SameClient
  <2>2. Len(snapshot'[c]) \in Nat
    BY <1>3, <1>4, LenProperties
  <2> QED
    BY <2>1, <2>2 DEF Read
<1>12. Printed(c)'
  BY <1>4, <1>6 DEF Printed, SameClient
<1>13. ClientInv(c)'
  BY <1>7, <1>8, <1>9, <1>10, <1>11, <1>12 DEF ClientInv
<1> QED
  BY <1>2, <1>4, <1>5, <1>13, OneActs

(* The change of the table, typed. *)
LEMMA ChangeTyped ==
  ASSUME TypeOK, Change
  PROVE  users' \in [Slots -> Endpoints \cup {None}] /\ files' \in Seq(Files)
<1>1. Len(files) \in Nat /\ DOMAIN files = 1 .. Len(files)
  BY LenProperties DEF TypeOK
<1>2. CASE UNCHANGED files
  BY <1>2 DEF Change, TypeOK
<1>3. CASE users' = users /\ \E f \in Files : files' = Append(files, f)
  BY <1>3, AppendProperties DEF TypeOK
<1>4. ASSUME NEW i \in DOMAIN files, UNCHANGED users,
             files' = [j \in 1 .. Len(files) - 1 |->
                        IF j = i THEN files[Len(files)] ELSE files[j]]
      PROVE  files' \in Seq(Files)
  <2>1. Len(files) - 1 \in Nat
    BY <1>1
  <2>2. \A j \in 1 .. Len(files) : files[j] \in Files
    BY ElementOfSeq DEF TypeOK
  <2>3. \A j \in 1 .. Len(files) - 1 :
          (IF j = i THEN files[Len(files)] ELSE files[j]) \in Files
    BY <1>1, <2>2
  <2>4. files' \in [1 .. Len(files) - 1 -> Files]
    BY <1>4, <2>3
  <2> QED
    BY <2>1, <2>4
<1> QED
  BY <1>2, <1>3, <1>4 DEF Change, TypeOK

(* The request of a listing is granted or not; another one takes effect. *)
LEMMA DecideKeeps ==
  ASSUME IInv, NEW c \in Clients, Decide(c), UNCHANGED <<command, readervars>>
  PROVE  IInv'
<1>1. handler[c] = "decide" /\ mutex = c /\ server = "up"
  BY DEF Decide, At, IInv, TypeOK, ClientInv, Fresh
<1>2. UNCHANGED <<mutex, server, cursor, link, wire, snapshot>>
  BY DEF Decide
<1>3. PICK h \in {"unlock", "granted", "refused"} :
        /\ handler' = [handler EXCEPT ![c] = h]
        /\ \/ h = "unlock" /\ command[c] = "CHANGE" /\ Change
           \/ h # "unlock" /\ command[c] # "CHANGE" /\ UNCHANGED <<users, files>>
  BY DEF Decide, Goto
<1>4. /\ handler'[c] = h /\ \A d \in Clients \ {c} : handler'[d] = handler[d]
  BY <1>3 DEF IInv, TypeOK
<1>5. Quiet(c)
  BY <1>1, <1>2, <1>4 DEF Quiet
<1>6. TypeOK'
  <2>1. users' \in [Slots -> Endpoints \cup {None}] /\ files' \in Seq(Files)
    BY <1>3, ChangeTyped DEF IInv, TypeOK
  <2>2. \A d \in Clients : InSection(d)' <=> mutex' = d
    <3>1. \A d \in Clients : InSection(d) <=> mutex = d
      BY DEF IInv, TypeOK, InSection
    <3> QED
      BY <1>1, <1>2, <1>4, <3>1 DEF InSection
  <2> QED
    BY <1>2, <1>3, <2>1, <2>2 DEF IInv, TypeOK, InSection, readervars
<1>7. Section(c)'
  <2>1. CASE h = "unlock"
    BY <1>3, <1>4, <2>1 DEF Section, InSection
  <2>2. CASE h # "unlock"
    <3>1. UNCHANGED <<users, files>> /\ command[c] # "CHANGE"
      BY <1>3, <2>2
    <3> QED
      BY <1>1, <1>2, <1>4, <2>2, <3>1, SameTable
         DEF Section, InSection, IInv, ClientInv
  <2> QED
    BY <2>1, <2>2
<1>8. ~Refused(c) /\ ~Finished(c)
  BY <1>1 DEF Refused, Finished
<1>9. Flowing(c) /\ InStep(c) => InStep(c)'
  <2>1. Written(c)' = Written(c)
    BY <1>2 DEF Written, Consumed, readervars
  <2> QED
    BY <1>1, <1>3, <1>4, <2>1 DEF InStep
<1> QED
  BY <1>1, <1>2, <1>5, <1>6, <1>7, <1>8, <1>9, QuietKeeps

(* A slot that is passed over. *)
LEMMA PassKeeps ==
  ASSUME IInv, NEW c \in Clients, At(c, "row"), Listing(c) = "LIST_USERS",
         NEW i \in Slots, cursor[c][1] = i, users[i] = None,
         cursor' = [cursor EXCEPT ![c] = <<i + 1, 1>>],
         UNCHANGED <<table, handler, link, wire, command, readervars, snapshot>>
  PROVE  IInv'
<1> USE DEF table
<1>1. handler[c] = "row" /\ InSection(c) /\ command[c] # "CHANGE"
  BY DEF At, IInv, ClientInv, InSection, Section
<1>2. PICK k \in 1 .. 3 : cursor[c] = <<i, k>>
  BY DEF IInv, TypeOK
<1>3. k = 1 /\ Position(c) = 3 * Before(i) + k - 1 /\ Before(i) \in Nat
  BY <1>1, <1>2, UserRow
<1>4. cursor'[c] = <<i + 1, 1>> /\ \A d \in Clients \ {c} : cursor'[d] = cursor[d]
  BY DEF IInv, TypeOK
<1>5. NumUsers \in Nat /\ i \in Nat /\ 1 <= i /\ i <= NumUsers
  BY SlotNumbers DEF Slots
<1>6. Quiet(c)
  BY <1>1, <1>4 DEF Quiet
<1>7. TypeOK'
  <2>1. <<i + 1, 1>> \in Nat \X (1 .. 3)
    BY <1>5
  <2> QED
    BY <2>1 DEF IInv, TypeOK, readervars
<1>8. /\ Listing(c)' = "LIST_USERS" /\ EndOf(c)' = NumUsers
      /\ Rows(Listing(c))' = Rows(Listing(c))
      /\ \A j : Before(j)' = Before(j)
  BY SameTable DEF EndOf
<1>9. Section(c)'
  <2>1. i + 1 \in 1 .. NumUsers + 1
    BY <1>5
  <2>2. snapshot[c] = Rows(Listing(c))
    BY <1>1, SnapshotLength
  <2> QED
    BY <1>1, <1>4, <1>8, <2>1, <2>2 DEF Section, InSection, Width
<1>10. Position(c)' = Position(c)
  <2>1. Position(c)' = 3 * Before(i + 1) + 1 - 1
    BY <1>4, <1>8 DEF Position
  <2>2. Before(i + 1) = Before(i)
    BY BeforeSteps
  <2> QED
    BY <1>3, <2>1, <2>2
<1>11. ~Refused(c)
  BY <1>1 DEF Refused
<1>12. Flowing(c) /\ InStep(c) => InStep(c)'
  <2>1. Written(c)' = Written(c)
    BY DEF Written, Consumed, readervars
  <2> QED
    BY <1>1, <1>10, <2>1 DEF InStep
<1>13. Finished(c) => Finished(c)'
  BY <1>1, <1>10 DEF Finished
<1> QED
  BY <1>6, <1>7, <1>9, <1>11, <1>12, <1>13, QuietKeeps

(* The loop ends: all is written. *)
LEMMA EndRowsKeeps ==
  ASSUME IInv, NEW c \in Clients, EndRows(c), UNCHANGED <<command, readervars>>
  PROVE  IInv'
<1> USE DEF table
<1>1. handler[c] = "row" /\ InSection(c) /\ command[c] # "CHANGE"
  BY DEF EndRows, At, IInv, ClientInv, InSection, Section
<1>2. /\ handler' = [handler EXCEPT ![c] = "unlock"]
      /\ UNCHANGED <<table, cursor, link, wire, snapshot>>
  BY DEF EndRows, Goto
<1>3. handler'[c] = "unlock" /\ \A d \in Clients \ {c} : handler'[d] = handler[d]
  BY <1>2 DEF IInv, TypeOK
<1>4. Quiet(c)
  BY <1>1, <1>2, <1>3 DEF Quiet
<1>5. TypeOK'
  BY <1>1, <1>2, <1>3 DEF IInv, TypeOK, InSection, readervars
<1>6. Section(c)'
  <2>1. snapshot[c] = Rows(Listing(c))
    BY <1>1, SnapshotLength
  <2> QED
    BY <1>2, <1>3, <2>1, SameTable DEF Section, InSection
<1>7. Position(c) = Len(snapshot[c])
  <2>1. EndOf(c) \in Nat
    BY SlotNumbers, LenProperties DEF EndOf, IInv, TypeOK
  <2>2. cursor[c][1] = EndOf(c) + 1
    <3>1. cursor[c][1] > EndOf(c)
      BY DEF EndRows, EndOf
    <3>2. cursor[c][1] \in 1 .. EndOf(c) + 1
      BY <1>1 DEF IInv, ClientInv, Section
    <3> QED
      BY <2>1, <3>1, <3>2
  <2>3. snapshot[c] = Rows(Listing(c)) /\ TableTyped
    BY <1>1, SnapshotLength DEF TableTyped, IInv, TypeOK
  <2>4. CASE Listing(c) = "LIST_USERS"
    <3>1. cursor[c][1] \notin Slots
      BY <2>1, <2>2, <2>4 DEF EndOf, Slots
    <3>2. cursor[c][2] \in 1 .. 3 /\ ~ (cursor[c][2] > 1)
      BY <1>1, <2>4, <3>1 DEF IInv, ClientInv, Section, Width
    <3>3. cursor[c][2] = 1
      BY <3>2
    <3>4. Position(c) = 3 * Before(NumUsers + 1) + 1 - 1
      BY <2>2, <2>4, <3>3 DEF Position, EndOf
    <3>5. Before(NumUsers + 1) \in Nat
          /\ Len(snapshot[c]) = 3 * Before(NumUsers + 1)
      BY <2>3, <2>4, BeforeSteps, RowsOfUsers
    <3> QED
      BY <3>4, <3>5
  <2>5. CASE Listing(c) = "LIST_CONTENT"
    BY <2>1, <2>2, <2>3, <2>5, RowsOfFiles DEF Position, EndOf
  <2> QED
    BY <2>4, <2>5, TwoListings
<1>8. ~Refused(c)
  BY <1>1 DEF Refused
<1>9. Flowing(c) /\ InStep(c) => InStep(c)'
  <2>1. Written(c)' = Written(c)
    BY <1>2 DEF Written, Consumed, readervars
  <2> QED
    BY <1>1, <1>2, <1>3, <1>7, <2>1 DEF InStep
<1>10. Finished(c)'
  BY <1>1, <1>3 DEF Finished
<1> QED
  BY <1>2, <1>4, <1>5, <1>6, <1>8, <1>9, <1>10, QuietKeeps

(* The mutex is released. *)
LEMMA UnlockKeeps ==
  ASSUME IInv, NEW c \in Clients, Unlock(c), UNCHANGED <<command, readervars>>
  PROVE  IInv'
<1>1. handler[c] = "unlock" /\ mutex = c
  BY DEF Unlock, At, IInv, TypeOK
<1>2. mutex' = None /\ UNCHANGED <<users, files, server, cursor, link, wire, snapshot>>
  BY DEF Unlock
<1>3. PICK h : /\ h = IF command[c] = "CHANGE" THEN "reply" ELSE "close"
               /\ handler' = [handler EXCEPT ![c] = h]
  BY DEF Unlock, Goto
<1>4. handler'[c] = h /\ \A d \in Clients \ {c} : handler'[d] = handler[d]
  BY <1>3 DEF IInv, TypeOK
<1>5. Quiet(c)
  BY <1>1, <1>2, <1>3, <1>4 DEF Quiet
<1>6. TypeOK'
  <2>1. None \notin Clients
    BY ListingAssumption
  <2>2. \A d \in Clients : InSection(d)' <=> mutex' = d
    <3>1. \A d \in Clients : InSection(d) <=> mutex = d
      BY DEF IInv, TypeOK, InSection
    <3> QED
      BY <1>1, <1>2, <1>3, <1>4, <2>1, <3>1 DEF InSection
  <2> QED
    BY <1>2, <1>3, <2>2 DEF IInv, TypeOK, InSection, readervars
<1>7. Section(c)'
  BY <1>3, <1>4 DEF Section, InSection
<1>8. Refused(c) => Refused(c)'
  BY <1>2, <1>3, <1>4 DEF Refused, readervars
<1>9. Flowing(c) /\ InStep(c) => InStep(c)'
  <2>1. Written(c)' = Written(c)
    BY <1>2 DEF Written, Consumed, readervars
  <2> QED
    BY <1>1, <1>2, <1>3, <1>4, <1>8, <2>1 DEF InStep
<1>10. Finished(c) => Finished(c)'
  BY <1>1, <1>3, <1>4 DEF Finished
<1> QED
  BY <1>2, <1>5, <1>6, <1>7, <1>8, <1>9, <1>10, QuietKeeps

(* The handler closes its end. *)
LEMMA CloseKeeps ==
  ASSUME IInv, NEW c \in Clients, CloseSocket(c), UNCHANGED <<command, readervars>>
  PROVE  IInv'
<1> USE DEF table
<1>1. handler[c] = "close"
  BY DEF CloseSocket, At
<1>2. /\ handler' = [handler EXCEPT ![c] = "none"]
      /\ UNCHANGED <<table, cursor, link, wire, snapshot>>
  BY DEF CloseSocket, Goto
<1>3. handler'[c] = "none" /\ \A d \in Clients \ {c} : handler'[d] = handler[d]
  BY <1>2 DEF IInv, TypeOK
<1>4. Quiet(c)
  BY <1>1, <1>2, <1>3 DEF Quiet
<1>5. TypeOK'
  BY <1>1, <1>2, <1>3 DEF IInv, TypeOK, InSection, readervars
<1>6. Section(c)'
  BY <1>3 DEF Section, InSection
<1>7. Refused(c) => Refused(c)'
  BY <1>2, <1>3 DEF Refused, readervars
<1>8. Flowing(c) /\ InStep(c) => InStep(c)'
  <2>1. Written(c)' = Written(c)
    BY <1>2 DEF Written, Consumed, readervars
  <2> QED
    BY <1>1, <1>2, <1>3, <1>7, <2>1 DEF InStep, readervars
<1>9. Finished(c)'
  BY <1>3 DEF Finished
<1> QED
  BY <1>2, <1>4, <1>5, <1>6, <1>7, <1>8, <1>9, QuietKeeps

(* The answer is written, or ends the server. *)
LEMMA RespondKeeps ==
  ASSUME IInv, NEW c \in Clients, Respond(c), UNCHANGED <<command, readervars>>
  PROVE  IInv'
<1> USE DEF table
<1>0. cursor = [cursor EXCEPT ![c] = cursor[c]]
  BY DEF IInv, TypeOK
<1>1. CASE Die /\ link[c] = "broken"
  <2>1. handler[c] \in {"refused", "granted", "reply"} /\ UNCHANGED snapshot
    BY DEF Respond, At
  <2>2. ~Finished(c)
    BY <2>1 DEF Finished
  <2> QED
    BY <1>1, <2>1, <2>2, DieKeeps
<1>2. CASE /\ At(c, "refused")
           /\ Writes(c, <<"response", 1>>, "unlock", cursor[c])
  BY <1>2, RefuseKeeps
<1>3. CASE /\ At(c, "granted")
           /\ Writes(c, <<"response", 0>>, "count", cursor[c])
  BY <1>3, GrantKeeps
<1>4. CASE /\ At(c, "reply")
           /\ Writes(c, <<"response", 0>>, "close", cursor[c])
  BY <1>4, ReplyKeeps
<1> QED
  BY <1>0, <1>1, <1>2, <1>3, <1>4 DEF Respond, Write, Writes, Sent, Goto

(* The count is written, or ends the server. *)
LEMMA SendCountKeeps ==
  ASSUME IInv, NEW c \in Clients, SendCount(c), UNCHANGED <<command, readervars>>
  PROVE  IInv'
<1> USE DEF table
<1>0. cursor = [cursor EXCEPT ![c] = cursor[c]]
  BY DEF IInv, TypeOK
<1>1. CASE Die /\ link[c] = "broken"
  <2>1. handler[c] = "count" /\ UNCHANGED snapshot
    BY DEF SendCount, At
  <2>2. ~Finished(c)
    BY <2>1 DEF Finished
  <2> QED
    BY <1>1, <2>1, <2>2, DieKeeps
<1>2. CASE Writes(c, <<"count", Count(Listing(c))>>, "row", cursor[c])
  BY <1>2, CountKeeps DEF SendCount
<1> QED
  BY <1>0, <1>1, <1>2 DEF SendCount, Write, Writes, Sent, Goto

(* A string is written, a slot passed over, or the server ends. *)
LEMMA SendRowKeeps ==
  ASSUME IInv, NEW c \in Clients, SendRow(c), UNCHANGED <<command, readervars>>
  PROVE  IInv'
<1> USE DEF table
<1>1. handler[c] = "row" /\ UNCHANGED snapshot /\ At(c, "row")
  BY DEF SendRow, At
<1>2. handler = [handler EXCEPT ![c] = "row"]
  BY <1>1 DEF IInv, TypeOK
<1>3. PICK i, k : i = cursor[c][1] /\ k = cursor[c][2] /\ i \in Nat /\ k \in 1 .. 3
  BY DEF IInv, TypeOK
<1>4. cursor[c] = <<i, k>>
  BY <1>3 DEF IInv, TypeOK
<1>5. i \in 1 .. EndOf(c) + 1 /\ k \in 1 .. Width(Listing(c))
  BY <1>1, <1>3 DEF IInv, ClientInv, Section
<1>6. CASE Listing(c) = "LIST_USERS"
  <2>1. i \in Slots
    BY <1>3, <1>5, <1>6, SlotNumbers DEF SendRow, Slots
  <2>2. PICK p : p = IF k < 3 THEN <<i, k + 1>> ELSE <<i + 1, 1>>
    OBVIOUS
  <2>3. CASE users[i] = None
    <3>1. /\ cursor' = [cursor EXCEPT ![c] = <<i + 1, 1>>]
          /\ UNCHANGED <<table, handler, link, wire>>
      BY <1>3, <1>6, <2>3 DEF SendRow
    <3> QED
      BY <1>1, <1>3, <1>6, <2>1, <2>3, <3>1, PassKeeps
  <2>4. CASE users[i] # None
    <3>1. \/ Writes(c, Entry(i)[k], "row", p)
          \/ Die /\ link[c] = "broken"
      BY <1>1, <1>2, <1>3, <1>6, <2>2, <2>4
         DEF SendRow, Write, Writes, Sent, Width
    <3>2. CASE Writes(c, Entry(i)[k], "row", p)
      BY <1>1, <1>3, <1>4, <1>6, <2>1, <2>2, <2>4, <3>2, UserRowKeeps
    <3>3. CASE Die /\ link[c] = "broken"
      <4>1. /\ Position(c) \in Nat /\ Position(c) + 1 <= Len(snapshot[c])
            /\ Len(snapshot[c]) \in Nat
        BY <1>1, <1>3, <1>4, <1>6, <2>1, <2>4, UserRow, LenProperties DEF IInv, TypeOK
      <4>2. ~Finished(c)
        BY <1>1, <4>1 DEF Finished
      <4> QED
        BY <1>1, <3>3, <4>2, DieKeeps
    <3> QED
      BY <3>1, <3>2, <3>3
  <2> QED
    BY <2>3, <2>4
<1>7. CASE Listing(c) = "LIST_CONTENT"
  <2>1. Len(files) \in Nat
    BY LenProperties DEF IInv, TypeOK
  <2>2. i \in 1 .. Len(files) /\ k = 1
    BY <1>3, <1>5, <1>7, <2>1 DEF SendRow, Width
  <2>3. \/ Writes(c, <<"filename", files[i]>>, "row", <<i + 1, 1>>)
        \/ Die /\ link[c] = "broken"
    BY <1>1, <1>2, <1>3, <1>7, <2>2 DEF SendRow, Write, Writes, Sent, Width
  <2>4. CASE Writes(c, <<"filename", files[i]>>, "row", <<i + 1, 1>>)
    BY <1>1, <1>3, <1>7, <2>2, <2>4, FileRowKeeps
  <2>5. CASE Die /\ link[c] = "broken"
    <3>1. Len(snapshot[c]) = Len(files)
      BY <1>1, <1>7, RowsOfFiles
         DEF IInv, ClientInv, Section, InSection, TypeOK, TableTyped
    <3>2. Position(c) = i - 1
      BY <1>3, <1>7 DEF Position
    <3>3. ~Finished(c)
      BY <1>1, <2>1, <2>2, <3>1, <3>2 DEF Finished
    <3> QED
      BY <1>1, <2>5, <3>3, DieKeeps
  <2> QED
    BY <2>3, <2>4, <2>5
<1> QED
  BY <1>6, <1>7, TwoListings

(* Every step of a handler keeps the invariant. *)
LEMMA HandlerKeeps ==
  ASSUME IInv, NEW c \in Clients, handle_client(c)
  PROVE  IInv'
BY LockKeeps, DecideKeeps, RespondKeeps, SendCountKeeps, SendRowKeeps,
   EndRowsKeeps, UnlockKeeps, CloseKeeps DEF handle_client

----------------------------------------------------------------------------
(* The steps of the client. *)

(* What a read takes from the buffer. *)
LEMMA Received ==
  ASSUME TypeOK, NEW c \in Clients, Receives(c)
  PROVE  /\ wire' \in [Clients -> Seq(Strings)]
         /\ \A d \in Clients : Len(wire'[d]) <= Capacity
         /\ \A d \in Clients \ {c} : wire'[d] = wire[d]
         /\ Len(wire[c]) \in Nat /\ Len(wire[c]) >= 1
         /\ Len(wire'[c]) = Len(wire[c]) - 1
         /\ \A j \in 1 .. Len(wire'[c]) : wire'[c][j] = wire[c][j + 1]
         /\ Head(wire[c]) = wire[c][1] /\ Head(wire[c]) \in Strings
<1>1. /\ wire \in [Clients -> Seq(Strings)] /\ Capacity \in Nat
      /\ \A d \in Clients : Len(wire[d]) <= Capacity
  BY ListingAssumption DEF TypeOK
<1>2. wire[c] \in Seq(Strings) /\ wire[c] # <<>> /\ wire'[c] = Tail(wire[c])
  BY <1>1 DEF Receives
<1>3. /\ Tail(wire[c]) \in Seq(Strings) /\ Head(wire[c]) \in Strings
      /\ Len(Tail(wire[c])) = Len(wire[c]) - 1
      /\ \A j \in 1 .. Len(Tail(wire[c])) : Tail(wire[c])[j] = wire[c][j + 1]
      /\ Len(wire[c]) \in Nat \ {0}
  BY <1>2, HeadTailProperties, EmptySeq
<1>4. Head(wire[c]) = wire[c][1]
  BY <1>2
<1>5. \A d \in Clients \ {c} : wire'[d] = wire[d]
  BY <1>1 DEF Receives
<1>6. wire' \in [Clients -> Seq(Strings)]
  BY <1>1, <1>3 DEF Receives
<1>7. \A d \in Clients : Len(wire'[d]) <= Capacity
  BY <1>1, <1>2, <1>3, <1>5
<1> QED
  BY <1>2, <1>3, <1>4, <1>5, <1>6, <1>7

(* A client hangs up, having read a last string or not. *)
Leaves(c, res) ==
  /\ HangUp(c, res)
  /\ Receives(c) \/ UNCHANGED wire
  /\ UNCHANGED <<table, command, handlervars, announced, received, snapshot>>

(* What it takes for that to keep the invariant. *)
LEMMA LeaveKeeps ==
  ASSUME IInv, NEW c \in Clients, NEW res \in {"none", "OK", "FAIL"}, Leaves(c, res),
         reader[c] \in {"response", "count", "rows", "stalled"},
         handler[c] = "lock" => res = "none",
         server = "up" => Deserter(c)' \/ Finished(c),
         Printed(c)'
  PROVE  IInv'
<1> USE DEF table, handlervars
<1>1. /\ wire' \in [Clients -> Seq(Strings)]
      /\ \A d \in Clients : Len(wire'[d]) <= Capacity
      /\ \A d \in Clients \ {c} : wire'[d] = wire[d]
      /\ wire[c] = <<>> => wire'[c] = <<>>
  <2>1. CASE Receives(c)
    BY <2>1, Received DEF IInv, Receives
  <2>2. CASE wire' = wire
    BY <2>2 DEF IInv, TypeOK
  <2> QED
    BY <2>1, <2>2 DEF Leaves
<1>2. /\ reader' = [reader EXCEPT ![c] = "done"]
      /\ result' = [result EXCEPT ![c] = res]
      /\ UNCHANGED <<table, command, handlervars, announced, received, snapshot>>
  BY DEF Leaves, HangUp, Goes
<1>3. PICK l \in {"closed", "aborted"} : link' = [link EXCEPT ![c] = l]
  BY DEF Leaves, HangUp
<1>4. TypeOK'
  BY <1>1, <1>2, <1>3 DEF IInv, TypeOK
<1>5. \A d \in Clients \ {c} : Still(d)
  BY <1>1, <1>2, <1>3 DEF IInv, TypeOK, Still, SameClient
<1>6. reader'[c] = "done" /\ result'[c] = res
  BY <1>2 DEF IInv, TypeOK
<1>7. Fresh(c)'
  BY <1>1, <1>2, <1>6 DEF IInv, ClientInv, Fresh
<1>8. Section(c)'
  BY <1>2, SameTable DEF IInv, ClientInv, Section, InSection
<1>9. Stream(c)'
  BY <1>6 DEF Stream, Flowing
<1>10. Parted(c)'
  <2>1. Finished(c) => Finished(c)'
    BY <1>2, SameTable DEF Finished, Position
  <2> QED
    BY <1>2, <1>6, <2>1 DEF Parted
<1>11. Read(c)'
  BY <1>1, <1>2 DEF IInv, ClientInv, Read
<1>12. ClientInv(c)'
  BY <1>7, <1>8, <1>9, <1>10, <1>11 DEF ClientInv
<1> QED
  BY <1>2, <1>4, <1>5, <1>12, OneActs

(* The end of the stream is the end of the handler. *)
LEMMA EofFinished ==
  ASSUME NEW c \in Clients, Eof(c)
  PROVE  Finished(c) /\ handler[c] # "lock" /\ UNCHANGED wire
BY DEF Eof, Finished

(* The first string that is there matches. *)
LEMMA HeadMatches ==
  ASSUME IInv, NEW c \in Clients, Flowing(c), wire[c] # <<>>, NEW q,
         q = Consumed(c) + 1
  PROVE  Matches(c, q, Head(wire[c]))
<1>1. wire[c] \in Seq(Strings)
  BY DEF IInv, TypeOK
<1>2. Len(wire[c]) \in Nat \ {0} /\ Head(wire[c]) = wire[c][1]
  BY <1>1, EmptySeq
<1>3. 1 \in 1 .. Len(wire[c])
  BY <1>2
<1> QED
  BY <1>2, <1>3 DEF IInv, ClientInv, Stream

(* What is left matches, once the reader counts the string it has read. *)
LEMMA TailMatches ==
  ASSUME IInv, NEW c \in Clients, Flowing(c), Receives(c), NEW q \in Nat,
         q = Consumed(c), Consumed(c)' = q + 1,
         reader[c] # "response" \/ ~Refused(c),
         Listing(c)' = Listing(c), snapshot' = snapshot
  PROVE  /\ \A j \in 1 .. Len(wire'[c]) : Matches(c, Consumed(c) + j, wire[c][j])'
         /\ Written(c)' = Written(c)
<1>1. /\ Len(wire[c]) \in Nat /\ Len(wire'[c]) = Len(wire[c]) - 1
      /\ \A j \in 1 .. Len(wire'[c]) : wire'[c][j] = wire[c][j + 1]
  BY Received DEF IInv
<1>2. ~Refused(c)
  BY DEF Refused
<1>3. ASSUME NEW j \in 1 .. Len(wire'[c])
      PROVE  Matches(c, Consumed(c) + j, wire[c][j])'
  <2>0. j \in 1 .. Len(wire[c]) - 1
    BY <1>1
  <2>1. j + 1 \in 1 .. Len(wire[c]) /\ q + (j + 1) = (q + 1) + j
    <3>1. PICK n \in Nat : n = Len(wire[c])
      BY <1>1
    <3>2. j \in 1 .. n - 1
      BY <2>0, <3>1
    <3>3. j + 1 \in 1 .. n /\ q + (j + 1) = (q + 1) + j
      BY <3>2
    <3> QED
      BY <3>1, <3>3
  <2>2. Matches(c, q + (j + 1), wire[c][j + 1])
    BY <2>1 DEF IInv, ClientInv, Stream
  <2>3. Matches(c, (q + 1) + j, wire[c][j + 1])
    BY <2>1, <2>2
  <2>4. wire'[c][j] = wire[c][j + 1]
    BY <1>1
  <2> QED
    BY <1>2, <2>3, <2>4 DEF Matches
<1>4. Written(c)' = Written(c)
  <2>1. Written(c)' = (q + 1) + (Len(wire[c]) - 1)
    BY <1>1 DEF Written
  <2>2. Written(c) = q + Len(wire[c])
    BY DEF Written
  <2> QED
    BY <1>1, <2>1, <2>2
<1> QED
  BY <1>3, <1>4

(* A client that reads on: what changes is at its end. *)
Continues(c) ==
  /\ Flowing(c) /\ Flowing(c)'
  /\ UNCHANGED <<table, command, handlervars, link, result, snapshot>>
  /\ \A d \in Clients \ {c} : Still(d)

(* What it takes for that to keep the invariant. *)
LEMMA ContinueKeeps ==
  ASSUME IInv, NEW c \in Clients, Continues(c), TypeOK',
         handler[c] # "lock", Stream(c)', Read(c)'
  PROVE  IInv'
<1> USE DEF table, handlervars
<1>1. UNCHANGED <<users, files, server, mutex, command, handler, cursor, link,
                  result, snapshot>>
  BY DEF Continues
<1>2. /\ link[c] = "open" /\ reader[c] # "done"
      /\ reader'[c] \notin {"prompt", "done"}
  BY DEF Continues, Flowing, IInv, ClientInv, Parted
<1>3. result[c] = "none"
  BY <1>2 DEF IInv, ClientInv, Fresh
<1>4. Fresh(c)'
  BY <1>1, <1>2, <1>3 DEF IInv, ClientInv, Fresh
<1>5. Section(c)'
  BY <1>1, SameTable DEF IInv, ClientInv, Section, InSection
<1>6. Parted(c)' /\ Printed(c)'
  BY <1>1, <1>2, <1>3 DEF Parted, Printed
<1>7. ClientInv(c)'
  BY <1>4, <1>5, <1>6 DEF ClientInv
<1> QED
  BY <1>1, <1>2, <1>7, OneActs DEF Continues

(* A string of the rows keeps what has been read in front of it. *)
LEMMA AllRead ==
  ASSUME IInv, NEW c \in Clients, wire[c] # <<>> \/ server = "up"
  PROVE  /\ Len(received[c]) \in Nat /\ Len(received[c]) <= Len(snapshot[c])
         /\ \A j \in 1 .. Len(received[c]) : received[c][j] = snapshot[c][j]
<1>1. Len(received[c]) \in Nat
  BY LenProperties DEF IInv, TypeOK
<1>2. PICK n \in 0 .. Len(received[c]) :
        /\ n <= Len(snapshot[c])
        /\ \A j \in 1 .. n : received[c][j] = snapshot[c][j]
        /\ ~ (n < Len(received[c]))
  BY DEF IInv, ClientInv, Read, TypeOK
<1>3. n = Len(received[c])
  BY <1>1, <1>2
<1> QED
  BY <1>1, <1>2, <1>3

(* The response has arrived. *)
LEMMA ReadResponseKeeps ==
  ASSUME IInv, NEW c \in Clients, ReadResponse(c),
         UNCHANGED <<table, command, handlervars, snapshot>>
  PROVE  IInv'
<1> USE DEF table, handlervars
<1>1. /\ reader[c] = "response" /\ Flowing(c) /\ Consumed(c) = 0
      /\ UNCHANGED <<announced, received>>
  BY DEF ReadResponse, Reading, Flowing, Consumed
<1>2. CASE Eof(c) /\ HangUp(c, "FAIL")
  <2>1. Leaves(c, "FAIL") /\ Finished(c) /\ handler[c] # "lock"
    BY <1>1, <1>2, EofFinished DEF Leaves
  <2>2. Printed(c)'
    BY <1>2 DEF Printed, HangUp, IInv, TypeOK
  <2> QED
    BY <1>1, <2>1, <2>2, LeaveKeeps
<1>3. CASE Receives(c)
  <2> DEFINE s == Head(wire[c])
  <2>1. wire[c] # <<>> /\ handler[c] # "lock"
    BY <1>3 DEF Receives, IInv, ClientInv, Fresh
  <2>2. s = <<"response", 0>> \/ Refused(c)
    <3>1. Matches(c, 1, s)
      BY <1>1, <2>1, HeadMatches
    <3> QED
      BY <3>1 DEF Matches
  <2>3. Refused(c) => s[2] = 1
    BY DEF Refused
  <2>4. Len(wire[c]) \in Nat /\ Len(wire[c]) >= 1 /\ Written(c) >= 1
    BY <1>1, <1>3, Received DEF Written, IInv
  <2>5. CASE s[2] = 0 /\ command[c] = "CHANGE" /\ HangUp(c, "OK")
    <3>1. server = "up" => Finished(c)
      <4>1. SUFFICES ASSUME server = "up" PROVE handler[c] \in {"close", "none"}
        BY DEF Finished
      <4>2. InStep(c) /\ Section(c)
        BY <1>1, <4>1 DEF IInv, ClientInv, Stream
      <4>3. handler[c] \notin {"lock", "decide", "granted", "refused", "reply",
                              "unlock", "count", "row"}
        BY <2>4, <2>5, <4>2 DEF InStep, Section
      <4> QED
        BY <4>3 DEF IInv, TypeOK
    <3>2. Printed(c)'
      BY <2>5 DEF Printed
    <3>3. Leaves(c, "OK")
      BY <1>1, <1>3, <2>5 DEF Leaves
    <3> QED
      BY <1>1, <2>1, <3>1, <3>2, <3>3, LeaveKeeps
  <2>6. CASE s[2] # 0 /\ HangUp(c, "FAIL")
    <3>1. Finished(c)
      BY <2>2, <2>6 DEF Refused, Finished
    <3>2. Printed(c)'
      BY <2>6 DEF Printed, HangUp, IInv, TypeOK
    <3>3. Leaves(c, "FAIL")
      BY <1>1, <1>3, <2>6 DEF Leaves
    <3> QED
      BY <1>1, <2>1, <3>1, <3>2, <3>3, LeaveKeeps
  <2>7. CASE s[2] = 0 /\ command[c] # "CHANGE" /\ Goes(c, "count")
             /\ UNCHANGED <<result, link>>
    <3>1. reader'[c] = "count" /\ \A d \in Clients \ {c} : reader'[d] = reader[d]
      BY <2>7 DEF Goes, IInv, TypeOK
    <3>2. received[c] = <<>> /\ ~Refused(c)
      BY <1>1, <2>3, <2>7 DEF IInv, ClientInv, Stream
    <3>3. /\ wire' \in [Clients -> Seq(Strings)]
          /\ \A d \in Clients : Len(wire'[d]) <= Capacity
          /\ \A d \in Clients \ {c} : wire'[d] = wire[d]
      BY <1>3, Received DEF IInv
    <3>4. Continues(c)
      BY <1>1, <2>7, <3>1, <3>3 DEF Continues, Flowing, Still, SameClient
    <3>5. TypeOK'
      BY <1>1, <2>7, <3>3 DEF IInv, TypeOK, Goes
    <3>6. Consumed(c)' = 0 + 1 /\ Listing(c)' = Listing(c)
      BY <3>1 DEF Consumed, Listing
    <3>7. /\ \A j \in 1 .. Len(wire'[c]) :
               Matches(c, Consumed(c) + j, wire[c][j])'
          /\ Written(c)' = Written(c)
      BY <1>1, <1>3, <3>2, <3>6, TailMatches
    <3>8. server = "up" => InStep(c)'
      <4>1. Position(c)' = Position(c)
        BY SameTable DEF Position
      <4> QED
        BY <1>1, <2>4, <2>7, <3>2, <3>7, <4>1
           DEF IInv, ClientInv, Stream, InStep
    <3>9. Stream(c)'
      BY <1>1, <2>7, <3>1, <3>2, <3>7, <3>8 DEF Stream
    <3>10. Read(c)'
      <4>1. Len(received[c]) = 0 /\ received' = received
        BY <1>1, <3>2
      <4> QED
        BY <4>1 DEF IInv, ClientInv, Read
    <3> QED
      BY <2>1, <3>4, <3>5, <3>9, <3>10, ContinueKeeps
  <2> QED
    BY <1>3, <2>5, <2>6, <2>7 DEF ReadResponse, Eof, Receives
<1> QED
  BY <1>2, <1>3 DEF ReadResponse

(* The count has arrived. *)
LEMMA ReadCountKeeps ==
  ASSUME IInv, NEW c \in Clients, ReadCount(c),
         UNCHANGED <<table, command, handlervars, snapshot>>
  PROVE  IInv'
<1> USE DEF table, handlervars
<1>1. /\ reader[c] = "count" /\ Flowing(c) /\ Consumed(c) = 1
      /\ UNCHANGED received
  BY DEF ReadCount, Reading, Flowing, Consumed
<1>2. CASE Eof(c) /\ HangUp(c, "FAIL") /\ UNCHANGED announced
  <2>1. Leaves(c, "FAIL") /\ Finished(c) /\ handler[c] # "lock"
    BY <1>1, <1>2, EofFinished DEF Leaves
  <2>2. Printed(c)'
    BY <1>2 DEF Printed, HangUp, IInv, TypeOK
  <2> QED
    BY <1>1, <2>1, <2>2, LeaveKeeps
<1>3. CASE /\ Receives(c)
           /\ announced' = [announced EXCEPT ![c] = Head(wire[c])[2]]
           /\ Goes(c, "rows") /\ UNCHANGED <<result, link>>
  <2> DEFINE s == Head(wire[c])
  <2>1. wire[c] # <<>> /\ handler[c] # "lock"
    BY <1>3 DEF Receives, IInv, ClientInv, Fresh
  <2>2. s[2] \in Nat /\ s[2] * Width(Listing(c)) = Len(snapshot[c])
    <3>1. Matches(c, 2, s)
      BY <1>1, <2>1, HeadMatches
    <3> QED
      BY <3>1 DEF Matches
  <2>3. /\ reader'[c] = "rows" /\ \A d \in Clients \ {c} : reader'[d] = reader[d]
        /\ announced'[c] = s[2]
        /\ \A d \in Clients \ {c} : announced'[d] = announced[d]
    BY <1>3 DEF Goes, IInv, TypeOK
  <2>4. received[c] = <<>> /\ command[c] # "CHANGE"
    BY <1>1 DEF IInv, ClientInv, Stream
  <2>5. /\ wire' \in [Clients -> Seq(Strings)]
        /\ \A d \in Clients : Len(wire'[d]) <= Capacity
        /\ \A d \in Clients \ {c} : wire'[d] = wire[d]
    BY <1>3, Received DEF IInv
  <2>6. Continues(c)
    BY <1>1, <1>3, <2>3, <2>5 DEF Continues, Flowing, Still, SameClient
  <2>7. TypeOK'
    BY <1>1, <1>3, <2>2, <2>5 DEF IInv, TypeOK, Goes
  <2>8. Consumed(c)' = 1 + 1 /\ Listing(c)' = Listing(c)
    BY <1>1, <2>3, <2>4 DEF Consumed, Listing
  <2>9. /\ \A j \in 1 .. Len(wire'[c]) :
             Matches(c, Consumed(c) + j, wire[c][j])'
        /\ Written(c)' = Written(c)
    BY <1>1, <1>3, <2>8, TailMatches
  <2>10. server = "up" => InStep(c)'
    <3>1. Position(c)' = Position(c)
      BY SameTable DEF Position
    <3>2. ~Refused(c)
      BY <1>1 DEF Refused
    <3> QED
      BY <1>1, <2>4, <2>9, <3>1, <3>2 DEF IInv, ClientInv, Stream, InStep
  <2>11. Stream(c)'
    BY <1>1, <2>2, <2>3, <2>4, <2>8, <2>9, <2>10 DEF Stream
  <2>12. Read(c)'
    <3>1. Len(received[c]) = 0 /\ received' = received
      BY <1>1, <2>4
    <3> QED
      BY <3>1 DEF IInv, ClientInv, Read
  <2> QED
    BY <2>1, <2>6, <2>7, <2>11, <2>12, ContinueKeeps
<1> QED
  BY <1>2, <1>3 DEF ReadCount

(* What is announced is what is listed. *)
LEMMA AnnouncedLength ==
  ASSUME IInv, NEW c \in Clients, reader[c] = "rows"
  PROVE  Width(Listing(c)) * announced[c] = Len(snapshot[c])
<1>1. announced[c] \in Nat /\ Width(Listing(c)) \in {1, 3}
  BY DEF IInv, TypeOK, Width
<1>2. announced[c] * Width(Listing(c)) = Len(snapshot[c])
  BY DEF IInv, ClientInv, Stream, Flowing
<1> QED
  BY <1>1, <1>2

(* A string of the listing has arrived, or the end of a stream cut short. *)
LEMMA ReadRowKeeps ==
  ASSUME IInv, NEW c \in Clients, ReadRow(c),
         UNCHANGED <<table, command, handlervars, snapshot>>
  PROVE  IInv'
<1> USE DEF table, handlervars
<1>1. /\ reader[c] = "rows" /\ Flowing(c) /\ Consumed(c) = 2 + Len(received[c])
      /\ UNCHANGED <<reader, announced, result, link>>
  BY DEF ReadRow, Reading, Flowing, Consumed
<1>2. command[c] # "CHANGE" /\ Len(snapshot[c]) = announced[c] * Width(Listing(c))
  BY <1>1 DEF IInv, ClientInv, Stream
<1>3. /\ received[c] \in Seq(Strings \cup {Blank}) /\ Len(received[c]) \in Nat
      /\ Len(snapshot[c]) \in Nat
  BY LenProperties DEF IInv, TypeOK
<1>4. Listing(c)' = Listing(c)
  BY DEF Listing
<1>5. CASE /\ Receives(c)
           /\ received' = [received EXCEPT ![c] = Append(@, Head(wire[c]))]
  <2> DEFINE s == Head(wire[c])
  <2>1. wire[c] # <<>> /\ handler[c] # "lock" /\ ~Refused(c)
    BY <1>1, <1>5 DEF Receives, IInv, ClientInv, Fresh, Refused
  <2>2. /\ wire' \in [Clients -> Seq(Strings)]
        /\ \A d \in Clients : Len(wire'[d]) <= Capacity
        /\ \A d \in Clients \ {c} : wire'[d] = wire[d]
        /\ s \in Strings
    BY <1>5, Received DEF IInv
  <2>3. /\ Len(received[c]) + 1 <= Len(snapshot[c])
        /\ s = snapshot[c][Len(received[c]) + 1]
    <3>1. PICK q : q = 2 + Len(received[c]) + 1
      OBVIOUS
    <3>2. Matches(c, q, s)
      BY <1>1, <2>1, <3>1, HeadMatches
    <3>3. q > 2 /\ q # 1 /\ q # 2 /\ q - 2 = Len(received[c]) + 1
      BY <1>3, <3>1
    <3> QED
      BY <3>2, <3>3 DEF Matches
  <2>4. /\ received'[c] = Append(received[c], s)
        /\ \A d \in Clients \ {c} : received'[d] = received[d]
    BY <1>5 DEF IInv, TypeOK
  <2>5. /\ received'[c] \in Seq(Strings \cup {Blank})
        /\ Len(received'[c]) = Len(received[c]) + 1
        /\ \A j \in 1 .. Len(received[c]) : received'[c][j] = received[c][j]
        /\ received'[c][Len(received[c]) + 1] = s
    BY <1>3, <2>2, <2>4, AppendProperties
  <2>6. Continues(c)
    BY <1>1, <2>2, <2>4 DEF Continues, Flowing, Still, SameClient
  <2>7. TypeOK'
    <3>1. received' \in [Clients -> Seq(Strings \cup {Blank})]
      BY <1>5, <2>4, <2>5 DEF IInv, TypeOK
    <3> QED
      BY <1>1, <2>2, <3>1 DEF IInv, TypeOK
  <2>8. PICK q \in Nat : q = Consumed(c)
    BY <1>1, <1>3
  <2>9. Consumed(c)' = q + 1
    BY <1>1, <1>3, <2>5, <2>8 DEF Consumed
  <2>10. /\ \A j \in 1 .. Len(wire'[c]) :
              Matches(c, Consumed(c) + j, wire[c][j])'
         /\ Written(c)' = Written(c)
    BY <1>1, <1>4, <1>5, <2>1, <2>8, <2>9, TailMatches
  <2>11. server = "up" => InStep(c)'
    <3>1. Position(c)' = Position(c)
      BY SameTable DEF Position
    <3> QED
      BY <1>1, <1>2, <2>1, <2>10, <3>1 DEF IInv, ClientInv, Stream, InStep
  <2>12. Stream(c)'
    BY <1>1, <1>2, <1>4, <2>10, <2>11 DEF Stream
  <2>13. Read(c)'
    <3>1. /\ Len(received[c]) <= Len(snapshot[c])
          /\ \A j \in 1 .. Len(received[c]) : received[c][j] = snapshot[c][j]
      BY <2>1, AllRead
    <3>2. \A j \in 1 .. Len(received[c]) + 1 : received'[c][j] = snapshot[c][j]
      <4>1. ASSUME NEW j \in 1 .. Len(received[c]) + 1
            PROVE  j \in 1 .. Len(received[c]) \/ j = Len(received[c]) + 1
        BY <1>3
      <4> QED
        BY <2>3, <2>5, <3>1, <4>1
    <3>3. Len(received'[c]) \in 0 .. Len(received'[c])
          /\ Len(received'[c]) <= Len(snapshot[c])
          /\ \A j \in Len(received'[c]) + 1 .. Len(received'[c]) : FALSE
      BY <1>3, <2>3, <2>5
    <3> QED
      BY <1>3, <2>5, <3>2, <3>3 DEF Read
  <2> QED
    BY <2>1, <2>6, <2>7, <2>12, <2>13, ContinueKeeps
<1>6. CASE Eof(c) /\ received' = [received EXCEPT ![c] = Append(@, Blank)]
  <2>1. wire[c] = <<>> /\ wire' = wire /\ handler[c] = "none" /\ Len(wire[c]) = 0
    BY <1>6 DEF Eof
  <2>2. server = "dead"
    <3>1. SUFFICES ASSUME server = "up" PROVE FALSE
      BY DEF IInv, TypeOK
    <3>2. Written(c) = 2 + Len(snapshot[c])
      BY <1>1, <1>2, <2>1, <3>1 DEF IInv, ClientInv, Stream, InStep, Refused
    <3>3. Len(received[c]) = Len(snapshot[c])
      BY <1>1, <1>3, <2>1, <3>2 DEF Written
    <3>4. Len(snapshot[c]) = Width(Listing(c)) * announced[c]
      BY <1>1, AnnouncedLength
    <3> QED
      BY <3>3, <3>4 DEF ReadRow, Enough
  <2>3. /\ received'[c] = Append(received[c], Blank)
        /\ \A d \in Clients \ {c} : received'[d] = received[d]
    BY <1>6 DEF IInv, TypeOK
  <2>4. /\ received'[c] \in Seq(Strings \cup {Blank})
        /\ Len(received'[c]) = Len(received[c]) + 1
        /\ \A j \in 1 .. Len(received[c]) : received'[c][j] = received[c][j]
        /\ received'[c][Len(received[c]) + 1] = Blank
    BY <1>3, <2>3, AppendProperties
  <2>5. Continues(c)
    BY <1>1, <2>1, <2>3 DEF Continues, Flowing, Still, SameClient
  <2>6. TypeOK'
    <3>1. received' \in [Clients -> Seq(Strings \cup {Blank})]
      BY <1>6, <2>3, <2>4 DEF IInv, TypeOK
    <3> QED
      BY <1>1, <2>1, <3>1 DEF IInv, TypeOK
  <2>7. Stream(c)'
    BY <1>1, <1>2, <1>4, <2>1, <2>2 DEF Stream, IInv, TypeOK
  <2>8. Read(c)'
    <3>1. PICK n \in 0 .. Len(received[c]) :
            /\ n <= Len(snapshot[c])
            /\ \A j \in 1 .. n : received[c][j] = snapshot[c][j]
            /\ \A j \in n + 1 .. Len(received[c]) : received[c][j] = Blank
      BY DEF IInv, ClientInv, Read
    <3>2. n \in 0 .. Len(received'[c]) /\ n \in Nat /\ n <= Len(received[c])
      BY <1>3, <2>4
    <3>3. \A j \in 1 .. n : received'[c][j] = snapshot[c][j]
      BY <1>3, <2>4, <3>1, <3>2
    <3>4. ASSUME NEW j \in n + 1 .. Len(received'[c])
          PROVE  received'[c][j] = Blank
      <4>1. CASE j = Len(received[c]) + 1
        BY <2>4, <4>1
      <4>2. CASE j # Len(received[c]) + 1
        <5>1. j \in n + 1 .. Len(received[c]) /\ j \in 1 .. Len(received[c])
          BY <1>3, <2>4, <3>2, <4>2
        <5> QED
          BY <2>4, <3>1, <5>1
      <4> QED
        BY <4>1, <4>2
    <3>5. Blank' = Blank /\ server' = "dead" /\ wire'[c] = <<>>
          /\ snapshot' = snapshot
      BY <2>1, <2>2 DEF Blank
    <3> QED
      BY <3>1, <3>2, <3>3, <3>4, <3>5 DEF Read
  <2> QED
    BY <2>1, <2>5, <2>6, <2>7, <2>8, ContinueKeeps
<1> QED
  BY <1>5, <1>6 DEF ReadRow

(* The client has read enough. *)
LEMMA EndListingKeeps ==
  ASSUME IInv, NEW c \in Clients, EndListing(c),
         UNCHANGED <<table, command, handlervars, snapshot>>
  PROVE  IInv'
<1> USE DEF table, handlervars
<1>1. /\ reader[c] = "rows" /\ Flowing(c) /\ Consumed(c) = 2 + Len(received[c])
      /\ UNCHANGED <<wire, announced, received>>
  BY DEF EndListing, Reading, Flowing, Consumed
<1>2. PICK res \in {"OK", "FAIL"} : HangUp(c, res)
  BY DEF EndListing
<1>3. Leaves(c, res)
  BY <1>1, <1>2 DEF Leaves
<1>4. reader'[c] = "done" /\ result'[c] = res
  BY <1>2 DEF HangUp, Goes, IInv, TypeOK
<1>5. /\ Len(received[c]) \in Nat /\ Len(wire[c]) \in Nat
      /\ Len(snapshot[c]) \in Nat
  BY LenProperties DEF IInv, TypeOK
<1>6. Written(c) >= 2 + Len(received[c]) /\ Written(c) >= 2
  <2>1. Written(c) = (2 + Len(received[c])) + Len(wire[c])
    BY <1>1 DEF Written
  <2>2. PICK m \in Nat, n \in Nat : m = Len(received[c]) /\ n = Len(wire[c])
    BY <1>5
  <2>3. (2 + m) + n >= 2 + m /\ (2 + m) + n >= 2
    OBVIOUS
  <2> QED
    BY <2>1, <2>2, <2>3
<1>7. handler[c] # "lock"
  BY <1>1, <1>6 DEF IInv, ClientInv, Stream, InStep, Fresh, TypeOK
<1>8. CASE Found(c)
  <2>1. command[c] = "GET_FILE" /\ Found(c)'
    BY <1>1, <1>8 DEF Found
  <2>2. Deserter(c)'
    BY <1>4, <2>1 DEF Deserter
  <2>3. Printed(c)'
    BY <2>1 DEF Printed
  <2> QED
    BY <1>1, <1>3, <1>7, <2>2, <2>3, LeaveKeeps
<1>9. CASE ~Found(c)
  <2>1. Len(received[c]) = Len(snapshot[c])
    BY <1>1, <1>9, AnnouncedLength DEF EndListing, Enough
  <2>2. server = "up" => Finished(c)
    <3>1. SUFFICES ASSUME server = "up" PROVE Finished(c)
      OBVIOUS
    <3>2. InStep(c) /\ command[c] # "CHANGE"
      BY <1>1, <3>1 DEF IInv, ClientInv, Stream
    <3>3. Written(c) >= 2 + Len(snapshot[c])
      BY <1>6, <2>1
    <3>4. handler[c] \notin {"lock", "decide", "granted", "refused", "reply", "count"}
      BY <1>6, <3>2 DEF InStep
    <3>5. handler[c] \in {"row", "unlock", "close", "none"}
      BY <3>4 DEF IInv, TypeOK
    <3>6. handler[c] = "row" => Position(c) >= Len(snapshot[c])
      <4>1. SUFFICES ASSUME handler[c] = "row" PROVE Position(c) >= Len(snapshot[c])
        OBVIOUS
      <4>2. Written(c) = 2 + Position(c)
        BY <3>2, <4>1 DEF InStep
      <4>3. Position(c) \in Int
        <5>1. cursor[c][1] \in Nat /\ cursor[c][2] \in 1 .. 3
          BY DEF IInv, TypeOK
        <5>2. EndOf(c) \in Nat
          BY SlotNumbers, LenProperties DEF EndOf, IInv, TypeOK
        <5>3. cursor[c][1] \in 1 .. EndOf(c) + 1
          BY <4>1 DEF IInv, ClientInv, Section
        <5>4. Listing(c) = "LIST_USERS" => Before(cursor[c][1]) \in Nat
          <6>1. Listing(c) = "LIST_USERS" =>
                  cursor[c][1] \in Slots \cup {NumUsers + 1}
            BY <5>2, <5>3 DEF EndOf, Slots
          <6> QED
            BY <6>1, BeforeSteps
        <5> QED
          BY <5>1, <5>4 DEF Position
      <4> QED
        BY <1>5, <3>3, <4>2, <4>3
    <3> QED
      BY <3>2, <3>5, <3>6 DEF Finished
  <2>3. Printed(c)'
    <3>1. SUFFICES ASSUME server = "up" PROVE received[c] = snapshot[c]
      BY <1>1 DEF Printed
    <3>2. \A j \in 1 .. Len(received[c]) : received[c][j] = snapshot[c][j]
      BY <3>1, AllRead
    <3>3. received[c] \in Seq(Strings \cup {Blank})
          /\ snapshot[c] \in Seq(Strings \cup {Blank})
      BY SeqMonotonic DEF IInv, TypeOK
    <3> QED
      BY <2>1, <3>2, <3>3, SeqEqual
  <2> QED
    BY <1>1, <1>3, <1>7, <2>2, <2>3, LeaveKeeps
<1> QED
  BY <1>8, <1>9

(* A client is suspended. *)
LEMMA StallKeeps ==
  ASSUME IInv, NEW c \in Clients, Stall(c)
  PROVE  IInv'
<1> USE DEF table, handlervars
<1>1. /\ reader' = [reader EXCEPT ![c] = "stalled"] /\ Flowing(c)
      /\ UNCHANGED <<table, command, handlervars, link, wire, announced, received,
                     result, snapshot>>
  BY DEF Stall, Goes, Flowing
<1>2. reader'[c] = "stalled" /\ \A d \in Clients \ {c} : Still(d)
  BY <1>1 DEF Still, SameClient, IInv, TypeOK
<1>3. link[c] = "open" /\ reader[c] # "done"
  BY <1>1 DEF Flowing, IInv, ClientInv, Parted
<1>4. TypeOK'
  BY <1>1 DEF IInv, TypeOK
<1>5. Fresh(c)'
  BY <1>1, <1>2, <1>3 DEF IInv, ClientInv, Fresh
<1>6. Section(c)'
  BY <1>1, SameTable DEF IInv, ClientInv, Section, InSection
<1>7. Stream(c)' /\ Parted(c)'
  BY <1>1, <1>2, <1>3 DEF Stream, Flowing, Parted
<1>8. Read(c)' /\ Printed(c)'
  BY <1>1 DEF IInv, ClientInv, Read, Printed
<1>9. ClientInv(c)'
  BY <1>5, <1>6, <1>7, <1>8 DEF ClientInv
<1> QED
  BY <1>1, <1>2, <1>3, <1>4, <1>9, OneActs

(* A client is killed: whatever it read, it deserts. *)
LEMMA KillKeeps ==
  ASSUME IInv, NEW c \in Clients, Kill(c)
  PROVE  IInv'
<1>1. /\ Leaves(c, "none")
      /\ reader[c] \in {"response", "count", "rows", "stalled"}
  BY DEF Kill, Leaves
<1>2. reader'[c] = "done" /\ result'[c] = "none"
  BY DEF Kill, HangUp, Goes, IInv, TypeOK
<1>3. Deserter(c)' /\ Printed(c)'
  BY <1>2 DEF Deserter, Printed
<1> QED
  BY <1>1, <1>3, LeaveKeeps

(* A client asks, or finds no server. *)
LEMMA DialKeeps ==
  ASSUME IInv, NEW c \in Clients, Dial(c)
  PROVE  IInv'
<1> USE DEF table
<1>1. /\ reader[c] = "prompt" /\ handler[c] = "none" /\ link[c] = "open"
      /\ cursor[c] = <<1, 1>> /\ wire[c] = <<>> /\ received[c] = <<>>
      /\ result[c] = "none"
  BY DEF Dial, Reading, IInv, ClientInv, Fresh
<1>2. PICK cmd \in Commands : command' = [command EXCEPT ![c] = cmd]
  BY DEF Dial
<1>3. UNCHANGED <<table, cursor, link, wire, announced, received, snapshot>>
  BY DEF Dial
<1>4. Len(wire[c]) = 0 /\ Len(received[c]) = 0
  BY <1>1
<1>5. \A d \in Clients \ {c} : Still(d)
  BY <1>2, <1>3 DEF Dial, Goes, Still, SameClient, IInv, TypeOK
<1>6. TypeOK'
  BY <1>1, <1>2, <1>3 DEF Dial, Goes, IInv, TypeOK
<1>7. Read(c)'
  BY <1>3, <1>4 DEF IInv, ClientInv, Read
<1>8. CASE /\ server = "up" /\ handler' = [handler EXCEPT ![c] = "lock"]
           /\ Goes(c, "response") /\ UNCHANGED result
  <2>1. handler'[c] = "lock" /\ reader'[c] = "response"
    BY <1>8 DEF Goes, IInv, TypeOK
  <2>2. Fresh(c)'
    BY <1>1, <1>3, <1>8, <2>1 DEF Fresh
  <2>3. Section(c)'
    BY <1>1, <1>3, <2>1 DEF Section, InSection
  <2>4. Stream(c)'
    <3>1. Written(c)' = 0
      BY <1>3, <1>4, <2>1 DEF Written, Consumed
    <3>2. InStep(c)'
      BY <2>1, <3>1 DEF InStep
    <3> QED
      BY <1>1, <1>3, <1>4, <2>1, <3>2 DEF Stream
  <2>5. Parted(c)' /\ Printed(c)'
    BY <1>1, <1>3, <1>8 DEF Parted, Printed
  <2>6. ClientInv(c)'
    BY <1>7, <2>2, <2>3, <2>4, <2>5 DEF ClientInv
  <2> QED
    BY <1>1, <1>3, <1>5, <1>6, <2>6, OneActs
<1>9. CASE /\ server = "dead" /\ Goes(c, "done")
           /\ result' = [result EXCEPT ![c] = "FAIL"] /\ UNCHANGED handler
  <2>1. handler'[c] = "none" /\ reader'[c] = "done"
    BY <1>1, <1>9 DEF Goes, IInv, TypeOK
  <2>2. Fresh(c)' /\ Section(c)' /\ Stream(c)' /\ Parted(c)' /\ Printed(c)'
    BY <1>1, <1>3, <1>9, <2>1
       DEF Fresh, Section, InSection, Stream, Flowing, Parted, Printed
  <2>3. ClientInv(c)'
    BY <1>7, <2>2 DEF ClientInv
  <2> QED
    BY <1>1, <1>3, <1>5, <1>6, <2>3, OneActs
<1> QED
  BY <1>8, <1>9 DEF Dial

(* The reset of a connection that the client has closed. *)
LEMMA ResetKeeps ==
  ASSUME IInv, NEW c \in Clients, Reset(c)
  PROVE  IInv'
<1> USE DEF table, handlervars, readervars
<1>1. /\ handler[c] # "none" /\ wire[c] # <<>> /\ link[c] # "open"
      /\ wire' = [wire EXCEPT ![c] = <<>>]
      /\ UNCHANGED <<table, command, handlervars, readervars, snapshot>>
  BY DEF Reset
<1>2. PICK l \in {"broken", "reset"} : link' = [link EXCEPT ![c] = l]
  BY DEF Reset
<1>3. wire'[c] = <<>> /\ link'[c] # "open" /\ reader'[c] = "done" /\ reader[c] = "done"
  BY <1>1, <1>2 DEF IInv, TypeOK, ClientInv, Parted
<1>4. SameClient(c) /\ \A d \in Clients \ {c} : Still(d)
  BY <1>1, <1>2 DEF Still, SameClient, IInv, TypeOK
<1>5. TypeOK'
  <2>1. /\ wire' \in [Clients -> Seq(Strings)]
        /\ \A d \in Clients : Len(wire'[d]) <= Capacity
    <3>1. <<>> \in Seq(Strings) /\ Len(<<>>) = 0 /\ Capacity \in Nat
      BY EmptySeq, ListingAssumption
    <3>2. \A d \in Clients \ {c} : wire'[d] = wire[d]
      BY <1>4 DEF Still
    <3> QED
      BY <1>1, <1>3, <3>1, <3>2 DEF IInv, TypeOK
  <2> QED
    BY <1>1, <1>2, <2>1 DEF IInv, TypeOK
<1>6. Fresh(c)'
  BY <1>1, <1>3 DEF IInv, ClientInv, Fresh
<1>7. Section(c)'
  BY <1>1, SameTable DEF IInv, ClientInv, Section, InSection
<1>8. Stream(c)'
  BY <1>3 DEF Stream, Flowing
<1>9. Parted(c)'
  <2>1. Finished(c) => Finished(c)'
    BY <1>1, SameTable DEF Finished, Position
  <2>2. Deserter(c) => Deserter(c)'
    BY <1>4, DeserterStays
  <2> QED
    BY <1>1, <1>3, <2>1, <2>2 DEF IInv, ClientInv, Parted
<1>10. Read(c)' /\ Printed(c)'
  BY <1>1, <1>3 DEF IInv, ClientInv, Read, Printed
<1>11. ClientInv(c)'
  BY <1>6, <1>7, <1>8, <1>9, <1>10 DEF ClientInv
<1> QED
  BY <1>1, <1>4, <1>5, <1>11, OneActs

----------------------------------------------------------------------------
(* The theorems. *)

(* Nobody has dialled. *)
LEMMA InitIInv == Init => IInv
<1> SUFFICES ASSUME Init PROVE IInv
  OBVIOUS
<1>1. <<>> \in Seq(Strings) /\ <<>> \in Seq(Strings \cup {Blank}) /\ Len(<<>>) = 0
  BY EmptySeq
<1>2. files \in Seq(Files)
  <2>1. <<>> \in Seq(Files) /\ \A f \in Files : <<f>> \in Seq(Files)
    BY EmptySeq
  <2> QED
    BY <2>1 DEF Init
<1>3. None \notin Clients /\ Capacity \in Nat
  BY ListingAssumption
<1>4. TypeOK
  BY <1>1, <1>2, <1>3 DEF Init, TypeOK
<1>5. ASSUME NEW c \in Clients PROVE ClientInv(c)
  <2>1. Fresh(c) /\ Section(c) /\ Stream(c) /\ Parted(c) /\ Printed(c)
    BY DEF Init, Fresh, Section, InSection, Stream, Flowing, Parted, Printed
  <2>2. Read(c)
    BY <1>1 DEF Init, Read
  <2> QED
    BY <2>1, <2>2 DEF ClientInv
<1>6. EndedByDeserter
  BY DEF Init, EndedByDeserter
<1> QED
  BY <1>4, <1>5, <1>6 DEF IInv

(* Every step keeps the invariant. *)
LEMMA NextIInv == IInv /\ [Next]_vars => IInv'
<1> SUFFICES ASSUME IInv, [Next]_vars PROVE IInv'
  OBVIOUS
<1>1. CASE Next
  <2>1. PICK c \in Clients :
          handle_client(c) \/ Reset(c) \/ Dial(c) \/ Client(c) \/ Stall(c) \/ Kill(c)
    BY <1>1 DEF Next
  <2>2. CASE Client(c)
    BY <2>2, ReadResponseKeeps, ReadCountKeeps, ReadRowKeeps, EndListingKeeps
       DEF Client
  <2> QED
    BY <2>1, <2>2, HandlerKeeps, ResetKeeps, DialKeeps, StallKeeps, KillKeeps
<1>2. CASE UNCHANGED vars
  <2>1. TypeOK'
    BY <1>2 DEF vars, table, handlervars, readervars, IInv, TypeOK
  <2>2. ASSUME NEW c \in Clients PROVE Still(c)
    BY <1>2 DEF vars, handlervars, readervars, Still, SameClient
  <2>3. UNCHANGED <<users, files>> /\ server' = server
    BY <1>2 DEF vars, table
  <2>4. ASSUME NEW c \in Clients PROVE ClientInv(c)'
    BY <2>2, <2>3, Bystander DEF IInv
  <2>5. EndedByDeserter'
    BY <2>2, <2>3, DeserterStays DEF IInv, EndedByDeserter, Still
  <2> QED
    BY <2>1, <2>4, <2>5 DEF IInv
<1> QED
  BY <1>1, <1>2

(* The invariant holds in every state. *)
LEMMA Invariance == Spec => []IInv
BY InitIInv, NextIInv, PTL DEF Spec

(* The types, the mutex held by the one handler in its section, and every  *)
(* buffer within its capacity.                                             *)
THEOREM StreamTyped == Spec => []TypeOK
<1>1. IInv => TypeOK
  BY DEF IInv
<1> QED
  BY <1>1, Invariance, PTL

(* What a client of listusers, listcontent or getfile has read is the      *)
(* table of the instant its request got the mutex, as far as it goes, with *)
(* blanks after it only when the server has ended; a listing that is       *)
(* printed whole is that table whole.                                      *)
THEOREM ListingsOfOneInstant == Spec => []OneInstant
<1>1. IInv => OneInstant
  <2> SUFFICES ASSUME IInv, NEW c \in Clients
               PROVE  \E n \in 0 .. Len(received[c]) :
                 /\ n <= Len(snapshot[c])
                 /\ \A j \in 1 .. n : received[c][j] = snapshot[c][j]
                 /\ \A j \in n + 1 .. Len(received[c]) :
                      received[c][j] = Blank /\ server = "dead"
                 /\ /\ result[c] = "OK"
                    /\ command[c] \in {"LIST_USERS", "LIST_CONTENT"}
                    /\ server = "up"
                    => received[c] = snapshot[c]
    BY DEF OneInstant
  <2>1. Read(c) /\ Printed(c) /\ Len(received[c]) \in Nat
    BY LenProperties DEF IInv, ClientInv, TypeOK
  <2>2. PICK n \in 0 .. Len(received[c]) :
          /\ n <= Len(snapshot[c])
          /\ \A j \in 1 .. n : received[c][j] = snapshot[c][j]
          /\ \A j \in n + 1 .. Len(received[c]) : received[c][j] = Blank
          /\ n < Len(received[c]) => server = "dead"
    BY <2>1 DEF Read
  <2>3. ASSUME NEW j \in n + 1 .. Len(received[c]) PROVE n < Len(received[c])
    BY <2>1
  <2> QED
    BY <2>1, <2>2, <2>3 DEF Printed
<1> QED
  BY <1>1, Invariance, PTL

(* A client that reads what was announced, or is refused, never leaves a   *)
(* write of the server to a closed connection: when SIGPIPE has ended the  *)
(* server, there is a client that was killed, or a getfile that closed at  *)
(* the user it looked for.                                                 *)
THEOREM OnlyDesertersEnd == Spec => []EndedByDeserter
<1>1. IInv => EndedByDeserter
  BY DEF IInv
<1> QED
  BY <1>1, Invariance, PTL

=============================================================================
