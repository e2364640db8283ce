------------------------------ MODULE WireProofs ------------------------------
(***************************************************************************)
(* Proofs about a request on the wire, for buffers of any size and         *)
(* arguments of any length.                                                *)
(*                                                                         *)
(* The argument: what is on the wire, followed by what is still to be      *)
(* sent, is what is still to be read (UnderWay), so the next string that   *)
(* read_string finds is the next one of the request.  One that fills the   *)
(* buffer leaves its NUL behind, which is read as an empty string and ends *)
(* the connection: nothing is shifted.                                     *)
(***************************************************************************)
EXTENDS Wire, SequenceTheorems, WellFoundedInduction, TLAPS

Text == Seq(Bytes \X Nat)
Octets == (Bytes \X Nat) \cup {NUL}

----------------------------------------------------------------------------
(* Strings, and how they follow each other. *)

(* A non-empty set of natural numbers has a least element. *)
LEMMA LeastNat ==
  ASSUME NEW S, S \in SUBSET Nat, S # {}
  PROVE  \E m \in S : \A k \in S : m <= k
<1> DEFINE R == {ss \in Nat \X Nat : ss[1] < ss[2]}
<1>1. IsWellFoundedOn(R, Nat)
  BY NatLessThanWellFounded DEF OpToRel
<1>2. \A k, m \in Nat : <<k, m>> \in R <=> k < m
  OBVIOUS
<1> HIDE DEF R
<1>3. PICK m \in S : \A k \in S : ~ (<<k, m>> \in R)
  BY <1>1, WFMin
<1>4. ASSUME NEW k \in S PROVE m <= k
  <2>1. k \in Nat /\ m \in Nat
    OBVIOUS
  <2>2. ~ (k < m)
    BY <1>2, <1>3, <2>1
  <2> QED
    BY <2>1, <2>2
<1> QED
  BY <1>3, <1>4

(* From each string on, the bytes of what is left of a request. *)
TailsFrom(g, all, i) ==
  /\ g \in [i .. Len(all) + 1 -> Seq(Octets)]
  /\ g[Len(all) + 1] = <<>>
  /\ \A j \in i .. Len(all) : g[j] = Append(all[j], NUL) \o g[j + 1]

Tails(g, all) == TailsFrom(g, all, 1)

(* A string and its terminator are bytes. *)
LEMMA Terminated ==
  ASSUME NEW s \in Text
  PROVE  /\ s \in Seq(Octets) /\ Append(s, NUL) \in Seq(Octets)
         /\ Len(s) \in Nat /\ Len(Append(s, NUL)) = Len(s) + 1
         /\ \A i \in 1 .. Len(s) : Append(s, NUL)[i] = s[i] /\ s[i] # NUL
         /\ Append(s, NUL)[Len(s) + 1] = NUL
         /\ Append(s, NUL) = s \o <<NUL>>
<1>1. s \in Seq(Octets)
  BY SeqMonotonic DEF Text, Octets
<1>2. NUL \in Octets
  BY DEF Octets
<1>3. \A i \in 1 .. Len(s) : s[i] # NUL
  BY ElementOfSeq, WireAssumption DEF Text
<1>4. Append(s, NUL) = s \o <<NUL>>
  BY <1>1, <1>2, AppendIsConcat
<1> QED
  BY <1>1, <1>2, <1>3, <1>4, AppendProperties, LenProperties

(* However many strings a request has, its bytes are a sequence. *)
LEMMA TailsExist ==
  ASSUME NEW all \in Seq(Text)
  PROVE  \E g : Tails(g, all)
<1> DEFINE n == Len(all)
           Bad == {m \in 0 .. n : ~ \E g : TailsFrom(g, all, n + 1 - m)}
<1>1. n \in Nat
  BY LenProperties
<1> HIDE DEF n
<1>2. ASSUME NEW m \in Bad, \A k \in Bad : m <= k PROVE FALSE
  <2>1. m \in Nat /\ m <= n
    BY <1>1, <1>2
  <2>2. CASE m = 0
    <3>1. n + 1 - m = n + 1 /\ \A j \in n + 1 .. n : FALSE
      BY <1>1, <2>2
    <3>2. <<>> \in Seq(Octets)
      BY EmptySeq
    <3> DEFINE h == [j \in n + 1 .. n + 1 |-> <<>>]
    <3>3. TailsFrom(h, all, n + 1)
      <4>1. h \in [n + 1 .. n + 1 -> Seq(Octets)]
        BY <3>2
      <4>2. h[n + 1] = <<>>
        BY <1>1
      <4> HIDE DEF h
      <4> QED
        BY <3>1, <4>1, <4>2 DEF TailsFrom, n
    <3> HIDE DEF h
    <3> QED
      BY <1>2, <3>1, <3>3
  <2>3. CASE m # 0
    <3> DEFINE i == n + 1 - m
    <3>1. /\ i \in 1 .. n /\ i \in Nat /\ n + 1 - (m - 1) = i + 1
          /\ m - 1 \in 0 .. n /\ ~ (m <= m - 1)
      BY <1>1, <2>1, <2>3
    <3>2. m - 1 \notin Bad
      BY <1>2, <3>1
    <3>3. PICK f : TailsFrom(f, all, i + 1)
      BY <3>1, <3>2
    <3> DEFINE g == [j \in i .. n + 1 |->
                       IF j = i THEN Append(all[i], NUL) \o f[i + 1] ELSE f[j]]
    <3> HIDE DEF i
    <3>4. f[i + 1] \in Seq(Octets)
      BY <1>1, <3>1, <3>3 DEF TailsFrom, n
    <3>5. Append(all[i], NUL) \o f[i + 1] \in Seq(Octets)
      <4>1. all[i] \in Text
        BY <3>1, ElementOfSeq DEF n
      <4>2. Append(all[i], NUL) \in Seq(Octets)
        BY <4>1, Terminated
      <4> QED
        BY <3>4, <4>2, ConcatProperties
    <3>6. \A j \in i .. n + 1 : j = i \/ j \in i + 1 .. n + 1
      BY <1>1, <3>1
    <3>7. g \in [i .. n + 1 -> Seq(Octets)]
      <4>1. ASSUME NEW j \in i .. n + 1
            PROVE  (IF j = i THEN Append(all[i], NUL) \o f[i + 1] ELSE f[j])
                     \in Seq(Octets)
        BY <3>3, <3>5, <3>6 DEF TailsFrom, n
      <4> QED
        BY <4>1
    <3>8. g[n + 1] = <<>>
      <4>1. n + 1 \in i .. n + 1 /\ n + 1 # i
        BY <1>1, <3>1
      <4> QED
        BY <3>3, <4>1 DEF TailsFrom, n
    <3>9. ASSUME NEW j \in i .. n PROVE g[j] = Append(all[j], NUL) \o g[j + 1]
      <4>1. /\ j \in i .. n + 1 /\ j + 1 \in i .. n + 1 /\ j + 1 # i
            /\ j = i \/ j \in i + 1 .. n
        BY <1>1, <3>1
      <4>2. g[j + 1] = f[j + 1]
        BY <4>1
      <4>3. CASE j = i
        BY <4>1, <4>2, <4>3
      <4>4. CASE j # i
        <5>1. f[j] = Append(all[j], NUL) \o f[j + 1]
          BY <3>3, <4>1, <4>4 DEF TailsFrom, n
        <5> QED
          BY <4>1, <4>2, <4>4, <5>1
      <4> QED
        BY <4>3, <4>4
    <3>10. TailsFrom(g, all, i)
      <4> HIDE DEF g
      <4> QED
        BY <3>7, <3>8, <3>9 DEF TailsFrom, n
    <3> QED
      BY <1>2, <3>10 DEF i
  <2> QED
    BY <2>2, <2>3
<1>3. Bad = {}
  <2>1. SUFFICES ASSUME Bad # {} PROVE FALSE
    OBVIOUS
  <2>2. Bad \in SUBSET Nat
    BY <1>1
  <2>3. PICK m \in Bad : \A k \in Bad : m <= k
    <3> HIDE DEF Bad
    <3> QED
      BY <2>1, <2>2, LeastNat
  <2> QED
    BY <1>2, <2>3
<1>4. PICK g : TailsFrom(g, all, n + 1 - n)
  <2>1. n \in 0 .. n
    BY <1>1
  <2> QED
    BY <1>3, <2>1
<1>5. n + 1 - n = 1
  BY <1>1
<1> QED
  BY <1>4, <1>5 DEF Tails

(* The tail from a string on: that string, its terminator, the next tail. *)
LEMMA TailSplits ==
  ASSUME NEW all \in Seq(Text), NEW g, Tails(g, all), NEW j \in 1 .. Len(all)
  PROVE  /\ g[j] = Append(all[j], NUL) \o g[j + 1]
         /\ g[j] \in Seq(Octets) /\ g[j + 1] \in Seq(Octets)
         /\ all[j] \in Text
<1>1. Len(all) \in Nat
  BY LenProperties
<1>2. j \in 1 .. Len(all) + 1 /\ j + 1 \in 1 .. Len(all) + 1
  BY <1>1
<1> QED
  BY <1>2, ElementOfSeq DEF Tails, TailsFrom

(* What is left of a sequence after a beginning of that length. *)
After(w, v) == SubSeq(w, Len(v) + 1, Len(w))

(* Of a sequence cut in two ways, w before r and v before t, v is the      *)
(* shorter beginning.                                                      *)
Cut(S, w, r, v, t) ==
  /\ w \in Seq(S) /\ r \in Seq(S) /\ v \in Seq(S) /\ t \in Seq(S)
  /\ w \o r = v \o t /\ Len(v) <= Len(w)

(* What follows the same beginning is the same. *)
LEMMA TakeDrop ==
  ASSUME NEW S, NEW w, NEW r, NEW v, NEW t, Cut(S, w, r, v, t)
  PROVE  /\ SubSeq(w, 1, Len(v)) = v
         /\ After(w, v) \in Seq(S)
         /\ After(w, v) \o r = t
<1> DEFINE q == Len(v)
           x == SubSeq(w, q + 1, Len(w))
           y == SubSeq(w, 1, q)
<1>0. /\ w \in Seq(S) /\ r \in Seq(S) /\ v \in Seq(S) /\ t \in Seq(S)
      /\ w \o r = v \o t /\ q <= Len(w)
  BY DEF Cut
<1>1. q \in Nat /\ Len(w) \in Nat /\ Len(r) \in Nat /\ Len(t) \in Nat /\ q <= Len(w)
  BY <1>0, LenProperties
<1>2. /\ Len(w \o r) = Len(w) + Len(r)
      /\ \A i \in 1 .. Len(w) + Len(r) :
           (w \o r)[i] = IF i <= Len(w) THEN w[i] ELSE r[i - Len(w)]
  BY <1>0, ConcatProperties
<1>3. /\ Len(v \o t) = q + Len(t)
      /\ \A i \in 1 .. q + Len(t) :
           (v \o t)[i] = IF i <= q THEN v[i] ELSE t[i - q]
  BY <1>0, ConcatProperties
<1>4. Len(w) + Len(r) = q + Len(t)
  BY <1>0, <1>2, <1>3
<1> HIDE DEF q
<1>5. \A i \in 1 .. Len(w) : w[i] \in S
  BY <1>0, ElementOfSeq
<1>6. /\ y \in Seq(S) /\ Len(y) = q /\ \A i \in 1 .. q : y[i] = w[i]
  <2>1. \A i \in 1 .. q : w[i] \in S
    BY <1>1, <1>5
  <2>2. /\ y \in Seq(S) /\ Len(y) = IF 1 <= q THEN q - 1 + 1 ELSE 0
        /\ \A i \in 1 .. q - 1 + 1 : y[i] = w[1 + i - 1]
    BY <1>0, <1>1, <2>1, SubSeqProperties
  <2> HIDE DEF y
  <2>3. \A i \in 1 .. q : i \in 1 .. q - 1 + 1 /\ 1 + i - 1 = i
    BY <1>1
  <2>4. Len(y) = q
    BY <1>1, <2>2
  <2> QED
    BY <2>2, <2>3, <2>4
<1>7. y = v
  <2>1. \A i \in 1 .. q : y[i] = v[i]
    <3>1. ASSUME NEW i \in 1 .. q PROVE y[i] = v[i]
      <4>1. i \in 1 .. Len(w) + Len(r) /\ i <= Len(w) /\ i \in 1 .. q + Len(t) /\ i <= q
        BY <1>1
      <4> QED
        BY <1>0, <1>2, <1>3, <1>6, <4>1
    <3> QED
      BY <3>1
  <2>2. v \in Seq(S) /\ Len(v) = Len(y)
    BY <1>0, <1>6 DEF q
  <2> HIDE DEF y
  <2> QED
    BY <1>0, <1>6, <2>1, <2>2, SeqEqual
<1>8. /\ x \in Seq(S) /\ Len(x) = Len(w) - q
      /\ \A i \in 1 .. Len(w) - q : x[i] = w[q + i]
  <2>1. \A i \in q + 1 .. Len(w) : w[i] \in S
    BY <1>1, <1>5
  <2>2. /\ x \in Seq(S)
        /\ Len(x) = IF q + 1 <= Len(w) THEN Len(w) - (q + 1) + 1 ELSE 0
        /\ \A i \in 1 .. Len(w) - (q + 1) + 1 : x[i] = w[(q + 1) + i - 1]
    BY <1>0, <1>1, <2>1, SubSeqProperties
  <2> HIDE DEF x
  <2>3. \A i \in 1 .. Len(w) - q :
          i \in 1 .. Len(w) - (q + 1) + 1 /\ (q + 1) + i - 1 = q + i
    BY <1>1
  <2>4. Len(x) = Len(w) - q
    BY <1>1, <2>2
  <2> QED
    BY <2>2, <2>3, <2>4
<1>9. x \o r = t
  <2> HIDE DEF x
  <2>1. /\ x \o r \in Seq(S) /\ Len(x \o r) = Len(x) + Len(r)
        /\ \A i \in 1 .. Len(x) + Len(r) :
             (x \o r)[i] = IF i <= Len(x) THEN x[i] ELSE r[i - Len(x)]
    BY <1>0, <1>8, ConcatProperties
  <2>2. Len(x \o r) = Len(t) /\ Len(x) + Len(r) = Len(t)
    BY <1>1, <1>4, <1>8, <2>1
  <2>3. ASSUME NEW i \in 1 .. Len(t) PROVE (x \o r)[i] = t[i]
    <3>1. /\ q + i \in 1 .. q + Len(t) /\ ~ (q + i <= q) /\ (q + i) - q = i
          /\ q + i \in 1 .. Len(w) + Len(r) /\ i \in 1 .. Len(x) + Len(r)
      BY <1>1, <1>4, <2>2
    <3>2. (v \o t)[q + i] = t[i]
      BY <1>3, <3>1
    <3>3. CASE i <= Len(x)
      <4>1. q + i <= Len(w) /\ i \in 1 .. Len(w) - q
        BY <1>1, <1>8, <3>3
      <4>2. (w \o r)[q + i] = w[q + i]
        BY <1>2, <3>1, <4>1
      <4> QED
        BY <1>0, <1>8, <2>1, <3>1, <3>2, <3>3, <4>1, <4>2
    <3>4. CASE ~ (i <= Len(x))
      <4>1. ~ (q + i <= Len(w)) /\ (q + i) - Len(w) = i - Len(x)
        BY <1>1, <1>8, <3>4
      <4>2. (w \o r)[q + i] = r[(q + i) - Len(w)]
        BY <1>2, <3>1, <4>1
      <4> QED
        BY <1>0, <2>1, <3>1, <3>2, <3>4, <4>1, <4>2
    <3> QED
      BY <3>3, <3>4
  <2> QED
    BY <1>0, <2>1, <2>2, <2>3, SeqEqual
<1> QED
  BY <1>7, <1>8, <1>9 DEF q, After

(* If the string that is to be read fits beside its terminator, it is the  *)
(* one that read_string finds.                                             *)
LEMMA FoundLength ==
  ASSUME wire \in Seq(Octets), NEW rest \in Seq(Octets), NEW tail \in Seq(Octets),
         NEW s \in Text, Len(s) <= Room,
         wire \o rest = Append(s, NUL) \o tail,
         NEW n \in 0 .. Room, Found(n), \A m \in 0 .. n - 1 : ~Found(m)
  PROVE  n = Len(s) /\ n <= Len(wire) /\ (n < Room => n + 1 <= Len(wire))
<1> DEFINE l == Len(s)
           e == Append(s, NUL)
<1>1. /\ s \in Seq(Octets) /\ e \in Seq(Octets) /\ l \in Nat /\ Len(e) = l + 1
      /\ \A i \in 1 .. l : e[i] = s[i] /\ s[i] # NUL
      /\ e[l + 1] = NUL
  BY Terminated
<1>2. Room \in Nat /\ Room >= 3 /\ Len(wire) \in Nat
  BY WireAssumption, LenProperties DEF Room
<1> HIDE DEF l, e
<1>3. wire \o rest = e \o tail
  BY DEF e
<1>4. \A i \in 1 .. Len(wire) : i <= l + 1 => wire[i] = e[i]
  <2>1. /\ Len(wire \o rest) = Len(wire) + Len(rest)
        /\ \A i \in 1 .. Len(wire) + Len(rest) :
             (wire \o rest)[i] = IF i <= Len(wire) THEN wire[i] ELSE rest[i - Len(wire)]
    BY ConcatProperties
  <2>2. /\ Len(e \o tail) = Len(e) + Len(tail)
        /\ \A i \in 1 .. Len(e) + Len(tail) :
             (e \o tail)[i] = IF i <= Len(e) THEN e[i] ELSE tail[i - Len(e)]
    BY <1>1, ConcatProperties
  <2>3. Len(rest) \in Nat /\ Len(tail) \in Nat
    BY LenProperties
  <2>4. ASSUME NEW i \in 1 .. Len(wire), i <= l + 1 PROVE wire[i] = e[i]
    <3>1. /\ i \in 1 .. Len(wire) + Len(rest) /\ i <= Len(wire)
          /\ i \in 1 .. Len(e) + Len(tail) /\ i <= Len(e)
      BY <1>1, <1>2, <2>3, <2>4
    <3> QED
      BY <1>3, <2>1, <2>2, <3>1
  <2> QED
    BY <2>4
<1>5. n \in Nat /\ n <= Room /\ n <= Len(wire)
  BY <1>2 DEF Found
<1>6. ~ (n < l)
  <2>1. SUFFICES ASSUME n < l PROVE FALSE
    OBVIOUS
  <2>2. n < Room /\ n < Len(wire) /\ wire[n + 1] = NUL
    BY <1>1, <1>2, <1>5, <2>1 DEF Found, l
  <2>3. n + 1 \in 1 .. Len(wire) /\ n + 1 <= l + 1 /\ n + 1 \in 1 .. l
    BY <1>1, <1>2, <1>5, <2>1, <2>2
  <2> QED
    BY <1>1, <1>4, <2>2, <2>3
<1>7. ~ (n > l)
  <2>1. SUFFICES ASSUME n > l PROVE FALSE
    OBVIOUS
  <2>2. l \in 0 .. n - 1 /\ l < Room /\ l < Len(wire)
        /\ l + 1 \in 1 .. Len(wire) /\ l + 1 <= l + 1
    BY <1>1, <1>2, <1>5, <2>1
  <2>3. wire[l + 1] = NUL
    BY <1>1, <1>4, <2>2
  <2> QED
    BY <2>2, <2>3 DEF Found
<1>8. n = l
  BY <1>1, <1>5, <1>6, <1>7
<1> QED
  BY <1>2, <1>5, <1>8 DEF l, Found

(* What read_string then leaves is the rest of the request; a string that  *)
(* fills the buffer leaves its NUL behind.                                 *)
Leaves(w, rest, tail, s) ==
  /\ SubSeq(w, 1, Len(s)) = s
  /\ LET left == SubSeq(w, Len(s) + 1, Len(w))
     IN  left \in Seq(Octets) /\ left \o rest = <<NUL>> \o tail
  /\ Len(s) + 1 <= Len(w) =>
       LET left == SubSeq(w, Len(s) + 2, Len(w))
       IN  left \in Seq(Octets) /\ left \o rest = tail

(* So it is when the string that is sent first has arrived. *)
LEMMA NextString ==
  ASSUME NEW w \in Seq(Octets), NEW rest \in Seq(Octets), NEW tail \in Seq(Octets),
         NEW s \in Text, w \o rest = Append(s, NUL) \o tail, Len(s) <= Len(w)
  PROVE  Leaves(w, rest, tail, s)
<1> DEFINE e == Append(s, NUL)
           t == <<NUL>> \o tail
<1>1. /\ s \in Seq(Octets) /\ e \in Seq(Octets) /\ Len(s) \in Nat
      /\ Len(e) = Len(s) + 1 /\ e = s \o <<NUL>>
  BY Terminated
<1>2. <<NUL>> \in Seq(Octets)
  BY DEF Octets
<1>3. e \o tail = s \o t /\ t \in Seq(Octets)
  BY <1>1, <1>2, ConcatAssociative, ConcatProperties
<1>4. w \o rest = s \o t /\ w \o rest = e \o tail
  BY <1>3
<1> HIDE DEF e, t
<1>5. SubSeq(w, 1, Len(s)) = s /\ After(w, s) \in Seq(Octets) /\ After(w, s) \o rest = t
  <2>1. Cut(Octets, w, rest, s, t)
    BY <1>1, <1>3, <1>4 DEF Cut
  <2> QED
    BY <2>1, TakeDrop
<1>6. ASSUME Len(s) + 1 <= Len(w)
      PROVE  After(w, e) \in Seq(Octets) /\ After(w, e) \o rest = tail
  <2>1. Cut(Octets, w, rest, e, tail)
    BY <1>1, <1>4, <1>6 DEF Cut
  <2> QED
    BY <2>1, TakeDrop
<1>7. Len(e) + 1 = Len(s) + 2
  BY <1>1
<1> QED
  BY <1>5, <1>6, <1>7 DEF After, t, Leaves

----------------------------------------------------------------------------
(* What the client types and sends. *)

(* The name of a byte and its place make a string of that length. *)
LEMMA StringText ==
  ASSUME NEW name \in Bytes, NEW n \in Nat
  PROVE  String(name, n) \in Text /\ Len(String(name, n)) = n
<1>1. String(name, n) \in [1 .. n -> Bytes \X Nat]
  BY DEF String
<1>2. String(name, n) \in Text
  BY <1>1, SeqDef DEF Text
<1> QED
  BY <1>1, <1>2, LenProperties DEF Text

(* The branches of handle_client read, in this order, what the commands    *)
(* send.                                                                   *)
LEMMA ReadsAreSent ==
  ASSUME NEW o \in DOMAIN Sends
  PROVE  /\ Reads(o) = Sends[o] /\ Sends[o] \in Seq(Bytes) /\ o \in Bytes
         /\ Len(Sends[o]) \in Nat \ {0} /\ DOMAIN Sends[o] = 1 .. Len(Sends[o])
<1>1. o \in {"REGISTER", "UNREGISTER", "CONNECT", "DISCONNECT", "PUBLISH",
             "DELETE", "LIST_USERS", "LIST_CONTENT"}
  BY DEF Sends
<1>2. o \in Bytes
  BY DEF Bytes
<1>3. /\ <<"username">> \in Seq(Bytes) /\ <<"username", "port">> \in Seq(Bytes)
      /\ <<"username", "filename", "description">> \in Seq(Bytes)
      /\ <<"username", "filename">> \in Seq(Bytes)
      /\ <<"username", "remote">> \in Seq(Bytes)
  BY DEF Bytes
<1>4. Reads(o) = Sends[o]
  BY <1>1 DEF Reads, Sends, register, unregister, connect, disconnect, publish,
              delete, listusers, listcontent
<1>5. \/ Sends[o] = <<"username">> \/ Sends[o] = <<"username", "port">>
      \/ Sends[o] = <<"username", "filename", "description">>
      \/ Sends[o] = <<"username", "filename">> \/ Sends[o] = <<"username", "remote">>
  BY <1>1 DEF Sends, register, unregister, connect, disconnect, publish,
              delete, listusers, listcontent
<1>6. Sends[o] \in Seq(Bytes)
  BY <1>3, <1>5
<1>7. Len(Sends[o]) # 0
  BY <1>5
<1> QED
  BY <1>2, <1>4, <1>6, <1>7, LenProperties

(* The dates that are sent. *)
Dates == {String("date", 2), String("default", 2)}

LEMMA DatesText ==
  ASSUME NEW d \in Dates
  PROVE  d \in Text /\ Len(d) = 2
BY StringText DEF Dates, Bytes

(* The arguments of a command, one for each name, of any length. *)
LEMMA TypedArguments ==
  ASSUME NEW o \in DOMAIN Sends, NEW n \in [DOMAIN Sends[o] -> Lengths]
  PROVE  LET typed == [i \in DOMAIN Sends[o] |-> String(Sends[o][i], n[i])]
         IN  typed \in Seq(Text) /\ Len(typed) = Len(Sends[o])
<1> DEFINE m == Len(Sends[o])
           typed == [i \in DOMAIN Sends[o] |-> String(Sends[o][i], n[i])]
<1>1. m \in Nat /\ DOMAIN Sends[o] = 1 .. m /\ Sends[o] \in Seq(Bytes)
  BY ReadsAreSent
<1>2. ASSUME NEW i \in 1 .. m PROVE String(Sends[o][i], n[i]) \in Text
  <2>1. Sends[o][i] \in Bytes
    BY <1>1, ElementOfSeq
  <2>2. n[i] \in Nat
    BY <1>1, WireAssumption
  <2> QED
    BY <2>1, <2>2, StringText
<1> HIDE DEF m
<1>3. typed \in [1 .. m -> Text]
  BY <1>1, <1>2
<1> HIDE DEF typed
<1>4. typed \in Seq(Text)
  BY <1>1, <1>3, SeqDef
<1>5. Len(typed) = m
  BY <1>1, <1>3, <1>4, LenProperties
<1> QED
  BY <1>4, <1>5 DEF m, typed

----------------------------------------------------------------------------
(* The types. *)

LEMMA Words ==
  /\ Text = Seq(Bytes \X Nat) /\ Octets = (Bytes \X Nat) \cup {NUL}
  /\ Room = MaxString - 1 /\ MaxString \in Nat /\ Room \in Nat /\ Room >= 3
BY WireAssumption DEF Text, Octets, Room

(* read_string takes the bytes before the first NUL, at most Room of them. *)
LEMMA ReadTyped ==
  ASSUME TypeOK, NEW n \in 0 .. Room, Found(n), \A m \in 0 .. n - 1 : ~Found(m)
  PROVE  /\ SubSeq(wire, 1, n) \in Text /\ Len(SubSeq(wire, 1, n)) = n
         /\ SubSeq(wire, IF n < Room THEN n + 2 ELSE n + 1, Len(wire)) \in Seq(Octets)
<1>1. wire \in Seq(Octets) /\ Len(wire) \in Nat /\ Room \in Nat
  BY Words, LenProperties DEF TypeOK
<1>2. n \in Nat /\ n <= Room /\ n <= Len(wire)
  BY <1>1 DEF Found
<1>3. \A i \in 1 .. Len(wire) : wire[i] \in Octets
  BY <1>1, ElementOfSeq
<1>4. ASSUME NEW i \in 1 .. n PROVE wire[i] \in Bytes \X Nat
  <2>1. /\ i - 1 \in 0 .. n - 1 /\ i - 1 < Room /\ i - 1 < Len(wire)
        /\ (i - 1) + 1 = i /\ i \in 1 .. Len(wire)
    BY <1>1, <1>2
  <2>2. wire[i] # NUL
    BY <2>1 DEF Found
  <2> QED
    BY <1>3, <2>1, <2>2 DEF Octets
<1>5. SubSeq(wire, 1, n) \in Text /\ Len(SubSeq(wire, 1, n)) = IF 1 <= n THEN n - 1 + 1 ELSE 0
  BY <1>2, <1>4, SubSeqProperties DEF Text
<1>6. (IF 1 <= n THEN n - 1 + 1 ELSE 0) = n
  BY <1>2
<1>7. ASSUME NEW b \in Nat \ {0} PROVE SubSeq(wire, b, Len(wire)) \in Seq(Octets)
  <2>1. \A i \in b .. Len(wire) : wire[i] \in Octets
    BY <1>1, <1>3
  <2> QED
    BY <1>1, <2>1, SubSeqProperties
<1>8. n + 2 \in Nat \ {0} /\ n + 1 \in Nat \ {0}
  BY <1>2
<1> QED
  BY <1>5, <1>6, <1>7, <1>8

(* The types of the sequences, in the words of this module. *)
LEMMA SequencesTyped ==
  TypeOK => /\ arguments \in Seq(Text) /\ outbox \in Seq(Text)
            /\ wire \in Seq(Octets) /\ strings \in Seq(Text)
            /\ Len(arguments) \in Nat /\ DOMAIN arguments = 1 .. Len(arguments)
            /\ Len(strings) \in Nat /\ DOMAIN strings = 1 .. Len(strings)
<1> SUFFICES ASSUME TypeOK PROVE SequencesTyped!2
  OBVIOUS
<1>1. /\ arguments \in Seq(Text) /\ outbox \in Seq(Text)
      /\ wire \in Seq(Octets) /\ strings \in Seq(Text)
  BY DEF TypeOK, Text, Octets
<1> QED
  BY <1>1, LenProperties

(* One request read more keeps the strings typed. *)
LEMMA StringsTyped ==
  ASSUME TypeOK, NEW s \in Text, Len(s) \in 1 .. MaxString - 1
  PROVE  /\ Append(strings, s) \in Seq(Text) /\ Len(Append(strings, s)) = Len(strings) + 1
         /\ \A i \in 1 .. Len(strings) : Append(strings, s)[i] = strings[i]
         /\ Append(strings, s)[Len(strings) + 1] = s
         /\ \A i \in DOMAIN Append(strings, s) :
              Len(Append(strings, s)[i]) \in 1 .. MaxString - 1
<1>1. strings \in Seq(Text) /\ Len(strings) \in Nat /\ DOMAIN strings = 1 .. Len(strings)
  BY SequencesTyped
<1>2. /\ Append(strings, s) \in Seq(Text) /\ Len(Append(strings, s)) = Len(strings) + 1
      /\ \A i \in 1 .. Len(strings) : Append(strings, s)[i] = strings[i]
      /\ Append(strings, s)[Len(strings) + 1] = s
  BY <1>1, AppendProperties
<1>3. DOMAIN Append(strings, s) = 1 .. Len(strings) + 1
  BY <1>2, LenProperties
<1>4. ASSUME NEW i \in 1 .. Len(strings) + 1
      PROVE  Len(Append(strings, s)[i]) \in 1 .. MaxString - 1
  <2>1. i \in 1 .. Len(strings) \/ i = Len(strings) + 1
    BY <1>1
  <2> QED
    BY <1>1, <1>2, <2>1 DEF TypeOK
<1> QED
  BY <1>2, <1>3, <1>4

(* After the prompt there is a command, with as many arguments as it has   *)
(* names.                                                                  *)
Commanded ==
  client # "prompt" => op \in DOMAIN Sends /\ Len(arguments) = Len(Sends[op])

(* A sequence is its beginning and what follows it. *)
LEMMA CutOff ==
  ASSUME NEW s \in Seq(Octets), NEW n \in 0 .. Len(s)
  PROVE  /\ SubSeq(s, 1, n) \in Seq(Octets) /\ SubSeq(s, n + 1, Len(s)) \in Seq(Octets)
         /\ SubSeq(s, 1, n) \o SubSeq(s, n + 1, Len(s)) = s
<1>1. Len(s) \in Nat /\ n \in Nat
  BY LenProperties
<1>2. /\ 1 \in 1 .. Len(s) + 1 /\ n \in 1 - 1 .. Len(s)
      /\ Len(s) \in n .. Len(s)
  BY <1>1
<1>3. SubSeq(s, 1, n) \o SubSeq(s, n + 1, Len(s)) = SubSeq(s, 1, Len(s))
  BY <1>2, ConcatAdjacentSubSeq
<1>4. SubSeq(s, 1, Len(s)) = s
  BY SubSeqFull
<1>5. /\ \A i \in 1 .. n : i \in 1 .. Len(s)
      /\ \A i \in n + 1 .. Len(s) : i \in 1 .. Len(s)
  BY <1>1
<1>6. \A i \in 1 .. Len(s) : s[i] \in Octets
  BY ElementOfSeq
<1>7. SubSeq(s, 1, n) \in Seq(Octets) /\ SubSeq(s, n + 1, Len(s)) \in Seq(Octets)
  BY <1>1, <1>5, <1>6, SubSeqProperties
<1> QED
  BY <1>3, <1>4, <1>7

(* What is in flight is a sequence of bytes, and so is what arrives of it. *)
LEMMA FlightBreaks ==
  ASSUME TypeOK
  PROVE  /\ InFlight \in Seq(Octets)
         /\ \A n \in 0 .. Len(InFlight) : SubSeq(InFlight, 1, n) \in Seq(Octets)
<1>1. outbox \in Seq(Text) /\ wire \in Seq(Octets)
  BY SequencesTyped
<1>2. outbox # <<>> => Head(outbox) \in Seq(Octets)
  BY <1>1, HeadTailProperties, Terminated
<1>3. InFlight \in Seq(Octets)
  BY <1>1, <1>2, ConcatProperties DEF InFlight
<1> QED
  BY <1>3, CutOff

(* Every step of the client keeps the types. *)
LEMMA ClientTyped ==
  ASSUME TypeOK, Commanded,
         (\E o \in Ops : Command(o)) \/ get_datetime \/ Sending \/ Lost \/ Kill
  PROVE  TypeOK' /\ Commanded'
<1>1. /\ arguments \in Seq(Text) /\ outbox \in Seq(Text)
      /\ wire \in Seq(Octets) /\ strings \in Seq(Text)
  BY SequencesTyped
<1>2. CASE \E o \in Ops : Command(o)
  <2>1. PICK o \in Ops : Command(o)
    BY <1>2
  <2>2. o \in DOMAIN Sends
    BY WireAssumption
  <2>3. PICK n \in [DOMAIN Sends[o] -> Lengths] :
          arguments' = [i \in DOMAIN Sends[o] |-> String(Sends[o][i], n[i])]
    BY <2>1 DEF Command
  <2>4. arguments' \in Seq(Seq(Bytes \X Nat)) /\ Len(arguments') = Len(Sends[o])
    BY <2>2, <2>3, TypedArguments DEF Text
  <2>5. /\ op' = o /\ op' \in DOMAIN Sends \cup {"none"} /\ handler' = "reading"
        /\ client' \in {"prompt", "dating", "dated", "sending", "done"}
        /\ UNCHANGED <<part, outbox, result, trouble, wire, strings, response>>
    BY <2>1, <2>2 DEF Command
  <2> QED
    BY <2>2, <2>4, <2>5 DEF TypeOK, Commanded
<1>3. CASE get_datetime
  <2>1. outbox' \in Seq(Seq(Bytes \X Nat))
    <3>1. PICK d \in Dates : outbox' = <<d>>
      BY <1>3 DEF get_datetime, get_date, Dates
    <3>2. d \in Text
      BY DatesText
    <3> QED
      BY <3>1, <3>2 DEF Text
  <2>2. client' = "dated" /\ UNCHANGED <<part, op, arguments, result, trouble, wire, servervars>>
    BY <1>3 DEF get_datetime
  <2> QED
    BY <1>3, <2>1, <2>2 DEF TypeOK, Commanded, servervars, get_datetime
<1>4. CASE Request
  <2>1. outbox' \in Seq(Seq(Bytes \X Nat))
    <3>1. op \in DOMAIN Sends
      BY <1>4 DEF Commanded, Request
    <3>2. <<String(op, 1)>> \in Seq(Text)
      BY <3>1, ReadsAreSent, StringText
    <3>3. <<String(op, 1)>> \o outbox \o arguments \in Seq(Text)
      BY <1>1, <3>2, ConcatProperties
    <3> QED
      BY <1>4, <3>3 DEF Request, Text
  <2> QED
    BY <1>4, <2>1 DEF TypeOK, Commanded, Request, servervars
<1>5. CASE send_string
  <2>1. outbox # <<>>
    BY <1>5 DEF send_string
  <2>2. Head(outbox) \in Text /\ Tail(outbox) \in Seq(Text)
    BY <1>1, <2>1, HeadTailProperties
  <2>3. wire \o Append(Head(outbox), NUL) \in Seq(Octets)
    BY <1>1, <2>2, Terminated, ConcatProperties
  <2>4. wire' \in Seq(Octets) /\ outbox' \in Seq(Text)
    BY <1>1, <1>5, <2>2, <2>3 DEF send_string
  <2>5. /\ client' \in {"prompt", "dating", "dated", "sending", "done"}
        /\ result' \in {"none", "OK", "REFUSED", "FAIL"}
    BY <1>5 DEF send_string, TypeOK
  <2>6. /\ UNCHANGED <<part, op, arguments, trouble, handler, strings, response>>
        /\ client # "prompt"
    BY <1>5 DEF send_string, servervars
  <2> QED
    BY <2>4, <2>5, <2>6 DEF TypeOK, Commanded, Text, Octets
<1>6. CASE Response
  BY <1>6 DEF Response, TypeOK, Commanded, servervars
<1>7. CASE Lost \/ Kill
  <2>1. /\ Breaks /\ client # "prompt" /\ result' \in {"none", "OK", "REFUSED", "FAIL"}
        /\ trouble' \in {"none", "connection", "disk"}
    BY <1>7 DEF Lost, Kill, TypeOK
  <2>2. wire' \in Seq(Octets)
    BY <2>1, FlightBreaks DEF Breaks
  <2>3. client' = "done" /\ UNCHANGED <<part, op, arguments, outbox, servervars>>
    BY <2>1 DEF Breaks
  <2> QED
    BY <2>1, <2>2, <2>3 DEF TypeOK, Commanded, Octets, servervars
<1> QED
  BY <1>2, <1>3, <1>4, <1>5, <1>6, <1>7 DEF Sending

(* Every step of the server keeps the types. *)
LEMMA ServerTyped ==
  ASSUME TypeOK, handle_client
  PROVE  TypeOK'
<1>1. CASE read_string
  <2>1. PICK n \in 0 .. Room :
          /\ Found(n) /\ \A m \in 0 .. (n - 1) : ~Found(m)
          /\ wire' = SubSeq(wire, IF n < Room THEN n + 2 ELSE n + 1, Len(wire))
          /\ \/ /\ n > 0 /\ strings' = Append(strings, SubSeq(wire, 1, n))
                /\ UNCHANGED <<handler, response>>
             \/ n = 0 /\ NoString
    BY <1>1 DEF read_string
  <2>2. /\ SubSeq(wire, 1, n) \in Text /\ Len(SubSeq(wire, 1, n)) = n
        /\ wire' \in Seq(Octets)
    BY <2>1, ReadTyped
  <2>3. UNCHANGED <<part, client, op, arguments, outbox, result, trouble>>
    BY <1>1 DEF read_string, clientvars
  <2>4. CASE n > 0
    <3>1. strings' = Append(strings, SubSeq(wire, 1, n)) /\ UNCHANGED <<handler, response>>
      BY <2>1, <2>4
    <3>2. Len(SubSeq(wire, 1, n)) \in 1 .. MaxString - 1
      BY <2>2, <2>4, Words
    <3>3. /\ strings' \in Seq(Text)
          /\ \A i \in DOMAIN strings' : Len(strings'[i]) \in 1 .. MaxString - 1
      BY <2>2, <3>1, <3>2, StringsTyped
    <3> QED
      BY <2>2, <2>3, <3>1, <3>3 DEF TypeOK, Text, Octets
  <2>5. CASE ~ (n > 0)
    <3>1. /\ handler' \in {"responded", "closed"} /\ response' \in {-1, 0, 1, 4}
          /\ UNCHANGED strings
      BY <2>1, <2>5 DEF NoString, TypeOK
    <3> QED
      BY <2>2, <2>3, <3>1 DEF TypeOK, Octets
  <2> QED
    BY <2>4, <2>5
<1>2. CASE ReadError
  BY <1>2 DEF ReadError, NoString, TypeOK, clientvars
<1>3. CASE Perform
  BY <1>3 DEF Perform, TypeOK, clientvars
<1>4. CASE Close \/ getpeername
  BY <1>4 DEF Close, getpeername, TypeOK, clientvars
<1> QED
  BY <1>1, <1>2, <1>3, <1>4 DEF handle_client

(* A session starts with its types. *)
LEMMA TypedInit == Init => TypeOK /\ Commanded
<1>1. SUFFICES ASSUME Init PROVE TypeOK /\ Commanded
  OBVIOUS
<1>2. /\ <<>> \in Seq(Seq(Bytes \X Nat)) /\ <<>> \in Seq((Bytes \X Nat) \cup {NUL})
      /\ DOMAIN <<>> = {}
  BY EmptySeq, LenProperties
<1>3. /\ arguments = <<>> /\ outbox = <<>> /\ wire = <<>> /\ strings = <<>>
      /\ response \in {-1, 0, 1, 4} /\ part \in Parts /\ op = "none" /\ client = "prompt"
      /\ result = "none" /\ trouble = "none" /\ handler = "none"
  BY <1>1 DEF Init
<1>4. \A i \in DOMAIN strings : Len(strings[i]) \in 1 .. (MaxString - 1)
  BY <1>2, <1>3
<1> QED
  BY <1>2, <1>3, <1>4 DEF TypeOK, Commanded

(* Every step keeps them. *)
LEMMA TypedNext == TypeOK /\ Commanded /\ [Next]_vars => TypeOK' /\ Commanded'
<1>1. SUFFICES ASSUME TypeOK, Commanded, [Next]_vars PROVE TypeOK' /\ Commanded'
  OBVIOUS
<1>2. CASE UNCHANGED vars
  <2>1. UNCHANGED <<part, client, op, arguments, outbox, result, trouble, wire, handler,
                    strings, response>>
    BY <1>2 DEF vars, clientvars, servervars
  <2> QED
    BY <1>1, <2>1 DEF TypeOK, Commanded
<1>3. CASE (\E o \in Ops : Command(o)) \/ get_datetime \/ Sending \/ Lost \/ Kill
  BY <1>1, <1>3, ClientTyped
<1>4. CASE handle_client
  <2>1. UNCHANGED <<client, op, arguments>>
    BY <1>4 DEF handle_client, read_string, ReadError, getpeername, Perform, Close,
                clientvars
  <2> QED
    BY <1>1, <1>4, <2>1, ServerTyped DEF Commanded
<1> QED
  BY <1>1, <1>2, <1>3, <1>4 DEF Next

(* What is typed, sent, on the wire and read stays of its type: no string  *)
(* that read_string returns is empty or longer than its buffer.            *)
THEOREM RequestTyped == Spec => []TypeOK
BY TypedInit, TypedNext, PTL DEF Spec

----------------------------------------------------------------------------
(* The invariant. *)

(* Until its strings are sent a command has put nothing on the wire.       *)
Early ==
  /\ client = "prompt" => outbox = <<>> /\ handler = "none"
  /\ client \in {"prompt", "dating", "dated"} =>
       /\ wire = <<>> /\ strings = <<>> /\ response = -1
       /\ result = "none" /\ trouble = "none"
  /\ client \in {"dating", "dated"} => handler = "reading"
  /\ client = "dating" => outbox = <<>> /\ part # 1
  /\ client = "dated" =>
       IF part = 1 THEN outbox = <<>> ELSE \E d \in Dates : outbox = <<d>>

(* The answer comes after the reading, and so does a failure that is not   *)
(* the network's.                                                          *)
Replies ==
  /\ handler = "reading" => response = -1
  /\ result = "FAIL" => client = "done"
  /\ result = "FAIL" /\ trouble = "none" => handler # "reading"

(* The strings of the request that was typed. *)
RequestIs(all) ==
  /\ all \in Seq(Text) /\ Len(all) = Prefix + Len(arguments)
  /\ all[1] = String(op, 1)
  /\ Prefix = 2 => all[2] \in Dates
  /\ \A i \in 1 .. Len(arguments) : all[Prefix + i] = arguments[i]

(* What has been read is a beginning of it. *)
AreRead(all) ==
  Len(strings) <= Len(all) /\ \A i \in 1 .. Len(strings) : strings[i] = all[i]

(* What is on the wire, followed by the rest, is what is still to be read, *)
(* perhaps after the NUL of a string that filled its buffer.               *)
OnWire(g, rest, lead) ==
  /\ lead \in {<<>>, <<NUL>>} /\ rest \in Seq(Octets)
  /\ wire \o rest = lead \o g[Len(strings) + 1]

(* The rest is what the client still has to send; of a client that was     *)
(* killed it never comes.                                                  *)
StillSent(all, g, rest) ==
  \E k \in Len(strings) .. Len(all) :
    outbox = SubSeq(all, k + 1, Len(all)) /\ rest = g[k + 1]

Way(all, g, rest, lead) ==
  /\ RequestIs(all) /\ Tails(g, all) /\ AreRead(all) /\ OnWire(g, rest, lead)
  /\ client = "sending" => StillSent(all, g, rest)

UnderWay == \E all, g, rest, lead : Way(all, g, rest, lead)

Idle == wire = <<>> /\ strings = <<>> /\ client # "sending"

Stream == handler = "reading" /\ Fits => Idle \/ UnderWay

(* What was performed or refused had been read whole, and sent whole. *)
Answered ==
  response \in {0, 1} /\ Fits =>
    /\ Len(strings) = Prefix + Len(arguments) /\ strings[1] = String(op, 1)
    /\ \A i \in 1 .. Len(arguments) : strings[Prefix + i] = arguments[i]
    /\ client = "sending" => outbox = <<>>

Course == Early /\ Replies /\ Stream /\ Answered /\ FailChangesNothing

Typed == TypeOK /\ Commanded

(* The request depends on what was typed, and on nothing else. *)
LEMMA SameRequest ==
  ASSUME UNCHANGED <<part, op, arguments>>
  PROVE  /\ Prefix' = Prefix /\ Fits' = Fits
         /\ \A all : RequestIs(all)' = RequestIs(all)
BY DEF Prefix, Fits, RequestIs

(* Each string of a request whose arguments fit is one that a buffer holds. *)
LEMMA RequestFits ==
  ASSUME Typed, client # "prompt", Fits, NEW all, RequestIs(all)
  PROVE  /\ Len(all) \in Nat \ {0}
         /\ \A i \in 1 .. Len(all) : all[i] \in Text /\ Len(all[i]) <= Room
<1>1. /\ Len(arguments) \in Nat /\ DOMAIN arguments = 1 .. Len(arguments)
      /\ arguments \in Seq(Text)
  BY SequencesTyped DEF Typed
<1>2. Prefix \in {1, 2} /\ all \in Seq(Text) /\ Len(all) = Prefix + Len(arguments)
  BY DEF Prefix, RequestIs
<1>3. ASSUME NEW i \in 1 .. Len(all) PROVE all[i] \in Text /\ Len(all[i]) <= Room
  <2>1. all[i] \in Text
    BY <1>2, ElementOfSeq
  <2>2. i = 1 \/ (i = 2 /\ Prefix = 2) \/ i - Prefix \in 1 .. Len(arguments)
    BY <1>1, <1>2
  <2>3. CASE i = 1
    <3>1. op \in DOMAIN Sends
      BY DEF Typed, Commanded
    <3>2. Len(all[i]) = 1
      <4>1. op \in Bytes
        BY <3>1, ReadsAreSent
      <4>2. Len(String(op, 1)) = 1
        BY <4>1, StringText
      <4> QED
        BY <2>3, <4>2 DEF RequestIs
    <3> QED
      BY <2>1, <3>2, Words
  <2>4. CASE i = 2 /\ Prefix = 2
    <3>1. Len(all[i]) = 2
      BY <2>4, DatesText DEF RequestIs
    <3> QED
      BY <2>1, <3>1, Words
  <2>5. CASE i - Prefix \in 1 .. Len(arguments)
    <3>1. PICK j \in 1 .. Len(arguments) : j = i - Prefix
      BY <2>5
    <3>2. i = Prefix + j
      BY <1>2, <3>1
    <3>3. all[i] = arguments[j]
      BY <3>2 DEF RequestIs
    <3>4. Len(arguments[j]) < MaxString
      BY <1>1 DEF Fits
    <3>5. Len(arguments[j]) \in Nat
      BY <1>1, ElementOfSeq, LenProperties DEF Text
    <3> QED
      BY <2>1, <3>3, <3>4, <3>5, Words
  <2> QED
    BY <2>2, <2>3, <2>4, <2>5
<1>4. Len(all) \in Nat \ {0}
  BY <1>1, <1>2
<1> QED
  BY <1>3, <1>4

(* The command is typed, and the date asked for: nothing is on the wire. *)
LEMMA CommandKeeps ==
  ASSUME Typed, Course, (\E o \in Ops : Command(o)) \/ get_datetime
  PROVE  Course'
<1>1. CASE \E o \in Ops : Command(o)
  <2>1. /\ client = "prompt" /\ client' = (IF part = 1 THEN "dated" ELSE "dating")
        /\ handler' = "reading"
        /\ UNCHANGED <<part, outbox, result, trouble, wire, strings, response>>
    BY <1>1 DEF Command
  <2>2. /\ outbox = <<>> /\ wire = <<>> /\ strings = <<>> /\ response = -1
        /\ result = "none" /\ trouble = "none"
    BY <2>1 DEF Course, Early
  <2>3. Early'
    BY <2>1, <2>2 DEF Early
  <2>4. Replies' /\ Answered' /\ FailChangesNothing'
    BY <2>1, <2>2 DEF Replies, Answered, FailChangesNothing
  <2>5. Stream'
    BY <2>1, <2>2 DEF Stream, Idle
  <2> QED
    BY <2>3, <2>4, <2>5 DEF Course
<1>2. CASE get_datetime
  <2>1. /\ client = "dating" /\ client' = "dated"
        /\ \E d \in Dates : outbox' = <<d>>
        /\ UNCHANGED <<part, op, arguments, result, trouble, wire, handler, strings,
                       response>>
    BY <1>2 DEF get_datetime, get_date, Dates, servervars
  <2>2. /\ wire = <<>> /\ strings = <<>> /\ response = -1
        /\ result = "none" /\ trouble = "none"
        /\ handler = "reading" /\ part # 1
    BY <2>1 DEF Course, Early
  <2>3. Early'
    BY <2>1, <2>2 DEF Early
  <2>4. Replies' /\ Answered' /\ FailChangesNothing'
    BY <2>1, <2>2 DEF Replies, Answered, FailChangesNothing
  <2>5. Stream'
    BY <2>1, <2>2 DEF Stream, Idle
  <2> QED
    BY <2>3, <2>4, <2>5 DEF Course
<1> QED
  BY <1>1, <1>2

(* The strings of a request: operation, date, arguments, in this order. *)
LEMMA RequestStrings ==
  ASSUME Typed, Course, client = "dated"
  PROVE  RequestIs(<<String(op, 1)>> \o outbox \o arguments)
<1> DEFINE first == <<String(op, 1)>>
           head == first \o outbox
           all == head \o arguments
<1>1. /\ arguments \in Seq(Text) /\ outbox \in Seq(Text) /\ Len(arguments) \in Nat
  BY SequencesTyped DEF Typed
<1>2. String(op, 1) \in Text
  BY ReadsAreSent, StringText DEF Typed, Commanded
<1>3. first \in Seq(Text) /\ Len(first) = 1 /\ first[1] = String(op, 1)
  BY <1>2
<1>4. \/ part = 1 /\ outbox = <<>> /\ Len(outbox) = 0
      \/ part # 1 /\ \E d \in Dates : outbox = <<d>> /\ Len(outbox) = 1 /\ outbox[1] = d
  BY DEF Course, Early
<1> HIDE DEF first
<1>5. /\ head \in Seq(Text) /\ Len(head) = 1 + Len(outbox)
      /\ \A i \in 1 .. 1 + Len(outbox) :
           head[i] = IF i <= 1 THEN first[i] ELSE outbox[i - 1]
  <2>1. /\ head \in Seq(Text) /\ Len(head) = Len(first) + Len(outbox)
        /\ \A i \in 1 .. Len(first) + Len(outbox) :
             head[i] = IF i <= Len(first) THEN first[i] ELSE outbox[i - Len(first)]
    BY <1>1, <1>3, ConcatProperties
  <2> HIDE DEF head
  <2> QED
    BY <1>3, <2>1
<1>6. Len(outbox) \in {0, 1} /\ Prefix = 1 + Len(outbox) /\ Prefix \in {1, 2}
  <2>1. CASE part = 1
    BY <1>4, <2>1 DEF Prefix
  <2>2. CASE part # 1
    <3>1. Len(outbox) = 1
      BY <1>4, <2>2
    <3> QED
      BY <2>2, <3>1 DEF Prefix
  <2> QED
    BY <2>1, <2>2
<1> HIDE DEF head
<1>7. /\ all \in Seq(Text) /\ Len(all) = Prefix + Len(arguments)
      /\ \A i \in 1 .. Prefix + Len(arguments) :
           all[i] = IF i <= Prefix THEN head[i] ELSE arguments[i - Prefix]
  BY <1>1, <1>5, <1>6, ConcatProperties
<1> HIDE DEF all
<1>8. all[1] = String(op, 1)
  <2>1. 1 \in 1 .. Prefix + Len(arguments) /\ 1 <= Prefix /\ 1 \in 1 .. 1 + Len(outbox)
    BY <1>1, <1>6
  <2> QED
    BY <1>3, <1>5, <1>7, <2>1
<1>9. ASSUME Prefix = 2 PROVE all[2] \in Dates
  <2>1. /\ Len(outbox) = 1 /\ 2 \in 1 .. Prefix + Len(arguments) /\ 2 <= Prefix
        /\ 2 \in 1 .. 1 + Len(outbox) /\ ~ (2 <= 1) /\ 2 - 1 = 1
    BY <1>1, <1>6, <1>9
  <2>2. all[2] = outbox[1]
    BY <1>5, <1>7, <2>1
  <2> QED
    BY <1>4, <2>1, <2>2
<1>10. ASSUME NEW i \in 1 .. Len(arguments) PROVE all[Prefix + i] = arguments[i]
  <2>1. /\ Prefix + i \in 1 .. Prefix + Len(arguments) /\ ~ (Prefix + i <= Prefix)
        /\ (Prefix + i) - Prefix = i
    BY <1>1, <1>6
  <2> QED
    BY <1>7, <2>1
<1>11. RequestIs(all)
  BY <1>7, <1>8, <1>9, <1>10 DEF RequestIs
<1> QED
  BY <1>11 DEF all, head, first

(* The strings of the command are put together: all of them are still to   *)
(* be sent, and nothing is on the wire.                                    *)
LEMMA RequestKeeps ==
  ASSUME Typed, Course, Request
  PROVE  Course'
<1>0. PICK all : all = <<String(op, 1)>> \o outbox \o arguments
  OBVIOUS
<1>1. /\ client = "dated" /\ client' = "sending" /\ outbox' = all
      /\ UNCHANGED <<part, op, arguments, result, trouble, wire, handler, strings, response>>
  BY <1>0 DEF Request, servervars
<1>2. /\ wire = <<>> /\ strings = <<>> /\ response = -1 /\ result = "none"
  BY <1>1 DEF Course, Early
<1>3. RequestIs(all) /\ RequestIs(all)'
  BY <1>0, <1>1, RequestStrings, SameRequest
<1>4. all \in Seq(Text) /\ Len(all) \in Nat
  BY <1>3, LenProperties DEF RequestIs
<1>5. PICK g : Tails(g, all)
  BY <1>4, TailsExist
<1>6. g[1] \in Seq(Octets)
  <2>1. 1 \in 1 .. Len(all) + 1
    BY <1>4
  <2> QED
    BY <1>5, <2>1 DEF Tails, TailsFrom
<1>7. Len(strings) = 0
  BY <1>2
<1>8. AreRead(all)'
  BY <1>1, <1>4, <1>7 DEF AreRead
<1>9. OnWire(g, g[1], <<>>)'
  <2>1. wire' = <<>> /\ Len(strings') + 1 = 1
    BY <1>1, <1>2, <1>7
  <2> QED
    BY <1>6, <2>1 DEF OnWire
<1>10. StillSent(all, g, g[1])'
  <2>1. 0 \in Len(strings') .. Len(all) /\ 0 + 1 = 1
    BY <1>1, <1>4, <1>7
  <2>2. outbox' = SubSeq(all, 0 + 1, Len(all))
    BY <1>1, <1>4, <2>1, SubSeqFull
  <2> QED
    BY <2>1, <2>2 DEF StillSent
<1>11. Way(all, g, g[1], <<>>)'
  BY <1>3, <1>5, <1>8, <1>9, <1>10 DEF Way
<1>12. Stream'
  BY <1>11 DEF Stream, UnderWay
<1>13. Early' /\ Replies' /\ Answered' /\ FailChangesNothing'
  BY <1>1, <1>2 DEF Early, Replies, Answered, FailChangesNothing
<1> QED
  BY <1>12, <1>13 DEF Course

(* The string to be sent next is the next one of the rest. *)
LEMMA SentNext ==
  ASSUME Typed, outbox # <<>>, NEW all, NEW g, NEW rest, RequestIs(all), Tails(g, all),
         AreRead(all), StillSent(all, g, rest)
  PROVE  \E k \in Len(strings) .. Len(all) :
           /\ k + 1 \in Len(strings) .. Len(all)
           /\ Head(outbox) = all[k + 1] /\ all[k + 1] \in Text
           /\ Tail(outbox) = SubSeq(all, (k + 1) + 1, Len(all))
           /\ rest = Append(all[k + 1], NUL) \o g[(k + 1) + 1]
           /\ g[(k + 1) + 1] \in Seq(Octets)
<1>1. all \in Seq(Text) /\ Len(all) \in Nat /\ Len(strings) \in Nat
  BY SequencesTyped, LenProperties DEF Typed, RequestIs
<1>2. PICK k \in Len(strings) .. Len(all) :
        outbox = SubSeq(all, k + 1, Len(all)) /\ rest = g[k + 1]
  BY DEF StillSent
<1>3. k < Len(all)
  <2>1. SUFFICES ASSUME ~ (k < Len(all)) PROVE FALSE
    OBVIOUS
  <2>2. k + 1 \in Int /\ Len(all) \in Int /\ Len(all) < k + 1
    BY <1>1, <2>1
  <2> QED
    BY <1>2, <2>2, SubSeqEmpty
<1>4. /\ k + 1 \in Len(strings) .. Len(all) /\ k + 1 \in 1 .. Len(all)
      /\ Len(all) \in k + 1 .. Len(all)
  BY <1>1, <1>3
<1>5. Head(outbox) = all[k + 1] /\ Tail(outbox) = SubSeq(all, (k + 1) + 1, Len(all))
  BY <1>1, <1>2, <1>4, HeadTailOfSubSeq
<1>6. /\ g[k + 1] = Append(all[k + 1], NUL) \o g[(k + 1) + 1]
      /\ g[(k + 1) + 1] \in Seq(Octets) /\ all[k + 1] \in Text
  BY <1>1, <1>4, TailSplits
<1> QED
  BY <1>2, <1>4, <1>5, <1>6

(* Bytes that pass from the rest to the wire change nothing of the two.    *)
LEMMA HandOver ==
  ASSUME wire \in Seq(Octets), NEW g, NEW lead, NEW a \in Seq(Octets), NEW b \in Seq(Octets),
         OnWire(g, a \o b, lead), wire' = wire \o a, UNCHANGED strings
  PROVE  OnWire(g, b, lead)'
<1>1. (wire \o a) \o b = wire \o (a \o b)
  BY ConcatAssociative
<1> QED
  BY <1>1 DEF OnWire

(* A string is sent, or the reset of the connection is known. *)
LEMMA SendKeeps ==
  ASSUME Typed, Course, send_string
  PROVE  Course'
<1>1. /\ client = "sending" /\ outbox # <<>>
      /\ \/ /\ wire' = IF handler = "closed" THEN wire ELSE wire \o Append(Head(outbox), NUL)
            /\ outbox' = Tail(outbox) /\ UNCHANGED <<client, result>>
         \/ /\ handler = "closed" /\ client' = "done" /\ result' = "FAIL"
            /\ UNCHANGED <<wire, outbox>>
      /\ UNCHANGED <<part, op, arguments, trouble, handler, strings, response>>
  BY DEF send_string, servervars
<1>2. /\ Prefix' = Prefix /\ Fits' = Fits
      /\ \A all : RequestIs(all)' = RequestIs(all)
  BY <1>1, SameRequest
<1>3. Fits => response \notin {0, 1}
  BY <1>1 DEF Course, Answered
<1>4. result # "FAIL" /\ (handler = "reading" => response = -1)
  BY <1>1 DEF Course, Replies
<1>5. Early' /\ Replies' /\ Answered' /\ FailChangesNothing'
  <2>1. /\ client' \in {"sending", "done"}
        /\ result' = "FAIL" => client' = "done" /\ handler = "closed"
    BY <1>1, <1>4
  <2>2. Early' /\ Replies'
    BY <1>1, <1>4, <2>1 DEF Early, Replies
  <2>3. Answered' /\ FailChangesNothing'
    BY <1>1, <1>2, <1>3 DEF Answered, FailChangesNothing
  <2> QED
    BY <2>2, <2>3
<1>6. Stream'
  <2>1. SUFFICES ASSUME handler = "reading", Fits PROVE UnderWay'
    BY <1>1, <1>2 DEF Stream
  <2>2. /\ wire' = wire \o Append(Head(outbox), NUL) /\ outbox' = Tail(outbox)
        /\ UNCHANGED <<client, strings>>
    BY <1>1, <2>1
  <2>3. PICK all, g, rest, lead : Way(all, g, rest, lead)
    BY <1>1, <2>1 DEF Course, Stream, Idle, UnderWay
  <2>4. /\ RequestIs(all) /\ Tails(g, all) /\ AreRead(all) /\ OnWire(g, rest, lead)
        /\ StillSent(all, g, rest)
    BY <1>1, <2>3 DEF Way
  <2>5. PICK k \in Len(strings) .. Len(all) :
          /\ k + 1 \in Len(strings) .. Len(all)
          /\ Head(outbox) = all[k + 1] /\ all[k + 1] \in Text
          /\ Tail(outbox) = SubSeq(all, (k + 1) + 1, Len(all))
          /\ rest = Append(all[k + 1], NUL) \o g[(k + 1) + 1]
          /\ g[(k + 1) + 1] \in Seq(Octets)
    BY <1>1, <2>4, SentNext
  <2>6. PICK a, b : a = Append(all[k + 1], NUL) /\ b = g[(k + 1) + 1]
    OBVIOUS
  <2>7. a \in Seq(Octets) /\ b \in Seq(Octets) /\ wire \in Seq(Octets)
    BY <2>5, <2>6, Terminated, SequencesTyped DEF Typed
  <2>8. OnWire(g, a \o b, lead) /\ wire' = wire \o a
    BY <2>2, <2>4, <2>5, <2>6
  <2>9. OnWire(g, b, lead)'
    BY <2>2, <2>7, <2>8, HandOver
  <2>10. StillSent(all, g, b)'
    <3>1. outbox' = SubSeq(all, (k + 1) + 1, Len(all)) /\ strings' = strings
      BY <2>2, <2>5
    <3> QED
      BY <2>5, <2>6, <3>1 DEF StillSent
  <2>11. AreRead(all)'
    BY <2>2, <2>4 DEF AreRead
  <2>12. Way(all, g, b, lead)'
    BY <1>2, <2>4, <2>9, <2>10, <2>11 DEF Way
  <2> QED
    BY <2>12 DEF UnderWay
<1> QED
  BY <1>5, <1>6 DEF Course

(* The response is read: the rest is empty. *)
LEMMA ResponseKeeps ==
  ASSUME Typed, Course, Response
  PROVE  Course'
<1>1. /\ client = "sending" /\ client' = "done"
      /\ result' = "FAIL" =>
           trouble' = "disk" \/ response = 4 \/ (response = -1 /\ handler = "closed")
      /\ UNCHANGED <<part, op, arguments, outbox, wire, handler, strings, response>>
  BY DEF Response, servervars
<1>2. /\ Prefix' = Prefix /\ Fits' = Fits
      /\ \A all : RequestIs(all)' = RequestIs(all)
  BY <1>1, SameRequest
<1>3. Early' /\ Replies'
  BY <1>1 DEF Course, Early, Replies
<1>4. Answered' /\ FailChangesNothing'
  BY <1>1, <1>2 DEF Course, Answered, FailChangesNothing
<1>5. Stream'
  <2>1. SUFFICES ASSUME handler = "reading", Fits PROVE UnderWay'
    BY <1>1, <1>2 DEF Stream
  <2>2. PICK all, g, rest, lead : Way(all, g, rest, lead)
    BY <1>1, <2>1 DEF Course, Stream, Idle, UnderWay
  <2>3. AreRead(all)' /\ OnWire(g, rest, lead)'
    BY <1>1, <2>2 DEF Way, AreRead, OnWire
  <2>4. Way(all, g, rest, lead)'
    BY <1>1, <1>2, <2>2, <2>3 DEF Way
  <2> QED
    BY <2>4 DEF UnderWay
<1> QED
  BY <1>3, <1>4, <1>5 DEF Course

(* What is in flight is followed by what is still to be sent.              *)
LEMMA FlightOnWire ==
  ASSUME Typed, handler = "reading", client = "sending", NEW all, NEW g, NEW rest, NEW lead,
         RequestIs(all), Tails(g, all), AreRead(all), OnWire(g, rest, lead),
         StillSent(all, g, rest)
  PROVE  \E b \in Seq(Octets) : InFlight \o b = lead \o g[Len(strings) + 1]
<1>1. CASE outbox = <<>>
  <2>1. InFlight = wire
    BY <1>1 DEF InFlight
  <2> QED
    BY <2>1 DEF OnWire
<1>2. CASE outbox # <<>>
  <2>1. PICK k \in Len(strings) .. Len(all) :
          /\ Head(outbox) = all[k + 1] /\ all[k + 1] \in Text
          /\ rest = Append(all[k + 1], NUL) \o g[(k + 1) + 1]
          /\ g[(k + 1) + 1] \in Seq(Octets)
    BY <1>2, SentNext
  <2>2. PICK h, t, nul, w : /\ h = all[k + 1] /\ t = g[(k + 1) + 1]
                            /\ nul = <<NUL>> /\ w = wire
    OBVIOUS
  <2>3. h \in Text /\ t \in Seq(Octets) /\ nul \in Seq(Octets) /\ w \in Seq(Octets)
    BY <2>1, <2>2, SequencesTyped DEF Octets, Typed
  <2>4. h \in Seq(Octets) /\ Append(h, NUL) = h \o nul
    BY <2>2, <2>3, Terminated
  <2>5. PICK u : u = nul \o t
    OBVIOUS
  <2>6. u \in Seq(Octets) /\ (h \o nul) \o t = h \o u
    BY <2>3, <2>4, <2>5, ConcatProperties, ConcatAssociative
  <2>7. (w \o h) \o u = w \o (h \o u)
    BY <2>3, <2>4, <2>6, ConcatAssociative
  <2>8. InFlight = w \o h /\ rest = h \o u
    BY <1>2, <2>1, <2>2, <2>4, <2>6 DEF InFlight
  <2>9. InFlight \o u = lead \o g[Len(strings) + 1]
    BY <2>2, <2>7, <2>8 DEF OnWire
  <2> QED
    BY <2>6, <2>9
<1> QED
  BY <1>1, <1>2

(* The client is killed or its connection lost: a beginning of what was in *)
(* flight arrives, and the rest of the request never comes.                *)
LEMMA BreakKeeps ==
  ASSUME Typed, Course, Lost \/ Kill
  PROVE  Course'
<1>1. /\ client \in {"dating", "dated", "sending"} /\ client' = "done"
      /\ UNCHANGED <<part, op, arguments, outbox, handler, strings, response>>
      /\ \/ result' = "FAIL" /\ trouble' = "connection"
         \/ UNCHANGED <<result, trouble>>
      /\ Breaks
  BY DEF Lost, Kill, Breaks, servervars
<1>2. /\ Prefix' = Prefix /\ Fits' = Fits
      /\ \A all : RequestIs(all)' = RequestIs(all)
  BY <1>1, SameRequest
<1>3. Early' /\ Replies'
  BY <1>1 DEF Course, Early, Replies
<1>4. Answered' /\ FailChangesNothing'
  BY <1>1, <1>2 DEF Course, Answered, FailChangesNothing
<1>5. Stream'
  <2>1. SUFFICES ASSUME handler = "reading", Fits PROVE Idle' \/ UnderWay'
    BY <1>1, <1>2 DEF Stream
  <2>2. CASE client # "sending"
    <3>1. wire = <<>> /\ strings = <<>> /\ InFlight = wire
      BY <1>1, <2>2 DEF Course, Early, InFlight
    <3>2. PICK n \in 0 .. Len(wire) : wire' = SubSeq(wire, 1, n)
      BY <1>1, <3>1 DEF Breaks
    <3>3. wire' = <<>>
      <4>1. Len(wire) = 0
        BY <3>1
      <4>2. n = 0
        BY <3>2, <4>1
      <4> QED
        BY <3>2, <4>2, SubSeqEmpty
    <3> QED
      BY <1>1, <3>1, <3>3 DEF Idle
  <2>3. CASE client = "sending"
    <3>1. PICK all, g, rest, lead : Way(all, g, rest, lead)
      BY <2>1, <2>3 DEF Course, Stream, Idle, UnderWay
    <3>2. /\ RequestIs(all) /\ Tails(g, all) /\ AreRead(all) /\ OnWire(g, rest, lead)
          /\ StillSent(all, g, rest)
      BY <2>3, <3>1 DEF Way
    <3>3. AreRead(all)'
      BY <1>1, <3>2 DEF AreRead
    <3>4. \E b : OnWire(g, b, lead)'
      <4>1. PICK n \in 0 .. Len(InFlight) : wire' = SubSeq(InFlight, 1, n)
        BY <1>1 DEF Breaks
      <4>2. PICK b \in Seq(Octets) : InFlight \o b = lead \o g[Len(strings) + 1]
        BY <2>1, <2>3, <3>2, FlightOnWire
      <4>3. PICK w, a, c : /\ w = InFlight /\ a = SubSeq(w, 1, n)
                           /\ c = SubSeq(w, n + 1, Len(w))
        OBVIOUS
      <4>4. w \in Seq(Octets)
        BY <4>3, FlightBreaks DEF Typed
      <4>5. a \in Seq(Octets) /\ c \in Seq(Octets) /\ a \o c = w
        BY <4>1, <4>3, <4>4, CutOff
      <4>6. w \o b = a \o (c \o b) /\ c \o b \in Seq(Octets)
        <5>0. a \in Seq(Octets) /\ b \in Seq(Octets) /\ c \in Seq(Octets)
          BY <4>2, <4>5
        <5>1. (a \o c) \o b = a \o (c \o b)
          BY <5>0, ConcatAssociative
        <5>2. c \o b \in Seq(Octets)
          BY <5>0, ConcatProperties
        <5> QED
          BY <4>5, <5>1, <5>2
      <4>7. OnWire(g, c \o b, lead)'
        BY <1>1, <3>2, <4>1, <4>2, <4>3, <4>6 DEF OnWire
      <4> QED
        BY <4>7
    <3>5. PICK b : OnWire(g, b, lead)'
      BY <3>4
    <3>6. Way(all, g, b, lead)'
      BY <1>1, <1>2, <3>2, <3>3, <3>5 DEF Way
    <3> QED
      BY <3>6 DEF UnderWay
  <2> QED
    BY <2>2, <2>3
<1> QED
  BY <1>3, <1>4, <1>5 DEF Course

(* A NUL left behind is read as an empty string. *)
LEMMA LeftBehind ==
  ASSUME Typed, NEW tail \in Seq(Octets), NEW rest \in Seq(Octets),
         wire \o rest = <<NUL>> \o tail,
         NEW n \in 0 .. Room, Found(n), \A m \in 0 .. n - 1 : ~Found(m)
  PROVE  n = 0
<1>1. wire \in Seq(Octets) /\ Len(wire) \in Nat /\ Room \in Nat /\ Room >= 3
  BY SequencesTyped, LenProperties, Words DEF Typed
<1>2. Len(wire) > 0
  BY <1>1 DEF Found
<1>3. Found(0)
  <2>1. <<NUL>> \in Seq(Octets) /\ Len(<<NUL>>) = 1 /\ <<NUL>>[1] = NUL
    BY DEF Octets
  <2>2. Len(rest) \in Nat /\ Len(tail) \in Nat
    BY LenProperties
  <2>3. (wire \o rest)[1] = wire[1]
    <3>1. 1 \in 1 .. Len(wire) + Len(rest) /\ 1 <= Len(wire)
      BY <1>1, <1>2, <2>2
    <3> QED
      BY <1>1, <3>1, ConcatProperties
  <2>4. (<<NUL>> \o tail)[1] = NUL
    <3>1. PICK o : o = <<NUL>>
      OBVIOUS
    <3>2. /\ o \in Seq(Octets) /\ Len(o) = 1 /\ o[1] = NUL
          /\ 1 \in 1 .. Len(o) + Len(tail) /\ 1 <= Len(o)
      BY <2>1, <2>2, <3>1
    <3>3. (o \o tail)[1] = o[1]
      BY <3>2, ConcatProperties
    <3> QED
      BY <3>1, <3>2, <3>3
  <2>5. wire[1] = NUL
    BY <2>3, <2>4
  <2> QED
    BY <1>1, <1>2, <2>5 DEF Found
<1> QED
  BY <1>1, <1>3

(* A string is read: the next one of the request, or a NUL left behind,    *)
(* which ends the connection.                                              *)
LEMMA ReadKeeps ==
  ASSUME Typed, Course, read_string
  PROVE  Course'
<1>1. PICK n \in 0 .. Room :
        /\ Found(n) /\ \A m \in 0 .. n - 1 : ~Found(m)
        /\ wire' = SubSeq(wire, IF n < Room THEN n + 2 ELSE n + 1, Len(wire))
        /\ \/ /\ n > 0 /\ strings' = Append(strings, SubSeq(wire, 1, n))
              /\ UNCHANGED <<handler, response>>
           \/ n = 0 /\ NoString
  BY DEF read_string
<1>2. /\ handler = "reading"
      /\ UNCHANGED <<part, client, op, arguments, outbox, result, trouble>>
  BY DEF read_string, clientvars
<1>3. /\ Prefix' = Prefix /\ Fits' = Fits
      /\ \A all : RequestIs(all)' = RequestIs(all)
  BY <1>2, SameRequest
<1>4. wire \in Seq(Octets) /\ Len(wire) \in Nat /\ Room \in Nat /\ Room >= 3
  BY SequencesTyped, LenProperties, Words DEF Typed
<1>5. wire # <<>>
  <2>1. SUFFICES ASSUME wire = <<>> PROVE FALSE
    OBVIOUS
  <2>2. Len(wire) = 0
    BY <2>1
  <2> QED
    BY <1>1, <1>4, <2>2 DEF Found
<1>6. /\ client \in {"sending", "done"} /\ response = -1
      /\ result = "FAIL" => client = "done" /\ trouble # "none"
  BY <1>2, <1>5 DEF Course, Early, Replies, Typed, TypeOK
<1>7. Early' /\ Replies' /\ Answered' /\ FailChangesNothing'
  <2>1. \/ handler' = "reading" /\ response' = -1
        \/ handler' \in {"responded", "closed"} /\ response' \in {-1, 4}
    BY <1>1, <1>2, <1>6 DEF NoString
  <2> QED
    BY <1>2, <1>6, <2>1 DEF Early, Replies, Answered, FailChangesNothing
<1>8. Stream'
  <2>1. SUFFICES ASSUME handler' = "reading", Fits PROVE UnderWay'
    BY <1>3 DEF Stream
  <2>2. n > 0 /\ strings' = Append(strings, SubSeq(wire, 1, n))
    BY <1>1, <2>1 DEF NoString
  <2>3. PICK all, g, rest, lead : Way(all, g, rest, lead)
    BY <1>2, <1>5, <2>1 DEF Course, Stream, Idle, UnderWay
  <2>4. /\ RequestIs(all) /\ Tails(g, all) /\ AreRead(all) /\ OnWire(g, rest, lead)
        /\ client = "sending" => StillSent(all, g, rest)
    BY <2>3 DEF Way
  <2>5. /\ all \in Seq(Text) /\ Len(all) \in Nat /\ Len(strings) \in Nat
        /\ Len(strings) <= Len(all)
    BY <2>4, SequencesTyped, LenProperties DEF Typed, RequestIs, AreRead
  <2>6. PICK r : r = Len(strings)
    OBVIOUS
  <2>7. PICK tail : tail = g[r + 1]
    OBVIOUS
  <2>8. tail \in Seq(Octets) /\ rest \in Seq(Octets) /\ wire \o rest = lead \o tail
        /\ lead \in {<<>>, <<NUL>>}
    <3>1. r + 1 \in 1 .. Len(all) + 1
      BY <2>5, <2>6
    <3> QED
      BY <2>4, <2>6, <2>7, <3>1 DEF OnWire, Tails, TailsFrom
  <2>9. lead = <<>>
    <3>1. SUFFICES ASSUME lead = <<NUL>> PROVE FALSE
      BY <2>8
    <3>2. n = 0
      BY <1>1, <2>8, <3>1, LeftBehind
    <3> QED
      BY <2>2, <3>2
  <2>10. wire \o rest = tail
    BY <2>8, <2>9, ConcatEmptySeq
  <2>11. r + 1 \in 1 .. Len(all)
    <3>1. SUFFICES ASSUME r = Len(all) PROVE FALSE
      BY <2>5, <2>6
    <3>2. tail = <<>>
      BY <2>4, <2>7, <3>1 DEF Tails, TailsFrom
    <3> QED
      BY <1>4, <1>5, <2>8, <2>10, <3>2, ConcatEqualIffEmpty
  <2>12. PICK s, next : s = all[r + 1] /\ next = g[(r + 1) + 1]
    OBVIOUS
  <2>13. s \in Text /\ next \in Seq(Octets) /\ tail = Append(s, NUL) \o next
    BY <2>4, <2>5, <2>7, <2>11, <2>12, TailSplits
  <2>14. Len(s) <= Room
    BY <1>6, <2>1, <2>4, <2>11, <2>12, RequestFits
  <2>15. n = Len(s) /\ n <= Len(wire) /\ (n < Room => n + 1 <= Len(wire))
    BY <1>1, <1>4, <2>8, <2>10, <2>13, <2>14, FoundLength
  <2>16. /\ SubSeq(wire, 1, n) = s
         /\ LET left == SubSeq(wire, n + 1, Len(wire))
            IN  left \in Seq(Octets) /\ left \o rest = <<NUL>> \o next
         /\ n + 1 <= Len(wire) =>
              LET left == SubSeq(wire, n + 2, Len(wire))
              IN  left \in Seq(Octets) /\ left \o rest = next
    <3>1. /\ wire \in Seq(Octets) /\ rest \in Seq(Octets) /\ next \in Seq(Octets)
          /\ s \in Text /\ wire \o rest = Append(s, NUL) \o next /\ Len(s) <= Len(wire)
      BY <1>4, <2>8, <2>10, <2>13, <2>15
    <3>2. Leaves(wire, rest, next, s)
      BY <3>1, NextString
    <3> QED
      BY <2>15, <3>2 DEF Leaves
  <2>17. /\ Len(strings') = r + 1 /\ strings'[r + 1] = s
         /\ \A i \in 1 .. r : strings'[i] = strings[i]
    <3>1. s \in Text /\ Len(s) \in 1 .. MaxString - 1 /\ strings' = Append(strings, s)
      BY <1>1, <1>4, <2>2, <2>13, <2>15, <2>16, Words
    <3> QED
      BY <2>6, <3>1, StringsTyped DEF Typed
  <2>18. AreRead(all)'
    <3>1. \A i \in 1 .. r + 1 : i \in 1 .. r \/ i = r + 1
      BY <2>5, <2>6
    <3>2. \A i \in 1 .. r + 1 : strings'[i] = all[i]
      BY <2>4, <2>6, <2>12, <2>17, <3>1 DEF AreRead
    <3> QED
      BY <2>11, <2>17, <3>2 DEF AreRead
  <2>19. PICK lead2 : lead2 = IF n < Room THEN <<>> ELSE <<NUL>>
    OBVIOUS
  <2>20. OnWire(g, rest, lead2)'
    <3>1. CASE n < Room
      <4>1. wire' = SubSeq(wire, n + 2, Len(wire)) /\ wire' \o rest = next
        BY <1>1, <2>15, <2>16, <3>1
      <4>2. wire' \o rest = lead2 \o next /\ lead2 = <<>>
        BY <2>13, <2>19, <3>1, <4>1, ConcatEmptySeq
      <4> QED
        BY <2>8, <2>12, <2>17, <4>2 DEF OnWire
    <3>2. CASE ~ (n < Room)
      <4>1. wire' = SubSeq(wire, n + 1, Len(wire)) /\ wire' \o rest = <<NUL>> \o next
        BY <1>1, <2>16, <3>2
      <4>2. wire' \o rest = lead2 \o next /\ lead2 = <<NUL>>
        BY <2>19, <3>2, <4>1
      <4> QED
        BY <2>8, <2>12, <2>17, <4>2 DEF OnWire
    <3> QED
      BY <3>1, <3>2
  <2>21. ASSUME client' = "sending" PROVE StillSent(all, g, rest)'
    <3>1. PICK k \in r .. Len(all) :
            outbox = SubSeq(all, k + 1, Len(all)) /\ rest = g[k + 1]
      BY <1>2, <2>4, <2>6, <2>21 DEF StillSent
    <3>2. k # r
      <4>1. SUFFICES ASSUME k = r PROVE FALSE
        OBVIOUS
      <4>2. wire \o tail = tail
        BY <2>7, <2>10, <3>1, <4>1
      <4> QED
        BY <1>4, <1>5, <2>8, <4>2, ConcatEqualIffEmpty
    <3>3. k \in r + 1 .. Len(all)
      BY <2>5, <2>6, <3>2
    <3> QED
      BY <1>2, <2>17, <3>1, <3>3 DEF StillSent
  <2>22. Way(all, g, rest, lead2)'
    BY <1>3, <2>4, <2>18, <2>20, <2>21 DEF Way
  <2> QED
    BY <2>22 DEF UnderWay
<1> QED
  BY <1>7, <1>8 DEF Course

(* The request is performed once all its strings have been read, and then  *)
(* all of them have been sent.                                             *)
LEMMA PerformKeeps ==
  ASSUME Typed, Course, Perform
  PROVE  Course'
<1>1. /\ handler = "reading" /\ Complete /\ handler' = "responded"
      /\ response' \in {0, 1, 4}
      /\ UNCHANGED <<part, client, op, arguments, outbox, result, trouble, wire, strings>>
  BY DEF Perform, clientvars
<1>2. /\ Prefix' = Prefix /\ Fits' = Fits
  BY <1>1, SameRequest
<1>3. /\ Prefix \in {1, 2} /\ Len(strings) \in Nat /\ Len(strings) >= Prefix
      /\ Len(strings) = Prefix + Len(Reads(strings[1][1][1]))
  BY <1>1, SequencesTyped DEF Complete, Operation, Prefix, Typed
<1>4. strings # <<>>
  <2>1. SUFFICES ASSUME strings = <<>> PROVE FALSE
    OBVIOUS
  <2>2. Len(strings) = 0
    BY <2>1
  <2> QED
    BY <1>3, <2>2
<1>5. client \in {"sending", "done"} /\ (result = "FAIL" => client = "done" /\ trouble # "none")
  BY <1>1, <1>4 DEF Course, Early, Replies, Typed, TypeOK
<1>6. Early' /\ Replies' /\ Stream' /\ FailChangesNothing'
  BY <1>1, <1>5 DEF Early, Replies, Stream, FailChangesNothing
<1>7. Answered'
  <2>1. SUFFICES ASSUME Fits
                 PROVE  /\ Len(strings) = Prefix + Len(arguments)
                        /\ strings[1] = String(op, 1)
                        /\ \A i \in 1 .. Len(arguments) : strings[Prefix + i] = arguments[i]
                        /\ client = "sending" => outbox = <<>>
    BY <1>1, <1>2 DEF Answered
  <2>2. PICK all, g, rest, lead : Way(all, g, rest, lead)
    BY <1>1, <1>4, <2>1 DEF Course, Stream, Idle, UnderWay
  <2>3. /\ RequestIs(all) /\ AreRead(all)
        /\ client = "sending" => StillSent(all, g, rest)
    BY <2>2 DEF Way
  <2>4. 1 \in 1 .. Len(strings) /\ Len(arguments) \in Nat
    BY <1>3, SequencesTyped DEF Typed
  <2>5. strings[1] = String(op, 1)
    BY <2>3, <2>4 DEF AreRead, RequestIs
  <2>6. strings[1][1][1] = op
    BY <2>5 DEF String
  <2>7. op \in DOMAIN Sends /\ Len(arguments) = Len(Sends[op])
    BY <1>5 DEF Typed, Commanded
  <2>8. Len(strings) = Prefix + Len(arguments) /\ Len(strings) = Len(all)
    BY <1>3, <2>3, <2>6, <2>7, ReadsAreSent DEF RequestIs
  <2>9. ASSUME NEW i \in 1 .. Len(arguments) PROVE strings[Prefix + i] = arguments[i]
    <3>1. Prefix + i \in 1 .. Len(strings)
      BY <1>3, <2>4, <2>8
    <3> QED
      BY <2>3, <3>1 DEF AreRead, RequestIs
  <2>10. ASSUME client = "sending" PROVE outbox = <<>>
    <3>1. PICK k \in Len(strings) .. Len(all) : outbox = SubSeq(all, k + 1, Len(all))
      BY <2>3, <2>10 DEF StillSent
    <3>2. k + 1 \in Int /\ Len(all) \in Int /\ Len(all) < k + 1
      BY <1>3, <2>8
    <3> QED
      BY <3>1, <3>2, SubSeqEmpty
  <2> QED
    BY <2>5, <2>8, <2>9, <2>10
<1> QED
  BY <1>6, <1>7 DEF Course

(* The connection is closed, by an error of reading or after the answer. *)
LEMMA CloseKeeps ==
  ASSUME Typed, Course, ReadError \/ getpeername \/ Close
  PROVE  Course'
<1>1. /\ handler' \in {"responded", "closed"}
      /\ response' \in {response, 4}
      /\ handler \in {"reading", "responded"}
      /\ handler = "responded" \/ client = "done"
      /\ UNCHANGED <<part, client, op, arguments, outbox, result, trouble, wire, strings>>
  BY DEF ReadError, NoString, getpeername, Close, clientvars
<1>2. /\ Prefix' = Prefix /\ Fits' = Fits
  BY <1>1, SameRequest
<1>3. Early' /\ Replies' /\ Stream'
  BY <1>1 DEF Course, Early, Replies, Stream
<1>4. response' \in {0, 1} => response' = response
  BY <1>1
<1>5. Answered' /\ FailChangesNothing'
  BY <1>1, <1>2, <1>4 DEF Course, Answered, FailChangesNothing
<1> QED
  BY <1>3, <1>5 DEF Course

(* The invariant holds of every command, of any part. *)
LEMMA CourseHolds == Spec => [](Typed /\ Course)
<1>1. Init => Typed /\ Course
  <2>1. SUFFICES ASSUME Init PROVE Typed /\ Course
    OBVIOUS
  <2>2. Typed
    BY <2>1, TypedInit DEF Typed
  <2>3. /\ client = "prompt" /\ outbox = <<>> /\ result = "none" /\ wire = <<>>
        /\ handler = "none" /\ strings = <<>> /\ response = -1 /\ trouble = "none"
    BY <2>1 DEF Init
  <2>4. Early /\ Replies /\ Stream
    BY <2>3 DEF Early, Replies, Stream
  <2>5. Answered /\ FailChangesNothing
    BY <2>3 DEF Answered, FailChangesNothing
  <2> QED
    BY <2>2, <2>4, <2>5 DEF Course
<1>2. Typed /\ Course /\ [Next]_vars => Typed' /\ Course'
  <2>1. SUFFICES ASSUME Typed, Course, [Next]_vars PROVE Typed' /\ Course'
    OBVIOUS
  <2>2. Typed'
    BY <2>1, TypedNext DEF Typed
  <2>3. CASE UNCHANGED vars
    <3>1. UNCHANGED <<part, client, op, arguments, outbox, result, trouble, wire, handler,
                      strings, response>>
      BY <2>3 DEF vars, clientvars, servervars
    <3>2. /\ Prefix' = Prefix /\ Fits' = Fits
          /\ \A all : RequestIs(all)' = RequestIs(all)
      BY <3>1, SameRequest
    <3>3. Early' /\ Replies'
      BY <2>1, <3>1 DEF Course, Early, Replies
    <3>4. Answered' /\ FailChangesNothing'
      BY <2>1, <3>1, <3>2 DEF Course, Answered, FailChangesNothing
    <3>5. Stream'
      <4>1. Idle => Idle'
        BY <3>1 DEF Idle
      <4>2. ASSUME UnderWay PROVE UnderWay'
        <5>1. PICK all, g, rest, lead : Way(all, g, rest, lead)
          BY <4>2 DEF UnderWay
        <5>2. /\ AreRead(all)' /\ OnWire(g, rest, lead)'
              /\ client' = "sending" => StillSent(all, g, rest)'
          BY <3>1, <5>1 DEF Way, AreRead, OnWire, StillSent
        <5>3. Way(all, g, rest, lead)'
          BY <3>2, <5>1, <5>2 DEF Way
        <5> QED
          BY <5>3 DEF UnderWay
      <4> QED
        BY <2>1, <3>1, <3>2, <4>1, <4>2 DEF Course, Stream
    <3> QED
      BY <2>2, <3>3, <3>4, <3>5 DEF Course
  <2>4. CASE (\E o \in Ops : Command(o)) \/ get_datetime
    BY <2>1, <2>2, <2>4, CommandKeeps
  <2>5. CASE Sending
    BY <2>1, <2>2, <2>5, RequestKeeps, SendKeeps, ResponseKeeps DEF Sending
  <2>6. CASE Lost \/ Kill
    BY <2>1, <2>2, <2>6, BreakKeeps
  <2>7. CASE handle_client
    BY <2>1, <2>2, <2>7, ReadKeeps, PerformKeeps, CloseKeeps DEF handle_client
  <2> QED
    BY <2>1, <2>2, <2>3, <2>4, <2>5, <2>6, <2>7 DEF Next
<1> QED
  BY <1>1, <1>2, PTL DEF Spec

(* The server performs what the user typed: when it answers 0, each of its *)
(* variables holds the argument of that name, whole.                       *)
THEOREM TypedIsPerformed == Spec => []PerformedIsTyped
<1>1. Typed /\ Course => PerformedIsTyped
  <2>1. SUFFICES ASSUME Typed, Course, response = 0, Fits
                 PROVE  /\ strings[1] = String(op, 1)
                        /\ LET names == Reads(op)
                           IN  \A i \in DOMAIN names :
                                 \E j \in DOMAIN arguments :
                                   /\ Sends[op][j] = names[i]
                                   /\ strings[Prefix + i] = arguments[j]
    BY DEF PerformedIsTyped
  <2>2. response # -1
    BY <2>1
  <2>3. /\ strings[1] = String(op, 1)
        /\ \A i \in 1 .. Len(arguments) : strings[Prefix + i] = arguments[i]
    BY <2>1, <2>2 DEF Course, Answered
  <2>4. client # "prompt"
    BY <2>1, <2>2 DEF Course, Early
  <2>5. op \in DOMAIN Sends /\ Len(arguments) = Len(Sends[op])
    BY <2>1, <2>4 DEF Typed, Commanded
  <2>6. /\ Reads(op) = Sends[op] /\ DOMAIN Sends[op] = 1 .. Len(arguments)
        /\ DOMAIN arguments = 1 .. Len(arguments)
    BY <2>1, <2>5, ReadsAreSent, SequencesTyped DEF Typed
  <2> QED
    BY <2>3, <2>6
<1> QED
  BY <1>1, CourseHolds, PTL

(* A command that printed FAIL without losing its connection and without a *)
(* failure of the disk was not performed: the server performs nothing      *)
(* before the whole request has left the client.                           *)
THEOREM FailedChangesNothing == Spec => []FailChangesNothing
<1>1. Course => FailChangesNothing
  BY DEF Course
<1> QED
  BY <1>1, CourseHolds, PTL

=============================================================================
