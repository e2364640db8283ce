-------------------------- MODULE FileTransferProofs --------------------------
(***************************************************************************)
(* A download reported OK is the file, and one that failed leaves nothing  *)
(* of it, for files, blocks and connections of any size and all faults.    *)
(*                                                                         *)
(* The argument counts: what was sent and what is about to be never        *)
(* exceeds what was read, and once a unit is lost it stays behind; so a    *)
(* receiver that has as many units as were announced has lost none.        *)
(***************************************************************************)
EXTENDS FileTransfer, SequenceTheorems, TLAPS

(* What the sender reads is the file it measured, unless it was touched.   *)
SourceInv ==
  /\ sender \in {"read", "send"} => source # "none"
  /\ source = "shared" => file # Absent
  /\ sender \in {"request", "size"} => original = Absent
  /\ sender \in {"open", "read", "send"} => original # Absent
  /\ sender \in {"request", "size", "open"} =>
       pos = 0 /\ stream = <<>> /\ chunk = <<>> /\ source = "none"
  /\ original = Absent => stream = <<>>
  /\ sender = "open" /\ ~touched /\ file # Absent => file = original
  /\ sender \in {"read", "send"} /\ ~touched => Readable = original

(* Nothing is sent twice, and if nothing is lost everything is in place.   *)
StreamInv ==
  ~touched /\ original # Absent =>
    /\ Len(stream) + Len(chunk) <= pos /\ pos <= Len(original)
    /\ Len(stream) + Len(chunk) = pos =>
         /\ \A i \in 1..Len(stream) : stream[i] = original[i]
         /\ \A i \in 1..Len(chunk) : chunk[i] = original[Len(stream) + i]

(* file_size is the length that was measured, or a part of its digits on a *)
(* connection that is closed and empty.                                    *)
SizeInv ==
  /\ announced # Absent => original # Absent /\ announced = Len(original)
  /\ announced = Absent => stream = <<>>
  /\ announced = Absent /\ original # Absent => sender = "closed"
  /\ receiver \in {"open", "loop"} =>
       /\ original # Absent
       /\ \/ size = Len(original)
          \/ size > 0 /\ stream = <<>> /\ sender = "closed"

(* The local file is what has been received. *)
LocalInv ==
  /\ receiver \in {"code", "size", "open"} => got = 0 /\ local = Before
  /\ receiver = "loop" => got <= size
  /\ receiver = "done" <=> result # "none"
  /\ result = "OK" => original # Absent /\ got = Len(original)
  /\ receiver = "loop" \/ result = "OK" =>
       /\ local # Absent /\ Len(local) = got
       /\ \A i \in 1..got : local[i] = stream[i]
  /\ FailLeavesNothing

IInv == TypeOK /\ SourceInv /\ StreamInv /\ SizeInv /\ LocalInv

USE FileTransferAssumption

----------------------------------------------------------------------------
(* Sequences. *)

(* A slice of a sequence: what read, send and recv move.                   *)
LEMMA Slice ==
  ASSUME NEW s \in Contents, NEW m \in Nat, NEW n \in Nat, m <= n, n <= Len(s)
  PROVE  /\ SubSeq(s, m + 1, n) \in Contents
         /\ Len(SubSeq(s, m + 1, n)) = n - m
         /\ \A i \in 1..(n - m) : SubSeq(s, m + 1, n)[i] = s[m + i]
<1>1. \A i \in (m + 1)..n : s[i] \in Units
  BY ElementOfSeq DEF Contents
<1>2. /\ SubSeq(s, m + 1, n) \in Seq(Units)
      /\ Len(SubSeq(s, m + 1, n)) = IF m + 1 <= n THEN n - (m + 1) + 1 ELSE 0
      /\ \A i \in 1..(n - (m + 1) + 1) : SubSeq(s, m + 1, n)[i] = s[m + 1 + i - 1]
  BY <1>1, SubSeqProperties, m + 1 \in Int, n \in Int
<1> QED
  BY <1>2 DEF Contents

LEMMA Prefix ==
  ASSUME NEW s \in Contents, NEW n \in Nat, n <= Len(s)
  PROVE  /\ SubSeq(s, 1, n) \in Contents
         /\ Len(SubSeq(s, 1, n)) = n
         /\ \A i \in 1..n : SubSeq(s, 1, n)[i] = s[i]
<1>1. \A i \in 1..n : s[i] \in Units
  BY ElementOfSeq DEF Contents
<1>2. /\ SubSeq(s, 1, n) \in Seq(Units)
      /\ Len(SubSeq(s, 1, n)) = IF 1 <= n THEN n - 1 + 1 ELSE 0
      /\ \A i \in 1..(n - 1 + 1) : SubSeq(s, 1, n)[i] = s[1 + i - 1]
  BY <1>1, SubSeqProperties, 1 \in Int, n \in Int
<1> QED
  BY <1>2 DEF Contents

LEMMA Joined ==
  ASSUME NEW s \in Contents, NEW t \in Contents
  PROVE  /\ s \o t \in Contents
         /\ Len(s \o t) = Len(s) + Len(t)
         /\ \A i \in 1..Len(s) : (s \o t)[i] = s[i]
         /\ \A i \in 1..Len(t) : (s \o t)[Len(s) + i] = t[i]
<1>1. /\ s \o t \in Seq(Units)
      /\ Len(s \o t) = Len(s) + Len(t)
      /\ \A i \in 1..(Len(s) + Len(t)) :
           (s \o t)[i] = IF i <= Len(s) THEN s[i] ELSE t[i - Len(s)]
  BY ConcatProperties DEF Contents
<1>2. Len(s) \in Nat /\ Len(t) \in Nat
  BY LenProperties DEF Contents
<1> QED
  BY <1>1, <1>2 DEF Contents

LEMMA Lengths == ASSUME NEW s \in Contents PROVE Len(s) \in Nat
BY LenProperties DEF Contents

LEMMA Empty == <<>> \in Contents /\ Len(<<>>) = 0
BY EmptySeq DEF Contents

LEMMA FirstVersion == Content(1) \in Contents /\ 1 \in Units
<1>1. Len(Length) \in Nat /\ 1 \in 1..Len(Length)
  BY LenProperties
<1>2. Length[1] \in Nat
  BY <1>1, ElementOfSeq
<1>3. \A i \in 1..Length[1] : 1 \in Units
  BY <1>1 DEF Units
<1> QED
  BY <1>1, <1>2, <1>3 DEF Content, Contents, Units

----------------------------------------------------------------------------
(* The initial states and each action. *)

LEMMA InitIInv == Init => IInv
<1> SUFFICES ASSUME Init PROVE IInv
  OBVIOUS
<1>1. TypeOK
  <2>1. file = Absent \/ file \in Contents
    BY FirstVersion DEF Init
  <2>2. version \in Units /\ owner = "idle"
    BY FirstVersion DEF Init
  <2>3. unlinked \in Contents /\ chunk \in Contents /\ stream \in Contents
    BY Empty DEF Init
  <2>4. got \in Nat /\ got <= Len(stream)
    BY Empty DEF Init
  <2>5. touched \in BOOLEAN
    BY DEF Init
  <2> QED
    BY <2>1, <2>2, <2>3, <2>4, <2>5
       DEF Init, TypeOK, OwnerOK, SenderOK, WireOK, ReceiverOK, HistoryOK
<1>2. SourceInv
  BY Empty DEF Init, SourceInv
<1>3. StreamInv
  BY Empty DEF Init, StreamInv
<1>4. SizeInv
  BY Empty DEF Init, SizeInv
<1>5. LocalInv
  BY Empty DEF Init, LocalInv, FailLeavesNothing
<1> QED
  BY <1>1, <1>2, <1>3, <1>4, <1>5 DEF IInv

LEMMA CheckFileStep == IInv /\ CheckFile => IInv'
<1> SUFFICES ASSUME IInv, CheckFile PROVE IInv'
  OBVIOUS
<1> USE DEF IInv, CheckFile, Close, ownervars, receivervars, history
<1>1. TypeOK'
  <2>1. OwnerOK'
    BY Empty DEF TypeOK, OwnerOK
  <2>2. SenderOK'
    BY Empty DEF TypeOK, SenderOK
  <2>3. WireOK'
    BY Empty DEF TypeOK, WireOK
  <2>4. ReceiverOK'
    BY Empty DEF TypeOK, ReceiverOK
  <2>5. HistoryOK'
    BY Empty DEF TypeOK, HistoryOK
  <2> QED
    BY <2>1, <2>2, <2>3, <2>4, <2>5 DEF TypeOK
<1>2. SourceInv' /\ StreamInv'
  BY Empty DEF SourceInv, StreamInv, Readable
<1>3. SizeInv' /\ LocalInv'
  BY DEF SourceInv, SizeInv, LocalInv, FailLeavesNothing
<1> QED
  BY <1>1, <1>2, <1>3

LEMMA SendSizeStep == IInv /\ SendSize => IInv'
<1> SUFFICES ASSUME IInv, SendSize PROVE IInv'
  OBVIOUS
<1> USE DEF IInv, SendSize, Close, ownervars, receivervars
<1>1. TypeOK'
  <2>1. OwnerOK'
    BY Empty, Lengths DEF TypeOK, OwnerOK
  <2>2. SenderOK'
    BY Empty, Lengths DEF TypeOK, SenderOK
  <2>3. WireOK'
    BY Empty, Lengths DEF TypeOK, WireOK
  <2>4. ReceiverOK'
    BY Empty, Lengths DEF TypeOK, ReceiverOK
  <2>5. HistoryOK'
    BY DEF TypeOK, OwnerOK, HistoryOK
  <2> QED
    BY <2>1, <2>2, <2>3, <2>4, <2>5 DEF TypeOK
<1>2. SourceInv'
  <2>1. CASE file = Absent /\ Close
    BY <2>1, Empty DEF TypeOK, OwnerOK, SenderOK, SourceInv, Readable
  <2>2. CASE file # Absent /\ sender' = "open"
    BY <2>2, Empty DEF TypeOK, OwnerOK, SenderOK, SourceInv, Readable
  <2> QED
    BY <2>1, <2>2
<1>3. StreamInv'
  <2>1. stream' = <<>> /\ chunk' = <<>> /\ pos' = 0
    BY DEF SourceInv
  <2>2. original' # Absent => Len(original') \in Nat
    BY Lengths DEF TypeOK, HistoryOK
  <2> QED
    BY <2>1, <2>2, Empty DEF StreamInv
<1>4. SizeInv'
  <2>1. stream = <<>> /\ UNCHANGED <<stream, receiver, size>> /\ original = Absent
    BY DEF SourceInv
  <2>2. receiver \notin {"open", "loop"}
    BY <2>1 DEF SizeInv
  <2>3. CASE file = Absent /\ Close /\ UNCHANGED <<announced, original>>
    BY <2>1, <2>2, <2>3 DEF SizeInv
  <2>4. CASE file # Absent /\ announced' = Len(file) /\ original' = file
    <3>1. announced' # Absent
      BY <2>4, Lengths DEF TypeOK, WireOK
    <3> QED
      BY <2>1, <2>2, <2>4, <3>1 DEF SizeInv
  <2> QED
    BY <2>3, <2>4
<1>5. LocalInv'
  BY DEF SourceInv, LocalInv, FailLeavesNothing
<1> QED
  BY <1>1, <1>2, <1>3, <1>4, <1>5

LEMMA OpenFileStep == IInv /\ OpenFile => IInv'
<1> SUFFICES ASSUME IInv, OpenFile PROVE IInv'
  OBVIOUS
<1> USE DEF IInv, OpenFile, Close, ownervars, wire, receivervars, history
<1>1. TypeOK'
  <2>1. OwnerOK'
    BY Empty DEF TypeOK, OwnerOK
  <2>2. SenderOK'
    BY Empty DEF TypeOK, SenderOK
  <2>3. WireOK'
    BY Empty DEF TypeOK, WireOK
  <2>4. ReceiverOK'
    BY Empty DEF TypeOK, ReceiverOK
  <2>5. HistoryOK'
    BY Empty DEF TypeOK, HistoryOK
  <2> QED
    BY <2>1, <2>2, <2>3, <2>4, <2>5 DEF TypeOK
<1>2. SourceInv'
  BY Empty DEF TypeOK, OwnerOK, SenderOK, SourceInv, Readable
<1>3. StreamInv'
  BY Empty DEF TypeOK, SenderOK, WireOK, HistoryOK, SourceInv, StreamInv
<1>4. SizeInv' /\ LocalInv'
  BY DEF TypeOK, SenderOK, ReceiverOK, HistoryOK, SourceInv, SizeInv, LocalInv, FailLeavesNothing
<1> QED
  BY <1>1, <1>2, <1>3, <1>4

(* The data read is the next part of what is readable. *)
LEMMA ReadFileStep == IInv /\ ReadFile => IInv'
<1> SUFFICES ASSUME IInv, ReadFile PROVE IInv'
  OBVIOUS
<1> USE DEF IInv, ownervars, wire, receivervars, history
<1>1. CASE pos >= Len(Readable) /\ Close
  <2> USE <1>1 DEF ReadFile, Close
  <2>1. TypeOK'
    <3>1. OwnerOK'
      BY Empty DEF TypeOK, OwnerOK
    <3>2. SenderOK'
      BY Empty DEF TypeOK, SenderOK
    <3>3. WireOK'
      BY Empty DEF TypeOK, WireOK
    <3>4. ReceiverOK'
      BY Empty DEF TypeOK, ReceiverOK
    <3>5. HistoryOK'
      BY Empty DEF TypeOK, HistoryOK
    <3> QED
      BY <3>1, <3>2, <3>3, <3>4, <3>5 DEF TypeOK
  <2>2. SourceInv'
    BY Empty DEF TypeOK, OwnerOK, SenderOK, SourceInv, Readable
  <2>3. StreamInv'
    <3>1. chunk' = <<>> /\ UNCHANGED <<stream, pos, original, touched>>
      OBVIOUS
    <3>2. Len(stream) \in Nat /\ Len(chunk) \in Nat /\ pos \in Nat
      BY Lengths DEF TypeOK, SenderOK, WireOK
    <3>3. Len(chunk') = 0
      BY <3>1, Empty
    <3>4. Len(stream) + 0 = pos => Len(chunk) = 0 \/ touched \/ original = Absent
      BY <3>2 DEF StreamInv
    <3> QED
      BY <3>1, <3>2, <3>3, <3>4 DEF StreamInv
  <2>4. SizeInv' /\ LocalInv'
    BY DEF TypeOK, SenderOK, ReceiverOK, HistoryOK, SourceInv, SizeInv, LocalInv, FailLeavesNothing
  <2> QED
    BY <2>1, <2>2, <2>3, <2>4
<1>2. CASE pos < Len(Readable) /\ sender' = "send"
  <2> DEFINE next == Least(pos + Block, Len(Readable))
  <2>1. Readable \in Contents
    BY DEF TypeOK, OwnerOK, SenderOK, SourceInv, Readable, ReadFile
  <2>2. Len(Readable) \in Nat /\ next \in Nat /\ pos < next /\ next <= Len(Readable)
    <3>1. Len(Readable) \in Nat /\ pos \in Nat /\ Block \in Nat \ {0}
      BY <2>1, Lengths DEF TypeOK, OwnerOK, SenderOK
    <3> HIDE DEF IInv
    <3> QED
      BY <3>1, <1>2 DEF Least
  <2>3. /\ chunk' \in Contents /\ Len(chunk') = next - pos
        /\ \A i \in 1..(next - pos) : chunk'[i] = Readable[pos + i]
    <3>1. chunk' = SubSeq(Readable, pos + 1, next)
      BY <1>2 DEF ReadFile, Close
    <3>2. pos \in Nat
      BY DEF TypeOK, SenderOK
    <3> HIDE DEF next, IInv
    <3>3. pos <= next
      BY <2>2, <3>2
    <3> QED
      BY <2>1, <2>2, <3>1, <3>2, <3>3, Slice
  <2>4. /\ pos' = next /\ sender = "read"
        /\ UNCHANGED <<ownervars, wire, receivervars, history, source, unlinked>>
    BY <1>2 DEF ReadFile, Close
  <2> HIDE DEF next
  <2>5. TypeOK'
    <3>1. OwnerOK'
      BY <1>2, <2>2, <2>3, <2>4 DEF TypeOK, OwnerOK
    <3>2. SenderOK'
      BY <1>2, <2>2, <2>3, <2>4 DEF TypeOK, SenderOK
    <3>3. WireOK'
      BY <1>2, <2>2, <2>3, <2>4 DEF TypeOK, WireOK
    <3>4. ReceiverOK'
      BY <1>2, <2>2, <2>3, <2>4 DEF TypeOK, ReceiverOK
    <3>5. HistoryOK'
      BY <1>2, <2>2, <2>3, <2>4 DEF TypeOK, HistoryOK
    <3> QED
      BY <3>1, <3>2, <3>3, <3>4, <3>5 DEF TypeOK
  <2>6. SourceInv'
    BY <1>2, <2>4 DEF SourceInv, Readable
  <2>7. StreamInv'
    <3> SUFFICES ASSUME ~touched, original # Absent PROVE StreamInv'
      BY <2>4 DEF StreamInv
    <3>1. Readable = original
      BY <2>4 DEF SourceInv
    <3>2. Len(stream) \in Nat /\ Len(chunk) \in Nat /\ pos \in Nat
      BY Lengths DEF TypeOK, SenderOK, WireOK
    <3>3. Len(stream) + Len(chunk') = next => Len(stream) + Len(chunk) = pos /\ Len(chunk) = 0
      BY <2>2, <2>3, <3>2 DEF StreamInv
    <3>4. Len(stream) + Len(chunk') <= next
      BY <2>2, <2>3, <3>2 DEF StreamInv
    <3>5. pos' <= Len(original)
      BY <2>2, <2>4, <3>1
    <3>6. ASSUME Len(stream) + Len(chunk') = next
          PROVE  /\ \A i \in 1..Len(stream) : stream[i] = original[i]
                 /\ \A i \in 1..Len(chunk') : chunk'[i] = original[Len(stream) + i]
      <4>1. Len(stream) + Len(chunk) = pos /\ Len(stream) = pos
        BY <3>2, <3>3, <3>6
      <4>2. \A i \in 1..Len(stream) : stream[i] = original[i]
        BY <4>1 DEF StreamInv
      <4>3. \A i \in 1..Len(chunk') : chunk'[i] = original[pos + i]
        BY <2>3, <3>1
      <4> QED
        BY <4>1, <4>2, <4>3
    <3> HIDE DEF IInv
    <3> QED
      BY <2>4, <3>4, <3>5, <3>6 DEF StreamInv
  <2>8. SizeInv' /\ LocalInv'
    BY <1>2, <2>4 DEF SizeInv, LocalInv, FailLeavesNothing
  <2> QED
    BY <2>5, <2>6, <2>7, <2>8
<1> QED
  BY <1>1, <1>2 DEF ReadFile

(* A part of the data joins the stream; what is left out stays missing.    *)
LEMMA SendChunkStep == IInv /\ SendChunk => IInv'
<1> SUFFICES ASSUME IInv, SendChunk PROVE IInv'
  OBVIOUS
<1> USE DEF IInv, ownervars, receivervars, history
<1>0. /\ Len(stream) \in Nat /\ Len(chunk) \in Nat /\ pos \in Nat
      /\ stream \in Contents /\ chunk \in Contents
      /\ got \in Nat /\ got <= Len(stream)
  BY Lengths DEF TypeOK, SenderOK, WireOK, ReceiverOK
<1>1. CASE receiver = "done" /\ Close /\ UNCHANGED stream
  <2> USE <1>1 DEF SendChunk, Close
  <2>1. TypeOK'
    <3>1. OwnerOK'
      BY Empty DEF TypeOK, OwnerOK
    <3>2. SenderOK'
      BY Empty DEF TypeOK, SenderOK
    <3>3. WireOK'
      BY Empty DEF TypeOK, WireOK
    <3>4. ReceiverOK'
      BY Empty DEF TypeOK, ReceiverOK
    <3>5. HistoryOK'
      BY Empty DEF TypeOK, HistoryOK
    <3> QED
      BY <3>1, <3>2, <3>3, <3>4, <3>5 DEF TypeOK
  <2>2. SourceInv'
    BY Empty DEF TypeOK, OwnerOK, SenderOK, SourceInv, Readable
  <2>3. StreamInv'
    <3>1. chunk' = <<>> /\ UNCHANGED <<stream, pos, original, touched>>
      OBVIOUS
    <3>2. Len(chunk') = 0
      BY <3>1, Empty
    <3>3. Len(stream) + 0 = pos => Len(chunk) = 0 \/ touched \/ original = Absent
      BY <1>0 DEF StreamInv
    <3> QED
      BY <1>0, <3>1, <3>2, <3>3 DEF StreamInv
  <2>4. SizeInv' /\ LocalInv'
    BY DEF TypeOK, SenderOK, ReceiverOK, HistoryOK, SourceInv, SizeInv, LocalInv, FailLeavesNothing
  <2> QED
    BY <2>1, <2>2, <2>3, <2>4
<1>2. CASE receiver # "done"
  <2>1. PICK n \in 1..Len(chunk) : stream' = stream \o SubSeq(chunk, 1, n)
    BY <1>2 DEF SendChunk
  <2> DEFINE part == SubSeq(chunk, 1, n)
  <2>2. n \in Nat /\ n <= Len(chunk)
    BY <1>0
  <2>3. /\ part \in Contents /\ Len(part) = n
        /\ \A i \in 1..n : part[i] = chunk[i]
    BY <1>0, <2>2, Prefix
  <2>4. /\ stream' \in Contents /\ Len(stream') = Len(stream) + n
        /\ \A i \in 1..Len(stream) : stream'[i] = stream[i]
        /\ \A i \in 1..n : stream'[Len(stream) + i] = chunk[i]
    <3> HIDE DEF part
    <3>1. stream' = stream \o part
      BY <2>1 DEF part
    <3> QED
      BY <1>0, <2>3, <3>1, Joined
  <2>5. /\ sender = "send" /\ sender' = "read" /\ chunk' = <<>> /\ Len(chunk') = 0
        /\ UNCHANGED <<ownervars, code, announced, receivervars, history,
                       source, unlinked, pos>>
    BY <1>2, Empty DEF SendChunk
  <2> HIDE DEF part
  <2>6. TypeOK'
    <3>1. got <= Len(stream')
      BY <1>0, <2>2, <2>4
    <3>2. chunk' \in Contents
      BY <2>5, Empty
    <3>3. OwnerOK' /\ HistoryOK'
      BY <2>5 DEF TypeOK, OwnerOK, HistoryOK
    <3>4. SenderOK'
      BY <2>5, <3>2 DEF TypeOK, SenderOK
    <3>5. WireOK' /\ ReceiverOK'
      BY <2>4, <2>5, <3>1 DEF TypeOK, WireOK, ReceiverOK
    <3> QED
      BY <3>3, <3>4, <3>5 DEF TypeOK
  <2>7. SourceInv'
    BY <2>5 DEF SourceInv, Readable
  <2>8. StreamInv'
    <3> SUFFICES ASSUME ~touched, original # Absent PROVE StreamInv'
      BY <2>5 DEF StreamInv
    <3>1. Len(stream') + Len(chunk') <= pos /\ pos <= Len(original)
      BY <1>0, <2>2, <2>4, <2>5 DEF StreamInv
    <3>2. ASSUME Len(stream') = pos
          PROVE  \A i \in 1..Len(stream') : stream'[i] = original[i]
      <4>1. n = Len(chunk) /\ Len(stream) + Len(chunk) = pos
        <5>1. Len(stream) + n = pos
          BY <2>4, <3>2
        <5>2. Len(stream) + Len(chunk) <= pos
          BY DEF StreamInv
        <5> HIDE DEF IInv
        <5> QED
          BY <1>0, <2>2, <5>1, <5>2
      <4>2. SUFFICES ASSUME NEW i \in 1..Len(stream') PROVE stream'[i] = original[i]
        OBVIOUS
      <4>3. CASE i <= Len(stream)
        BY <1>0, <2>4, <4>1, <4>3 DEF StreamInv
      <4>4. CASE i > Len(stream)
        <5>1. PICK j \in 1..n : i = Len(stream) + j
          <6>1. i - Len(stream) \in 1..n /\ i = Len(stream) + (i - Len(stream))
            BY <1>0, <2>2, <2>4, <4>4
          <6> QED
            BY <6>1
        <5>2. chunk[j] = original[Len(stream) + j]
          BY <4>1, <5>1 DEF StreamInv
        <5> QED
          BY <2>4, <5>1, <5>2
      <4> QED
        BY <1>0, <2>2, <2>4, <4>3, <4>4
    <3>3. Len(stream') + Len(chunk') = pos => Len(stream') = pos
      BY <1>0, <2>2, <2>4, <2>5
    <3> HIDE DEF IInv
    <3> QED
      BY <2>5, <3>1, <3>2, <3>3 DEF StreamInv
  <2>9. SizeInv'
    BY <2>5 DEF SourceInv, SizeInv
  <2>10. LocalInv'
    <3>1. \A i \in 1..got : stream'[i] = stream[i]
      BY <1>0, <2>4
    <3> QED
      BY <2>5, <3>1 DEF LocalInv, FailLeavesNothing
  <2> QED
    BY <2>6, <2>7, <2>8, <2>9, <2>10
<1> QED
  BY <1>1, <1>2 DEF SendChunk

LEMMA ReceiveCodeStep == IInv /\ ReceiveCode => IInv'
<1> SUFFICES ASSUME IInv, ReceiveCode PROVE IInv'
  OBVIOUS
<1> USE DEF IInv, ReceiveCode, Return, ownervars, sendervars, wire, history
<1>1. TypeOK'
  <2>1. OwnerOK'
    BY DEF TypeOK, OwnerOK
  <2>2. SenderOK'
    BY DEF TypeOK, SenderOK
  <2>3. WireOK'
    BY DEF TypeOK, WireOK
  <2>4. ReceiverOK'
    BY DEF TypeOK, ReceiverOK
  <2>5. HistoryOK'
    BY DEF TypeOK, HistoryOK
  <2> QED
    BY <2>1, <2>2, <2>3, <2>4, <2>5 DEF TypeOK
<1>2. SourceInv' /\ StreamInv'
  BY DEF SourceInv, StreamInv, Readable
<1>3. SizeInv' /\ LocalInv'
  BY DEF SizeInv, LocalInv, FailLeavesNothing
<1> QED
  BY <1>1, <1>2, <1>3

(* A size that was cut off comes with an empty stream.                     *)
LEMMA ReceiveSizeStep == IInv /\ ReceiveSize => IInv'
<1> SUFFICES ASSUME IInv, ReceiveSize PROVE IInv'
  OBVIOUS
<1> USE DEF IInv, ReceiveSize, Return, ownervars, sendervars, wire, history
<1>0. original # Absent => Len(original) \in Nat
  BY Lengths DEF TypeOK, HistoryOK
<1>1. TypeOK'
  <2>1. size \in Nat /\ (announced # Absent => announced \in Nat)
    BY DEF TypeOK, WireOK, ReceiverOK
  <2>2. size' \in Nat
    BY <1>0, <2>1
  <2>3. receiver' \in {"open", "done"} /\ (result' = result \/ result' = "FAIL")
    OBVIOUS
  <2>4. UNCHANGED <<ownervars, sendervars, wire, got, local, history>>
    OBVIOUS
  <2> HIDE DEF ReceiveSize
  <2>5. OwnerOK' /\ SenderOK' /\ WireOK' /\ HistoryOK'
    BY <2>4 DEF TypeOK, OwnerOK, SenderOK, WireOK, HistoryOK
  <2>6. ReceiverOK'
    BY <2>2, <2>3, <2>4 DEF TypeOK, ReceiverOK
  <2> QED
    BY <2>5, <2>6 DEF TypeOK
<1>2. SourceInv' /\ StreamInv'
  BY DEF SourceInv, StreamInv, Readable
<1>3. SizeInv'
  <2>1. CASE announced # Absent /\ size' = announced /\ receiver' = "open"
    BY <2>1 DEF SizeInv
  <2>2. CASE receiver' = "done"
    BY <2>2 DEF SizeInv
  <2>3. CASE announced = Absent /\ Eof /\ original # Absent /\ size' \in 1..(Len(original) - 1)
    <3>1. size' > 0
      BY <1>0, <2>3
    <3> QED
      BY <2>3, <3>1 DEF SizeInv, Eof
  <2> QED
    BY <2>1, <2>2, <2>3
<1>4. LocalInv'
  BY DEF LocalInv, FailLeavesNothing
<1> QED
  BY <1>1, <1>2, <1>3, <1>4

LEMMA OpenLocalStep == IInv /\ OpenLocal => IInv'
<1> SUFFICES ASSUME IInv, OpenLocal PROVE IInv'
  OBVIOUS
<1> USE DEF IInv, OpenLocal, Discard, Return, ownervars, sendervars, wire, history
<1>1. TypeOK'
  <2>1. /\ local' = Absent \/ local' = <<>>
        /\ receiver' = "loop" \/ receiver' = "done"
        /\ result' = result \/ result' = "FAIL"
        /\ UNCHANGED <<ownervars, sendervars, wire, size, got, history>>
    OBVIOUS
  <2> HIDE DEF OpenLocal
  <2>2. OwnerOK' /\ SenderOK' /\ WireOK' /\ HistoryOK'
    BY <2>1 DEF TypeOK, OwnerOK, SenderOK, WireOK, HistoryOK
  <2>3. ReceiverOK'
    BY <2>1, Empty DEF TypeOK, ReceiverOK
  <2> QED
    BY <2>2, <2>3 DEF TypeOK
<1>2. SourceInv' /\ StreamInv'
  BY DEF SourceInv, StreamInv, Readable
<1>3. SizeInv'
  BY DEF SizeInv
<1>4. LocalInv'
  BY Empty, Lengths DEF TypeOK, ReceiverOK, HistoryOK, SizeInv, LocalInv, FailLeavesNothing
<1> QED
  BY <1>1, <1>2, <1>3, <1>4

(* What is received joins the local file in the order of the stream.       *)
LEMMA ReceiveStep == IInv /\ Receive => IInv'
<1> SUFFICES ASSUME IInv, Receive PROVE IInv'
  OBVIOUS
<1> USE DEF IInv, ownervars, sendervars, wire, history
<1>0. /\ Len(stream) \in Nat /\ stream \in Contents /\ size \in Nat
      /\ got \in Nat /\ got <= Len(stream) /\ Block \in Nat \ {0}
  BY Lengths DEF TypeOK, WireOK, ReceiverOK
<1>1. /\ receiver = "loop" /\ got < size /\ got < Len(stream)
      /\ UNCHANGED <<ownervars, sendervars, wire, history, size>>
  BY DEF Receive, Discard, Return
<1>2. SourceInv' /\ StreamInv'
  BY <1>1 DEF SourceInv, StreamInv, Readable
<1>3. CASE Discard
  <2> USE <1>3 DEF Discard, Return
  <2>1. TypeOK'
    <3>1. OwnerOK'
      BY <1>1 DEF TypeOK, OwnerOK
    <3>2. SenderOK'
      BY <1>1 DEF TypeOK, SenderOK
    <3>3. WireOK'
      BY <1>1 DEF TypeOK, WireOK
    <3>4. ReceiverOK'
      BY <1>1 DEF TypeOK, ReceiverOK
    <3>5. HistoryOK'
      BY <1>1 DEF TypeOK, HistoryOK
    <3> QED
      BY <3>1, <3>2, <3>3, <3>4, <3>5 DEF TypeOK
  <2>2. SizeInv'
    BY <1>1 DEF SizeInv
  <2>3. LocalInv'
    BY <1>1 DEF LocalInv, FailLeavesNothing
  <2> QED
    BY <1>2, <2>1, <2>2, <2>3
<1>4. CASE ~Discard
  <2>1. PICK n \in 1..Least(Block, Least(size, Len(stream)) - got) :
          /\ local' = local \o SubSeq(stream, got + 1, got + n)
          /\ got' = got + n
    BY <1>4 DEF Receive
  <2>2. UNCHANGED <<receiver, result>>
    BY <1>4 DEF Receive
  <2>3. n \in Nat /\ n > 0 /\ got + n <= size /\ got + n <= Len(stream)
    BY <1>0, <1>1 DEF Least
  <2> DEFINE part == SubSeq(stream, got + 1, got + n)
  <2>4. /\ part \in Contents /\ Len(part) = n
        /\ \A i \in 1..n : part[i] = stream[got + i]
    BY <1>0, <2>3, Slice
  <2> HIDE DEF part
  <2>5. local \in Contents /\ Len(local) = got
    BY <1>1 DEF TypeOK, ReceiverOK, LocalInv
  <2>6. /\ local' \in Contents /\ Len(local') = got + n
        /\ \A i \in 1..got : local'[i] = local[i]
        /\ \A i \in 1..n : local'[got + i] = part[i]
    <3>1. local' = local \o part
      BY <2>1 DEF part
    <3> QED
      BY <2>4, <2>5, <3>1, Joined
  <2>7. \A i \in 1..(got + n) : local'[i] = stream[i]
    <3>1. SUFFICES ASSUME NEW i \in 1..(got + n) PROVE local'[i] = stream[i]
      OBVIOUS
    <3>2. CASE i <= got
      BY <1>0, <1>1, <2>6, <3>2 DEF LocalInv
    <3>3. CASE i > got
      <4>1. i - got \in 1..n /\ i = got + (i - got)
        BY <1>0, <2>3, <3>3
      <4> QED
        BY <2>4, <2>6, <4>1
    <3> QED
      BY <1>0, <2>3, <3>2, <3>3
  <2>8. TypeOK'
    <3>1. (got \in Nat /\ got <= Len(stream))'
      BY <1>0, <1>1, <2>1, <2>3
    <3>2. OwnerOK' /\ SenderOK' /\ WireOK' /\ HistoryOK'
      BY <1>1 DEF TypeOK, OwnerOK, SenderOK, WireOK, HistoryOK
    <3>3. ReceiverOK'
      BY <1>1, <2>2, <2>6, <3>1 DEF TypeOK, ReceiverOK
    <3> QED
      BY <3>2, <3>3 DEF TypeOK
  <2>9. SizeInv'
    BY <1>1, <2>2 DEF SizeInv
  <2>10. LocalInv'
    <3>1. local' # Absent
      BY <2>6
    <3>2. got' <= size'
      BY <1>1, <2>1, <2>3
    <3>3. result' # "OK" /\ result' # "FAIL"
      BY <1>1, <2>2 DEF LocalInv
    <3>4. receiver' = "loop" /\ UNCHANGED <<stream, receiver, result>>
      BY <1>1, <2>2
    <3> QED
      BY <2>1, <2>6, <2>7, <3>1, <3>2, <3>3, <3>4 DEF LocalInv, FailLeavesNothing
  <2> QED
    BY <1>2, <2>8, <2>9, <2>10
<1> QED
  BY <1>3, <1>4

(* A part of the digits is never reached: the stream is empty.             *)
LEMMA FinishStep == IInv /\ Finish => IInv'
<1> SUFFICES ASSUME IInv, Finish PROVE IInv'
  OBVIOUS
<1> USE DEF IInv, Return, ownervars, sendervars, wire, history
<1>1. /\ receiver = "loop" /\ receiver' = "done"
      /\ UNCHANGED <<ownervars, sendervars, wire, history, size, got>>
  BY DEF Finish, Discard
<1>2. SourceInv' /\ StreamInv'
  BY <1>1 DEF SourceInv, StreamInv, Readable
<1>3. SizeInv'
  BY <1>1 DEF SizeInv
<1>4. CASE got = size /\ Return("OK") /\ UNCHANGED local
  <2>1. original # Absent /\ got = Len(original)
    <3>1. Len(<<>>) = 0 /\ got <= Len(stream) /\ got \in Nat
      BY Empty DEF TypeOK, WireOK, ReceiverOK
    <3>2. ~(size > 0 /\ stream = <<>>)
      BY <1>4, <3>1
    <3> QED
      BY <1>1, <1>4, <3>2 DEF SizeInv
  <2>2. TypeOK'
    <3>1. OwnerOK'
      BY <1>1, <1>4 DEF TypeOK, OwnerOK
    <3>2. SenderOK'
      BY <1>1, <1>4 DEF TypeOK, SenderOK
    <3>3. WireOK'
      BY <1>1, <1>4 DEF TypeOK, WireOK
    <3>4. ReceiverOK'
      BY <1>1, <1>4 DEF TypeOK, ReceiverOK
    <3>5. HistoryOK'
      BY <1>1, <1>4 DEF TypeOK, HistoryOK
    <3> QED
      BY <3>1, <3>2, <3>3, <3>4, <3>5 DEF TypeOK
  <2>3. LocalInv'
    BY <1>1, <1>4, <2>1 DEF LocalInv, FailLeavesNothing
  <2> QED
    BY <1>2, <1>3, <2>2, <2>3
<1>5. CASE Discard
  <2> USE <1>5 DEF Discard
  <2>1. TypeOK'
    <3>1. OwnerOK'
      BY <1>1 DEF TypeOK, OwnerOK
    <3>2. SenderOK'
      BY <1>1 DEF TypeOK, SenderOK
    <3>3. WireOK'
      BY <1>1 DEF TypeOK, WireOK
    <3>4. ReceiverOK'
      BY <1>1 DEF TypeOK, ReceiverOK
    <3>5. HistoryOK'
      BY <1>1 DEF TypeOK, HistoryOK
    <3> QED
      BY <3>1, <3>2, <3>3, <3>4, <3>5 DEF TypeOK
  <2>2. LocalInv'
    BY <1>1 DEF LocalInv, FailLeavesNothing
  <2> QED
    BY <1>2, <1>3, <2>1, <2>2
<1> QED
  BY <1>4, <1>5 DEF Finish

----------------------------------------------------------------------------
(* The owner. *)

(* What the owner does to the file is the sender's affair only where the   *)
(* sender reads, and then it is touched.                                   *)
LEMMA WriteStep ==
  ASSUME IInv, NEW content \in Contents, Write(content),
         version' \in Units, owner' \in {"idle", "writing"}
  PROVE  IInv'
<1> USE DEF IInv, Write, sendervars, wire, receivervars
<1>1. touched \in BOOLEAN /\ touched' \in BOOLEAN /\ content # Absent
  BY DEF TypeOK, OwnerOK, HistoryOK, Touches
<1>2. TypeOK'
  <2>1. OwnerOK'
    BY <1>1 DEF TypeOK, OwnerOK
  <2>2. SenderOK'
    BY <1>1 DEF TypeOK, SenderOK
  <2>3. WireOK'
    BY <1>1 DEF TypeOK, WireOK
  <2>4. ReceiverOK'
    BY <1>1 DEF TypeOK, ReceiverOK
  <2>5. HistoryOK'
    BY <1>1 DEF TypeOK, HistoryOK
  <2> QED
    BY <2>1, <2>2, <2>3, <2>4, <2>5 DEF TypeOK
<1>3. touched => touched'
  BY <1>1
<1>4. SourceInv'
  <2>1. ASSUME ~touched' PROVE ~touched /\ ~Touches
    BY <2>1
  <2>2. (sender \in {"read", "send"} /\ ~touched => Readable = original)'
    BY <2>1 DEF SourceInv, Touches, Readable
  <2>3. (sender = "open" /\ ~touched /\ file # Absent => file = original)'
    BY <2>1 DEF SourceInv, Touches
  <2>4. (source = "shared" => file # Absent)'
    BY <1>1
  <2> HIDE DEF Readable
  <2> QED
    BY <2>2, <2>3, <2>4 DEF SourceInv
<1>5. StreamInv'
  BY <1>3 DEF StreamInv
<1>6. SizeInv' /\ LocalInv'
  BY DEF SizeInv, LocalInv, FailLeavesNothing
<1> QED
  BY <1>2, <1>4, <1>5, <1>6

LEMMA BeginWriteStep == IInv /\ BeginWrite => IInv'
<1> SUFFICES ASSUME IInv, BeginWrite PROVE IInv'
  OBVIOUS
<1>1. version' \in Units /\ owner' \in {"idle", "writing"}
  <2>1. Len(Length) \in Nat
    BY LenProperties
  <2>2. version \in 1..Len(Length)
    BY DEF IInv, TypeOK, OwnerOK, Units
  <2>3. /\ version < Len(Length) /\ version' = version + 1 /\ owner' = "writing"
    BY DEF BeginWrite
  <2>4. version' \in 1..Len(Length)
    BY <2>1, <2>2, <2>3
  <2> QED
    BY <2>3, <2>4 DEF Units
<1> QED
  BY <1>1, Empty, WriteStep DEF BeginWrite

LEMMA AppendUnitStep == IInv /\ AppendUnit => IInv'
<1> SUFFICES ASSUME IInv, AppendUnit PROVE IInv'
  OBVIOUS
<1>1. file \in Contents /\ version \in Units /\ owner \in {"idle", "writing"}
  BY DEF IInv, TypeOK, OwnerOK, AppendUnit
<1>2. Append(file, version) \in Contents
  BY <1>1, AppendProperties DEF Contents
<1> QED
  BY <1>1, <1>2, WriteStep DEF AppendUnit

LEMMA EndWriteStep == IInv /\ EndWrite => IInv'
<1> SUFFICES ASSUME IInv, EndWrite PROVE IInv'
  OBVIOUS
<1> USE DEF IInv, EndWrite, sendervars, wire, receivervars, history
<1>1. TypeOK'
  <2>1. OwnerOK'
    BY DEF TypeOK, OwnerOK
  <2>2. SenderOK'
    BY DEF TypeOK, SenderOK
  <2>3. WireOK'
    BY DEF TypeOK, WireOK
  <2>4. ReceiverOK'
    BY DEF TypeOK, ReceiverOK
  <2>5. HistoryOK'
    BY DEF TypeOK, HistoryOK
  <2> QED
    BY <2>1, <2>2, <2>3, <2>4, <2>5 DEF TypeOK
<1>2. SourceInv' /\ StreamInv'
  BY DEF SourceInv, StreamInv, Readable
<1>3. SizeInv' /\ LocalInv'
  BY DEF SizeInv, LocalInv, FailLeavesNothing
<1> QED
  BY <1>1, <1>2, <1>3

(* An open file that is unlinked is read as if it were still there.        *)
LEMMA RemoveFileStep == IInv /\ RemoveFile => IInv'
<1> SUFFICES ASSUME IInv, RemoveFile PROVE IInv'
  OBVIOUS
<1> USE DEF IInv, RemoveFile, wire, receivervars, history
<1>1. TypeOK'
  <2>1. OwnerOK'
    BY DEF TypeOK, OwnerOK
  <2>2. SenderOK'
    BY DEF TypeOK, OwnerOK, SenderOK
  <2>3. WireOK'
    BY DEF TypeOK, WireOK
  <2>4. ReceiverOK'
    BY DEF TypeOK, ReceiverOK
  <2>5. HistoryOK'
    BY DEF TypeOK, HistoryOK
  <2> QED
    BY <2>1, <2>2, <2>3, <2>4, <2>5 DEF TypeOK
<1>2. SourceInv'
  BY DEF TypeOK, OwnerOK, SenderOK, SourceInv, Readable
<1>3. StreamInv'
  BY DEF StreamInv
<1>4. SizeInv' /\ LocalInv'
  BY DEF SizeInv, LocalInv, FailLeavesNothing
<1> QED
  BY <1>1, <1>2, <1>3, <1>4

----------------------------------------------------------------------------
(* The network. *)

(* What is left of the stream is a prefix that holds all that was read.    *)
LEMMA CutStep == IInv /\ Cut => IInv'
<1> SUFFICES ASSUME IInv, Cut PROVE IInv'
  OBVIOUS
<1> USE DEF IInv, Close, ownervars, receivervars, history
<1>0. /\ Len(stream) \in Nat /\ Len(chunk) \in Nat /\ pos \in Nat
      /\ stream \in Contents /\ got \in Nat /\ got <= Len(stream)
  BY Lengths DEF TypeOK, SenderOK, WireOK, ReceiverOK
<1>1. /\ sender # "closed" /\ sender' = "closed" /\ source' = "none"
      /\ chunk' = <<>> /\ Len(chunk') = 0
      /\ UNCHANGED <<unlinked, pos, ownervars, receivervars, history>>
  BY Empty DEF Cut
<1>2. receiver \in {"open", "loop"} => original # Absent /\ size = Len(original)
  BY <1>1 DEF SizeInv
<1>3. CASE \E n \in got..Len(stream) : stream' = SubSeq(stream, 1, n) /\ UNCHANGED <<code, announced>>
  <2>1. PICK n \in got..Len(stream) : stream' = SubSeq(stream, 1, n)
    BY <1>3
  <2>2. n \in Nat /\ got <= n /\ n <= Len(stream) /\ UNCHANGED <<code, announced>>
    BY <1>0, <1>3
  <2>3. /\ stream' \in Contents /\ Len(stream') = n
        /\ \A i \in 1..n : stream'[i] = stream[i]
    BY <1>0, <2>1, <2>2, Prefix
  <2>4. stream = <<>> => stream' = <<>>
    <3>1. stream = <<>> => Len(stream') = 0
      BY <1>0, <2>2, <2>3, Empty
    <3> QED
      BY <2>3, <3>1, EmptySeq DEF Contents
  <2>5. TypeOK'
    <3>1. OwnerOK' /\ SenderOK' /\ HistoryOK'
      BY <1>1, Empty DEF TypeOK, OwnerOK, SenderOK, HistoryOK
    <3>2. WireOK' /\ ReceiverOK'
      BY <1>1, <2>2, <2>3 DEF TypeOK, WireOK, ReceiverOK
    <3> QED
      BY <3>1, <3>2 DEF TypeOK
  <2>6. SourceInv'
    BY <1>1, <2>4 DEF SourceInv
  <2>7. StreamInv'
    <3> SUFFICES ASSUME ~touched, original # Absent PROVE StreamInv'
      BY <1>1 DEF StreamInv
    <3>1. Len(stream) + Len(chunk) <= pos /\ pos <= Len(original)
      BY DEF StreamInv
    <3>2. ASSUME n = pos PROVE \A i \in 1..n : stream'[i] = original[i]
      <4>1. Len(stream) = n /\ Len(stream) + Len(chunk) = pos
        BY <1>0, <2>2, <3>1, <3>2
      <4> QED
        BY <2>3, <4>1 DEF StreamInv
    <3> QED
      BY <1>0, <1>1, <2>2, <2>3, <3>1, <3>2 DEF StreamInv
  <2>8. SizeInv'
    BY <1>1, <1>2, <2>2, <2>4 DEF SizeInv
  <2>9. LocalInv'
    <3>1. \A i \in 1..got : stream'[i] = stream[i]
      BY <1>0, <2>2, <2>3
    <3> QED
      BY <1>1, <3>1 DEF LocalInv, FailLeavesNothing
  <2> QED
    BY <2>5, <2>6, <2>7, <2>8, <2>9
<1>4. CASE /\ receiver \in {"code", "size"} /\ stream' = <<>> /\ announced' = Absent
           /\ code' = code \/ code' = Absent
  <2>1. got = 0 /\ result = "none" /\ Len(stream') = 0
    BY <1>4, Empty DEF LocalInv
  <2>2. TypeOK'
    <3>1. OwnerOK' /\ SenderOK' /\ HistoryOK'
      BY <1>1, Empty DEF TypeOK, OwnerOK, SenderOK, HistoryOK
    <3>2. WireOK' /\ ReceiverOK'
      BY <1>1, <1>4, <2>1, Empty DEF TypeOK, WireOK, ReceiverOK
    <3> QED
      BY <3>1, <3>2 DEF TypeOK
  <2>3. SourceInv'
    BY <1>1, <1>4 DEF SourceInv
  <2>4. StreamInv'
    <3> SUFFICES ASSUME ~touched, original # Absent PROVE StreamInv'
      BY <1>1 DEF StreamInv
    <3>1. pos <= Len(original)
      BY DEF StreamInv
    <3> QED
      BY <1>0, <1>1, <2>1, <3>1 DEF StreamInv
  <2>5. SizeInv'
    BY <1>1, <1>4 DEF SizeInv
  <2>6. LocalInv'
    BY <1>1, <1>4, <2>1 DEF LocalInv, FailLeavesNothing
  <2> QED
    BY <2>2, <2>3, <2>4, <2>5, <2>6
<1> QED
  BY <1>3, <1>4 DEF Cut

LEMMA VanishStep == IInv /\ Vanish => IInv'
<1> SUFFICES ASSUME IInv, Vanish PROVE IInv'
  OBVIOUS
<1> USE DEF IInv, Vanish, ownervars, wire, receivervars, history
<1>1. TypeOK'
  <2>1. OwnerOK' /\ WireOK' /\ ReceiverOK' /\ HistoryOK'
    BY DEF TypeOK, OwnerOK, WireOK, ReceiverOK, HistoryOK
  <2>2. SenderOK'
    BY DEF TypeOK, SenderOK
  <2> QED
    BY <2>1, <2>2 DEF TypeOK
<1>2. SourceInv' /\ StreamInv'
  BY DEF SourceInv, StreamInv
<1>3. SizeInv' /\ LocalInv'
  BY DEF SizeInv, LocalInv, FailLeavesNothing
<1> QED
  BY <1>1, <1>2, <1>3

LEMMA StutterStep == IInv /\ UNCHANGED vars => IInv'
<1> SUFFICES ASSUME IInv, UNCHANGED vars PROVE IInv'
  OBVIOUS
<1> USE DEF IInv, vars, ownervars, sendervars, wire, receivervars, history
<1>1. TypeOK'
  <2>1. OwnerOK' /\ WireOK' /\ ReceiverOK' /\ HistoryOK'
    BY DEF TypeOK, OwnerOK, WireOK, ReceiverOK, HistoryOK
  <2>2. SenderOK'
    BY DEF TypeOK, SenderOK
  <2> QED
    BY <2>1, <2>2 DEF TypeOK
<1>2. SourceInv' /\ StreamInv' /\ SizeInv' /\ LocalInv'
  BY DEF SourceInv, StreamInv, SizeInv, LocalInv, Readable, FailLeavesNothing
<1> QED
  BY <1>1, <1>2

----------------------------------------------------------------------------
(* The inductive invariant: the types, what the sender reads, what the     *)
(* stream carries, what the receiver was told and what it has written.     *)
THEOREM TransferInvariant == Spec => []IInv
<1>1. IInv /\ [Next]_vars => IInv'
  BY CheckFileStep, SendSizeStep, OpenFileStep, ReadFileStep, SendChunkStep,
     ReceiveCodeStep, ReceiveSizeStep, OpenLocalStep, ReceiveStep, FinishStep,
     BeginWriteStep, AppendUnitStep, EndWriteStep, RemoveFileStep,
     CutStep, VanishStep, StutterStep
     DEF Next, handle_file_transfer, getfile, Owner
<1> QED
  BY InitIInv, <1>1, PTL DEF Spec

(* Whatever the sizes, the partial sends, the deletes and the faults, a    *)
(* download reported OK is the file that was measured.                     *)
THEOREM WholeFile == Spec => []KeptIsWhole
<1>1. ASSUME IInv PROVE KeptIsWhole
  <2> SUFFICES ASSUME result = "OK", ~touched PROVE local = original
    BY DEF KeptIsWhole
  <2> USE <1>1 DEF IInv
  <2>1. /\ original # Absent /\ got = Len(original)
        /\ local # Absent /\ Len(local) = got
        /\ \A i \in 1..got : local[i] = stream[i]
    BY DEF LocalInv
  <2>2. local \in Contents /\ original \in Contents /\ got <= Len(stream) /\ pos \in Nat
    BY <2>1 DEF TypeOK, SenderOK, ReceiverOK, HistoryOK
  <2>3. Len(stream) \in Nat /\ Len(chunk) \in Nat /\ Len(original) \in Nat
    BY <2>2, Lengths DEF TypeOK, SenderOK, WireOK
  <2>4. Len(stream) + Len(chunk) <= pos /\ pos <= Len(original)
    BY <2>1 DEF StreamInv
  <2>5. Len(stream) + Len(chunk) = pos /\ Len(stream) = got
    <3> HIDE DEF IInv
    <3> QED
      BY <2>1, <2>2, <2>3, <2>4
  <2>6. \A i \in 1..Len(stream) : stream[i] = original[i]
    BY <2>1, <2>5 DEF StreamInv
  <2>7. \A i \in 1..Len(local) : local[i] = original[i]
    BY <2>1, <2>5, <2>6
  <2> QED
    BY <2>1, <2>2, <2>7, SeqEqual DEF Contents
<1> QED
  BY TransferInvariant, <1>1, PTL

(* A download that failed leaves nothing of the file.                      *)
THEOREM NoRemains == Spec => []FailLeavesNothing
<1>1. IInv => FailLeavesNothing
  BY DEF IInv, LocalInv
<1> QED
  BY TransferInvariant, <1>1, PTL

(* TypeOK: the owner's file, the serving thread, the connection and the    *)
(* downloading client keep their types; the size that was announced is a   *)
(* number of blocks.                                                       *)
THEOREM TransferTyped == Spec => []TypeOK
<1>1. IInv => TypeOK
  BY DEF IInv
<1> QED
  BY TransferInvariant, <1>1, PTL

=============================================================================
