----------------------------- MODULE FileTransfer -----------------------------
(***************************************************************************)
(* One download between two clients: handle_file_transfer on a thread of   *)
(* the owner, the second half of getfile on the main thread of the other,  *)
(* the connection between them, and the owner's main thread, which may     *)
(* meanwhile delete, publish or download the very file that is served.     *)
(*                                                                         *)
(* A file is a sequence of units.  An open file that is unlinked keeps its *)
(* content; one that is written in place changes under its reader.         *)
(***************************************************************************)
EXTENDS Integers, Sequences

CONSTANTS
  Length,      \* the lengths of the versions the owner writes, a sequence
  Before,      \* the receiver's file of that name, or Absent
  Block,       \* units that one read, send or recv moves at most (4096 bytes)
  Capacity,    \* units in flight
  Faults,      \* "partial" sends, a connection "cut" or "vanished", "write" errors
  Absent

Units == 1..Len(Length)
Contents == Seq(Units)

ASSUME FileTransferAssumption ==
  /\ Length \in Seq(Nat) /\ Len(Length) > 0
  /\ Block \in Nat \ {0} /\ Capacity \in Nat /\ Capacity >= Block
  /\ Absent \notin Contents /\ Absent \notin Nat
  /\ Before = Absent \/ Before \in Contents

VARIABLES
  file,       \* the owner's file
  version,    \* the version the owner wrote last
  owner,      \* its main thread: "idle", or in the middle of "writing" it
  sender,     \* where handle_file_transfer is
  source,     \* its open file: none, the file "shared" with the directory, or
  unlinked,   \*   "unlinked", with this content
  pos,        \* how far it has read
  chunk,      \* data, read and not sent
  code,       \* the response on the wire
  announced,  \* the size on the wire
  stream,     \* the units put on the wire
  receiver,   \* where getfile is
  size,       \* file_size
  got,        \* bytes_received
  local,      \* the receiver's file
  result,     \* what getfile printed
  original,   \* history: the file when it was measured
  touched     \* history: it was written after that, where the sender reads

ownervars == <<file, version, owner>>
sendervars == <<sender, source, unlinked, pos, chunk>>
wire == <<code, announced, stream>>
receivervars == <<receiver, size, got, local, result>>
history == <<original, touched>>
vars == <<ownervars, sendervars, wire, receivervars, history>>

Content(v) == [i \in 1..Length[v] |-> v]

Init ==
  /\ version = 1 /\ owner = "idle"
  /\ file \in {Absent, Content(1)}
  /\ sender = "request" /\ source = "none" /\ unlinked = <<>>
  /\ pos = 0 /\ chunk = <<>>
  /\ code = Absent /\ announced = Absent /\ stream = <<>>
  /\ receiver = "code" /\ size = 0 /\ got = 0 /\ local = Before /\ result = "none"
  /\ original = Absent /\ touched = FALSE

----------------------------------------------------------------------------
(* handle_file_transfer. *)

(* An exception or the end: the file and the connection are closed. *)
Close ==
  /\ sender' = "closed" /\ source' = "none" /\ chunk' = <<>>
  /\ UNCHANGED <<unlinked, pos>>

(* The request has been read: os.path.isfile. *)
CheckFile ==
  /\ sender = "request"
  /\ \/ file = Absent /\ code' = 1 /\ Close
     \/ /\ file # Absent /\ code' = 0 /\ sender' = "size"
        /\ UNCHANGED <<source, unlinked, pos, chunk>>
  /\ UNCHANGED <<ownervars, announced, stream, receivervars, history>>

(* os.path.getsize, which raises when the file is gone. *)
SendSize ==
  /\ sender = "size"
  /\ \/ file = Absent /\ Close /\ UNCHANGED <<announced, original>>
     \/ /\ file # Absent /\ sender' = "open"
        /\ announced' = Len(file) /\ original' = file
        /\ UNCHANGED <<source, unlinked, pos, chunk>>
  /\ UNCHANGED <<ownervars, code, stream, receivervars, touched>>

OpenFile ==
  /\ sender = "open"
  /\ \/ file = Absent /\ Close
     \/ /\ file # Absent /\ sender' = "read" /\ source' = "shared"
        /\ UNCHANGED <<unlinked, pos, chunk>>
  /\ UNCHANGED <<ownervars, wire, receivervars, history>>

Readable == IF source = "shared" THEN file ELSE unlinked

Least(m, n) == IF m <= n THEN m ELSE n

(* f.read(4096): what is there, and nothing past the end. *)
ReadFile ==
  /\ sender = "read"
  /\ \/ pos >= Len(Readable) /\ Close
     \/ /\ pos < Len(Readable) /\ sender' = "send"
        /\ LET next == Least(pos + Block, Len(Readable))
           IN  chunk' = SubSeq(Readable, pos + 1, next) /\ pos' = next
        /\ UNCHANGED <<source, unlinked>>
  /\ UNCHANGED <<ownervars, wire, receivervars, history>>

(* send may take less than it is given, and nobody looks.  It fails once   *)
(* the receiver has closed.                                                *)
SendChunk ==
  /\ sender = "send"
  /\ \/ receiver = "done" /\ Close /\ UNCHANGED stream
     \/ /\ receiver # "done"
        /\ Len(stream) - got + Len(chunk) <= Capacity
        /\ \E n \in 1..Len(chunk) :
             /\ n = Len(chunk) \/ "partial" \in Faults
             /\ stream' = stream \o SubSeq(chunk, 1, n)
        /\ sender' = "read" /\ chunk' = <<>>
        /\ UNCHANGED <<source, unlinked, pos>>
  /\ UNCHANGED <<ownervars, code, announced, receivervars, history>>

----------------------------------------------------------------------------
(* getfile, from its request to the owner. *)

Return(r) == receiver' = "done" /\ result' = r

(* The owner has closed, and nothing more will arrive. *)
Eof == sender = "closed"

ReceiveCode ==
  /\ receiver = "code"
  /\ \/ code = 0 /\ receiver' = "size" /\ UNCHANGED result
     \/ code = 1 /\ Return("FILE NOT EXIST")
     \/ code = Absent /\ Eof /\ Return("FAIL")
  /\ UNCHANGED <<ownervars, sendervars, wire, size, got, local, history>>

(* receive_string takes the end of the stream for the end of the string:   *)
(* digits that were cut off are not missed, an empty string is no int.     *)
ReceiveSize ==
  /\ receiver = "size"
  /\ \/ /\ announced # Absent
        /\ size' = announced /\ receiver' = "open" /\ UNCHANGED result
     \/ announced = Absent /\ Eof /\ Return("FAIL") /\ UNCHANGED size
     \/ /\ announced = Absent /\ Eof /\ original # Absent
        /\ size' \in 1..(Len(original) - 1) /\ receiver' = "open" /\ UNCHANGED result
  /\ UNCHANGED <<ownervars, sendervars, wire, got, local, history>>

(* A write error: what is there of the file is removed, an old copy that   *)
(* cannot be opened included.  The directory is taken to be writable.      *)
Discard == local' = Absent /\ Return("FAIL") /\ UNCHANGED <<size, got>>

OpenLocal ==
  /\ receiver = "open"
  /\ \/ local' = <<>> /\ receiver' = "loop" /\ UNCHANGED <<size, got, result>>
     \/ "write" \in Faults /\ Discard
  /\ UNCHANGED <<ownervars, sendervars, wire, history>>

(* A full block is counted, whatever recv returned. *)
FaultyReceive ==
  /\ receiver = "loop" /\ got < size /\ got < Len(stream)
  /\ \E n \in 1..Least(Block, Least(size, Len(stream)) - got) :
       local' = local \o SubSeq(stream, got + 1, got + n)
  /\ got' = Least(got + Block, size)
  /\ UNCHANGED <<ownervars, sendervars, wire, receiver, size, result, history>>

Receive ==
  /\ receiver = "loop" /\ got < size /\ got < Len(stream)
  /\ \/ /\ \E n \in 1..Least(Block, Least(size, Len(stream)) - got) :
             /\ local' = local \o SubSeq(stream, got + 1, got + n)
             /\ got' = got + n
        /\ UNCHANGED <<receiver, size, result>>
     \/ "write" \in Faults /\ Discard
  /\ UNCHANGED <<ownervars, sendervars, wire, history>>

(* The file is kept although units are missing. *)
FaultyFinish ==
  /\ receiver = "loop"
  /\ got = size \/ (got = Len(stream) /\ Eof)
  /\ Return("OK") /\ UNCHANGED <<size, got, local>>
  /\ UNCHANGED <<ownervars, sendervars, wire, history>>

(* The file is left on disk when units are missing. *)
FaultyKeepPartial ==
  /\ receiver = "loop"
  /\ \/ got = size /\ Return("OK") /\ UNCHANGED <<size, got, local>>
     \/ got < size /\ got = Len(stream) /\ Eof /\ Return("FAIL")
        /\ UNCHANGED <<size, got, local>>
  /\ UNCHANGED <<ownervars, sendervars, wire, history>>

(* The end of the stream is not noticed. *)
FaultyFinishAll ==
  /\ receiver = "loop" /\ got = size
  /\ Return("OK") /\ UNCHANGED <<size, got, local>>
  /\ UNCHANGED <<ownervars, sendervars, wire, history>>

(* All units have arrived, or no more will. *)
Finish ==
  /\ receiver = "loop"
  /\ \/ got = size /\ Return("OK") /\ UNCHANGED <<size, got, local>>
     \/ got < size /\ got = Len(stream) /\ Eof /\ Discard
  /\ UNCHANGED <<ownervars, sendervars, wire, history>>

----------------------------------------------------------------------------
(* The owner's main thread. *)

(* The sender reads what is written now. *)
Touches == sender \in {"open", "read", "send"} /\ source # "unlinked"

Write(content) ==
  /\ file' = content
  /\ touched' = (touched \/ Touches)
  /\ UNCHANGED <<sendervars, wire, receivervars, original>>

(* publish of a file that is not there, or getfile over one that may be.   *)
(* Bound: each version is written once.                                    *)
BeginWrite ==
  /\ owner = "idle" /\ version < Len(Length)
  /\ version' = version + 1 /\ owner' = "writing"
  /\ Write(<<>>)

AppendUnit ==
  /\ owner = "writing" /\ Len(file) < Length[version]
  /\ Write(Append(file, version))
  /\ UNCHANGED <<version, owner>>

EndWrite ==
  /\ owner = "writing" /\ Len(file) = Length[version] /\ owner' = "idle"
  /\ UNCHANGED <<file, version, sendervars, wire, receivervars, history>>

(* delete, or a getfile that failed: os.remove. *)
RemoveFile ==
  /\ file # Absent
  /\ file' = Absent /\ owner' = "idle"
  /\ \/ source = "shared" /\ source' = "unlinked" /\ unlinked' = file
     \/ source # "shared" /\ UNCHANGED <<source, unlinked>>
  /\ UNCHANGED <<version, sender, pos, chunk, wire, receivervars, history>>

----------------------------------------------------------------------------
(* The network. *)

(* The connection breaks, or the owner's process ends: what the receiver   *)
(* has not read is lost from some point on.                                *)
Cut ==
  /\ "cut" \in Faults /\ sender \notin {"closed", "gone"} /\ Close
  /\ \/ /\ \E n \in got..Len(stream) : stream' = SubSeq(stream, 1, n)
        /\ UNCHANGED <<code, announced>>
     \/ /\ receiver \in {"code", "size"} /\ stream' = <<>> /\ announced' = Absent
        /\ UNCHANGED code \/ (receiver = "code" /\ code' = Absent)
  /\ UNCHANGED <<ownervars, receivervars, history>>

(* The owner's host disappears without a word. *)
Vanish ==
  /\ "vanished" \in Faults /\ sender \notin {"closed", "gone"}
  /\ sender' = "gone"
  /\ UNCHANGED <<ownervars, source, unlinked, pos, chunk, wire, receivervars, history>>

handle_file_transfer == CheckFile \/ SendSize \/ OpenFile \/ ReadFile \/ SendChunk

getfile == ReceiveCode \/ ReceiveSize \/ OpenLocal \/ Receive \/ Finish

Owner == BeginWrite \/ AppendUnit \/ EndWrite \/ RemoveFile

Next == handle_file_transfer \/ getfile \/ Owner \/ Cut \/ Vanish

Spec == Init /\ [][Next]_vars

----------------------------------------------------------------------------
OwnerOK ==
  /\ file = Absent \/ file \in Contents
  /\ version \in Units /\ owner \in {"idle", "writing"}
  /\ owner = "writing" => file # Absent

SenderOK ==
  /\ sender \in {"request", "size", "open", "read", "send", "closed", "gone"}
  /\ source \in {"none", "shared", "unlinked"} /\ unlinked \in Contents
  /\ pos \in Nat /\ chunk \in Contents

WireOK ==
  /\ code \in {0, 1, Absent} /\ announced \in Nat \cup {Absent}
  /\ stream \in Contents

ReceiverOK ==
  /\ receiver \in {"code", "size", "open", "loop", "done"}
  /\ size \in Nat /\ got \in Nat /\ got <= Len(stream)
  /\ local = Absent \/ local \in Contents
  /\ result \in {"none", "OK", "FAIL", "FILE NOT EXIST"}

HistoryOK ==
  /\ original = Absent \/ original \in Contents
  /\ touched \in BOOLEAN

(* The type invariant.  The receiver never counts more than was sent, and  *)
(* a file that is being written is there.                                  *)
TypeOK == OwnerOK /\ SenderOK /\ WireOK /\ ReceiverOK /\ HistoryOK

(* A download reported OK is the file as it was when it was measured,      *)
(* unless somebody wrote that file in place meanwhile: a delete, a partial *)
(* send, a broken connection never pass for the file.                      *)
KeptIsWhole == result = "OK" /\ ~touched => local = original

(* A download that failed leaves no part of the file: nothing, or what was *)
(* there before.                                                           *)
FailLeavesNothing == result = "FAIL" => local \in {Absent, Before}

FairSpec == Spec /\ WF_vars(handle_file_transfer) /\ WF_vars(getfile)

(* getfile returns, whatever the owner does to the file meanwhile and      *)
(* whether or not the connection holds.  Only a host that is gone without  *)
(* a word keeps it, as recv has no timeout.                                *)
Returns == <>(receiver = "done" \/ sender = "gone")

=============================================================================
