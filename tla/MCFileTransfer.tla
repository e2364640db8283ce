---------------------------- MODULE MCFileTransfer ----------------------------
(* Instances of the download for TLC. *)
EXTENDS FileTransfer

(* A file of five units, then of four, then of three; an old copy of one.  *)
Versions == <<5, 4, 3>>
OldCopy == <<2>>

=============================================================================
