-------------------------------- MODULE Stdio --------------------------------
(***************************************************************************)
(* What sink.hpp relies on of the C library: a FILE opened with "ab" keeps *)
(* bytes in a buffer of its own before it appends them to the file, and    *)
(* write(2) makes them visible to everybody while only fsync puts them on  *)
(* the disk.  The library is not part of the repository.                   *)
(*                                                                         *)
(* A byte is the record it belongs to, so a file, or a buffer, is a        *)
(* sequence of records with each record repeated once per byte.            *)
(***************************************************************************)
EXTENDS Naturals, Sequences

CONSTANT BufSiz   \* bytes a FILE holds back (4096, scaled down for TLC)

ASSUME StdioAssumption == BufSiz \in Nat

Bytes(m) == [i \in 1 .. m.len |-> m]

First(n, s) == SubSeq(s, 1, n)
From(n, s) == SubSeq(s, n + 1, Len(s))

(* How many bytes fwrite may hand over: none while all fit in the buffer,  *)
(* else a prefix that leaves no more than fit.  It ends anywhere, so a     *)
(* record may be split.                                                    *)
Spills(buf) == IF Len(buf) <= BufSiz THEN {0} ELSE Len(buf) - BufSiz .. Len(buf)

(* The bytes of record m stand in text, together and complete.             *)
Whole(m, text) ==
  \E i \in 0 .. Len(text) - m.len : \A j \in 1 .. m.len : text[i + j] = m
=============================================================================
