------------------------------- MODULE Buffer -------------------------------
(***************************************************************************)
(* The growable byte buffer of buffer.hpp, as operators on a record:       *)
(*                                                                         *)
(*   size   buffer_.size(), the bytes the vector owns                      *)
(*   w, r   write_pos_ and read_pos_                                       *)
(*   data   the records whose bytes lie between r and w, oldest first      *)
(*                                                                         *)
(* The bytes are abstracted to the records they spell.  A record of no     *)
(* bytes leaves no trace in data, as it leaves none in the vector.         *)
(*                                                                         *)
(* conf is what the buffer reads of *g_conf_data: the fields threshold     *)
(* and linear_growth.                                                      *)
(***************************************************************************)
EXTENDS Integers, Sequences

CONSTANTS
  IntMod,   \* 2^32, the number of values of an int (scaled down for TLC)
  SizeMod,  \* 2^64, the number of values of a size_t (scaled down for TLC)
  MaxVec    \* the largest vector resize() delivers before it throws

ASSUME BufferAssumption ==
  /\ IntMod \in Nat /\ IntMod >= 2
  /\ SizeMod \in Nat
  /\ MaxVec \in Nat /\ MaxVec + IntMod <= SizeMod

Conf == [threshold : Nat, linear_growth : Nat]

(* Conversions between the widths: size_t -> int keeps the low bits and    *)
(* reads them as two's complement, int -> size_t adds 2^64 to a negative.  *)
AsSize(i) == i % SizeMod
AsInt(n) ==
  LET low == n % IntMod
  IN  IF 2 * low >= IntMod THEN low - IntMod ELSE low

NewBuffer == [size |-> 0, w |-> 0, r |-> 0, data |-> <<>>]

WriteableSize(b) == AsSize(b.size - b.w)
IsEmpty(b) == b.w = b.r

(* Slips for the runs to find: the step replaces the size instead of adding *)
(* to it; the comparison with threshold is turned around.                  *)
GrownByStep(conf, size) ==
  IF size < conf.threshold THEN AsSize(2 * size + AsSize(AsInt(size)))
  ELSE conf.linear_growth
GrownSwapped(conf, size) ==
  IF size >= conf.threshold THEN AsSize(2 * size + AsSize(AsInt(size)))
  ELSE AsSize(conf.linear_growth + AsSize(AsInt(size)))

(* The argument of resize() in ToBeEnough.  buffersize is an int holding   *)
(* buffer_.size(), so the sum is taken after a narrowing and a widening.   *)
GrownSize(conf, size) ==
  IF size < conf.threshold
  THEN AsSize(2 * size + AsSize(AsInt(size)))
  ELSE AsSize(conf.linear_growth + AsSize(AsInt(size)))

(* ToBeEnough grows when len >= WriteableSize, and grows once.             *)
NeedsRoom(b, len) == len >= WriteableSize(b)
ToBeEnough(conf, b, len) ==
  IF NeedsRoom(b, len) THEN [b EXCEPT !.size = GrownSize(conf, b.size)] ELSE b

(* A slip for the runs to find: resize() is expected never to throw.       *)
GrowthNeverThrows(conf, b, len) == FALSE

(* resize() throws std::length_error or std::bad_alloc, changing nothing.  *)
GrowthThrows(conf, b, len) ==
  NeedsRoom(b, len) /\ GrownSize(conf, b.size) > MaxVec

(* The copy of len bytes to write_pos_ stays inside the vector.            *)
Fits(b, len) == b.w + len <= b.size

PushRecord(conf, b, m, len) ==
  LET grown == ToBeEnough(conf, b, len)
  IN  [grown EXCEPT !.w = @ + len,
                    !.data = IF len = 0 THEN @ ELSE Append(@, m)]

(* A slip for the runs to find: only read_pos_ is rewound.                 *)
ResetReadOnly(b) == [b EXCEPT !.r = 0]

Reset(b) == [b EXCEPT !.w = 0, !.r = 0, !.data = <<>>]
=============================================================================
