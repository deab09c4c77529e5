--------------------------- MODULE FileSinkProofs ---------------------------
(***************************************************************************)
(* Theorems about FileSink: what is kept over exits, kills and power       *)
(* failures, for any threads, lengths, buffer sizes and numbers of calls.  *)
(***************************************************************************)
EXTENDS FileSink, SequenceTheorems, TLAPS

-----------------------------------------------------------------------------
(* Whole records in sequences of bytes.                                    *)

(* What stands in a file still does when more is appended.                 *)
LEMMA WholeAppend ==
  ASSUME NEW m \in Record, NEW s \in Seq(Record), NEW t \in Seq(Record), Whole(m, s)
  PROVE  Whole(m, s \o t)
<1>1. m.len \in Nat
  BY FileSinkAssumption DEF Record
<1>2. PICK i \in 0 .. Len(s) - m.len : \A j \in 1 .. m.len : s[i + j] = m
  BY DEF Whole
<1>3. i \in 0 .. Len(s \o t) - m.len
  BY <1>1, <1>2
<1>4. ASSUME NEW j \in 1 .. m.len
      PROVE  (s \o t)[i + j] = m
  <2>1. i + j \in 1 .. Len(s)
    BY <1>1, <1>2
  <2> QED
    BY <1>2, <2>1
<1> QED
  BY <1>3, <1>4 DEF Whole

(* A record that is appended whole stands there whole.                     *)
LEMMA WholeAtEnd ==
  ASSUME NEW m \in Record, NEW s \in Seq(Record)
  PROVE  Bytes(m) \in Seq(Record) /\ Whole(m, s \o Bytes(m))
<1>1. m.len \in Nat
  BY FileSinkAssumption DEF Record
<1>2. Bytes(m) \in Seq(Record) /\ Len(Bytes(m)) = m.len
  BY <1>1 DEF Bytes
<1>3. Len(s) \in 0 .. Len(s \o Bytes(m)) - m.len
  BY <1>1, <1>2
<1>4. ASSUME NEW j \in 1 .. m.len
      PROVE  (s \o Bytes(m))[Len(s) + j] = m
  BY <1>1, <1>2 DEF Bytes
<1> QED
  BY <1>2, <1>3, <1>4 DEF Whole

(* A sequence that is cut is not changed by it.                            *)
LEMMA Cut ==
  ASSUME NEW s \in Seq(Record), NEW n \in 0 .. Len(s)
  PROVE  /\ First(n, s) \in Seq(Record) /\ Len(First(n, s)) = n
         /\ From(n, s) \in Seq(Record) /\ Len(From(n, s)) = Len(s) - n
         /\ First(n, s) \o From(n, s) = s
<1>1. First(n, s) \in Seq(Record) /\ Len(First(n, s)) = n
  BY DEF First
<1>2. From(n, s) \in Seq(Record) /\ Len(From(n, s)) = Len(s) - n
  BY DEF From
<1>3. First(n, s) \o From(n, s) = s
  <2>1. 1 \in 1 .. Len(s) + 1 /\ n \in 1 - 1 .. Len(s) /\ Len(s) \in n .. Len(s)
    OBVIOUS
  <2>2. SubSeq(s, 1, n) \o SubSeq(s, n + 1, Len(s)) = SubSeq(s, 1, Len(s))
    BY <2>1, ConcatAdjacentSubSeq, Zenon
  <2> QED
    BY <2>2, SubSeqFull DEF First, From
<1> QED
  BY <1>1, <1>2, <1>3

-----------------------------------------------------------------------------
(* The inductive invariant.                                                *)

Argument == [from : Callers, no : 0 .. MaxCalls, len : Lens \cup {0}]

(* Types, and what is behind a caller that has yet to flush.               *)
Types ==
  /\ TypeOK
  /\ arg \in [Callers -> Argument]
  /\ \A c \in Callers : pc[c] = "flush" => arg[c] \in Record

(* A record that fwrite has taken stands in the file or the buffer until   *)
(* its Sink returns.                                                       *)
WrittenStands == \A c \in Callers : pc[c] = "flush" => Whole(arg[c], text \o buf)

IInv == Types /\ WrittenStands /\ CleanRunKeepsAll /\ FlushedSurvives

LEMMA InitInv == Init => IInv
<1> SUFFICES ASSUME Init PROVE IInv
  OBVIOUS
<1>1. FlushModes \subseteq Nat /\ MaxCalls \in Nat /\ MaxRuns \in Nat /\ BufSiz \in Nat
  BY FileSinkAssumption, StdioAssumption
<1>2. TypeOK
  BY <1>1 DEF Init, TypeOK
<1>3. Types
  BY <1>1, <1>2 DEF Init, Types, Argument
<1> QED
  BY <1>3 DEF Init, IInv, WrittenStands, CleanRunKeepsAll, FlushedSurvives

(* No call is under way any more and nothing new has returned; besides,    *)
(* a process that dies leaves the file as it is.                            *)
LEMMA DieInv ==
  ASSUME IInv, Die, UNCHANGED file, lost' = lost \cup {"process"},
         arg' \in [Callers -> Argument],
         \A c \in Callers :
           arg'[c] \in Record \/ arg'[c] = [from |-> c, no |-> 0, len |-> 0]
  PROVE  IInv'
<1> USE DEF IInv, file
<1>1. TypeOK'
  BY StdioAssumption DEF Die, Types, TypeOK
<1>2. Types'
  BY <1>1 DEF Die, Types
<1>3. WrittenStands' /\ CleanRunKeepsAll'
  BY DEF Die, WrittenStands, CleanRunKeepsAll
<1>4. FlushedSurvives'
  BY DEF Die, FlushedSurvives
<1> QED
  BY <1>2, <1>3, <1>4

LEMMA WriteInv ==
  ASSUME IInv, NEW c \in Callers, NEW len \in Lens, Write(c, len)
  PROVE  IInv'
<1> USE DEF IInv
<1> DEFINE m == arg'[c]
           all == buf \o Bytes(m)
<1>1. m = [from |-> c, no |-> arg[c].no + 1, len |-> len]
  BY DEF Write, Call, Types
<1>2. m \in Record /\ arg' = [arg EXCEPT ![c] = m]
  <2>1. arg[c].no \in 0 .. MaxCalls /\ arg[c].no < MaxCalls
    BY DEF Write, Call, Types, Argument
  <2>2. MaxCalls \in Nat
    BY FileSinkAssumption
  <2>3. m \in Record
    BY <1>1, <2>1, <2>2 DEF Record
  <2> QED
    BY <1>1, <2>3 DEF Write, Call, Types
<1>3. arg' \in [Callers -> Argument]
  BY <1>2 DEF Types, Argument, Record
<1> HIDE DEF m
<1>4. text \in Seq(Record) /\ buf \in Seq(Record) /\ Len(buf) <= BufSiz /\ BufSiz \in Nat
  BY StdioAssumption DEF Types, TypeOK
<1>5. Bytes(m) \in Seq(Record) /\ all \in Seq(Record)
  BY <1>2, <1>4, WholeAtEnd
<1>6. PICK n \in Spills(all) : text' = text \o First(n, all) /\ buf' = From(n, all)
  BY DEF Write, m
<1> HIDE DEF all
<1>7. n \in 0 .. Len(all) /\ Len(all) - n <= BufSiz
  BY <1>4, <1>5 DEF Spills
<1>8. /\ First(n, all) \in Seq(Record)
      /\ buf' \in Seq(Record) /\ Len(buf') <= BufSiz
      /\ First(n, all) \o From(n, all) = all
  BY <1>5, <1>6, <1>7, Cut
<1>9. text' \in Seq(Record) /\ Len(text) <= Len(text')
  BY <1>4, <1>6, <1>8
<1>10. text' \o buf' = (text \o buf) \o Bytes(m)
  <2>1. text' \o buf' = text \o (First(n, all) \o From(n, all))
    <3> DEFINE one == First(n, all)
               two == From(n, all)
    <3>1. text' \o buf' = (text \o First(n, all)) \o From(n, all)
      BY <1>6
    <3>2. From(n, all) \in Seq(Record)
      BY <1>6, <1>8
    <3> QED
      <4>1. one \in Seq(Record) /\ two \in Seq(Record) /\ text \in Seq(Record)
        BY <1>4, <1>8, <3>2
      <4> HIDE DEF one, two
      <4>2. (text \o one) \o two = text \o (one \o two)
        BY <4>1, ConcatAssociative
      <4> QED
        BY <3>1, <4>2 DEF one, two
  <2>2. text \o all = (text \o buf) \o Bytes(m)
    BY <1>4, <1>5, ConcatAssociative DEF all
  <2> QED
    BY <1>8, <2>1, <2>2
<1>11. text \o buf \in Seq(Record)
  BY <1>4
<1>12. Types'
  <2>1. TypeOK'
    BY <1>2, <1>8, <1>9 DEF Write, Types, TypeOK
  <2> QED
    BY <1>2, <1>3, <2>1 DEF Write, Types
<1>13. WrittenStands'
  <2> SUFFICES ASSUME NEW d \in Callers, pc'[d] = "flush"
               PROVE  Whole(arg'[d], text' \o buf')
    BY DEF WrittenStands
  <2>1. CASE d = c
    BY <1>2, <1>10, <1>11, <2>1, WholeAtEnd DEF m
  <2>2. CASE d # c
    <3>1. pc[d] = "flush" /\ arg'[d] = arg[d]
      BY <1>2, <2>2 DEF Write, Types, TypeOK
    <3>2. arg[d] \in Record /\ Whole(arg[d], text \o buf)
      BY <3>1 DEF Types, WrittenStands
    <3> QED
      BY <1>5, <1>10, <1>11, <3>1, <3>2, WholeAppend
  <2> QED
    BY <2>1, <2>2
<1>14. CleanRunKeepsAll'
  <2> SUFFICES ASSUME lost = {}, NEW r \in returned
               PROVE  Whole(r, text' \o buf')
    BY DEF CleanRunKeepsAll, Write
  <2>1. r \in Record /\ Whole(r, text \o buf)
    BY DEF CleanRunKeepsAll, Types, TypeOK
  <2> QED
    BY <1>5, <1>10, <1>11, <2>1, WholeAppend
<1>15. FlushedSurvives'
  <2> SUFFICES ASSUME flush_log = 1, "power" \notin lost, NEW r \in returned
               PROVE  Whole(r, text')
    BY DEF FlushedSurvives, Write
  <2>1. r \in Record /\ Whole(r, text)
    BY DEF FlushedSurvives, Types, TypeOK
  <2> QED
    BY <1>4, <1>6, <1>8, <2>1, WholeAppend
<1> QED
  BY <1>12, <1>13, <1>14, <1>15

LEMMA FlushInv ==
  ASSUME IInv, NEW c \in Callers, Flush(c)
  PROVE  IInv'
<1> USE DEF IInv
<1>1. text \in Seq(Record) /\ buf \in Seq(Record)
  BY DEF Types, TypeOK
<1>2. text' \in Seq(Record) /\ buf' \in Seq(Record) /\ text' \o buf' = text \o buf
      /\ Len(text) <= Len(text') /\ Len(buf') <= Len(buf)
  BY <1>1 DEF Flush
<1>3. arg[c] \in Record /\ Whole(arg[c], text \o buf)
  BY DEF Flush, Types, WrittenStands
<1>4. Types'
  <2>1. disk' \in 0 .. Len(text')
    BY <1>1, <1>2 DEF Flush, Types, TypeOK
  <2>2. Len(buf') <= BufSiz
    BY <1>1, <1>2, StdioAssumption DEF Types, TypeOK
  <2>3. TypeOK'
    BY <1>2, <1>3, <2>1, <2>2 DEF Flush, Return, Types, TypeOK
  <2> QED
    BY <2>3 DEF Flush, Return, Types, TypeOK
<1>5. WrittenStands'
  BY <1>2 DEF Flush, Return, WrittenStands, Types, TypeOK
<1>6. CleanRunKeepsAll'
  BY <1>2, <1>3 DEF Flush, Return, CleanRunKeepsAll
<1>7. FlushedSurvives'
  <2> SUFFICES ASSUME flush_log = 1, "power" \notin lost, NEW r \in returned \cup {arg[c]}
               PROVE  Whole(r, text')
    BY DEF Flush, Return, FlushedSurvives
  <2>1. text' = text \o buf
    BY DEF Flush
  <2>2. CASE r = arg[c]
    BY <1>3, <2>1, <2>2
  <2>3. CASE r \in returned
    <3>1. r \in Record /\ Whole(r, text)
      BY <2>3 DEF FlushedSurvives, Types, TypeOK
    <3> QED
      BY <1>1, <2>1, <3>1, WholeAppend
  <2> QED
    BY <2>2, <2>3
<1> QED
  BY <1>4, <1>5, <1>6, <1>7

LEMMA ExitInv ==
  ASSUME IInv, Exit
  PROVE  IInv'
<1> USE DEF IInv
<1>1. text \in Seq(Record) /\ buf \in Seq(Record)
  BY DEF Types, TypeOK
<1>2. text' = text \o buf /\ text' \in Seq(Record) /\ text' \o buf' = text \o buf
      /\ Len(text) <= Len(text')
  BY <1>1 DEF Exit
<1>3. Types'
  <2>1. TypeOK'
    BY <1>1, <1>2, StdioAssumption DEF Exit, calls, Types, TypeOK
  <2> QED
    BY <2>1 DEF Exit, calls, Types
<1>4. WrittenStands'
  BY DEF Exit, calls, WrittenStands
<1>5. CleanRunKeepsAll'
  BY <1>2 DEF Exit, CleanRunKeepsAll
<1>6. FlushedSurvives'
  <2> SUFFICES ASSUME flush_log = 1, "power" \notin lost, NEW r \in returned
               PROVE  Whole(r, text')
    BY DEF Exit, FlushedSurvives
  <2>1. r \in Record /\ Whole(r, text)
    BY DEF FlushedSurvives, Types, TypeOK
  <2> QED
    BY <1>1, <1>2, <2>1, WholeAppend
<1> QED
  BY <1>3, <1>4, <1>5, <1>6

LEMMA PowerFailsInv ==
  ASSUME IInv, PowerFails
  PROVE  IInv'
<1> USE DEF IInv
<1>1. text' \in Seq(Record) /\ disk \in 0 .. Len(text')
  BY Cut DEF PowerFails, Types, TypeOK
<1>2. TypeOK'
  BY <1>1, StdioAssumption DEF PowerFails, Die, Types, TypeOK
<1>3. Types'
  BY <1>2 DEF PowerFails, Die, Types
<1>4. WrittenStands' /\ CleanRunKeepsAll' /\ FlushedSurvives'
  BY DEF PowerFails, Die, WrittenStands, CleanRunKeepsAll, FlushedSurvives
<1> QED
  BY <1>3, <1>4

LEMMA WriteNullInv ==
  ASSUME IInv, NEW c \in Callers, NEW len \in Lens, WriteNull(c, len)
  PROVE  IInv'
<1> USE DEF IInv
<1>1. arg'[c] = [from |-> c, no |-> arg[c].no + 1, len |-> len]
  BY DEF WriteNull, Call, Types
<1>2. arg[c].no \in 0 .. MaxCalls /\ arg[c].no < MaxCalls /\ MaxCalls \in Nat
  BY FileSinkAssumption DEF WriteNull, Call, Types, Argument
<1>3. arg'[c] \in Record /\ arg'[c] \in Argument
  BY <1>1, <1>2 DEF Record, Argument
<1>4. arg' = [arg EXCEPT ![c] = arg'[c]]
  BY DEF WriteNull, Call, Types
<1>5. arg' \in [Callers -> Argument]
  BY <1>3, <1>4 DEF Types
<1>6. \A d \in Callers : arg'[d] \in Record \/ arg'[d] = [from |-> d, no |-> 0, len |-> 0]
  BY <1>3, <1>4 DEF Types, TypeOK
<1> QED
  BY <1>5, <1>6, DieInv DEF WriteNull

LEMMA NextInv == IInv /\ [Next]_vars => IInv'
<1> SUFFICES ASSUME IInv, [Next]_vars PROVE IInv'
  OBVIOUS
<1>1. CASE Open
  <2>1. Types'
    BY <1>1, FileSinkAssumption DEF IInv, Types, TypeOK, Open, file, calls
  <2> QED
    BY <1>1, <2>1 DEF IInv, WrittenStands, CleanRunKeepsAll, FlushedSurvives, Open, file, calls
<1>2. CASE Writeback
  <2>1. Types'
    BY <1>2 DEF IInv, Types, TypeOK, Writeback, calls
  <2> QED
    BY <1>2, <2>1 DEF IInv, WrittenStands, CleanRunKeepsAll, FlushedSurvives, Writeback, calls
<1>3. CASE Killed
  <2>1. arg' \in [Callers -> Argument]
        /\ \A c \in Callers : arg'[c] \in Record \/ arg'[c] = [from |-> c, no |-> 0, len |-> 0]
    BY <1>3 DEF IInv, Types, TypeOK, Killed
  <2> QED
    BY <1>3, <2>1, DieInv DEF Killed
<1>4. CASE UNCHANGED vars
  BY <1>4 DEF vars, file, calls, IInv, Types, TypeOK, WrittenStands, CleanRunKeepsAll, FlushedSurvives
<1> QED
  BY <1>1, <1>2, <1>3, <1>4, WriteInv, FlushInv, ExitInv, PowerFailsInv, WriteNullInv
  DEF Next, Terminated

-----------------------------------------------------------------------------
LEMMA Invariance == Spec => []IInv
<1>1. Init => IInv
  BY InitInv
<1> QED
  BY <1>1, NextInv, PTL DEF Spec

(* Every variable keeps to the values the code gives it (sink.hpp:31-68);  *)
(* the disk never has more than the file, nor the buffer more than fits.   *)
THEOREM TypeCorrect == Spec => []TypeOK
<1>1. IInv => TypeOK
  BY DEF IInv, Types
<1> QED
  BY <1>1, Invariance, PTL

(* What Sink has returned from is not lost while no process is killed and  *)
(* no power fails: exits write it out, and a new process appends to it     *)
(* (sink.hpp:38-63).                                                       *)
THEOREM CleanRunLosesNothing == Spec => []CleanRunKeepsAll
<1>1. IInv => CleanRunKeepsAll
  BY DEF IInv
<1> QED
  BY <1>1, Invariance, PTL

(* With flush_log 1 a kill at any step, even between another thread's      *)
(* fwrite and its fflush, loses nothing Sink has returned from             *)
(* (sink.hpp:50-60).                                                       *)
THEOREM FlushedAlwaysSurvives == Spec => []FlushedSurvives
<1>1. IInv => FlushedSurvives
  BY DEF IInv
<1> QED
  BY <1>1, Invariance, PTL
=============================================================================
