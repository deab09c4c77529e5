------------------------- MODULE AsyncLooperProofs -------------------------
(***************************************************************************)
(* Proofs about AsyncLooper, for any number of threads, records, lengths   *)
(* and configurations, and for every width of int and size_t.              *)
(***************************************************************************)
EXTENDS AsyncLooper, SequenceTheorems, TLAPS

-----------------------------------------------------------------------------
(* What the conversions of Buffer and the growth of the vector compute,    *)
(* for every width of int and size_t.                                      *)

LEMMA ModRange ==
  ASSUME NEW i \in Int, NEW m \in Nat, m > 0
  PROVE  i % m \in 0 .. m - 1
OBVIOUS

LEMMA ModSmall ==
  ASSUME NEW m \in Nat, NEW i \in 0 .. m - 1
  PROVE  i % m = i
OBVIOUS

LEMMA ModNegative ==
  ASSUME NEW m \in Nat, NEW i \in Int, i < 0, 0 <= i + m
  PROVE  i % m = i + m
OBVIOUS

LEMMA ModWrap ==
  ASSUME NEW m \in Nat, NEW i \in Int, m <= i, i < m + m
  PROVE  i % m = i - m
OBVIOUS

-----------------------------------------------------------------------------
(* The conversions between int and size_t.                                 *)

LEMMA AsSizeRange ==
  ASSUME NEW i \in Int
  PROVE  AsSize(i) \in 0 .. SizeMod - 1
BY ModRange, BufferAssumption DEF AsSize

LEMMA AsSizeIdentity ==
  ASSUME NEW i \in 0 .. SizeMod - 1
  PROVE  AsSize(i) = i
BY ModSmall, BufferAssumption DEF AsSize

LEMMA AsSizeOfNegative ==
  ASSUME NEW i \in Int, i < 0, 0 <= i + SizeMod
  PROVE  AsSize(i) = i + SizeMod
BY ModNegative, BufferAssumption DEF AsSize

LEMMA AsSizeWraps ==
  ASSUME NEW i \in Int, SizeMod <= i, i < SizeMod + SizeMod
  PROVE  AsSize(i) = i - SizeMod
BY ModWrap, BufferAssumption DEF AsSize

LEMMA AsIntType ==
  ASSUME NEW n \in Nat
  PROVE  AsInt(n) \in Int
BY ModRange, BufferAssumption DEF AsInt

(* An int holds a size below 2^31, and reads the next 2^31 as negative.    *)
LEMMA AsIntKeeps ==
  ASSUME NEW n \in Nat, 2 * n < IntMod
  PROVE  AsInt(n) = n
BY ModSmall, BufferAssumption DEF AsInt

LEMMA AsIntNarrows ==
  ASSUME NEW n \in Nat, IntMod <= 2 * n, n < IntMod
  PROVE  AsInt(n) = n - IntMod
BY ModSmall, BufferAssumption DEF AsInt

-----------------------------------------------------------------------------
(* The growth.                                                             *)

LEMMA GrownSizeRange ==
  ASSUME NEW c \in Conf, NEW size \in Nat
  PROVE  GrownSize(c, size) \in 0 .. SizeMod - 1
<1>1. c.threshold \in Nat /\ c.linear_growth \in Nat
  BY DEF Conf
<1>2. AsSize(AsInt(size)) \in Nat
  BY AsIntType, AsSizeRange
<1>3. /\ 2 * size + AsSize(AsInt(size)) \in Int
      /\ c.linear_growth + AsSize(AsInt(size)) \in Int
  BY <1>1, <1>2
<1> QED
  BY <1>3, AsSizeRange DEF GrownSize

(* Three times nothing is nothing.                                         *)
LEMMA EmptyStaysEmpty ==
  ASSUME NEW c \in Conf, c.threshold > 0
  PROVE  GrownSize(c, 0) = 0
<1>1. AsInt(0) = 0
  BY AsIntKeeps, BufferAssumption
<1>2. AsSize(0) = 0
  BY AsSizeIdentity, BufferAssumption
<1> QED
  BY <1>1, <1>2 DEF GrownSize, Conf

(* Below 2^31 the vector grows by linear_growth.                           *)
LEMMA GrownByLinearGrowth ==
  ASSUME NEW c \in Conf, c.threshold = 0,
         4 * c.linear_growth <= IntMod,
         NEW size \in Nat, 2 * size < IntMod
  PROVE  GrownSize(c, size) = size + c.linear_growth
<1>1. c.linear_growth \in Nat
  BY DEF Conf
<1>2. AsSize(AsInt(size)) = size
  BY AsIntKeeps, AsSizeIdentity, BufferAssumption
<1>3. AsSize(c.linear_growth + size) = c.linear_growth + size
  BY <1>1, AsSizeIdentity, BufferAssumption
<1> QED
  BY <1>1, <1>2, <1>3 DEF GrownSize

(* Just above it resize() is asked for nearly 2^64 bytes and throws.       *)
LEMMA GrowthPastIntThrows ==
  ASSUME NEW c \in Conf, c.threshold = 0,
         4 * c.linear_growth <= IntMod,
         NEW size \in Nat, IntMod <= 2 * size,
         2 * size < IntMod + 2 * c.linear_growth
  PROVE  GrownSize(c, size) > MaxVec
<1>1. c.linear_growth \in Nat
  BY DEF Conf
<1>2. AsInt(size) = size - IntMod
  BY <1>1, AsIntNarrows, BufferAssumption
<1>3. AsSize(AsInt(size)) = size - IntMod + SizeMod
  BY <1>1, <1>2, AsSizeOfNegative, BufferAssumption
<1> DEFINE sum == c.linear_growth + (size - IntMod + SizeMod)
<1>4. sum \in 0 .. SizeMod - 1 /\ sum > MaxVec
  BY <1>1, BufferAssumption
<1>5. AsSize(sum) = sum
  BY <1>4, AsSizeIdentity
<1> QED
  BY <1>1, <1>3, <1>4, <1>5 DEF GrownSize

-----------------------------------------------------------------------------
(* The parts of the invariant.                                             *)
(* A thread inside Push pushes a record of its own.                        *)
PushedRecord == \A p \in Producers : ppc[p] # "out" => arg[p] \in Record

(* Who may still use the looper: nobody before it is constructed, only the *)
(* holders of a Logger::ptr, and nobody once stop_ is set; the worker only *)
(* looks for the exit, and takes it, when stop_ is set.                    *)
OwnerInv ==
  /\ ~ready => refs = {}
  /\ \A p \in Producers : ppc[p] # "out" => p \in refs
  /\ stop => ready /\ refs = {}
  /\ wpc \in {"peek", "exited"} => stop

(* A buffer holds records exactly when it has bytes to read, the looper    *)
(* never reads from the middle of one, and buffer_consumer_ is empty       *)
(* outside the callback.                                                   *)
RecordsAreBytes(b) == b.r = 0 /\ (b.w = 0 <=> b.data = <<>>)
BufferInv ==
  /\ RecordsAreBytes(prod)
  /\ RecordsAreBytes(cons)
  /\ wpc \notin {"callback", "reset"} => cons.w = 0

(* Under linear growth a vector passes 2^31 bytes by less than one step:   *)
(* from there on ToBeEnough asks resize() for more than it delivers.       *)
NarrowSize(b) == 2 * b.size < IntMod + 2 * conf.linear_growth
NarrowInv ==
  GrowthIsNarrow /\ conf.threshold = 0 => NarrowSize(prod) /\ NarrowSize(cons)

-----------------------------------------------------------------------------
(* The operators of Buffer on typed buffers.                               *)

LEMMA LensAreNat ==
  ASSUME NEW m \in Record \cup {NoRecord}
  PROVE  m.len \in Nat /\ m.no \in Nat
<1>1. CASE m \in Record
  <2>1. m.len \in Lens /\ m.no \in 1 .. MaxPush
    BY <1>1 DEF Record
  <2>2. Lens \subseteq Nat /\ MaxPush \in Nat
    BY LooperAssumption
  <2>3. m.len \in Nat
    BY <2>1, <2>2, Zenon
  <2>4. \A n \in 1 .. MaxPush : n \in Nat
    BY <2>2
  <2> QED
    BY <2>1, <2>3, <2>4, Zenon
<1>2. CASE m = NoRecord
  BY <1>2 DEF NoRecord
<1> QED
  BY <1>1, <1>2

LEMMA EmptyBufferType == NewBuffer \in BufferType
BY EmptySeq, BufferAssumption DEF NewBuffer, BufferType

LEMMA ResetType ==
  ASSUME NEW b \in BufferType
  PROVE  /\ Reset(b) \in BufferType
         /\ Reset(b).size = b.size /\ Reset(b).w = 0 /\ Reset(b).r = 0
         /\ Reset(b).data = <<>>
BY EmptySeq DEF Reset, BufferType

(* ToBeEnough changes the size and nothing else.                           *)
LEMMA ToBeEnoughType ==
  ASSUME NEW b \in BufferType, NEW c \in Conf, NEW len \in Nat,
         ~GrowthThrows(c, b, len)
  PROVE  /\ ToBeEnough(c, b, len) \in BufferType
         /\ ToBeEnough(c, b, len).size =
              IF NeedsRoom(b, len) THEN GrownSize(c, b.size) ELSE b.size
         /\ ToBeEnough(c, b, len).w = b.w
         /\ ToBeEnough(c, b, len).r = b.r
         /\ ToBeEnough(c, b, len).data = b.data
<1>1. b.size \in Nat
  BY BufferAssumption DEF BufferType
<1>2. NeedsRoom(b, len) => GrownSize(c, b.size) \in 0 .. MaxVec
  BY <1>1, GrownSizeRange, BufferAssumption DEF GrowthThrows
<1> QED
  BY <1>2 DEF ToBeEnough, BufferType

LEMMA PushRecordType ==
  ASSUME NEW b \in BufferType, NEW c \in Conf, NEW m \in Record,
         ~GrowthThrows(c, b, m.len)
  PROVE  LET pushed == PushRecord(c, b, m, m.len)
         IN  /\ pushed \in BufferType
             /\ pushed.size = ToBeEnough(c, b, m.len).size
             /\ pushed.w = b.w + m.len
             /\ pushed.r = b.r
             /\ pushed.data = IF m.len = 0 THEN b.data ELSE Append(b.data, m)
<1>1. m.len \in Nat
  BY LensAreNat
<1> DEFINE grown == ToBeEnough(c, b, m.len)
           end == b.w + m.len
           data == IF m.len = 0 THEN b.data ELSE Append(b.data, m)
<1>2. /\ grown \in BufferType
      /\ grown.w = b.w /\ grown.r = b.r /\ grown.data = b.data
  BY <1>1, ToBeEnoughType
<1>3. end \in Nat /\ data \in Seq(Record)
  BY <1>1, AppendProperties DEF BufferType
<1>4. PushRecord(c, b, m, m.len) = [grown EXCEPT !.w = end, !.data = data]
  BY <1>2 DEF PushRecord
<1> HIDE DEF grown, end, data
<1>5. [grown EXCEPT !.w = end, !.data = data] \in BufferType
  BY <1>2, <1>3 DEF BufferType
<1>6. LET pushed == [grown EXCEPT !.w = end, !.data = data]
      IN  /\ pushed.size = grown.size /\ pushed.w = end
          /\ pushed.r = grown.r /\ pushed.data = data
  BY <1>2 DEF BufferType
<1> QED
  BY <1>2, <1>4, <1>5, <1>6 DEF grown, end, data

-----------------------------------------------------------------------------
(* Types.                                                                  *)

LEMMA TypeInit == Init => TypeOK /\ PushedRecord
<1> SUFFICES ASSUME Init PROVE TypeOK /\ PushedRecord
  OBVIOUS
<1>1. conf \in Conf /\ async_type \in {"ASYNC_SAFE", "ASYNC_UNSAFE"}
  BY LooperAssumption DEF Init
<1>2. prod \in BufferType /\ cons \in BufferType
  BY EmptyBufferType DEF Init
<1>3. accepted \in Seq(Record) /\ delivered \in Seq(Record)
  BY EmptySeq DEF Init
<1> QED
  BY <1>1, <1>2, <1>3 DEF Init, TypeOK, PushedRecord

LEMMA TypeStep == TypeOK /\ PushedRecord /\ [Next]_vars => TypeOK' /\ PushedRecord'
<1> SUFFICES ASSUME TypeOK, PushedRecord, [Next]_vars
             PROVE  TypeOK' /\ PushedRecord'
  OBVIOUS
<1> USE DEF setup, owners, shutdown, history
<1>1. CASE Construct
  BY <1>1 DEF Construct, TypeOK, PushedRecord
<1>2. ASSUME NEW p \in Producers, Acquire(p) PROVE TypeOK' /\ PushedRecord'
  BY <1>2 DEF Acquire, TypeOK, PushedRecord
<1>3. ASSUME NEW h \in Producers \cup {Registry}, Release(h)
      PROVE  TypeOK' /\ PushedRecord'
  BY <1>3 DEF Release, TypeOK, PushedRecord
<1>4. ASSUME NEW p \in Producers, NEW len \in Lens, Call(p, len)
      PROVE  TypeOK' /\ PushedRecord'
  <2>1. arg[p].no \in Nat
    BY LensAreNat DEF TypeOK
  <2>2. arg[p].no + 1 \in 1 .. MaxPush
    BY <1>4, <2>1, LooperAssumption DEF Call
  <2>3. [from |-> p, no |-> arg[p].no + 1, len |-> len] \in Record
    BY <2>2 DEF Record
  <2> QED
    BY <1>4, <2>3 DEF Call, TypeOK, PushedRecord
<1>5. ASSUME NEW p \in Producers, Lock(p) PROVE TypeOK' /\ PushedRecord'
  BY <1>5 DEF Lock, TypeOK, PushedRecord
<1>6. ASSUME NEW p \in Producers, Wait(p) PROVE TypeOK' /\ PushedRecord'
  BY <1>6 DEF Wait, TypeOK, PushedRecord
<1>7. ASSUME NEW p \in Producers, SpuriousWake(p) PROVE TypeOK' /\ PushedRecord'
  BY <1>7 DEF SpuriousWake, TypeOK, PushedRecord
<1>8. ASSUME NEW p \in Producers, PushWrites(p) PROVE TypeOK' /\ PushedRecord'
  <2>1. arg[p] \in Record
    BY <1>8 DEF PushWrites, PushedRecord
  <2>2. prod' \in BufferType
    BY <1>8, <2>1, PushRecordType DEF PushWrites, TypeOK
  <2>3. accepted' \in Seq(Record)
    BY <1>8, <2>1, AppendProperties DEF PushWrites, TypeOK
  <2> QED
    BY <1>8, <2>2, <2>3 DEF PushWrites, LeavePush, TypeOK, PushedRecord
<1>9. ASSUME NEW p \in Producers, PushThrows(p) PROVE TypeOK' /\ PushedRecord'
  BY <1>9 DEF PushThrows, LeavePush, TypeOK, PushedRecord
<1>10. ASSUME NEW p \in Producers, PushOverruns(p) PROVE TypeOK' /\ PushedRecord'
  BY <1>10 DEF PushOverruns, LeavePush, TypeOK, PushedRecord
<1>11. CASE WorkerLock
  BY <1>11 DEF WorkerLock, TypeOK, PushedRecord
<1>12. CASE SwapBuffers
  <2>1. \/ UNCHANGED ppc
        \/ \E p \in Producers : ppc[p] = "waiting" /\ ppc' = [ppc EXCEPT ![p] = "lock"]
    BY <1>12 DEF SwapBuffers, NotifyProducer
  <2> QED
    BY <1>12, <2>1 DEF SwapBuffers, TypeOK, PushedRecord
<1>13. CASE RunCallback
  <2>1. delivered' \in Seq(Record)
    BY <1>13, ConcatProperties DEF RunCallback, TypeOK, BufferType
  <2> QED
    BY <1>13, <2>1 DEF RunCallback, TypeOK, PushedRecord
<1>14. CASE CallbackMissing
  BY <1>14 DEF CallbackMissing, TypeOK, PushedRecord
<1>15. CASE ResetAndTest
  BY <1>15, ResetType DEF ResetAndTest, TypeOK, PushedRecord
<1>16. CASE Peek
  BY <1>16 DEF Peek, TypeOK, PushedRecord
<1>17. CASE BeginStop
  BY <1>17 DEF BeginStop, TypeOK, PushedRecord
<1>18. CASE Join
  BY <1>18 DEF Join, TypeOK, PushedRecord
<1>19. CASE UNCHANGED vars
  BY <1>19 DEF vars, TypeOK, PushedRecord
<1> QED
  BY <1>1, <1>2, <1>3, <1>4, <1>5, <1>6, <1>7, <1>8, <1>9, <1>10, <1>11, <1>12,
     <1>13, <1>14, <1>15, <1>16, <1>17, <1>18, <1>19
     DEF Next, Push, ThreadEntry, Terminated

(* The variables of AsyncLooper keep their types.                          *)
THEOREM TypeCorrect == Spec => [](TypeOK /\ PushedRecord)
BY TypeInit, TypeStep, PTL DEF Spec

-----------------------------------------------------------------------------
(* Owners.                                                                 *)

LEMMA OwnerInit == Init => OwnerInv
BY DEF Init, OwnerInv

LEMMA OwnerStep == TypeOK /\ OwnerInv /\ [Next]_vars => OwnerInv'
<1> SUFFICES ASSUME TypeOK, OwnerInv, [Next]_vars PROVE OwnerInv'
  OBVIOUS
<1> USE DEF setup, owners, shutdown, history
<1>1. CASE Construct
  BY <1>1 DEF Construct, OwnerInv
<1>2. ASSUME NEW p \in Producers, Acquire(p) PROVE OwnerInv'
  BY <1>2 DEF Acquire, OwnerInv
<1>3. ASSUME NEW h \in Producers \cup {Registry}, Release(h) PROVE OwnerInv'
  BY <1>3 DEF Release, OwnerInv
<1>4. ASSUME NEW p \in Producers, NEW len \in Lens, Call(p, len) PROVE OwnerInv'
  BY <1>4 DEF Call, OwnerInv, TypeOK
<1>5. ASSUME NEW p \in Producers, Lock(p) PROVE OwnerInv'
  BY <1>5 DEF Lock, OwnerInv, TypeOK
<1>6. ASSUME NEW p \in Producers, Wait(p) PROVE OwnerInv'
  BY <1>6 DEF Wait, OwnerInv, TypeOK
<1>7. ASSUME NEW p \in Producers, SpuriousWake(p) PROVE OwnerInv'
  BY <1>7 DEF SpuriousWake, OwnerInv, TypeOK
<1>8. ASSUME NEW p \in Producers, PushWrites(p) \/ PushThrows(p) \/ PushOverruns(p)
      PROVE  OwnerInv'
  BY <1>8 DEF PushWrites, PushThrows, PushOverruns, LeavePush, OwnerInv, TypeOK
<1>9. CASE SwapBuffers
  <2>1. \/ UNCHANGED ppc
        \/ \E p \in Producers : ppc[p] = "waiting" /\ ppc' = [ppc EXCEPT ![p] = "lock"]
    BY <1>9 DEF SwapBuffers, NotifyProducer
  <2> QED
    BY <1>9, <2>1 DEF SwapBuffers, OwnerInv, TypeOK
<1>10. CASE WorkerLock \/ RunCallback \/ CallbackMissing \/ ResetAndTest \/ Peek
  BY <1>10 DEF WorkerLock, RunCallback, CallbackMissing, ResetAndTest, Peek, OwnerInv
<1>11. CASE BeginStop \/ Join
  BY <1>11 DEF BeginStop, Join, OwnerInv
<1>12. CASE UNCHANGED vars
  BY <1>12 DEF vars, OwnerInv
<1> QED
  BY <1>1, <1>2, <1>3, <1>4, <1>5, <1>6, <1>7, <1>8, <1>9, <1>10, <1>11, <1>12
     DEF Next, Push, ThreadEntry, Terminated

THEOREM OwnersCorrect == Spec => []OwnerInv
<1>1. Init => OwnerInv
  BY OwnerInit
<1>2. TypeOK /\ OwnerInv /\ [Next]_vars => OwnerInv'
  BY OwnerStep
<1> QED
  BY <1>1, <1>2, TypeCorrect, PTL DEF Spec

(* The unlocked read of buffer_productor_ in the exit test of ThreadEntry  *)
(* meets no Push: stop_ is set by the destructor of the last owner only.   *)
THEOREM PeekIsUnraced == Spec => []PeekUnraced
<1>1. OwnerInv => PeekUnraced
  BY DEF OwnerInv, PeekUnraced
<1> QED
  BY <1>1, OwnersCorrect, PTL

-----------------------------------------------------------------------------
(* The contents of the two buffers.                                        *)

LEMMA BufferInit == Init => BufferInv
BY DEF Init, BufferInv, RecordsAreBytes, NewBuffer

LEMMA PushKeepsRecordsAreBytes ==
  ASSUME NEW p \in Producers, TypeOK, PushedRecord, PushWrites(p),
         RecordsAreBytes(prod)
  PROVE  RecordsAreBytes(prod)'
<1>1. arg[p] \in Record /\ arg[p].len \in Nat
  BY LensAreNat DEF PushWrites, PushedRecord
<1>2. /\ prod'.w = prod.w + arg[p].len
      /\ prod'.r = prod.r
      /\ prod'.data = IF arg[p].len = 0 THEN prod.data ELSE Append(prod.data, arg[p])
  BY <1>1, PushRecordType DEF PushWrites, TypeOK
<1>3. Append(prod.data, arg[p]) # <<>>
  BY <1>1, AppendProperties DEF TypeOK, BufferType
<1>4. prod.w \in Nat
  BY DEF TypeOK, BufferType
<1> QED
  BY <1>1, <1>2, <1>3, <1>4 DEF RecordsAreBytes

LEMMA BufferStep == TypeOK /\ PushedRecord /\ BufferInv /\ [Next]_vars => BufferInv'
<1> SUFFICES ASSUME TypeOK, PushedRecord, BufferInv, [Next]_vars PROVE BufferInv'
  OBVIOUS
<1> USE DEF setup, owners, shutdown, history, RecordsAreBytes
<1>1. ASSUME NEW p \in Producers, PushWrites(p) PROVE BufferInv'
  <2>1. RecordsAreBytes(prod)'
    BY <1>1, PushKeepsRecordsAreBytes DEF BufferInv
  <2> QED
    BY <1>1, <2>1 DEF PushWrites, LeavePush, BufferInv
<1>2. CASE SwapBuffers
  BY <1>2 DEF SwapBuffers, BufferInv
<1>3. CASE ResetAndTest
  BY <1>3, ResetType DEF ResetAndTest, BufferInv, TypeOK
<1>4. CASE WorkerLock \/ RunCallback \/ CallbackMissing \/ Peek
  BY <1>4 DEF WorkerLock, RunCallback, CallbackMissing, Peek, BufferInv
<1>5. CASE UNCHANGED <<prod, cons, wpc>>
  BY <1>5 DEF BufferInv
<1> QED
  BY <1>1, <1>2, <1>3, <1>4, <1>5
     DEF Next, Push, ThreadEntry, Terminated, vars, LeavePush, Construct, Acquire,
         Release, Call, Lock, Wait, SpuriousWake, PushThrows, PushOverruns, BeginStop,
         Join

THEOREM BuffersCorrect == Spec => []BufferInv
BY BufferInit, BufferStep, TypeCorrect, PTL DEF Spec

-----------------------------------------------------------------------------
(* Conservation.                                                           *)

LEMMA AppendConcat ==
  ASSUME NEW s \in Seq(Record), NEW t \in Seq(Record), NEW e \in Record
  PROVE  Append(s \o t, e) = s \o Append(t, e)
<1>1. <<e>> \in Seq(Record) /\ s \o t \in Seq(Record)
  BY ConcatProperties
<1>2. Append(s \o t, e) = (s \o t) \o <<e>> /\ Append(t, e) = t \o <<e>>
  BY <1>1, AppendIsConcat
<1> QED
  BY <1>1, <1>2, ConcatAssociative

LEMMA ConservationInit == Init => Conservation
<1>1. <<>> \in Seq(Record) /\ <<>> \o <<>> = <<>>
  BY EmptySeq, ConcatEmptySeq
<1> QED
  BY <1>1 DEF Init, Conservation, InFlight, NewBuffer

LEMMA ConservationStep ==
  /\ TypeOK /\ PushedRecord /\ BufferInv
  /\ Conservation /\ [Next]_vars
  => Conservation'
<1> SUFFICES ASSUME TypeOK, PushedRecord, BufferInv, Conservation, [Next]_vars
             PROVE  Conservation'
  OBVIOUS
<1> USE DEF setup, owners, shutdown, history
<1>1. /\ delivered \in Seq(Record) /\ prod.data \in Seq(Record)
      /\ cons.data \in Seq(Record) /\ InFlight \in Seq(Record)
  BY EmptySeq DEF TypeOK, BufferType, InFlight
<1>2. wpc \notin {"callback", "reset"} => cons.data = <<>>
  BY DEF BufferInv, RecordsAreBytes
<1>3. ASSUME NEW p \in Producers, PushWrites(p) PROVE Conservation'
  <2>1. arg[p] \in Record
    BY <1>3 DEF PushWrites, PushedRecord
  <2>2. prod'.data = IF arg[p].len = 0 THEN prod.data ELSE Append(prod.data, arg[p])
    BY <1>3, <2>1, PushRecordType DEF PushWrites, TypeOK
  <2>3. InFlight' = InFlight /\ delivered' = delivered
    BY <1>3 DEF PushWrites, LeavePush, InFlight
  <2>4. accepted' = IF arg[p].len = 0 THEN accepted ELSE Append(accepted, arg[p])
    BY <1>3 DEF PushWrites
  <2> DEFINE before == delivered \o InFlight
  <2>5. before \in Seq(Record)
    BY <1>1, ConcatProperties
  <2> HIDE DEF before
  <2>6. Append(before \o prod.data, arg[p]) = before \o Append(prod.data, arg[p])
    BY <1>1, <2>1, <2>5, AppendConcat
  <2> QED
    BY <2>2, <2>3, <2>4, <2>6 DEF Conservation, before
<1>4. CASE SwapBuffers
  <2>1. InFlight = <<>> /\ InFlight' = prod.data /\ prod'.data = <<>>
    BY <1>2, <1>4 DEF SwapBuffers, InFlight
  <2>2. delivered \o <<>> = delivered
    BY <1>1, ConcatEmptySeq
  <2>3. (delivered \o prod.data) \o <<>> = delivered \o prod.data
    BY <1>1, ConcatProperties, ConcatEmptySeq
  <2> QED
    BY <1>4, <2>1, <2>2, <2>3 DEF SwapBuffers, Conservation
<1>5. CASE RunCallback
  <2>1. InFlight = cons.data /\ InFlight' = <<>>
    BY <1>5 DEF RunCallback, InFlight
  <2>2. (delivered \o cons.data) \o <<>> = delivered \o cons.data
    BY <1>1, ConcatProperties, ConcatEmptySeq
  <2> QED
    BY <1>5, <2>1, <2>2 DEF RunCallback, Conservation
<1>6. CASE WorkerLock \/ ResetAndTest \/ Peek
  BY <1>6 DEF WorkerLock, ResetAndTest, Peek, Conservation, InFlight
<1>7. CASE UNCHANGED <<prod, cons, wpc, history>>
  BY <1>7 DEF Conservation, InFlight
<1> QED
  BY <1>3, <1>4, <1>5, <1>6, <1>7
     DEF Next, Push, ThreadEntry, Terminated, vars, LeavePush, Construct, Acquire,
         Release, Call, Lock, Wait, SpuriousWake, PushThrows, PushOverruns,
         CallbackMissing, BeginStop, Join

(* Nothing is lost, doubled or reordered between Push and the callback,    *)
(* whatever the number of threads, the configuration and the widths.       *)
THEOREM RecordsConserved == Spec => []Conservation
BY ConservationInit, ConservationStep, TypeCorrect, BuffersCorrect, PTL DEF Spec

-----------------------------------------------------------------------------
(* The sizes of the two vectors.                                           *)

(* What the steps that are about sizes need to know of the thread's record. *)
LEMMA PushFacts ==
  ASSUME TypeOK, PushedRecord, NEW p \in Producers, ppc[p] = "locked"
  PROVE  /\ arg[p] \in Record /\ arg[p].len \in Nat
         /\ conf \in Conf /\ conf.threshold \in Nat /\ conf.linear_growth \in Nat
         /\ prod \in BufferType /\ prod.size \in 0 .. MaxVec
         /\ prod.size \in Nat /\ prod.w \in Nat
<1>1. arg[p] \in Record
  BY DEF PushedRecord
<1>2. prod.size \in 0 .. MaxVec /\ prod.w \in Nat
  BY DEF TypeOK, BufferType
<1> QED
  BY <1>1, <1>2, LensAreNat, BufferAssumption DEF TypeOK, Conf

LEMMA StarvedInit == Init => StarvedByThreshold
BY DEF Init, StarvedByThreshold, NewBuffer

LEMMA StarvedStep ==
  /\ TypeOK /\ PushedRecord
  /\ StarvedByThreshold /\ [Next]_vars
  => StarvedByThreshold'
<1> SUFFICES ASSUME TypeOK, PushedRecord, StarvedByThreshold, [Next]_vars
             PROVE  StarvedByThreshold'
  OBVIOUS
<1> USE DEF setup, owners, shutdown, history
<1>1. ASSUME NEW p \in Producers, PushWrites(p) PROVE StarvedByThreshold'
  <2> SUFFICES ASSUME conf.threshold > 0
               PROVE  prod'.size = 0 /\ cons'.size = 0 /\ accepted' = <<>>
    BY <1>1 DEF PushWrites, LeavePush, StarvedByThreshold
  <2>1. ppc[p] = "locked" /\ ~GrowthThrows(conf, prod, arg[p].len)
    BY <1>1 DEF PushWrites
  <2>2. /\ arg[p] \in Record /\ arg[p].len \in Nat /\ conf \in Conf
        /\ prod \in BufferType /\ prod.w \in Nat
    BY <2>1, PushFacts
  <2>3. prod.size = 0 /\ cons.size = 0 /\ accepted = <<>>
    BY DEF StarvedByThreshold
  <2> DEFINE grown == ToBeEnough(conf, prod, arg[p].len)
  <2>4. grown.size = 0 /\ grown.w = prod.w
    BY <2>1, <2>2, <2>3, ToBeEnoughType, EmptyStaysEmpty
  <2>5. prod'.size = 0
    BY <1>1, <2>1, <2>2, <2>4, PushRecordType DEF PushWrites
  <2>6. arg[p].len = 0
    BY <1>1, <2>2, <2>4 DEF PushWrites, Fits
  <2> QED
    BY <1>1, <2>3, <2>5, <2>6 DEF PushWrites, LeavePush
<1>2. CASE SwapBuffers
  BY <1>2 DEF SwapBuffers, StarvedByThreshold
<1>3. CASE ResetAndTest
  BY <1>3, ResetType DEF ResetAndTest, StarvedByThreshold, TypeOK
<1>4. CASE UNCHANGED <<conf, prod, cons, accepted>>
  BY <1>4 DEF StarvedByThreshold
<1> QED
  BY <1>1, <1>2, <1>3, <1>4
     DEF Next, Push, ThreadEntry, Terminated, vars, LeavePush, Construct, Acquire,
         Release, Call, Lock, Wait, SpuriousWake, PushThrows, PushOverruns, WorkerLock,
         RunCallback, CallbackMissing, Peek, BeginStop, Join

(* With a threshold above zero no byte ever enters a buffer, whatever the  *)
(* AsyncType: ToBeEnough triples a vector that starts with nothing.        *)
THEOREM ThresholdStarves == Spec => []StarvedByThreshold
BY StarvedInit, StarvedStep, TypeCorrect, PTL DEF Spec

LEMMA NarrowInit == Init => NarrowInv
<1> SUFFICES ASSUME Init PROVE NarrowInv
  OBVIOUS
<1>1. conf.linear_growth \in Nat
  BY LooperAssumption DEF Init, Conf
<1> QED
  BY <1>1, BufferAssumption DEF Init, NarrowInv, NarrowSize, NewBuffer

LEMMA NarrowStep ==
  TypeOK /\ PushedRecord /\ NarrowInv /\ [Next]_vars => NarrowInv'
<1> SUFFICES ASSUME TypeOK, PushedRecord, NarrowInv, [Next]_vars PROVE NarrowInv'
  OBVIOUS
<1> USE DEF setup, owners, shutdown, history
<1>1. ASSUME NEW p \in Producers, PushWrites(p) PROVE NarrowInv'
  <2> SUFFICES ASSUME GrowthIsNarrow, conf.threshold = 0
               PROVE  NarrowSize(prod)' /\ NarrowSize(cons)'
    BY <1>1 DEF PushWrites, LeavePush, NarrowInv, GrowthIsNarrow
  <2>1. ppc[p] = "locked" /\ ~GrowthThrows(conf, prod, arg[p].len)
    BY <1>1 DEF PushWrites
  <2>2. /\ arg[p] \in Record /\ arg[p].len \in Nat /\ conf \in Conf
        /\ prod \in BufferType /\ prod.size \in Nat /\ conf.linear_growth \in Nat
    BY <2>1, PushFacts
  <2>3. 2 * prod.size < IntMod + 2 * conf.linear_growth
    BY DEF NarrowInv, NarrowSize
  <2>4. prod'.size = IF NeedsRoom(prod, arg[p].len)
                     THEN GrownSize(conf, prod.size) ELSE prod.size
    BY <1>1, <2>1, <2>2, PushRecordType, ToBeEnoughType DEF PushWrites
  <2>5. NeedsRoom(prod, arg[p].len) => 2 * prod.size < IntMod
    BY <2>1, <2>2, <2>3, GrowthPastIntThrows, BufferAssumption
       DEF GrowthThrows, GrowthIsNarrow
  <2>6. NeedsRoom(prod, arg[p].len) => prod'.size = prod.size + conf.linear_growth
    BY <2>2, <2>4, <2>5, GrownByLinearGrowth DEF GrowthIsNarrow
  <2>7. 2 * prod'.size < IntMod + 2 * conf.linear_growth
    BY <2>2, <2>3, <2>4, <2>5, <2>6, BufferAssumption
  <2> QED
    BY <1>1, <2>7 DEF PushWrites, LeavePush, NarrowInv, NarrowSize
<1>2. CASE SwapBuffers
  BY <1>2 DEF SwapBuffers, NarrowInv, NarrowSize, GrowthIsNarrow
<1>3. CASE ResetAndTest
  BY <1>3, ResetType
     DEF ResetAndTest, NarrowInv, NarrowSize, GrowthIsNarrow, TypeOK
<1>4. CASE UNCHANGED <<conf, prod, cons>>
  BY <1>4 DEF NarrowInv, NarrowSize, GrowthIsNarrow
<1> QED
  BY <1>1, <1>2, <1>3, <1>4
     DEF Next, Push, ThreadEntry, Terminated, vars, LeavePush, Construct, Acquire,
         Release, Call, Lock, Wait, SpuriousWake, PushThrows, PushOverruns, WorkerLock,
         RunCallback, CallbackMissing, Peek, BeginStop, Join

THEOREM SizesAreNarrow == Spec => []NarrowInv
BY NarrowInit, NarrowStep, TypeCorrect, PTL DEF Spec

-----------------------------------------------------------------------------
(* No overrun.                                                             *)

(* One growth makes room for the record of a thread that may write.        *)
LEMMA GrowthMakesRoom ==
  ASSUME TypeOK, PushedRecord, StarvedByThreshold, NarrowInv,
         GrowthIsNarrow, OneGrowthSuffices, prod.w <= prod.size,
         NEW p \in Producers, ppc[p] = "locked", MayWrite(p),
         ~GrowthThrows(conf, prod, arg[p].len)
  PROVE  Fits(ToBeEnough(conf, prod, arg[p].len), arg[p].len)
<1> DEFINE len == arg[p].len
           grown == ToBeEnough(conf, prod, len)
<1>1. /\ len \in Nat /\ len \in Lens
      /\ conf \in Conf /\ conf.threshold \in Nat /\ conf.linear_growth \in Nat
      /\ prod \in BufferType /\ prod.size \in 0 .. MaxVec
      /\ prod.size \in Nat /\ prod.w \in Nat
  <2>1. arg[p] \in Record
    BY PushFacts
  <2>2. len \in Lens
    BY <2>1 DEF Record
  <2> QED
    BY <2>2, PushFacts
<1>2. /\ grown.w = prod.w
      /\ grown.size = IF NeedsRoom(prod, len)
                      THEN GrownSize(conf, prod.size) ELSE prod.size
  BY <1>1, ToBeEnoughType
<1>3. WriteableSize(prod) = prod.size - prod.w
  BY <1>1, AsSizeIdentity, BufferAssumption DEF WriteableSize
<1>4. async_type = "ASYNC_SAFE" => len <= prod.size - prod.w
  BY <1>3 DEF MayWrite
<1> HIDE DEF grown
<1>5. CASE conf.threshold = 0
  <2>1. async_type = "ASYNC_SAFE" \/ len <= conf.linear_growth
    BY <1>1, <1>5 DEF OneGrowthSuffices
  <2>2. CASE NeedsRoom(prod, len)
    <3>1. 2 * prod.size < IntMod + 2 * conf.linear_growth
      BY <1>5 DEF NarrowInv, NarrowSize
    <3>2. 2 * prod.size < IntMod
      BY <1>1, <1>5, <2>2, <3>1, GrowthPastIntThrows, BufferAssumption
         DEF GrowthThrows, GrowthIsNarrow
    <3>3. grown.size = prod.size + conf.linear_growth
      BY <1>1, <1>2, <1>5, <2>2, <3>2, GrownByLinearGrowth DEF GrowthIsNarrow
    <3>4. prod.w + len <= prod.size + conf.linear_growth
      BY <1>1, <1>4, <2>1
    <3> QED
      BY <1>2, <3>3, <3>4 DEF Fits, grown
  <2>3. CASE ~NeedsRoom(prod, len)
    <3>1. len < prod.size - prod.w
      BY <1>1, <1>3, <2>3 DEF NeedsRoom
    <3> QED
      BY <1>1, <1>2, <2>3, <3>1 DEF Fits, grown
  <2> QED
    BY <2>2, <2>3
<1>6. CASE conf.threshold > 0
  <2>1. async_type = "ASYNC_SAFE"
    BY <1>1, <1>6 DEF OneGrowthSuffices
  <2>2. prod.size = 0 /\ prod.w = 0 /\ len = 0
    BY <1>1, <1>4, <1>6, <2>1 DEF StarvedByThreshold
  <2>3. grown.size = 0
    BY <1>1, <1>2, <1>6, <2>2, EmptyStaysEmpty
  <2> QED
    BY <1>2, <2>2, <2>3 DEF Fits, grown
<1> QED
  BY <1>1, <1>5, <1>6

LEMMA NoOverrunInit == Init => NoOverrun
BY DEF Init, NoOverrun, NewBuffer

LEMMA NoOverrunStep ==
  /\ TypeOK /\ PushedRecord /\ StarvedByThreshold /\ NarrowInv
  /\ NoOverrun /\ [Next]_vars
  => NoOverrun'
<1> SUFFICES ASSUME TypeOK, PushedRecord, StarvedByThreshold, NarrowInv,
                    NoOverrun, [Next]_vars,
                    (GrowthIsNarrow /\ OneGrowthSuffices)'
             PROVE  (fault # "overrun" /\ prod.w <= prod.size /\ cons.w <= cons.size)'
  BY DEF NoOverrun
<1> USE DEF setup, owners, shutdown, history
<1>1. UNCHANGED <<conf, async_type>>
  BY DEF Next, Push, ThreadEntry, Terminated, vars, LeavePush, Construct, Acquire,
         Release, Call, Lock, Wait, SpuriousWake, PushWrites, PushThrows, PushOverruns,
         WorkerLock, SwapBuffers, RunCallback, CallbackMissing, ResetAndTest, Peek,
         BeginStop, Join
<1>2. GrowthIsNarrow /\ OneGrowthSuffices
  BY <1>1 DEF GrowthIsNarrow, OneGrowthSuffices
<1>3. fault # "overrun" /\ prod.w <= prod.size /\ cons.w <= cons.size
  BY <1>2 DEF NoOverrun
<1>4. ASSUME NEW p \in Producers, PushOverruns(p) PROVE FALSE
  BY <1>2, <1>3, <1>4, GrowthMakesRoom DEF PushOverruns
<1>5. ASSUME NEW p \in Producers, PushWrites(p)
      PROVE  (fault # "overrun" /\ prod.w <= prod.size /\ cons.w <= cons.size)'
  <2>1. ppc[p] = "locked" /\ ~GrowthThrows(conf, prod, arg[p].len)
    BY <1>5 DEF PushWrites
  <2>2. /\ arg[p] \in Record /\ arg[p].len \in Nat /\ conf \in Conf
        /\ prod \in BufferType
    BY <2>1, PushFacts
  <2>3. /\ prod'.w = prod.w + arg[p].len
        /\ prod'.size = ToBeEnough(conf, prod, arg[p].len).size
    BY <1>5, <2>1, <2>2, PushRecordType DEF PushWrites
  <2>4. ToBeEnough(conf, prod, arg[p].len).w = prod.w
    BY <2>1, <2>2, ToBeEnoughType
  <2>5. prod'.w <= prod'.size
    BY <1>5, <2>3, <2>4 DEF PushWrites, Fits
  <2> QED
    BY <1>3, <1>5, <2>5 DEF PushWrites, LeavePush
<1>6. CASE SwapBuffers
  BY <1>3, <1>6 DEF SwapBuffers
<1>7. CASE ResetAndTest
  <2>1. cons'.w = 0 /\ cons'.size = cons.size /\ cons.size \in 0 .. MaxVec
    BY <1>7, ResetType DEF ResetAndTest, TypeOK, BufferType
  <2> QED
    BY <1>3, <1>7, <2>1, BufferAssumption DEF ResetAndTest
<1>8. CASE CallbackMissing
  BY <1>3, <1>8 DEF CallbackMissing
<1>9. CASE UNCHANGED <<fault, prod, cons>>
  BY <1>3, <1>9
<1> QED
  BY <1>4, <1>5, <1>6, <1>7, <1>8, <1>9
     DEF Next, Push, ThreadEntry, Terminated, vars, LeavePush, Construct, Acquire,
         Release, Call, Lock, Wait, SpuriousWake, PushThrows, WorkerLock, RunCallback,
         Peek, BeginStop, Join

(* Neither std::copy nor the callback leaves the vector, in ASYNC_SAFE and *)
(* for a linear_growth that no record exceeds, below a quarter of 2^32.    *)
THEOREM NeverOverruns == Spec => []NoOverrun
BY NoOverrunInit, NoOverrunStep, TypeCorrect, ThresholdStarves, SizesAreNarrow, PTL
   DEF Spec

-----------------------------------------------------------------------------
(* AsyncLooper implements LogChannel.                                      *)

LEMMA PrefixOfConcat ==
  ASSUME NEW s \in Seq(Record), NEW t \in Seq(Record)
  PROVE  SubSeq(s \o t, 1, Len(s)) = s
<1>1. /\ s \o t \in Seq(Record) /\ Len(s \o t) = Len(s) + Len(t)
      /\ \A i \in 1 .. Len(s) + Len(t) :
            (s \o t)[i] = IF i <= Len(s) THEN s[i] ELSE t[i - Len(s)]
  BY ConcatProperties
<1>2. Len(s) \in Nat /\ Len(t) \in Nat
  BY LenProperties
<1>3. \A i \in 1 .. Len(s) : (s \o t)[i] \in Record /\ (s \o t)[i] = s[i]
  BY <1>1, <1>2, ElementOfSeq
<1> DEFINE prefix == SubSeq(s \o t, 1, Len(s))
<1>4. /\ prefix \in Seq(Record)
      /\ Len(prefix) = Len(s)
      /\ \A i \in 1 .. Len(s) : prefix[i] = (s \o t)[i]
  BY <1>2, <1>3, SubSeqProperties
<1> HIDE DEF prefix
<1>5. \A i \in 1 .. Len(prefix) : prefix[i] = s[i]
  BY <1>3, <1>4
<1>6. prefix = s
  BY <1>4, <1>5, SeqEqual
<1> QED
  BY <1>6 DEF prefix

LEMMA ChannelInit == Init => Channel!Init
BY DEF Init, Channel!Init

LEMMA ChannelStep ==
  /\ TypeOK /\ PushedRecord /\ OwnerInv /\ BufferInv /\ Conservation
  /\ [Next]_vars
  => [Channel!Next]_Channel!vars
<1> SUFFICES ASSUME TypeOK, PushedRecord, OwnerInv, BufferInv, Conservation,
                    [Next]_vars
             PROVE  Channel!Next \/ UNCHANGED Channel!vars
  OBVIOUS
<1> USE DEF setup, owners, shutdown, history
<1>1. /\ delivered \in Seq(Record) /\ accepted \in Seq(Record)
      /\ prod.data \in Seq(Record) /\ cons.data \in Seq(Record)
  BY DEF TypeOK, BufferType
<1>2. ASSUME NEW p \in Producers, PushWrites(p)
      PROVE  Channel!Next \/ UNCHANGED Channel!vars
  <2>1. arg[p] \in Record
    BY <1>2 DEF PushWrites, PushedRecord
  <2>2. wpc # "exited"
    BY <1>2 DEF PushWrites, OwnerInv
  <2>3. CASE arg[p].len = 0
    BY <1>2, <2>3 DEF PushWrites, LeavePush, Channel!vars
  <2>4. CASE arg[p].len # 0
    <3>1. Channel!Accept(arg[p])
      BY <1>2, <2>2, <2>4 DEF PushWrites, LeavePush, Channel!Accept
    <3> QED
      BY <2>1, <3>1 DEF Channel!Next
  <2> QED
    BY <2>3, <2>4
<1>3. CASE RunCallback
  <2> DEFINE batch == delivered \o cons.data
  <2>1. batch \in Seq(Record) /\ Len(batch) = Len(delivered) + Len(cons.data)
    BY <1>1, ConcatProperties
  <2>2. accepted = batch \o prod.data
    BY <1>3 DEF RunCallback, Conservation, InFlight
  <2>3. batch = SubSeq(accepted, 1, Len(batch))
    BY <1>1, <2>1, <2>2, PrefixOfConcat
  <2>4. Len(accepted) = Len(batch) + Len(prod.data)
    BY <1>1, <2>1, <2>2, ConcatProperties
  <2>5. Len(batch) \in Len(delivered) .. Len(accepted)
    <3>1. /\ Len(delivered) \in Nat /\ Len(cons.data) \in Nat
          /\ Len(prod.data) \in Nat
      BY <1>1, LenProperties
    <3>2. \A d, c, q \in Nat : d + c \in d .. d + c + q
      OBVIOUS
    <3> QED
      BY <2>1, <2>4, <3>1, <3>2, Zenon
  <2>6. Channel!WriteBatch
    <3> HIDE DEF batch
    <3>1. delivered' = batch /\ wpc = "callback" /\ wpc' = "reset" /\ accepted' = accepted
      BY <1>3 DEF RunCallback, batch
    <3>2. \E n \in Len(delivered) .. Len(accepted) : delivered' = SubSeq(accepted, 1, n)
      BY <2>3, <2>5, <3>1
    <3> QED
      BY <3>1, <3>2 DEF Channel!WriteBatch
  <2> QED
    BY <2>6 DEF Channel!Next
<1>4. CASE Peek
  <2>1. CASE IsEmpty(prod)
    <3>1. prod.data = <<>> /\ InFlight = <<>>
      BY <1>4, <2>1 DEF Peek, IsEmpty, BufferInv, RecordsAreBytes, InFlight
    <3>2. accepted = delivered
      BY <1>1, <3>1, ConcatEmptySeq DEF Conservation
    <3>3. Channel!Close
      BY <1>4, <2>1, <3>2 DEF Peek, Channel!Close
    <3> QED
      BY <3>3 DEF Channel!Next
  <2>2. CASE ~IsEmpty(prod)
    BY <1>4, <2>2 DEF Peek, Channel!vars
  <2> QED
    BY <2>1, <2>2
<1>5. CASE WorkerLock \/ SwapBuffers \/ CallbackMissing \/ ResetAndTest
  BY <1>5 DEF WorkerLock, SwapBuffers, CallbackMissing, ResetAndTest, Channel!vars
<1>6. CASE UNCHANGED <<wpc, history>>
  BY <1>6 DEF Channel!vars
<1> QED
  BY <1>2, <1>3, <1>4, <1>5, <1>6
     DEF Next, Push, ThreadEntry, Terminated, vars, LeavePush, Construct, Acquire,
         Release, Call, Lock, Wait, SpuriousWake, PushThrows, PushOverruns, BeginStop,
         Join

(* The looper delivers in order, without loss or repetition, and its       *)
(* thread ends only when everything it accepted has been delivered.        *)
THEOREM ImplementsChannel == Spec => ChannelSpec
<1>1. /\ TypeOK /\ PushedRecord /\ OwnerInv /\ BufferInv /\ Conservation
      /\ [Next]_vars
      => [Channel!Next]_Channel!vars
  BY ChannelStep
<1>2. Spec => [](TypeOK /\ PushedRecord) /\ []OwnerInv /\ []BufferInv /\ []Conservation
  BY TypeCorrect, OwnersCorrect, BuffersCorrect, RecordsConserved
<1> QED
  BY ChannelInit, <1>1, <1>2, PTL DEF Spec, ChannelSpec, Channel!Spec
=============================================================================
