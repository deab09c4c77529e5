-------------------------- MODULE RollByTimeProofs --------------------------
(***************************************************************************)
(* Theorems about RollByTimeSink, for any times, programs, base names,     *)
(* directories and numbers of records: the clock, the records, and the     *)
(* directories the constructors make.                                      *)
(***************************************************************************)
EXTENDS RollByTimeSink, Recursion, SequenceTheorems

Gaps == {"GAP_SECOND", "GAP_MINUTE", "GAP_HOUR", "GAP_DAY"}

Places == {"none", "name", "create", "idle", "test", "switch", "reopen", "failed"}

(* The part of the type invariant that the clock needs.                    *)
ClockTypes ==
  /\ setup \in Setups
  /\ clock \in Times
  /\ file_open_time \in [Makers -> Times]
  /\ span \in [Makers -> SUBSET Times]
  /\ pc \in [Makers -> Places]

(* A sink that has no file has nothing in it.                              *)
NothingYet == \A t \in Makers : pc[t] = "none" => span[t] = {}

IInv == ClockTypes /\ NothingYet /\ WindowKept

LEMMA GapFacts ==
  ASSUME NEW g \in Gaps
  PROVE  GapSize(g) \in Nat /\ GapSize(g) >= 1 /\ GapSize(g) <= GapSize("GAP_DAY")
BY DEF Gaps, GapSize

(* A difference of two numbers below the range wraps only when negative.   *)
LEMMA Wrapped ==
  ASSUME NEW w \in Nat, NEW a \in Nat, NEW b \in Nat, a < w, b < w
  PROVE  (a + w - b) % w = IF b <= a THEN a - b ELSE a + w - b
<1>1. CASE b <= a
  BY <1>1
<1>2. CASE a < b
  BY <1>2
<1> QED
  BY <1>1, <1>2

(* A record that finds its file open comes within the gap.                 *)
LEMMA InWindow ==
  ASSUME ClockTypes, NEW t \in Makers,
         Elapsed(t) \div GapSize(setup.gap_type) = 0
  PROVE  clock \in file_open_time[t] .. file_open_time[t] + GapSize(setup.gap_type) - 1
<1> DEFINE g == GapSize(setup.gap_type)
           day == GapSize("GAP_DAY")
           opened == file_open_time[t]
<1>1. g \in Nat /\ g >= 1 /\ g <= day /\ day \in Nat
  BY GapFacts, RollByTimeAssumption DEF ClockTypes, Gaps
<1>2. clock \in Nat /\ opened \in Nat /\ Wrap \in Nat
  BY RollByTimeAssumption DEF ClockTypes
<1>3. clock + day < Wrap /\ opened + day < Wrap
  BY RollByTimeAssumption DEF ClockTypes
<1>4. Elapsed(t) = (clock + Wrap - opened) % Wrap /\ Elapsed(t) \div g = 0
  BY DEF Elapsed
<1> HIDE DEF g, day, opened
<1>5. clock < Wrap /\ opened < Wrap
  BY <1>1, <1>2, <1>3
<1>6. Elapsed(t) = IF opened <= clock THEN clock - opened ELSE clock + Wrap - opened
  BY <1>2, <1>4, <1>5, Wrapped
<1>7. Elapsed(t) \in Nat
  BY <1>2, <1>5, <1>6
<1>8. Elapsed(t) < g
  BY <1>1, <1>4, <1>7
<1>9. opened <= clock
  BY <1>1, <1>2, <1>3, <1>6, <1>8
<1>10. clock \in opened .. opened + g - 1
  BY <1>1, <1>2, <1>6, <1>8, <1>9
<1> QED
  BY <1>10 DEF g, opened

-----------------------------------------------------------------------------
LEMMA InitInv ==
  ASSUME Init
  PROVE  IInv
BY DEF Init, IInv, ClockTypes, Places, NothingYet, WindowKept

(* WriteOn is the action that adds to a window, Reopen empties it.         *)
LEMMA StepInv ==
  ASSUME IInv, [Next]_vars
  PROVE  IInv'
<1> USE DEF IInv
<1>1. ASSUME NEW t \in Makers, WriteOn(t)
      PROVE  IInv'
  <2> USE DEF Goto, Places
  <2>1. clock \in file_open_time[t] .. file_open_time[t] + GapSize(setup.gap_type) - 1
    BY <1>1, InWindow DEF WriteOn
  <2>2. ClockTypes'
    BY <1>1 DEF WriteOn, ClockTypes, clockVars
  <2>3. NothingYet'
    BY <1>1 DEF WriteOn, ClockTypes, NothingYet
  <2>4. ASSUME NEW u \in Makers, NEW time \in span'[u]
        PROVE  time \in file_open_time[u] .. file_open_time[u] + GapSize(setup.gap_type) - 1
    <3>1. CASE u = t
      <4>1. time \in span[t] \/ time = clock
        BY <1>1, <2>4, <3>1 DEF WriteOn, ClockTypes
      <4> QED
        BY <2>1, <3>1, <4>1 DEF WindowKept
    <3>2. CASE u # t
      BY <1>1, <2>4, <3>2 DEF WriteOn, ClockTypes, WindowKept
    <3> QED
      BY <3>1, <3>2
  <2> QED
    BY <1>1, <2>2, <2>3, <2>4 DEF WriteOn, WindowKept
<1>2. ASSUME NEW t \in Makers, Reopen(t)
      PROVE  IInv'
  <2> USE DEF Goto, Places
  <2>1. ClockTypes'
    BY <1>2 DEF Reopen, ClockTypes, clockVars
  <2>2. NothingYet'
    BY <1>2 DEF Reopen, ClockTypes, NothingYet
  <2>3. ASSUME NEW u \in Makers, NEW time \in span'[u]
        PROVE  u # t /\ time \in span[u] /\ file_open_time'[u] = file_open_time[u]
    BY <1>2, <2>3 DEF Reopen, ClockTypes
  <2> QED
    BY <1>2, <2>1, <2>2, <2>3 DEF Reopen, WindowKept
<1>3. ASSUME NEW t \in Makers, Construct(t)
      PROVE  IInv'
  <2> USE DEF Goto, Places
  <2>1. ClockTypes'
    BY <1>3 DEF Construct, ClockTypes, clockVars
  <2>2. NothingYet'
    BY <1>3 DEF Construct, ClockTypes, NothingYet
  <2>3. span' = span /\ span[t] = {} /\ setup' = setup
    BY <1>3 DEF Construct, NothingYet
  <2>4. ASSUME NEW u \in Makers, u # t
        PROVE  file_open_time'[u] = file_open_time[u]
    BY <1>3, <2>4 DEF Construct, ClockTypes
  <2> QED
    BY <2>1, <2>2, <2>3, <2>4 DEF WindowKept
<1>4. CASE Tick
  BY <1>4 DEF Tick, ClockTypes, NothingYet, WindowKept, sinkVars
<1>5. CASE UNCHANGED <<setup, clock, file_open_time, span, pc>>
  BY <1>5 DEF ClockTypes, NothingYet, WindowKept
<1>6. ASSUME NEW t \in Makers, NEW place \in Places, place # "none",
             Goto(t, place), UNCHANGED <<setup, clock, file_open_time, span>>
      PROVE  IInv'
  BY <1>6 DEF Goto, ClockTypes, NothingYet, WindowKept
<1>7. ASSUME NEW t \in Makers, NameFile(t) \/ Call(t) \/ MustSwitch(t) \/ Close(t)
      PROVE  IInv'
  <2>1. UNCHANGED <<setup, clock, file_open_time, span>>
    BY <1>7 DEF NameFile, Call, MustSwitch, Close, clockVars
  <2>2. Goto(t, "create") \/ Goto(t, "test") \/ Goto(t, "switch") \/ Goto(t, "reopen")
    BY <1>7 DEF NameFile, Call, MustSwitch, Close
  <2> QED
    BY <1>6, <2>1, <2>2 DEF Places
<1>8. ASSUME NEW t \in Makers, OpenFirst(t)
      PROVE  IInv'
  <2>1. UNCHANGED <<setup, clock, file_open_time, span>>
    BY <1>8 DEF OpenFirst, clockVars
  <2>2. Goto(t, "idle") \/ Goto(t, "failed")
    BY <1>8 DEF OpenFirst
  <2> QED
    BY <1>6, <2>1, <2>2 DEF Places
<1>9. ASSUME NEW t \in Makers,
             \/ Spill(t)
             \/ DirectoryStep(t) /\ UNCHANGED <<setup, clockVars, sinkVars>>
      PROVE  IInv'
  <2>1. UNCHANGED <<setup, clock, file_open_time, span, pc>>
    BY <1>9 DEF Spill, clockVars, sinkVars
  <2> QED
    BY <1>5, <2>1
<1>10. CASE UNCHANGED vars
  BY <1>5, <1>10 DEF vars, clockVars, sinkVars
<1> QED
  BY <1>1, <1>2, <1>3, <1>4, <1>7, <1>8, <1>9, <1>10 DEF Next, Sink

(* No record lands in a file whose time is over or has not come, however   *)
(* the clock is set, and whatever the range of a size_t: a clock that has  *)
(* gone back makes the difference wrap, and the file is changed            *)
(* (test.cc:36-41).                                                        *)
THEOREM WindowIsKept == Spec => []WindowKept
<1>1. Init => IInv
  BY InitInv
<1>2. IInv /\ [Next]_vars => IInv'
  BY StepInv
<1>3. IInv => WindowKept
  BY DEF IInv
<1> QED
  BY <1>1, <1>2, <1>3, PTL DEF Spec

-----------------------------------------------------------------------------
(* The records.  What the files hold of a sink, and its stream behind the  *)
(* file it has open, is looked at as the numbers of its records.           *)

Rec == [by : Makers, no : Nat]

LEMMA ConcatAt ==
  ASSUME NEW R, NEW a \in Seq(R), NEW b \in Seq(R)
  PROVE  /\ a \o b \in Seq(R) /\ Len(a \o b) = Len(a) + Len(b)
         /\ DOMAIN (a \o b) = 1 .. Len(a) + Len(b)
         /\ \A i \in 1 .. Len(a) : (a \o b)[i] = a[i]
         /\ \A i \in 1 .. Len(b) : (a \o b)[Len(a) + i] = b[i]
         /\ \A i \in Len(a) + 1 .. Len(a) + Len(b) :
              i - Len(a) \in 1 .. Len(b) /\ (a \o b)[i] = b[i - Len(a)]
OBVIOUS

(* A file and what is appended to it.                                      *)
LEMMA ConcatNumbers ==
  ASSUME NEW t, NEW a \in Seq(Rec), NEW b \in Seq(Rec)
  PROVE  Numbers(t, a \o b) = Numbers(t, a) \cup Numbers(t, b)
<1> DEFINE c == a \o b
<1>1. /\ DOMAIN c = 1 .. Len(a) + Len(b)
      /\ \A i \in 1 .. Len(a) : c[i] = a[i]
      /\ \A i \in 1 .. Len(b) : c[Len(a) + i] = b[i]
      /\ \A i \in Len(a) + 1 .. Len(a) + Len(b) : i - Len(a) \in 1 .. Len(b) /\ c[i] = b[i - Len(a)]
  BY ConcatAt
<1>2. DOMAIN a = 1 .. Len(a) /\ DOMAIN b = 1 .. Len(b) /\ Len(a) \in Nat /\ Len(b) \in Nat
  OBVIOUS
<1> HIDE DEF c
<1>3. ASSUME NEW k \in Numbers(t, c) PROVE k \in Numbers(t, a) \cup Numbers(t, b)
  <2>1. PICK i \in DOMAIN c : c[i].by = t /\ c[i].no = k
    BY <1>3 DEF Numbers
  <2>2. CASE i <= Len(a)
    <3>1. i \in DOMAIN a /\ a[i] = c[i]
      BY <1>1, <1>2, <2>1, <2>2
    <3> QED
      BY <2>1, <3>1 DEF Numbers
  <2>3. CASE ~ (i <= Len(a))
    <3>1. i - Len(a) \in DOMAIN b /\ b[i - Len(a)] = c[i]
      BY <1>1, <1>2, <2>1, <2>3
    <3> QED
      BY <2>1, <3>1 DEF Numbers
  <2> QED
    BY <2>2, <2>3
<1>4. ASSUME NEW k \in Numbers(t, a) PROVE k \in Numbers(t, c)
  <2>1. PICK i \in DOMAIN a : a[i].by = t /\ a[i].no = k
    BY <1>4 DEF Numbers
  <2>2. i \in DOMAIN c /\ c[i] = a[i]
    BY <1>1, <1>2
  <2> QED
    BY <2>1, <2>2 DEF Numbers
<1>5. ASSUME NEW k \in Numbers(t, b) PROVE k \in Numbers(t, c)
  <2>1. PICK i \in DOMAIN b : b[i].by = t /\ b[i].no = k
    BY <1>5 DEF Numbers
  <2>2. Len(a) + i \in DOMAIN c /\ c[Len(a) + i] = b[i]
    BY <1>1, <1>2
  <2> QED
    BY <2>1, <2>2 DEF Numbers
<1> QED
  BY <1>3, <1>4, <1>5 DEF c

LEMMA ConcatInOrder ==
  ASSUME NEW t, NEW a \in Seq(Rec), NEW b \in Seq(Rec)
  PROVE  InOrder(t, a \o b) <=>
           /\ InOrder(t, a) /\ InOrder(t, b)
           /\ \A k \in Numbers(t, a), l \in Numbers(t, b) : k < l
<1> DEFINE c == a \o b
<1>1. /\ DOMAIN c = 1 .. Len(a) + Len(b)
      /\ \A i \in 1 .. Len(a) : c[i] = a[i]
      /\ \A i \in 1 .. Len(b) : c[Len(a) + i] = b[i]
      /\ \A i \in Len(a) + 1 .. Len(a) + Len(b) : i - Len(a) \in 1 .. Len(b) /\ c[i] = b[i - Len(a)]
  BY ConcatAt
<1>2. DOMAIN a = 1 .. Len(a) /\ DOMAIN b = 1 .. Len(b) /\ Len(a) \in Nat /\ Len(b) \in Nat
  OBVIOUS
<1> HIDE DEF c
<1>3. ASSUME InOrder(t, c)
      PROVE  /\ InOrder(t, a) /\ InOrder(t, b)
             /\ \A k \in Numbers(t, a), l \in Numbers(t, b) : k < l
  <2>1. InOrder(t, a)
    BY <1>1, <1>2, <1>3 DEF InOrder
  <2>2. InOrder(t, b)
    <3> SUFFICES ASSUME NEW i \in DOMAIN b, NEW j \in DOMAIN b, i < j, b[i].by = t, b[j].by = t
                 PROVE  b[i].no < b[j].no
      BY DEF InOrder
    <3>1. Len(a) + i \in DOMAIN c /\ Len(a) + j \in DOMAIN c /\ Len(a) + i < Len(a) + j
      BY <1>1, <1>2
    <3>2. c[Len(a) + i] = b[i] /\ c[Len(a) + j] = b[j]
      BY <1>1, <1>2
    <3> QED
      BY <1>3, <3>1, <3>2 DEF InOrder
  <2>3. ASSUME NEW k \in Numbers(t, a), NEW l \in Numbers(t, b) PROVE k < l
    <3>1. PICK i \in DOMAIN a : a[i].by = t /\ a[i].no = k
      BY <2>3 DEF Numbers
    <3>2. PICK j \in DOMAIN b : b[j].by = t /\ b[j].no = l
      BY <2>3 DEF Numbers
    <3>3. i \in DOMAIN c /\ Len(a) + j \in DOMAIN c /\ i < Len(a) + j
      BY <1>1, <1>2
    <3>4. c[i] = a[i] /\ c[Len(a) + j] = b[j]
      BY <1>1, <1>2
    <3> QED
      BY <1>3, <3>1, <3>2, <3>3, <3>4 DEF InOrder
  <2> QED
    BY <2>1, <2>2, <2>3
<1>4. ASSUME InOrder(t, a), InOrder(t, b), \A k \in Numbers(t, a), l \in Numbers(t, b) : k < l
      PROVE  InOrder(t, c)
  <2> SUFFICES ASSUME NEW i \in DOMAIN c, NEW j \in DOMAIN c, i < j, c[i].by = t, c[j].by = t
               PROVE  c[i].no < c[j].no
    BY DEF InOrder
  <2>1. CASE j <= Len(a)
    <3>1. i \in DOMAIN a /\ j \in DOMAIN a /\ c[i] = a[i] /\ c[j] = a[j]
      BY <1>1, <1>2, <2>1
    <3> QED
      BY <1>4, <3>1 DEF InOrder
  <2>2. CASE i <= Len(a) /\ ~ (j <= Len(a))
    <3>1. i \in DOMAIN a /\ c[i] = a[i]
      BY <1>1, <1>2, <2>2
    <3>2. j - Len(a) \in DOMAIN b /\ b[j - Len(a)] = c[j]
      BY <1>1, <1>2, <2>2
    <3> QED
      BY <1>4, <3>1, <3>2 DEF Numbers
  <2>3. CASE ~ (i <= Len(a))
    <3>1. i - Len(a) \in DOMAIN b /\ j - Len(a) \in DOMAIN b /\ i - Len(a) < j - Len(a)
      BY <1>1, <1>2, <2>3
    <3>2. b[i - Len(a)] = c[i] /\ b[j - Len(a)] = c[j]
      BY <1>1, <1>2, <2>3
    <3> QED
      BY <1>4, <3>1, <3>2 DEF InOrder
  <2> QED
    BY <1>1, <1>2, <2>1, <2>2, <2>3
<1> QED
  BY <1>3, <1>4 DEF c

(* Records of others count for nothing.                                    *)
LEMMA ConcatAliens ==
  ASSUME NEW t, NEW a \in Seq(Rec), NEW b \in Seq(Rec), \A i \in DOMAIN b : b[i].by # t
  PROVE  /\ Numbers(t, a \o b) = Numbers(t, a)
         /\ InOrder(t, a) => InOrder(t, a \o b)
<1>1. Numbers(t, b) = {} /\ InOrder(t, b)
  BY DEF Numbers, InOrder
<1>2. Numbers(t, a \o b) = Numbers(t, a) \cup Numbers(t, b)
  BY ConcatNumbers
<1>3. InOrder(t, a) => InOrder(t, a \o b)
  BY <1>1, ConcatInOrder
<1> QED
  BY <1>1, <1>2, <1>3

-----------------------------------------------------------------------------
RecordTypes ==
  /\ pc \in [Makers -> Places]
  /\ DOMAIN name = Makers
  /\ no \in [Makers -> Nat]
  /\ stream \in [Makers -> Seq(Rec)]
  /\ \A n \in DOMAIN files : files[n] \in Seq(Rec)
  /\ \A t \in Makers : \A i \in DOMAIN stream[t] : stream[t][i].by = t

(* A sink that is not given a record yet has none, one that is given one   *)
(* counts it; only one that has its file open has something in its stream. *)
Stations ==
  \A t \in Makers :
    /\ pc[t] \in {"none", "name", "create", "failed"} => no[t] = 0
    /\ pc[t] \in {"test", "switch", "reopen"} => no[t] >= 1
    /\ pc[t] \in {"idle", "test", "switch"} => name[t] \in DOMAIN files
    /\ pc[t] \notin {"idle", "test", "switch"} => stream[t] = <<>>

(* Of each sink: what is kept is in order everywhere, is what has been     *)
(* written and nothing else, and is in one place.                          *)
Num(t, n) == Numbers(t, Text(t, n))
Kept(t) ==
  /\ \A n : InOrder(t, Text(t, n))
  /\ \A n : Num(t, n) \subseteq 1 .. Done(t)
  /\ \A n, m : n # m => Num(t, n) \cap Num(t, m) = {}
  /\ \A k \in 1 .. Done(t) : \E n : k \in Num(t, n)

RecordInv == RecordTypes /\ Stations /\ \A t \in Makers : Kept(t)

LEMMA ContentType ==
  ASSUME RecordTypes, NEW n
  PROVE  Content(n) \in Seq(Rec)
<1>1. <<>> \in Seq(Rec)
  OBVIOUS
<1> QED
  BY <1>1 DEF RecordTypes, Content

LEMMA KeptImplies ==
  ASSUME RecordInv
  PROVE  RecordsKept
<1> SUFFICES ASSUME NEW t \in Makers
             PROVE  /\ \A n \in NamesOf(t) : InOrder(t, Text(t, n))
                    /\ \A k \in 1 .. Done(t) :
                         \E n \in NamesOf(t) :
                           /\ k \in Num(t, n)
                           /\ \A m \in NamesOf(t) \ {n} : k \notin Num(t, m)
  BY DEF RecordsKept, Num
<1>1. Kept(t)
  BY DEF RecordInv
<1>2. \A n \in NamesOf(t) : InOrder(t, Text(t, n))
  BY <1>1 DEF Kept
<1>3. ASSUME NEW k \in 1 .. Done(t)
      PROVE  \E n \in NamesOf(t) : k \in Num(t, n) /\ \A m \in NamesOf(t) \ {n} : k \notin Num(t, m)
  <2>1. PICK n : k \in Num(t, n)
    BY <1>1 DEF Kept
  <2>2. n \in NamesOf(t)
    <3> SUFFICES ASSUME n \notin DOMAIN files, n # name[t] PROVE FALSE
      BY DEF NamesOf
    <3>1. Text(t, n) = <<>>
      BY DEF Text, Content
    <3> QED
      BY <2>1, <3>1 DEF Num, Numbers
  <2>3. \A m \in NamesOf(t) \ {n} : k \notin Num(t, m)
    BY <1>1, <2>1 DEF Kept
  <2> QED
    BY <2>1, <2>2, <2>3
<1> QED
  BY <1>2, <1>3

LEMMA RecordInit ==
  ASSUME Init
  PROVE  RecordInv
<1>1. \A t \in Makers : pc[t] = "none" /\ no[t] = 0 /\ stream[t] = <<>>
  BY DEF Init
<1>2. RecordTypes
  <2>1. <<>> \in Seq(Rec)
    OBVIOUS
  <2> QED
    BY <2>1 DEF Init, RecordTypes, Places
<1>3. Stations
  BY <1>1 DEF Stations
<1>4. ASSUME NEW t \in Makers PROVE Kept(t)
  <2>1. \A n : Text(t, n) = <<>>
    <3> SUFFICES ASSUME NEW n PROVE Text(t, n) = <<>>
      OBVIOUS
    <3>1. Content(n) = <<>> /\ stream[t] = <<>>
      BY DEF Init, Content
    <3> QED
      BY <3>1 DEF Text
  <2>2. \A n : Num(t, n) = {} /\ InOrder(t, Text(t, n))
    BY <2>1 DEF Num, Numbers, InOrder
  <2>3. Done(t) = 0
    BY <1>1 DEF Done
  <2> QED
    BY <2>2, <2>3 DEF Kept
<1> QED
  BY <1>2, <1>3, <1>4 DEF RecordInv

LEMMA KeptAlike ==
  ASSUME NEW t \in Makers, Kept(t), Done(t)' = Done(t),
         \A n : Num(t, n)' = Num(t, n) /\ (InOrder(t, Text(t, n)) => InOrder(t, Text(t, n))')
  PROVE  Kept(t)'
BY DEF Kept

LEMMA KeptSame ==
  ASSUME NEW t \in Makers, Kept(t), Done(t)' = Done(t), \A n : Text(t, n)' = Text(t, n)
  PROVE  Kept(t)'
<1>1. \A n : Num(t, n)' = Num(t, n) /\ (InOrder(t, Text(t, n)) => InOrder(t, Text(t, n))')
  BY DEF Num
<1> QED
  BY <1>1, KeptAlike

(* A file's content and a stream that is left alone; a stream with nothing *)
(* in it may change its file.                                              *)
LEMMA TextSame ==
  ASSUME RecordTypes, NEW t \in Makers, \A n : Content(n)' = Content(n),
         stream'[t] = stream[t], name'[t] = name[t] \/ stream[t] = <<>>
  PROVE  \A n : Text(t, n)' = Text(t, n)
<1> SUFFICES ASSUME NEW n PROVE Text(t, n)' = Text(t, n)
  OBVIOUS
<1>1. PICK c \in Seq(Rec) : c = Content(n)
  BY ContentType
<1>2. Content(n)' = c
  BY <1>1
<1>3. c \o <<>> = c
  OBVIOUS
<1> QED
  BY <1>1, <1>2, <1>3 DEF Text

(* The stream is written out to its file.                                  *)
Flushed(t) ==
  /\ files' = [files EXCEPT ![name[t]] = @ \o stream[t]]
  /\ stream' = [stream EXCEPT ![t] = <<>>]

LEMMA FlushContent ==
  ASSUME RecordTypes, NEW t \in Makers, name[t] \in DOMAIN files, Flushed(t), NEW n
  PROVE  /\ DOMAIN files' = DOMAIN files
         /\ Content(n)' = IF n = name[t] THEN Content(n) \o stream[t] ELSE Content(n)
<1>1. DOMAIN files' = DOMAIN files
  BY DEF Flushed
<1>2. CASE n = name[t]
  BY <1>1, <1>2 DEF Content, Flushed
<1>3. CASE n # name[t]
  BY <1>1, <1>3 DEF Content, Flushed
<1> QED
  BY <1>1, <1>2, <1>3

LEMMA FlushKept ==
  ASSUME RecordTypes, NEW t \in Makers, name[t] \in DOMAIN files, Flushed(t),
         NEW u \in Makers, Kept(u), Done(u)' = Done(u), u # t => name'[u] = name[u]
  PROVE  Kept(u)'
<1>1. CASE u = t
  <2> SUFFICES ASSUME NEW n PROVE Text(t, n)' = Text(t, n)
    BY <1>1, KeptSame
  <2>1. stream'[t] = <<>>
    BY DEF Flushed, RecordTypes
  <2>2. PICK c \in Seq(Rec) : c = Content(n)
    BY ContentType
  <2>3. PICK s \in Seq(Rec) : s = stream[t]
    BY DEF RecordTypes
  <2>4. Content(n)' = IF n = name[t] THEN c \o s ELSE c
    BY <2>2, <2>3, FlushContent
  <2>5. c \o <<>> = c /\ (c \o s) \o <<>> = c \o s
    OBVIOUS
  <2>6. Text(t, n)' = Content(n)'
    BY <2>1, <2>4, <2>5 DEF Text
  <2> QED
    BY <2>2, <2>3, <2>4, <2>6 DEF Text
<1>2. CASE u # t
  <2> SUFFICES ASSUME NEW n
               PROVE  Num(u, n)' = Num(u, n) /\ (InOrder(u, Text(u, n)) => InOrder(u, Text(u, n))')
    BY KeptAlike
  <2>1. stream'[u] = stream[u] /\ name'[u] = name[u]
    BY <1>2 DEF Flushed, RecordTypes
  <2>2. PICK c \in Seq(Rec) : c = Content(n)
    BY ContentType
  <2>3. PICK s \in Seq(Rec) : s = stream[t]
    BY DEF RecordTypes
  <2>4. \A i \in DOMAIN s : s[i].by # u
    BY <1>2, <2>3 DEF RecordTypes
  <2>5. PICK own \in Seq(Rec) : own = stream[u]
    BY DEF RecordTypes
  <2>6. Content(n)' = IF n = name[t] THEN c \o s ELSE c
    BY <2>2, <2>3, FlushContent
  <2>7. Text(u, n) = IF n = name[u] THEN c \o own ELSE c
    BY <2>2, <2>5 DEF Text
  <2>8. Text(u, n)' = IF n = name[u] THEN Content(n)' \o own ELSE Content(n)'
    BY <2>1, <2>5 DEF Text
  <2>9. c \o s \in Seq(Rec)
    OBVIOUS
  <2>10. /\ Numbers(u, c \o s) = Numbers(u, c)
         /\ InOrder(u, c) => InOrder(u, c \o s)
    BY <2>4, ConcatAliens
  <2>11. CASE n # name[t]
    BY <2>6, <2>7, <2>8, <2>11 DEF Num
  <2>12. CASE n = name[t] /\ n # name[u]
    BY <2>6, <2>7, <2>8, <2>10, <2>12 DEF Num
  <2>13. CASE n = name[t] /\ n = name[u]
    <3>1. Text(u, n) = c \o own /\ Text(u, n)' = (c \o s) \o own
      BY <2>6, <2>7, <2>8, <2>13
    <3>2. Numbers(u, (c \o s) \o own) = Numbers(u, c \o own)
      <4>1. Numbers(u, (c \o s) \o own) = Numbers(u, c \o s) \cup Numbers(u, own)
        BY <2>9, ConcatNumbers
      <4>2. Numbers(u, c \o own) = Numbers(u, c) \cup Numbers(u, own)
        BY ConcatNumbers
      <4> QED
        BY <2>10, <4>1, <4>2
    <3>3. InOrder(u, c \o own) => InOrder(u, (c \o s) \o own)
      BY <2>9, <2>10, ConcatInOrder
    <3> QED
      BY <3>1, <3>2, <3>3 DEF Num
  <2> QED
    BY <2>11, <2>12, <2>13
<1> QED
  BY <1>1, <1>2

(* A record is written: the next one, behind what the sink's file has.     *)
LEMMA WriteKept ==
  ASSUME RecordTypes, NEW t \in Makers, Write(t), \A n : Content(n)' = Content(n), name' = name,
         NEW u \in Makers, Kept(u), no[t] >= 1,
         u # t => Done(u)' = Done(u),
         Done(t) = no[t] - 1, Done(t)' = no[t]
  PROVE  Kept(u)'
<1>1. CASE u # t
  <2>1. stream'[u] = stream[u]
    BY <1>1 DEF Write, RecordTypes
  <2>2. \A n : Text(u, n)' = Text(u, n)
    BY <2>1, TextSame
  <2> QED
    BY <1>1, <2>2, KeptSame
<1>2. CASE u = t
  <2> DEFINE k == no[t]
             r == Record(t)
  <2>1. k \in Nat /\ r \in Rec /\ r.by = t /\ r.no = k
    BY DEF RecordTypes, Record, Rec
  <2>2. PICK s \in Seq(Rec) : s = stream[t]
    BY DEF RecordTypes
  <2>3. stream'[t] = Append(s, r)
    BY <2>2 DEF Write, RecordTypes
  <2> HIDE DEF r
  <2>4. ASSUME NEW n
        PROVE  /\ n # name[t] => Text(t, n)' = Text(t, n)
               /\ n = name[t] => Num(t, n)' = Num(t, n) \cup {k}
               /\ InOrder(t, Text(t, n))'
    <3>1. PICK c \in Seq(Rec) : c = Content(n)
      BY ContentType
    <3>2. Content(n)' = c
      BY <3>1
    <3>3. CASE n # name[t]
      <4>1. Text(t, n)' = Text(t, n)
        BY <3>1, <3>2, <3>3 DEF Text
      <4> QED
        BY <1>2, <3>3, <4>1 DEF Kept
    <3>4. CASE n = name[t]
      <4>1. PICK x \in Seq(Rec) : x = c \o s
        <5>1. c \o s \in Seq(Rec)
          BY ConcatAt
        <5> QED
          BY <5>1
      <4>2. Text(t, n) = x
        BY <2>2, <3>1, <3>4, <4>1 DEF Text
      <4>3. Text(t, n)' = c \o Append(s, r)
        BY <2>3, <3>2, <3>4 DEF Text
      <4>4. PICK one \in Seq(Rec) : one = <<r>>
        <5>1. <<r>> \in Seq(Rec)
          BY <2>1
        <5> QED
          BY <5>1
      <4>5. c \o Append(s, r) = x \o one
        BY <2>1, <4>1, <4>4
      <4>6. Numbers(t, one) = {k} /\ InOrder(t, one)
        BY <2>1, <4>4 DEF Numbers, InOrder
      <4>7. Numbers(t, x \o one) = Numbers(t, x) \cup {k}
        <5>1. Numbers(t, x \o one) = Numbers(t, x) \cup Numbers(t, one)
          BY ConcatNumbers
        <5> QED
          BY <4>6, <5>1
      <4>8. InOrder(t, x) /\ Numbers(t, x) \subseteq 1 .. k - 1
        BY <1>2, <4>2 DEF Kept, Num
      <4>9. InOrder(t, x \o one)
        <5>1. \A a \in Numbers(t, x), b \in Numbers(t, one) : a < b
          BY <2>1, <4>6, <4>8
        <5> QED
          BY <4>6, <4>8, <5>1, ConcatInOrder
      <4> QED
        BY <3>4, <4>2, <4>3, <4>5, <4>7, <4>9 DEF Num
    <3> QED
      BY <3>3, <3>4
  <2>5. \A n : Num(t, n)' = IF n = name[t] THEN Num(t, n) \cup {k} ELSE Num(t, n)
    BY <2>4 DEF Num
  <2>6. /\ \A n : Num(t, n) \subseteq 1 .. k - 1
        /\ \A n, m : n # m => Num(t, n) \cap Num(t, m) = {}
        /\ \A i \in 1 .. k - 1 : \E n : i \in Num(t, n)
    BY <1>2 DEF Kept
  <2>7. \A n : Num(t, n)' \subseteq 1 .. k
    BY <2>1, <2>5, <2>6
  <2>8. ASSUME NEW n, NEW m, n # m PROVE Num(t, n)' \cap Num(t, m)' = {}
    <3>1. k \notin Num(t, n) /\ k \notin Num(t, m) /\ Num(t, n) \cap Num(t, m) = {}
      BY <2>1, <2>6, <2>8
    <3> QED
      BY <2>5, <2>8, <3>1
  <2>9. \A i \in 1 .. k : \E n : i \in Num(t, n)'
    <3> SUFFICES ASSUME NEW i \in 1 .. k PROVE \E n : i \in Num(t, n)'
      OBVIOUS
    <3>1. CASE i = k
      BY <2>5, <3>1
    <3>2. CASE i # k
      <4>1. i \in 1 .. k - 1
        BY <2>1, <3>2
      <4>2. PICK n : i \in Num(t, n)
        BY <2>6, <4>1
      <4> QED
        BY <2>5, <4>2
    <3> QED
      BY <3>1, <3>2
  <2> QED
    BY <1>2, <2>4, <2>7, <2>8, <2>9 DEF Kept
<1> QED
  BY <1>1, <1>2

-----------------------------------------------------------------------------
LEMMA OpenedContent ==
  ASSUME NEW n, Opened(n), NEW k
  PROVE  /\ DOMAIN files' = DOMAIN files \cup {n}
         /\ Content(k)' = Content(k)
<1>1. DOMAIN files' = DOMAIN files \cup {n}
  BY DEF Opened
<1>2. CASE k \in DOMAIN files'
  BY <1>1, <1>2 DEF Opened, Content
<1>3. CASE k \notin DOMAIN files'
  BY <1>1, <1>3 DEF Content
<1> QED
  BY <1>1, <1>2, <1>3

LEMMA OpenedTypes ==
  ASSUME RecordTypes, NEW n, Opened(n)
  PROVE  \A k \in DOMAIN files' : files'[k] \in Seq(Rec)
<1> SUFFICES ASSUME NEW k \in DOMAIN files' PROVE files'[k] \in Seq(Rec)
  OBVIOUS
<1>1. files'[k] = Content(k)
  BY DEF Opened
<1> QED
  BY <1>1, ContentType

LEMMA FlushTypes ==
  ASSUME RecordTypes, NEW t \in Makers, name[t] \in DOMAIN files, Flushed(t)
  PROVE  /\ stream' \in [Makers -> Seq(Rec)]
         /\ \A n \in DOMAIN files' : files'[n] \in Seq(Rec)
         /\ \A u \in Makers : \A i \in DOMAIN stream'[u] : stream'[u][i].by = u
<1>1. stream' \in [Makers -> Seq(Rec)]
  <2>1. <<>> \in Seq(Rec)
    OBVIOUS
  <2> QED
    BY <2>1 DEF Flushed, RecordTypes
<1>2. ASSUME NEW n \in DOMAIN files' PROVE files'[n] \in Seq(Rec)
  <2>1. PICK c \in Seq(Rec) : c = Content(n)
    BY ContentType
  <2>2. PICK s \in Seq(Rec) : s = stream[t]
    BY DEF RecordTypes
  <2>3. Content(n)' = IF n = name[t] THEN c \o s ELSE c
    BY <2>1, <2>2, FlushContent
  <2>4. c \o s \in Seq(Rec)
    OBVIOUS
  <2> QED
    BY <1>2, <2>3, <2>4 DEF Content
<1>3. ASSUME NEW u \in Makers, NEW i \in DOMAIN stream'[u] PROVE stream'[u][i].by = u
  <2>1. stream'[u] = IF u = t THEN <<>> ELSE stream[u]
    BY DEF Flushed, RecordTypes
  <2> QED
    BY <1>3, <2>1 DEF RecordTypes
<1> QED
  BY <1>1, <1>2, <1>3

LEMMA WriteTypes ==
  ASSUME RecordTypes, NEW t \in Makers, Write(t)
  PROVE  /\ stream' \in [Makers -> Seq(Rec)]
         /\ \A u \in Makers : \A i \in DOMAIN stream'[u] : stream'[u][i].by = u
<1>1. Record(t) \in Rec /\ Record(t).by = t
  BY DEF RecordTypes, Record, Rec
<1>2. PICK s \in Seq(Rec) : s = stream[t]
  BY DEF RecordTypes
<1>3. PICK r \in Rec : r = Record(t) /\ r.by = t
  BY <1>1
<1>4. stream' = [stream EXCEPT ![t] = Append(s, r)]
  BY <1>2, <1>3 DEF Write
<1>5. \A i \in DOMAIN s : s[i].by = t
  BY <1>2 DEF RecordTypes
<1>6. Append(s, r) \in Seq(Rec) /\ \A i \in DOMAIN Append(s, r) : Append(s, r)[i].by = t
  BY <1>3, <1>5
<1> QED
  BY <1>4, <1>6 DEF RecordTypes

(* Only where the sink's thread is changes, and what goes with it.         *)
LEMMA QuietStep ==
  ASSUME RecordInv, NEW t \in Makers, NEW place \in Places, Goto(t, place), UNCHANGED <<files, stream>>,
         \/ UNCHANGED <<name, no>>
            /\ \/ pc[t] = "none" /\ place = "name"
               \/ pc[t] = "create" /\ place = "failed"
               \/ pc[t] = "test" /\ place = "switch"
         \/ pc[t] = "idle" /\ place = "test" /\ no' = [no EXCEPT ![t] = @ + 1] /\ name' = name
         \/ pc[t] = "name" /\ place = "create" /\ no' = no
            /\ \E n : name' = [name EXCEPT ![t] = n]
  PROVE  RecordInv'
<1> USE DEF RecordInv
<1>1. pc' = [pc EXCEPT ![t] = place]
  BY DEF Goto
<1>2. RecordTypes'
  <2>1. pc' \in [Makers -> Places]
    BY <1>1 DEF RecordTypes
  <2>2. DOMAIN name' = Makers
    BY DEF RecordTypes
  <2>3. no' = no \/ no' = [no EXCEPT ![t] = @ + 1]
    OBVIOUS
  <2>4. no' \in [Makers -> Nat]
    BY <2>3 DEF RecordTypes
  <2> QED
    BY <2>1, <2>2, <2>4 DEF RecordTypes
<1>3. Stations'
  <2> SUFFICES ASSUME NEW u \in Makers
               PROVE  /\ pc'[u] \in {"none", "name", "create", "failed"} => no'[u] = 0
                      /\ pc'[u] \in {"test", "switch", "reopen"} => no'[u] >= 1
                      /\ pc'[u] \in {"idle", "test", "switch"} => name'[u] \in DOMAIN files
                      /\ pc'[u] \notin {"idle", "test", "switch"} => stream[u] = <<>>
    BY DEF Stations
  <2>1. CASE u # t
    <3>1. pc'[u] = pc[u] /\ no'[u] = no[u] /\ name'[u] = name[u]
      BY <1>1, <2>1 DEF RecordTypes
    <3> QED
      BY <3>1 DEF Stations
  <2>2. CASE u = t
    <3>1. pc'[t] = place /\ no[t] \in Nat
      BY <1>1 DEF RecordTypes
    <3> QED
      BY <2>2, <3>1 DEF Stations, RecordTypes
  <2> QED
    BY <2>1, <2>2
<1>4. ASSUME NEW u \in Makers PROVE Kept(u)'
  <2>1. \A n : Content(n)' = Content(n)
    BY DEF Content
  <2>2. stream'[u] = stream[u]
    OBVIOUS
  <2>3. name'[u] = name[u] \/ stream[u] = <<>>
    <3>1. CASE pc[t] = "name"
      BY <3>1 DEF Stations, RecordTypes
    <3>2. CASE pc[t] # "name"
      BY <3>2
    <3> QED
      BY <3>1, <3>2
  <2>4. Done(u)' = Done(u)
    <3>1. CASE u # t
      BY <1>1, <3>1 DEF Done, RecordTypes
    <3>2. CASE u = t
      <4>1. pc'[t] = place /\ no[t] \in Nat
        BY <1>1 DEF RecordTypes
      <4>2. Done(t) = IF pc[t] \in {"test", "switch", "reopen"} THEN no[t] - 1 ELSE no[t]
        BY DEF Done
      <4>3. Done(t)' = IF place \in {"test", "switch", "reopen"} THEN no'[t] - 1 ELSE no'[t]
        BY <4>1 DEF Done
      <4>4. CASE pc[t] = "idle" /\ place = "test" /\ no' = [no EXCEPT ![t] = @ + 1]
        <5>1. no'[t] = no[t] + 1
          BY <4>4 DEF RecordTypes
        <5> QED
          BY <3>2, <4>1, <4>2, <4>3, <4>4, <5>1
      <4>5. CASE no' = no /\ ~ (pc[t] = "idle" /\ place = "test")
        BY <3>2, <4>2, <4>3, <4>5
      <4> QED
        BY <4>4, <4>5
    <3> QED
      BY <3>1, <3>2
  <2>5. \A n : Text(u, n)' = Text(u, n)
    BY <2>1, <2>2, <2>3, TextSame
  <2> QED
    BY <2>4, <2>5, KeptSame
<1> QED
  BY <1>2, <1>3, <1>4

LEMMA OpenFirstStep ==
  ASSUME RecordInv, NEW t \in Makers, OpenFirst(t), Opened(name[t]), Goto(t, "idle")
  PROVE  RecordInv'
<1> USE DEF RecordInv
<1>1. pc' = [pc EXCEPT ![t] = "idle"] /\ UNCHANGED <<name, stream, no>> /\ pc[t] = "create"
  BY DEF Goto, OpenFirst
<1>2. DOMAIN files' = DOMAIN files \cup {name[t]} /\ \A n : Content(n)' = Content(n)
  BY OpenedContent
<1>3. RecordTypes'
  BY <1>1, OpenedTypes DEF RecordTypes, Places
<1>4. Stations'
  BY <1>1, <1>2 DEF Stations, RecordTypes
<1>5. ASSUME NEW u \in Makers PROVE Kept(u)'
  <2>1. Done(u)' = Done(u)
    BY <1>1 DEF Done, RecordTypes
  <2>2. \A n : Text(u, n)' = Text(u, n)
    BY <1>1, <1>2, TextSame
  <2> QED
    BY <2>1, <2>2, KeptSame
<1> QED
  BY <1>3, <1>4, <1>5

LEMMA WriteOnStep ==
  ASSUME RecordInv, NEW t \in Makers, WriteOn(t)
  PROVE  RecordInv'
<1> USE DEF RecordInv
<1>1. pc' = [pc EXCEPT ![t] = "idle"] /\ UNCHANGED <<name, files, no>> /\ pc[t] = "test" /\ Write(t)
  BY DEF Goto, WriteOn
<1>2. RecordTypes'
  BY <1>1, WriteTypes DEF RecordTypes, Places
<1>3. Stations'
  BY <1>1 DEF Stations, RecordTypes, Write
<1>4. ASSUME NEW u \in Makers PROVE Kept(u)'
  <2>1. \A n : Content(n)' = Content(n)
    BY <1>1 DEF Content
  <2>2. u # t => Done(u)' = Done(u)
    BY <1>1 DEF Done, RecordTypes
  <2>3. no[t] >= 1 /\ Done(t) = no[t] - 1 /\ Done(t)' = no[t]
    BY <1>1 DEF Done, RecordTypes, Stations
  <2> QED
    BY <1>1, <2>1, <2>2, <2>3, WriteKept
<1> QED
  BY <1>2, <1>3, <1>4

LEMMA ReopenStep ==
  ASSUME RecordInv, NEW t \in Makers, Reopen(t)
  PROVE  RecordInv'
<1> USE DEF RecordInv
<1>1. pc' = [pc EXCEPT ![t] = "idle"] /\ UNCHANGED <<name, no>> /\ pc[t] = "reopen" /\ Write(t) /\ Opened(name[t])
  BY DEF Goto, Reopen
<1>2. DOMAIN files' = DOMAIN files \cup {name[t]} /\ \A n : Content(n)' = Content(n)
  BY <1>1, OpenedContent
<1>3. RecordTypes'
  BY <1>1, WriteTypes, OpenedTypes DEF RecordTypes, Places
<1>4. Stations'
  BY <1>1, <1>2 DEF Stations, RecordTypes, Write
<1>5. ASSUME NEW u \in Makers PROVE Kept(u)'
  <2>1. u # t => Done(u)' = Done(u)
    BY <1>1 DEF Done, RecordTypes
  <2>2. no[t] >= 1 /\ Done(t) = no[t] - 1 /\ Done(t)' = no[t]
    BY <1>1 DEF Done, RecordTypes, Stations
  <2> QED
    BY <1>1, <1>2, <2>1, <2>2, WriteKept
<1> QED
  BY <1>3, <1>4, <1>5

LEMMA CloseStep ==
  ASSUME RecordInv, NEW t \in Makers, Close(t)
  PROVE  RecordInv'
<1> USE DEF RecordInv
<1>1. /\ pc' = [pc EXCEPT ![t] = "reopen"] /\ no' = no /\ pc[t] = "switch" /\ Flushed(t)
      /\ name' = [name EXCEPT ![t] = CreateNewFile(t)]
  BY DEF Goto, Close, Flushed
<1>2. name[t] \in DOMAIN files
  BY <1>1 DEF Stations
<1>3. DOMAIN files' = DOMAIN files
  BY <1>1, <1>2, FlushContent
<1>4. RecordTypes'
  BY <1>1, <1>2, FlushTypes DEF RecordTypes, Places
<1>5. Stations'
  BY <1>1, <1>3 DEF Stations, RecordTypes, Flushed
<1>6. ASSUME NEW u \in Makers PROVE Kept(u)'
  <2>1. Done(u)' = Done(u)
    BY <1>1 DEF Done, RecordTypes
  <2>2. u # t => name'[u] = name[u]
    BY <1>1 DEF RecordTypes
  <2> QED
    BY <1>1, <1>2, <2>1, <2>2, FlushKept
<1> QED
  BY <1>4, <1>5, <1>6

LEMMA SpillStep ==
  ASSUME RecordInv, NEW t \in Makers, Spill(t)
  PROVE  RecordInv'
<1> USE DEF RecordInv
<1>1. UNCHANGED <<pc, no, name>> /\ Flushed(t) /\ stream[t] # <<>>
  BY DEF Spill, Flushed
<1>2. name[t] \in DOMAIN files
  BY <1>1 DEF Stations
<1>3. DOMAIN files' = DOMAIN files
  BY <1>1, <1>2, FlushContent
<1>4. RecordTypes'
  BY <1>1, <1>2, FlushTypes DEF RecordTypes
<1>5. Stations'
  BY <1>1, <1>3 DEF Stations, RecordTypes, Flushed
<1>6. ASSUME NEW u \in Makers PROVE Kept(u)'
  <2>1. Done(u)' = Done(u)
    BY <1>1 DEF Done
  <2> QED
    BY <1>1, <1>2, <2>1, FlushKept
<1> QED
  BY <1>4, <1>5, <1>6

LEMMA RecordAside ==
  ASSUME RecordInv, UNCHANGED <<pc, no, name, files, stream>>
  PROVE  RecordInv'
<1>1. \A n : Content(n)' = Content(n)
  BY DEF Content
<1>2. RecordTypes' /\ Stations'
  BY DEF RecordInv, RecordTypes, Stations
<1>3. ASSUME NEW u \in Makers PROVE Kept(u)'
  <2>1. Done(u)' = Done(u)
    BY DEF Done
  <2>2. \A n : Text(u, n)' = Text(u, n)
    BY <1>1 DEF Text
  <2> QED
    BY <2>1, <2>2, KeptSame DEF RecordInv
<1> QED
  BY <1>2, <1>3 DEF RecordInv

LEMMA RecordStep ==
  ASSUME RecordInv, [Next]_vars
  PROVE  RecordInv'
<1>1. ASSUME NEW t \in Makers, Construct(t) PROVE RecordInv'
  <2>1. Goto(t, "name") /\ UNCHANGED <<name, no, files, stream>> /\ pc[t] = "none"
    BY <1>1 DEF Construct
  <2> QED
    BY <2>1, QuietStep DEF Places
<1>2. ASSUME NEW t \in Makers, NameFile(t) PROVE RecordInv'
  <2>1. Goto(t, "create") /\ UNCHANGED <<no, files, stream>> /\ pc[t] = "name"
        /\ name' = [name EXCEPT ![t] = CreateNewFile(t)]
    BY <1>2 DEF NameFile
  <2> QED
    BY <2>1, QuietStep DEF Places
<1>3. ASSUME NEW t \in Makers, OpenFirst(t) PROVE RecordInv'
  <2>1. CASE CanOpen(name[t])
    BY <1>3, <2>1, OpenFirstStep DEF OpenFirst
  <2>2. CASE ~ CanOpen(name[t])
    <3>1. Goto(t, "failed") /\ UNCHANGED <<name, no, files, stream>> /\ pc[t] = "create"
      BY <1>3, <2>2 DEF OpenFirst
    <3> QED
      BY <3>1, QuietStep DEF Places
  <2> QED
    BY <2>1, <2>2
<1>4. ASSUME NEW t \in Makers, Call(t) PROVE RecordInv'
  <2>1. Goto(t, "test") /\ UNCHANGED <<name, files, stream>> /\ pc[t] = "idle" /\ no' = [no EXCEPT ![t] = @ + 1]
    BY <1>4 DEF Call
  <2> QED
    BY <2>1, QuietStep DEF Places
<1>5. ASSUME NEW t \in Makers, MustSwitch(t) PROVE RecordInv'
  <2>1. Goto(t, "switch") /\ UNCHANGED <<name, no, files, stream>> /\ pc[t] = "test"
    BY <1>5 DEF MustSwitch
  <2> QED
    BY <2>1, QuietStep DEF Places
<1>6. ASSUME NEW t \in Makers, DirectoryStep(t), UNCHANGED sinkVars PROVE RecordInv'
  BY <1>6, RecordAside DEF sinkVars
<1>7. CASE Tick \/ UNCHANGED vars
  BY <1>7, RecordAside DEF Tick, sinkVars, vars
<1> QED
  BY <1>1, <1>2, <1>3, <1>4, <1>5, <1>6, <1>7, WriteOnStep, ReopenStep, CloseStep, SpillStep DEF Next, Sink

(* No record of a sink is lost, doubled or out of order, through all the   *)
(* files it opens, closes and comes back to, and whatever other sinks      *)
(* append to the same files (test.cc:34-62).                               *)
THEOREM RecordsAreKept == Spec => []RecordsKept
<1>1. Init => RecordInv
  BY RecordInit
<1>2. RecordInv /\ [Next]_vars => RecordInv'
  BY RecordStep
<1>3. RecordInv => RecordsKept
  BY KeptImplies
<1> QED
  BY <1>1, <1>2, <1>3, PTL DEF Spec

-----------------------------------------------------------------------------
(* The kernel's walk along a path.                                         *)

(* The provers do not know that a string they can read is in STRING.       *)
Token == STRING \cup {"0", "1", "2", "3", "4", "5", "6", "7", "8", "9"}

Dir == Seq(Seq(Token))
Spot == [at : Dir, name : Seq(Token)]
WalkOn(p, before, i) ==
  IF p[i] = "/" THEN [at |-> Enter(before.at, before.name), name |-> <<>>]
  ELSE [before EXCEPT !.name = Append(@, p[i])]

LEMMA EnterType ==
  ASSUME NEW at \in Dir, NEW part \in Seq(Token)
  PROVE  Enter(at, part) \in Dir
<1>1. at # <<>> => Front(at) \in Dir
  BY DEF Dir, Front
<1>2. Append(at, part) \in Dir
  BY DEF Dir
<1> QED
  BY <1>1, <1>2 DEF Enter

(* One name leads nowhere new, or to a directory in the one it starts from.*)
LEMMA EnterCloses ==
  ASSUME NEW at \in Dir, NEW part \in Seq(Token), NEW D,
         at \in D, \A d \in D : d # <<>> => Front(d) \in D
  PROVE  LET d == Enter(at, part) IN d \notin D => Front(d) = at
<1>1. Front(Append(at, part)) = at
  BY DEF Dir, Front
<1> QED
  BY <1>1 DEF Enter

LEMMA RootFacts ==
  /\ <<>> \in Root /\ Cwd \in Root /\ Cwd \in Dir /\ <<>> \in Dir
  /\ \A d \in Root : d # <<>> => Front(d) \in Root
  /\ Root \subseteq Dir
<1>1. Seq(STRING) \subseteq Seq(Token)
  BY DEF Token
<1>2. Seq(Seq(STRING)) \subseteq Dir
  <2> HIDE DEF Token
  <2> QED
    BY <1>1 DEF Dir
<1> QED
  BY <1>2, DirectoriesAssumption DEF Dir

LEMMA WalkDef ==
  ASSUME NEW p \in Seq(Token)
  PROVE  /\ Walk(p) \in [0 .. Len(p) -> Spot]
         /\ Walk(p)[0] = [at |-> Begin(p), name |-> <<>>]
         /\ \A i \in 1 .. Len(p) : Walk(p)[i] = WalkOn(p, Walk(p)[i - 1], i)
<1> DEFINE S == 0 .. Len(p)
           V == Spot
           rank == [i \in S |-> i]
           start == [at |-> Begin(p), name |-> <<>>]
           step == [f \in [S -> V] |-> [i \in S |-> IF i = 0 THEN start ELSE WalkOn(p, f[i - 1], i)]]
<1>1. start \in V
  <2>1. Begin(p) \in Dir /\ <<>> \in Seq(Token)
    BY RootFacts DEF Begin
  <2> QED
    BY <2>1 DEF Spot
<1>2. ASSUME NEW v \in V, NEW i \in S, i # 0 PROVE WalkOn(p, v, i) \in V
  <2>1. p[i] \in Token
    BY <1>2
  <2>2. Enter(v.at, v.name) \in Dir
    BY EnterType DEF Spot
  <2>3. Append(v.name, p[i]) \in Seq(Token) /\ <<>> \in Seq(Token)
    BY <2>1 DEF Spot
  <2> QED
    BY <2>2, <2>3 DEF WalkOn, Spot
<1>3. step \in [[S -> V] -> [S -> V]]
  <2> SUFFICES ASSUME NEW f \in [S -> V], NEW i \in S, i # 0 PROVE WalkOn(p, f[i - 1], i) \in V
    BY <1>1
  <2>1. i - 1 \in S
    OBVIOUS
  <2> QED
    BY <1>2, <2>1
<1>4. Grounded(S, V, rank, step)
  <2> SUFFICES ASSUME NEW f \in [S -> V], NEW g \in [S -> V], NEW i \in S,
                      \A j \in S : rank[j] < rank[i] => f[j] = g[j]
               PROVE  step[f][i] = step[g][i]
    BY DEF Grounded
  <2>1. i # 0 => i - 1 \in S /\ f[i - 1] = g[i - 1]
    OBVIOUS
  <2> QED
    BY <2>1
<1>5. rank \in [S -> 0 .. Len(p)] /\ V # {} /\ Len(p) \in Nat
  BY <1>1
<1>6. Recursive(S, V, step)
  <2> HIDE DEF S, V, rank, start, step
  <2> QED
    BY <1>3, <1>4, <1>5, RecursiveFunction
<1> DEFINE h == Walk(p)
<1>7. \E f \in [S -> V] : f = [i \in S |-> IF i = 0 THEN start ELSE WalkOn(p, f[i - 1], i)]
  BY <1>6 DEF Recursive
<1>8. h = CHOOSE f : f = [i \in S |-> IF i = 0 THEN start ELSE WalkOn(p, f[i - 1], i)]
  BY DEF Walk, WalkOn
<1>9. h = [i \in S |-> IF i = 0 THEN start ELSE WalkOn(p, h[i - 1], i)]
  <2> HIDE DEF S, V, h, start
  <2> QED
    BY <1>7, <1>8
<1> HIDE DEF h
<1>10. \A i \in S : h[i] \in V
  <2> DEFINE T == {i \in S : h[i] \in V}
  <2>1. ASSUME NEW i \in S, \A j \in S : rank[j] < rank[i] => j \in T PROVE i \in T
    <3>1. i # 0 => i - 1 \in T
      BY <2>1
    <3> HIDE DEF V, start
    <3> QED
      BY <1>1, <1>2, <1>9, <3>1
  <2>2. Progressive(S, rank, T)
    BY <2>1 DEF Progressive
  <2>3. T \in SUBSET S
    OBVIOUS
  <2>4. T = S
    <3> HIDE DEF S, V, rank, T
    <3> QED
      BY <1>5, <2>2, <2>3, RankInduction
  <2> QED
    BY <2>4
<1> QED
  BY <1>9, <1>10 DEF h

(* A path is read alike as far as another begins with it.                  *)
LEMMA PrefixWalk ==
  ASSUME NEW p \in Seq(Token), NEW n \in 1 .. Len(p)
  PROVE  LET q == SubSeq(p, 1, n)
         IN  /\ q \in Seq(Token) /\ q # <<>> /\ Len(q) = n
             /\ \A i \in 1 .. n : q[i] = p[i]
             /\ \A i \in 0 .. n : Walk(q)[i] = Walk(p)[i]
<1> DEFINE q == SubSeq(p, 1, n)
<1>1. q \in Seq(Token) /\ q # <<>> /\ Len(q) = n /\ \A i \in 1 .. n : q[i] = p[i]
  OBVIOUS
<1>2. Walk(q)[0] = Walk(p)[0]
  <2>1. Begin(q) = Begin(p)
    BY <1>1 DEF Begin
  <2> QED
    BY <1>1, <2>1, WalkDef
<1>3. \A i \in 1 .. n : Walk(q)[i] = WalkOn(p, Walk(q)[i - 1], i) /\ Walk(p)[i] = WalkOn(p, Walk(p)[i - 1], i)
  <2>1. \A i \in 1 .. n : Walk(q)[i] = WalkOn(q, Walk(q)[i - 1], i)
    <3> HIDE DEF q
    <3> QED
      BY <1>1, WalkDef
  <2>2. \A i \in 1 .. n : Walk(p)[i] = WalkOn(p, Walk(p)[i - 1], i)
    <3> HIDE DEF q
    <3>1. \A i \in 1 .. Len(p) : Walk(p)[i] = WalkOn(p, Walk(p)[i - 1], i)
      BY WalkDef
    <3>2. \A i \in 1 .. n : i \in 1 .. Len(p)
      OBVIOUS
    <3> QED
      BY <3>1, <3>2
  <2> QED
    BY <1>1, <2>1, <2>2 DEF WalkOn
<1> DEFINE T == {i \in 0 .. n : Walk(q)[i] # Walk(p)[i]}
<1>4. ASSUME T # {} PROVE FALSE
  <2>1. PICK i \in T : \A j \in T : i <= j
    <3>1. T \in SUBSET Nat
      OBVIOUS
    <3> HIDE DEF T
    <3> QED
      BY <1>4, <3>1, LeastNumber
  <2>2. i \in 1 .. n /\ i - 1 \in 0 .. n
    BY <1>2
  <2>3. Walk(q)[i - 1] = Walk(p)[i - 1]
    BY <2>1, <2>2
  <2> QED
    BY <1>3, <2>2, <2>3
<1> QED
  BY <1>1, <1>4

(* The directories on the way to token n of a path.                        *)
Through(p, n, D) == \A j \in Slashes(p) : j < n => Reached(p, j - 1) \in D
Closed(D) == D \subseteq Dir /\ Root \subseteq D /\ \A d \in D : d # <<>> => Front(d) \in D

LEMMA SlashFacts ==
  ASSUME NEW p \in Seq(Token)
  PROVE  Slashes(p) = {i \in 1 .. Len(p) : p[i] = "/"}
BY DEF Slashes

LEMMA BeginThere ==
  ASSUME NEW p \in Seq(Token), NEW D, Closed(D)
  PROVE  Begin(p) \in D /\ Cwd \in D /\ <<>> \in D
BY RootFacts DEF Begin, Closed

(* Where the kernel stands on its way is a directory that is there.        *)
LEMMA OnTheWay ==
  ASSUME NEW p \in Seq(Token), NEW D, Closed(D), NEW n \in 0 .. Len(p), Through(p, n + 1, D)
  PROVE  Walk(p)[n].at \in D
<1> DEFINE T == {i \in 0 .. n : Walk(p)[i].at \notin D}
<1> SUFFICES ASSUME T # {} PROVE FALSE
  OBVIOUS
<1>1. PICK i \in T : \A j \in T : i <= j
  <2>1. T \in SUBSET Nat
    OBVIOUS
  <2> HIDE DEF T
  <2> QED
    BY <2>1, LeastNumber
<1>2. i # 0
  <2>1. Walk(p)[0].at = Begin(p)
    <3>1. Walk(p)[0] = [at |-> Begin(p), name |-> <<>>]
      BY WalkDef, Zenon
    <3> QED
      BY <3>1
  <2>2. Begin(p) \in D
    BY BeginThere
  <2> QED
    BY <2>1, <2>2
<1>3. /\ i \in 1 .. Len(p) /\ i - 1 \in 0 .. Len(p) /\ Walk(p)[i - 1].at \in D
      /\ Walk(p)[i] = WalkOn(p, Walk(p)[i - 1], i) /\ Walk(p)[i - 1] \in Spot
  <2>1. i \in 1 .. Len(p) /\ i - 1 \in 0 .. Len(p) /\ i - 1 \in 0 .. n
    BY <1>2
  <2>2. Walk(p)[i - 1].at \in D
    BY <1>1, <2>1
  <2> QED
    BY <2>1, <2>2, WalkDef
<1>4. CASE p[i] = "/"
  <2>1. i \in Slashes(p) /\ i < n + 1
    BY <1>3, <1>4, SlashFacts
  <2>2. Reached(p, i - 1) \in D
    BY <2>1 DEF Through
  <2> QED
    BY <1>3, <1>4, <2>2 DEF WalkOn, Reached
<1>5. CASE p[i] # "/"
  BY <1>3, <1>5 DEF WalkOn, Spot
<1> QED
  BY <1>4, <1>5

(* The first i tokens of a path, as a path.                                *)
LEMMA PrefixPassable ==
  ASSUME NEW p \in Seq(Token), NEW n \in 1 .. Len(p)
  PROVE  LET q == SubSeq(p, 1, n)
         IN  /\ Passable(q) <=> Through(p, n + 1, dirs)
             /\ Target(q) = Reached(p, n)
<1> DEFINE q == SubSeq(p, 1, n)
<1>1. /\ q \in Seq(Token) /\ q # <<>> /\ Len(q) = n
      /\ \A i \in 1 .. n : q[i] = p[i]
      /\ \A i \in 0 .. n : Walk(q)[i] = Walk(p)[i]
  BY PrefixWalk
<1> HIDE DEF q
<1>2. \A i \in 0 .. n : Reached(q, i) = Reached(p, i)
  BY <1>1 DEF Reached
<1>3. Slashes(q) = {i \in Slashes(p) : i < n + 1}
  BY <1>1, SlashFacts
<1>4. Passable(q) <=> \A i \in Slashes(q) : Reached(p, i - 1) \in dirs
  <2>1. \A i \in Slashes(q) : i - 1 \in 0 .. n
    BY <1>1, SlashFacts
  <2> QED
    BY <1>2, <2>1 DEF Passable
<1> QED
  BY <1>1, <1>2, <1>3, <1>4 DEF Through, Target, q

LEMMA WholePassable ==
  ASSUME NEW p \in Seq(Token)
  PROVE  Passable(p) <=> Through(p, Len(p) + 1, dirs)
BY SlashFacts DEF Passable, Through

-----------------------------------------------------------------------------
(* The places the loop stops at are enough: what is between two of them is *)
(* there already.                                                          *)

CutsOf(p) ==
  {pos \in DOMAIN p :
     /\ p[pos] \in Separators
     /\ pos > 1 /\ p[pos - 1] \notin Separators
     /\ SubSeq(p, 1, pos - 1) \notin {<<".">>, <<"..">>}}

(* A name that nothing but "." or ".." is before leads to a directory that *)
(* was there at first.                                                     *)
LEMMA DotsThere ==
  ASSUME NEW p \in Seq(Token), NEW D, Closed(D), NEW n \in 1 .. Len(p),
         SubSeq(p, 1, n) \in {<<".">>, <<"..">>}
  PROVE  Reached(p, n) \in D
<1>1. n = 1 /\ p[1] \in {".", ".."}
  <2> DEFINE q == SubSeq(p, 1, n)
  <2>1. Len(q) = n /\ q[1] = p[1]
    OBVIOUS
  <2>2. q = <<".">> \/ q = <<"..">>
    OBVIOUS
  <2> HIDE DEF q
  <2>3. Len(q) = 1 /\ q[1] \in {".", ".."}
    BY <2>2
  <2> QED
    BY <2>1, <2>3
<1>2. Begin(p) = Cwd
  BY <1>1 DEF Begin
<1>3. Walk(p)[0] = [at |-> Cwd, name |-> <<>>]
  <2>1. Walk(p)[0] = [at |-> Begin(p), name |-> <<>>]
    BY WalkDef, Zenon
  <2> QED
    BY <1>2, <2>1
<1>4. Walk(p)[1] = WalkOn(p, Walk(p)[0], 1)
  <2>1. \A i \in 1 .. Len(p) : Walk(p)[i] = WalkOn(p, Walk(p)[i - 1], i)
    BY WalkDef
  <2>2. Walk(p)[1] = WalkOn(p, Walk(p)[1 - 1], 1)
    BY <1>1, <2>1
  <2> QED
    BY <2>2
<1>5. Walk(p)[1] = [at |-> Cwd, name |-> <<p[1]>>]
  BY <1>1, <1>3, <1>4 DEF WalkOn
<1>6. Reached(p, n) = Enter(Cwd, <<p[1]>>)
  BY <1>1, <1>5 DEF Reached
<1>7. Cwd \in D /\ <<>> \in D
  BY BeginThere
<1>8. Cwd # <<>> => Front(Cwd) \in D
  BY <1>7 DEF Closed
<1> QED
  BY <1>1, <1>6, <1>7, <1>8 DEF Enter

LEMMA NothingBetween ==
  ASSUME NEW p \in Seq(Token), Plain(p), NEW D, Closed(D),
         NEW c \in 0 .. Len(p), NEW n \in 1 .. Len(p) + 1, c < n,
         Through(p, c, D), c # 0 => Reached(p, c - 1) \in D,
         \A j \in CutsOf(p) : c < j => n <= j
  PROVE  Through(p, n, D)
<1> DEFINE T == {j \in Slashes(p) : j < n /\ Reached(p, j - 1) \notin D}
<1> SUFFICES ASSUME T # {} PROVE FALSE
  BY DEF Through
<1>1. PICK j \in T : \A k \in T : j <= k
  <2>1. T \in SUBSET Nat
    BY SlashFacts
  <2> HIDE DEF T
  <2> QED
    BY <2>1, LeastNumber
<1>2. j \in 1 .. Len(p) /\ p[j] = "/" /\ j < n /\ Reached(p, j - 1) \notin D
  BY SlashFacts
<1>3. c < j
  <2>1. j # c
    BY <1>2
  <2>2. ~ (j < c)
    BY <1>2 DEF Through
  <2> QED
    BY <1>2, <2>1, <2>2
<1>4. \A i \in 0 .. Len(p) : Walk(p)[i] \in Spot
  BY WalkDef
<1>5. CASE j = 1
  <2>1. Walk(p)[0] = [at |-> Begin(p), name |-> <<>>]
    BY WalkDef, Zenon
  <2>2. Reached(p, 0) = Begin(p)
    BY <2>1 DEF Reached, Enter
  <2> QED
    BY <1>2, <1>5, <2>2, BeginThere
<1>6. CASE j > 1 /\ p[j - 1] = "/"
  <2>1. j - 1 \in 1 .. Len(p) /\ j - 1 \in Slashes(p) /\ j - 1 < j /\ j - 1 < n
    BY <1>2, <1>6, SlashFacts
  <2>2. Reached(p, j - 1 - 1) \in D
    <3>1. j - 1 \notin T
      <4> HIDE DEF T
      <4> QED
        BY <1>1, <1>2
    <3> QED
      BY <2>1, <3>1
  <2>3. \A i \in 1 .. Len(p) : Walk(p)[i] = WalkOn(p, Walk(p)[i - 1], i)
    BY WalkDef
  <2>4. Walk(p)[j - 1] = WalkOn(p, Walk(p)[j - 1 - 1], j - 1)
    BY <2>1, <2>3
  <2>5. Walk(p)[j - 1] = [at |-> Reached(p, j - 1 - 1), name |-> <<>>]
    BY <1>6, <2>4 DEF WalkOn, Reached
  <2>6. Reached(p, j - 1) = Reached(p, j - 1 - 1)
    <3> DEFINE before == Reached(p, j - 1 - 1)
    <3>1. Walk(p)[j - 1].at = before /\ Walk(p)[j - 1].name = <<>>
      BY <2>5
    <3> HIDE DEF before
    <3>2. Enter(before, <<>>) = before
      BY DEF Enter
    <3>3. Reached(p, j - 1) = before
      BY <3>1, <3>2 DEF Reached
    <3> QED
      BY <3>3 DEF before
  <2> QED
    BY <1>2, <2>2, <2>6
<1>7. CASE j > 1 /\ p[j - 1] # "/"
  <2>1. j - 1 \in 1 .. Len(p) - 1 /\ p[j - 1 + 1] = "/"
    BY <1>2, <1>7
  <2>2. p[j - 1] # "\\"
    BY <2>1 DEF Plain
  <2>3. p[j - 1] \notin Separators /\ p[j] \in Separators /\ j \in DOMAIN p
    BY <1>2, <1>7, <2>2 DEF Separators
  <2>4. j \notin CutsOf(p)
    BY <1>2, <1>3
  <2>5. SubSeq(p, 1, j - 1) \in {<<".">>, <<"..">>}
    BY <1>7, <2>3, <2>4 DEF CutsOf
  <2>6. j - 1 \in 1 .. Len(p)
    BY <2>1
  <2> QED
    BY <1>2, <2>5, <2>6, DotsThere
<1> QED
  BY <1>2, <1>5, <1>6, <1>7

-----------------------------------------------------------------------------
(* The directory part of a file name.                                      *)

LastOf(I) == IF I # {} THEN Max(I) ELSE 0
Breaks(p) == {i \in 1 .. Len(p) : p[i] \in Separators}

LEMMA LastOfFacts ==
  ASSUME NEW n \in Nat, NEW I \in SUBSET (1 .. n)
  PROVE  /\ LastOf(I) \in 0 .. n /\ \A i \in I : i <= LastOf(I)
         /\ LastOf(I) # 0 => LastOf(I) \in I
<1>1. CASE I = {}
  BY <1>1 DEF LastOf
<1>2. CASE I # {}
  <2> DEFINE T == {n - i : i \in I}
  <2>1. PICK k \in T : \A j \in T : k <= j
    <3>1. PICK i \in I : TRUE
      BY <1>2
    <3>2. n - i \in T
      OBVIOUS
    <3>3. \A j \in I : j \in 1 .. n
      OBVIOUS
    <3>4. T \in SUBSET Nat
      BY <3>3
    <3> HIDE DEF T
    <3> QED
      BY <3>2, <3>4, LeastNumber
  <2>2. PICK x \in I : k = n - x
    BY <2>1
  <2>3. \A i \in I : n - i \in T
    OBVIOUS
  <2>4. \A i \in I : x >= i
    <3> HIDE DEF T
    <3> QED
      BY <2>1, <2>2, <2>3
  <2>5. Max(I) \in I /\ \A i \in I : Max(I) >= i
    BY <2>4 DEF Max
  <2> DEFINE m == Max(I)
  <2>6. LastOf(I) = m
    BY <1>2 DEF LastOf
  <2>7. m \in I /\ \A i \in I : m >= i
    BY <2>5
  <2> HIDE DEF m
  <2>8. m \in 0 .. n /\ \A i \in I : i <= m
    <3>1. \A i \in I : i \in 1 .. n
      OBVIOUS
    <3> QED
      BY <2>7, <3>1
  <2> QED
    BY <2>6, <2>7, <2>8
<1> QED
  BY <1>1, <1>2

LEMMA PathIs ==
  ASSUME NEW p \in Seq(Token)
  PROVE  /\ Path(p) = SubSeq(p, 1, LastOf(Breaks(p)))
         /\ Parent(p) = SubSeq(p, 1, LastOf(Slashes(p)))
<1>1. Path(p) = SubSeq(p, 1, LastOf(Breaks(p)))
  BY DEF Path, SelectLastInSeq, LastOf, Breaks
<1>2. Parent(p) = SubSeq(p, 1, LastOf({i \in 1 .. Len(p) : p[i] = "/"}))
  BY DEF Parent, SelectLastInSeq, LastOf
<1> QED
  BY <1>1, <1>2, SlashFacts

(* Who has made the directories on the way can open the file.              *)
LEMMA PassableOpens ==
  ASSUME NEW p \in Seq(Token), Closed(dirs), Passable(p)
  PROVE  CanOpen(p)
<1> DEFINE m == LastOf(Slashes(p))
<1>1. /\ m \in 0 .. Len(p) /\ \A i \in Slashes(p) : i <= m
      /\ m # 0 => m \in Slashes(p)
  BY LastOfFacts, SlashFacts
<1>2. Parent(p) = SubSeq(p, 1, m)
  BY PathIs
<1>3. Through(p, Len(p) + 1, dirs)
  BY WholePassable
<1> HIDE DEF m
<1>4. CASE m = 0
  <2>1. Parent(p) = <<>>
    BY <1>2, <1>4
  <2> QED
    BY <2>1 DEF CanOpen
<1>5. CASE m # 0
  <2>1. m \in 1 .. Len(p) /\ p[m] = "/" /\ m \in Slashes(p)
    BY <1>1, <1>5, SlashFacts
  <2>2. Through(p, m + 1, dirs)
    BY <1>1, <1>3, <2>1, SlashFacts DEF Through
  <2>3. Passable(Parent(p)) /\ Target(Parent(p)) = Reached(p, m)
    BY <1>2, <2>1, <2>2, PrefixPassable
  <2>4. Reached(p, m - 1) \in dirs
    BY <1>3, <2>1 DEF Through
  <2>5. Reached(p, m) = Reached(p, m - 1)
    <3>1. \A i \in 1 .. Len(p) : Walk(p)[i] = WalkOn(p, Walk(p)[i - 1], i)
      BY WalkDef
    <3>2. Walk(p)[m] = WalkOn(p, Walk(p)[m - 1], m)
      BY <2>1, <3>1
    <3> DEFINE before == Reached(p, m - 1)
    <3>3. Walk(p)[m].at = before /\ Walk(p)[m].name = <<>>
      BY <2>1, <3>2 DEF WalkOn, Reached
    <3> HIDE DEF before
    <3>4. Reached(p, m) = before
      BY <3>3 DEF Reached, Enter
    <3> QED
      BY <3>4 DEF before
  <2>6. Parent(p) # <<>>
    BY <1>2, <2>1
  <2> QED
    BY <2>3, <2>4, <2>5, <2>6 DEF CanOpen, Exists
<1> QED
  BY <1>4, <1>5

(* Making the directories of a file's path is as good as of its name.      *)
LEMMA PathPassable ==
  ASSUME NEW p \in Seq(Token)
  PROVE  Passable(Path(p)) => Passable(p)
<1> DEFINE k == LastOf(Breaks(p))
<1>1. k \in 0 .. Len(p) /\ \A i \in Breaks(p) : i <= k
  BY LastOfFacts DEF Breaks
<1>2. Slashes(p) \subseteq Breaks(p)
  BY SlashFacts DEF Breaks, Separators
<1>3. Path(p) = SubSeq(p, 1, k)
  BY PathIs
<1> HIDE DEF k
<1>4. CASE k = 0
  <2>1. Slashes(p) = {}
    BY <1>1, <1>2, <1>4, SlashFacts
  <2> QED
    BY <2>1 DEF Passable
<1>5. CASE k # 0
  <2>1. k \in 1 .. Len(p)
    BY <1>1, <1>5
  <2>2. Passable(Path(p)) <=> Through(p, k + 1, dirs)
    BY <1>3, <2>1, PrefixPassable
  <2>3. \A i \in Slashes(p) : i < k + 1
    BY <1>1, <1>2, SlashFacts
  <2> QED
    BY <2>2, <2>3 DEF Through, Passable
<1> QED
  BY <1>4, <1>5

LEMMA PathType ==
  ASSUME NEW p \in Seq(Token)
  PROVE  Path(p) \in Seq(Token)
<1> DEFINE k == LastOf(Breaks(p))
<1>1. k \in 0 .. Len(p)
  BY LastOfFacts DEF Breaks
<1>2. Path(p) = SubSeq(p, 1, k)
  BY PathIs
<1> HIDE DEF k
<1> QED
  BY <1>1, <1>2

-----------------------------------------------------------------------------
(* The makers.                                                             *)

MakerTypes ==
  /\ pathname \in [Makers -> Seq(Token)]
  /\ maker \in [Makers -> {"none", "whole", "sub", "mkdir", "made"}]
  /\ cut \in [Makers -> Nat]
  /\ refused \subseteq Makers

(* Up to the place a maker has come to all the directories are there, if   *)
(* nothing has hindered it.                                                *)
OnItsWay(t) ==
  /\ maker[t] \in {"sub", "mkdir"} => Through(pathname[t], cut[t], dirs)
  /\ maker[t] = "made" => Passable(pathname[t])
Making(t) ==
  /\ cut[t] \in 0 .. Len(pathname[t])
  /\ maker[t] \in {"none", "whole"} => cut[t] = 0
  /\ maker[t] \in {"sub", "mkdir"} => cut[t] \in CutsOf(pathname[t])
  /\ Unhindered(t) => OnItsWay(t)

MakersInv == Closed(dirs) /\ MakerTypes /\ \A t \in Makers : Making(t)

LEMMA MakersInit == DirectoryInit => MakersInv
<1> SUFFICES ASSUME DirectoryInit PROVE MakersInv
  OBVIOUS
<1>1. Closed(dirs)
  BY RootFacts DEF DirectoryInit, Closed
<1>2. MakerTypes
  <2>1. <<>> \in Seq(Token)
    OBVIOUS
  <2> QED
    BY <2>1 DEF DirectoryInit, MakerTypes
<1>3. ASSUME NEW t \in Makers PROVE Making(t)
  <2>1. pathname[t] = <<>> /\ maker[t] = "none" /\ cut[t] = 0
    BY <1>3 DEF DirectoryInit
  <2> QED
    BY <2>1 DEF Making, OnItsWay
<1> QED
  BY <1>1, <1>2, <1>3 DEF MakersInv

(* Directories do not go away.                                             *)
LEMMA OthersKeep ==
  ASSUME MakersInv, NEW t \in Makers, dirs \subseteq dirs', refused \subseteq refused',
         pathname'[t] = pathname[t], maker'[t] = maker[t], cut'[t] = cut[t]
  PROVE  Making(t)'
<1> DEFINE p == pathname[t]
<1>1. Making(t)
  BY DEF MakersInv
<1>2. Through(p, cut[t], dirs) => Through(p, cut[t], dirs')
  BY DEF Through
<1>3. Passable(p) => (\A i \in Slashes(p) : Reached(p, i - 1) \in dirs')
  BY DEF Passable
<1>4. Unhindered(t)' => Unhindered(t)
  BY DEF Unhindered, Plain
<1> QED
  BY <1>1, <1>2, <1>3, <1>4 DEF Making, OnItsWay, Passable

(* The loop goes on once what it has looked at is there.                   *)
LEMMA AdvanceMaking ==
  ASSUME MakersInv, NEW t \in Makers, Advance(t), pathname' = pathname, Closed(dirs'),
         refused' \subseteq Makers,
         Unhindered(t)' =>
           /\ Through(pathname[t], cut[t], dirs')
           /\ cut[t] # 0 => Reached(pathname[t], cut[t] - 1) \in dirs'
  PROVE  /\ MakerTypes' /\ Making(t)'
         /\ \A u \in Makers \ {t} : maker'[u] = maker[u] /\ cut'[u] = cut[u]
<1> DEFINE p == pathname[t]
           c == cut[t]
           later == {pos \in CutsOf(p) : pos > c}
<1>1. p \in Seq(Token) /\ c \in 0 .. Len(p)
  BY DEF MakersInv, MakerTypes, Making
<1>2. Unhindered(t)' => Plain(p)
  BY DEF Unhindered, Plain
<1>3. LaterCuts(t) = later /\ later \subseteq 1 .. Len(p)
  BY <1>1 DEF LaterCuts, Cuts, CutsOf, SubPath
<1>4. CASE later = {}
  <2>1. maker' = [maker EXCEPT ![t] = "made"] /\ cut' = cut
    BY <1>3, <1>4 DEF Advance
  <2>2. ASSUME Unhindered(t)' PROVE Through(p, Len(p) + 1, dirs')
    <3>1. \A j \in CutsOf(p) : c < j => Len(p) + 1 <= j
      <4>1. \A j \in CutsOf(p) : j \in Int
        BY <1>1 DEF CutsOf
      <4>2. \A j \in CutsOf(p) : ~ (j > c)
        BY <1>4
      <4> QED
        BY <1>1, <4>1, <4>2
    <3>2. Len(p) + 1 \in 1 .. Len(p) + 1 /\ c < Len(p) + 1
      BY <1>1
    <3> HIDE DEF p, c
    <3> QED
      BY <1>1, <1>2, <2>2, <3>1, <3>2, NothingBetween DEF p, c
  <2>3. Unhindered(t)' => \A i \in Slashes(p) : Reached(p, i - 1) \in dirs'
    BY <1>1, <2>2, SlashFacts DEF Through
  <2>4. Unhindered(t)' => Passable(pathname[t])'
    BY <2>3 DEF Passable
  <2>5. maker'[t] = "made" /\ \A u \in Makers \ {t} : maker'[u] = maker[u]
    BY <2>1 DEF MakersInv, MakerTypes
  <2> QED
    BY <1>1, <2>1, <2>4, <2>5 DEF MakersInv, MakerTypes, Making, OnItsWay
<1>5. CASE later # {}
  <2> DEFINE n == CHOOSE pos \in later : \A q \in later : pos <= q
  <2>1. n \in later /\ \A q \in later : n <= q
    <3>1. later \in SUBSET Nat
      BY <1>3
    <3> HIDE DEF later
    <3>2. \E pos \in later : \A q \in later : pos <= q
      BY <1>5, <3>1, LeastNumber
    <3> QED
      BY <3>2
  <2>2. maker' = [maker EXCEPT ![t] = "sub"] /\ cut' = [cut EXCEPT ![t] = n]
    BY <1>3, <1>5 DEF Advance
  <2>3. n \in CutsOf(p) /\ c < n /\ n \in 1 .. Len(p)
    BY <1>1, <1>3, <2>1
  <2>4. \A j \in CutsOf(p) : c < j => n <= j
    <3>1. \A j \in CutsOf(p) : j \in Int
      BY <1>1 DEF CutsOf
    <3>2. \A j \in CutsOf(p) : c < j => j \in later
      BY <1>1, <3>1
    <3> HIDE DEF later, n
    <3> QED
      BY <2>1, <3>2
  <2> HIDE DEF n, later
  <2>5. ASSUME Unhindered(t)' PROVE Through(p, n, dirs')
    <3>1. n \in 1 .. Len(p) + 1
      BY <2>3
    <3> QED
      BY <1>1, <1>2, <2>3, <2>4, <2>5, <3>1, NothingBetween
  <2>6. /\ maker'[t] = "sub" /\ cut'[t] = n
        /\ \A u \in Makers \ {t} : maker'[u] = maker[u] /\ cut'[u] = cut[u]
    BY <2>2 DEF MakersInv, MakerTypes
  <2>7. MakerTypes'
    BY <2>2, <2>3 DEF MakersInv, MakerTypes
  <2>8. Making(t)'
    BY <1>1, <2>3, <2>5, <2>6 DEF Making, OnItsWay
  <2> QED
    BY <2>6, <2>7, <2>8
<1> QED
  BY <1>4, <1>5

(* What a maker looks for with stat, and makes with mkdir.                 *)
LEMMA SubPathIs ==
  ASSUME MakersInv, NEW t \in Makers, maker[t] \in {"sub", "mkdir"}
  PROVE  /\ Passable(SubPath(t, cut[t])) <=> Through(pathname[t], cut[t], dirs)
         /\ Target(SubPath(t, cut[t])) = Reached(pathname[t], cut[t] - 1)
         /\ cut[t] - 1 \in 1 .. Len(pathname[t])
<1> DEFINE p == pathname[t]
           c == cut[t]
<1>1. p \in Seq(Token) /\ c \in CutsOf(p)
  BY DEF MakersInv, MakerTypes, Making
<1>2. c \in 1 .. Len(p) /\ c > 1
  BY <1>1 DEF CutsOf
<1>3. c - 1 \in 1 .. Len(p) /\ c - 1 + 1 = c
  BY <1>2
<1> HIDE DEF p, c
<1>4. /\ Passable(SubSeq(p, 1, c - 1)) <=> Through(p, c - 1 + 1, dirs)
      /\ Target(SubSeq(p, 1, c - 1)) = Reached(p, c - 1)
  BY <1>1, <1>3, PrefixPassable
<1> QED
  BY <1>1, <1>3, <1>4 DEF SubPath, p, c

LEMMA LookWholeInv == ASSUME MakersInv, NEW t \in Makers, LookWhole(t) PROVE MakersInv'
<1>1. dirs' = dirs /\ pathname' = pathname /\ refused' = refused /\ maker[t] = "whole"
  BY DEF LookWhole
<1>2. Closed(dirs')
  BY <1>1 DEF MakersInv
<1>3. CASE Exists(pathname[t])
  <2>1. maker' = [maker EXCEPT ![t] = "made"] /\ cut' = cut /\ Passable(pathname[t])
    BY <1>3 DEF LookWhole, Exists
  <2>2. /\ MakerTypes' /\ maker'[t] = "made"
        /\ \A u \in Makers \ {t} : maker'[u] = maker[u] /\ cut'[u] = cut[u]
    BY <1>1, <2>1 DEF MakersInv, MakerTypes
  <2>3. Making(t)'
    BY <1>1, <2>1, <2>2 DEF MakersInv, Making, OnItsWay, Passable
  <2>4. ASSUME NEW u \in Makers, u # t PROVE Making(u)'
    BY <1>1, <2>2, <2>4, OthersKeep
  <2> QED
    BY <1>2, <2>2, <2>3, <2>4 DEF MakersInv
<1>4. CASE ~ Exists(pathname[t])
  <2>1. Advance(t)
    BY <1>4 DEF LookWhole
  <2>2. cut[t] = 0 /\ pathname[t] \in Seq(Token)
    BY <1>1 DEF MakersInv, MakerTypes, Making
  <2>3. Through(pathname[t], cut[t], dirs')
    BY <2>2, SlashFacts DEF Through
  <2>4. /\ MakerTypes' /\ Making(t)'
        /\ \A u \in Makers \ {t} : maker'[u] = maker[u] /\ cut'[u] = cut[u]
    <3>1. refused' \subseteq Makers
      BY <1>1 DEF MakersInv, MakerTypes
    <3> QED
      BY <1>1, <1>2, <2>1, <2>2, <2>3, <3>1, AdvanceMaking
  <2>5. ASSUME NEW u \in Makers, u # t PROVE Making(u)'
    BY <1>1, <2>4, <2>5, OthersKeep
  <2> QED
    BY <1>2, <2>4, <2>5 DEF MakersInv
<1> QED
  BY <1>3, <1>4

LEMMA LookSubInv == ASSUME MakersInv, NEW t \in Makers, LookSub(t) PROVE MakersInv'
<1>1. dirs' = dirs /\ pathname' = pathname /\ refused' = refused /\ maker[t] = "sub"
  BY DEF LookSub
<1>2. Closed(dirs')
  BY <1>1 DEF MakersInv
<1>3. /\ Target(SubPath(t, cut[t])) = Reached(pathname[t], cut[t] - 1)
      /\ Passable(SubPath(t, cut[t])) => Through(pathname[t], cut[t], dirs)
  BY <1>1, SubPathIs
<1>4. CASE Exists(SubPath(t, cut[t]))
  <2>1. Advance(t) /\ Reached(pathname[t], cut[t] - 1) \in dirs'
    BY <1>1, <1>3, <1>4 DEF LookSub, Exists
  <2>2. Through(pathname[t], cut[t], dirs') /\ refused' \subseteq Makers
    BY <1>1, <1>3, <1>4 DEF Exists, MakersInv, MakerTypes
  <2>3. /\ MakerTypes' /\ Making(t)'
        /\ \A u \in Makers \ {t} : maker'[u] = maker[u] /\ cut'[u] = cut[u]
    BY <1>1, <1>2, <2>1, <2>2, AdvanceMaking
  <2>4. ASSUME NEW u \in Makers, u # t PROVE Making(u)'
    BY <1>1, <2>3, <2>4, OthersKeep
  <2> QED
    BY <1>2, <2>3, <2>4 DEF MakersInv
<1>5. CASE ~ Exists(SubPath(t, cut[t]))
  <2>1. maker' = [maker EXCEPT ![t] = "mkdir"] /\ cut' = cut
    BY <1>5 DEF LookSub
  <2>2. /\ MakerTypes' /\ maker'[t] = "mkdir"
        /\ \A u \in Makers \ {t} : maker'[u] = maker[u] /\ cut'[u] = cut[u]
    BY <1>1, <2>1 DEF MakersInv, MakerTypes
  <2>3. Making(t)'
    <3>1. Making(t) /\ (Unhindered(t)' => Unhindered(t))
      BY <1>1 DEF MakersInv, Unhindered, Plain
    <3> QED
      BY <1>1, <2>1, <2>2, <3>1 DEF Making, OnItsWay
  <2>4. ASSUME NEW u \in Makers, u # t PROVE Making(u)'
    BY <1>1, <2>2, <2>4, OthersKeep
  <2> QED
    BY <1>2, <2>2, <2>3, <2>4 DEF MakersInv
<1> QED
  BY <1>4, <1>5

(* Where a mkdir succeeds, there is a directory to make the new one in.    *)
LEMMA MakeableCloses ==
  ASSUME MakersInv, NEW t \in Makers, maker[t] = "mkdir", Makeable(SubPath(t, cut[t]))
  PROVE  Closed(dirs \cup {Reached(pathname[t], cut[t] - 1)})
<1> DEFINE p == pathname[t]
           c == cut[t]
           d == Reached(p, c - 1)
<1>1. c - 1 \in 1 .. Len(p) /\ Through(p, c, dirs) /\ d \notin dirs
  BY SubPathIs DEF Makeable
<1>2. p \in Seq(Token) /\ c \in Nat /\ Closed(dirs)
  BY DEF MakersInv, MakerTypes
<1>3. Walk(p)[c - 1].at \in dirs /\ Walk(p)[c - 1] \in Spot
  <2>1. c - 1 \in 0 .. Len(p) /\ c - 1 + 1 = c
    BY <1>1, <1>2
  <2>2. Through(p, c - 1 + 1, dirs)
    BY <1>1, <2>1
  <2> HIDE DEF p, c
  <2> QED
    BY <1>2, <2>1, <2>2, OnTheWay, WalkDef
<1>4. d \in Dir /\ Front(d) \in dirs
  <2>1. /\ Walk(p)[c - 1].at \in Dir /\ Walk(p)[c - 1].name \in Seq(Token)
        /\ \A e \in dirs : e # <<>> => Front(e) \in dirs
    BY <1>2, <1>3 DEF Spot, Closed
  <2> DEFINE at == Walk(p)[c - 1].at
             part == Walk(p)[c - 1].name
  <2>2. d = Enter(at, part)
    BY DEF Reached
  <2> HIDE DEF at, part, d
  <2>3. at \in Dir /\ part \in Seq(Token) /\ at \in dirs
    BY <1>3, <2>1 DEF at, part
  <2>4. d \in Dir
    BY <2>2, <2>3, EnterType
  <2>5. Front(d) = at
    BY <1>1, <2>1, <2>2, <2>3, EnterCloses
  <2> QED
    BY <2>3, <2>4, <2>5
<1> HIDE DEF d
<1> QED
  BY <1>2, <1>4 DEF Closed, d

(* After mkdir the directory is there, whoever has made it, unless one on  *)
(* the way to it has been refused before.                                  *)
LEMMA MkdirInv == ASSUME MakersInv, NEW t \in Makers, Mkdir(t) PROVE MakersInv'
<1> DEFINE p == pathname[t]
           c == cut[t]
           d == Reached(p, c - 1)
<1>1. pathname' = pathname /\ refused' = refused /\ maker[t] = "mkdir" /\ Advance(t)
  BY DEF Mkdir
<1>2. /\ Passable(SubPath(t, c)) <=> Through(p, c, dirs)
      /\ Target(SubPath(t, c)) = d
  BY <1>1, SubPathIs
<1>3. Closed(dirs) /\ refused' \subseteq Makers
  BY <1>1 DEF MakersInv, MakerTypes
<1>4. dirs' = dirs \/ (Makeable(SubPath(t, c)) /\ dirs' = dirs \cup {d})
  BY <1>2 DEF Mkdir
<1>5. Closed(dirs')
  BY <1>1, <1>3, <1>4, MakeableCloses
<1>6. dirs \subseteq dirs'
  BY <1>4
<1>7. Unhindered(t)' => Through(p, c, dirs') /\ d \in dirs'
  <2> SUFFICES ASSUME Unhindered(t)' PROVE Through(p, c, dirs') /\ d \in dirs'
    OBVIOUS
  <2>1. Unhindered(t)
    BY <1>1 DEF Unhindered, Plain
  <2>2. Through(p, c, dirs)
    BY <1>1, <2>1 DEF MakersInv, Making, OnItsWay
  <2>3. d \in dirs'
    BY <1>2, <2>2 DEF Mkdir, Makeable
  <2> QED
    BY <1>6, <2>2, <2>3 DEF Through
<1>8. /\ MakerTypes' /\ Making(t)'
      /\ \A u \in Makers \ {t} : maker'[u] = maker[u] /\ cut'[u] = cut[u]
  BY <1>1, <1>3, <1>5, <1>7, AdvanceMaking
<1>9. ASSUME NEW u \in Makers, u # t PROVE Making(u)'
  BY <1>1, <1>6, <1>8, <1>9, OthersKeep
<1> QED
  BY <1>5, <1>8, <1>9 DEF MakersInv

(* A maker that is refused a directory has nothing to promise any more.    *)
LEMMA MkdirFailsInv == ASSUME MakersInv, NEW t \in Makers, MkdirFails(t) PROVE MakersInv'
<1>1. /\ dirs' = dirs /\ pathname' = pathname /\ refused' = refused \cup {t}
      /\ maker[t] = "mkdir" /\ Advance(t)
  BY DEF MkdirFails
<1>2. Closed(dirs') /\ refused' \subseteq Makers
  BY <1>1 DEF MakersInv, MakerTypes
<1>3. ~ Unhindered(t)'
  BY <1>1 DEF Unhindered
<1>4. /\ MakerTypes' /\ Making(t)'
      /\ \A u \in Makers \ {t} : maker'[u] = maker[u] /\ cut'[u] = cut[u]
  BY <1>1, <1>2, <1>3, AdvanceMaking
<1>5. ASSUME NEW u \in Makers, u # t PROVE Making(u)'
  BY <1>1, <1>4, <1>5, OthersKeep
<1> QED
  BY <1>2, <1>4, <1>5 DEF MakersInv

LEMMA DirectoryStepInv == ASSUME MakersInv, NEW t \in Makers, DirectoryStep(t) PROVE MakersInv'
BY LookWholeInv, LookSubInv, MkdirInv, MkdirFailsInv DEF DirectoryStep

LEMMA CreateDirectoryInv ==
  ASSUME MakersInv, NEW t \in Makers, NEW p \in Seq(Token), CreateDirectory(t, p)
  PROVE  MakersInv'
<1>1. /\ pathname' = [pathname EXCEPT ![t] = p] /\ maker' = [maker EXCEPT ![t] = "whole"]
      /\ dirs' = dirs /\ cut' = cut /\ refused' = refused /\ maker[t] = "none"
  BY DEF CreateDirectory
<1>2. /\ MakerTypes' /\ maker'[t] = "whole" /\ pathname'[t] = p /\ cut'[t] = cut[t]
      /\ \A u \in Makers \ {t} : maker'[u] = maker[u] /\ pathname'[u] = pathname[u]
  BY <1>1 DEF MakersInv, MakerTypes
<1>3. Making(t)'
  <2>1. cut[t] = 0
    BY <1>1 DEF MakersInv, Making
  <2>2. 0 \in 0 .. Len(p)
    OBVIOUS
  <2> QED
    BY <1>2, <2>1, <2>2 DEF Making, OnItsWay
<1>4. ASSUME NEW u \in Makers, u # t PROVE Making(u)'
  BY <1>1, <1>2, <1>4, OthersKeep
<1> QED
  BY <1>1, <1>2, <1>3, <1>4 DEF MakersInv

LEMMA MakersAside ==
  ASSUME MakersInv, UNCHANGED directoryVars
  PROVE  MakersInv'
<1>1. /\ dirs' = dirs /\ pathname' = pathname /\ maker' = maker /\ cut' = cut
      /\ refused' = refused
  BY DEF directoryVars
<1>2. \A t \in Makers : Making(t)'
  BY <1>1, OthersKeep
<1> QED
  BY <1>1, <1>2 DEF MakersInv, MakerTypes

-----------------------------------------------------------------------------
(* The names of the files.                                                 *)

LEMMA DigitIs ==
  ASSUME NEW n \in 0 .. 9
  PROVE  Digit(n) \in Token /\ Digit(n) # "/"
<1> DEFINE S == <<"0", "1", "2", "3", "4", "5", "6", "7", "8", "9">>
<1>1. /\ S[1] = "0" /\ S[2] = "1" /\ S[3] = "2" /\ S[4] = "3" /\ S[5] = "4"
      /\ S[6] = "5" /\ S[7] = "6" /\ S[8] = "7" /\ S[9] = "8" /\ S[10] = "9"
  OBVIOUS
<1>2. Digit(n) = S[n + 1]
  BY DEF Digit
<1> HIDE DEF S
<1>3. CASE n + 1 \in 1 .. 5
  <2>1. n + 1 = 1 \/ n + 1 = 2 \/ n + 1 = 3 \/ n + 1 = 4 \/ n + 1 = 5
    BY <1>3
  <2> QED
    BY <1>1, <1>2, <2>1 DEF Token
<1>4. CASE n + 1 \in 6 .. 10
  <2>1. n + 1 = 6 \/ n + 1 = 7 \/ n + 1 = 8 \/ n + 1 = 9 \/ n + 1 = 10
    BY <1>4
  <2> QED
    BY <1>1, <1>2, <2>1 DEF Token
<1> QED
  BY <1>3, <1>4

LEMMA DigitsAre ==
  ASSUME NEW n \in 0 .. 99
  PROVE  Digits(n) \in Seq(Token) /\ \A i \in 1 .. Len(Digits(n)) : Digits(n)[i] # "/"
<1>1. CASE n < 10
  <2>1. Digit(n) \in Token /\ Digit(n) # "/"
    BY <1>1, DigitIs
  <2> QED
    BY <1>1, <2>1 DEF Digits
<1>2. CASE ~ (n < 10)
  <2>1. n \div 10 \in 0 .. 9 /\ n % 10 \in 0 .. 9
    BY <1>2
  <2>2. /\ Digit(n \div 10) \in Token /\ Digit(n \div 10) # "/"
        /\ Digit(n % 10) \in Token /\ Digit(n % 10) # "/"
    BY <2>1, DigitIs
  <2> QED
    BY <1>2, <2>2 DEF Digits
<1> QED
  BY <1>1, <1>2

LEMMA FileName ==
  ASSUME setup \in Setups, clock \in Times, NEW t \in DOMAIN setup.base
  PROVE  CreateNewFile(t) \in Seq(Token)
<1> DEFINE hour == (clock \div 3600) % 24
           minute == (clock % 3600) \div 60
           second == clock % 60
           base == setup.base[t]
<1>1. clock \in Nat /\ base \in Seq(Token)
  <2>1. Seq(STRING) \subseteq Seq(Token)
    BY DEF Token
  <2>2. clock \in Nat /\ base \in Seq(STRING)
    BY RollByTimeAssumption
  <2> QED
    BY <2>1, <2>2
<1>2. hour \in 0 .. 99 /\ minute \in 0 .. 99 /\ second \in 0 .. 99
  <2>1. clock \div 3600 \in Nat
    BY <1>1
  <2>2. hour \in 0 .. 23
    BY <2>1
  <2>3. clock % 3600 \in 0 .. 3599 /\ second \in 0 .. 59
    BY <1>1
  <2>4. minute \in 0 .. 59
    <3> DEFINE m == clock % 3600
    <3>1. m \in 0 .. 3599
      BY <2>3
    <3> HIDE DEF m
    <3>2. m \div 60 \in 0 .. 59
      BY <3>1
    <3> QED
      BY <3>2 DEF m
  <2> QED
    BY <2>2, <2>3, <2>4
<1>3. CreateNewFile(t) = base \o Digits(hour) \o Digits(minute) \o Digits(second)
  BY DEF CreateNewFile
<1> HIDE DEF hour, minute, second, base
<1>4. Digits(hour) \in Seq(Token) /\ Digits(minute) \in Seq(Token) /\ Digits(second) \in Seq(Token)
  BY <1>2, DigitsAre
<1> QED
  BY <1>1, <1>3, <1>4

-----------------------------------------------------------------------------
(* The constructors.                                                       *)

Counts ==
  /\ setup \in Setups /\ clock \in Times /\ ticks \in 0 .. MaxTicks
  /\ pc \in [Makers -> Places] /\ name \in [Makers -> Seq(Token)]
  /\ no \in [Makers -> 0 .. MaxRecords]

(* A constructor makes the directories of its file and then opens it.      *)
Constructing(t) ==
  /\ pc[t] \in {"none", "name"} => maker[t] = "none"
  /\ pc[t] # "none" => t \in DOMAIN setup.base
  /\ pc[t] = "create" => pathname[t] = Path(name[t])
  /\ pc[t] = "failed" => ~ Unhindered(t)

ConstructInv == MakersInv /\ Counts /\ \A t \in Makers : Constructing(t)

LEMMA ConstructInit == Init => ConstructInv
<1> SUFFICES ASSUME Init PROVE ConstructInv
  OBVIOUS
<1>1. MakersInv
  BY MakersInit DEF Init
<1>2. Counts
  <2>1. MaxTicks \in Nat /\ MaxRecords \in Nat /\ <<>> \in Seq(Token)
    BY RollByTimeAssumption
  <2> QED
    BY <2>1 DEF Init, Counts, Places
<1>3. ASSUME NEW t \in Makers PROVE Constructing(t)
  <2>1. pc[t] = "none" /\ maker[t] = "none"
    BY <1>3 DEF Init, DirectoryInit
  <2> QED
    BY <2>1 DEF Constructing
<1> QED
  BY <1>1, <1>2, <1>3 DEF ConstructInv

LEMMA ConstructingSame ==
  ASSUME NEW t \in Makers, Constructing(t), setup' = setup, maker'[t] = maker[t], pathname'[t] = pathname[t],
         refused \subseteq refused', pc'[t] = pc[t], name'[t] = name[t]
  PROVE  Constructing(t)'
<1>1. Path(name[t])' = Path(name[t])
  BY DEF Path, SelectLastInSeq
<1>2. Unhindered(t)' => Unhindered(t)
  BY DEF Unhindered, Plain
<1> QED
  BY <1>1, <1>2 DEF Constructing

(* A step of a sink whose constructor has returned.                        *)
LEMMA SinkSteps ==
  ASSUME ConstructInv, UNCHANGED <<setup, directoryVars, clockVars>>, NEW t \in Makers,
         NEW place \in {"idle", "test", "switch", "reopen", "failed"},
         place = "failed" => ~ Unhindered(t),
         pc[t] \notin {"none", "name"}, pc' = [pc EXCEPT ![t] = place],
         name' \in [Makers -> Seq(Token)], no' \in [Makers -> 0 .. MaxRecords],
         \A u \in Makers \ {t} : name'[u] = name[u]
  PROVE  ConstructInv'
<1>1. MakersInv' /\ maker' = maker /\ pathname' = pathname /\ refused' = refused /\ setup' = setup
  BY MakersAside DEF ConstructInv, directoryVars
<1>2. Counts' /\ pc'[t] = place /\ \A u \in Makers \ {t} : pc'[u] = pc[u]
  BY DEF ConstructInv, Counts, clockVars, Places
<1>3. Constructing(t)'
  BY <1>1, <1>2 DEF ConstructInv, Constructing, Unhindered, Plain
<1>4. ASSUME NEW u \in Makers, u # t PROVE Constructing(u)'
  BY <1>1, <1>2, <1>4, ConstructingSame DEF ConstructInv
<1> QED
  BY <1>1, <1>2, <1>3, <1>4 DEF ConstructInv

LEMMA ConstructStep ==
  ASSUME ConstructInv, NEW t \in Makers, Construct(t) \/ NameFile(t)
  PROVE  ConstructInv'
<1>1. CASE Construct(t)
  <2>1. /\ MakersInv' /\ maker' = maker /\ pathname' = pathname /\ refused' = refused
        /\ setup' = setup /\ name' = name
        /\ pc' = [pc EXCEPT ![t] = "name"] /\ pc[t] = "none" /\ t \in DOMAIN setup.base
    BY <1>1, MakersAside DEF ConstructInv, Construct, Goto, directoryVars
  <2>2. Counts' /\ pc'[t] = "name" /\ \A u \in Makers \ {t} : pc'[u] = pc[u]
    BY <1>1, <2>1 DEF ConstructInv, Counts, Construct, clockVars, Places
  <2>3. Constructing(t)'
    BY <2>1, <2>2 DEF ConstructInv, Constructing
  <2>4. ASSUME NEW u \in Makers, u # t PROVE Constructing(u)'
    BY <2>1, <2>2, <2>4, ConstructingSame DEF ConstructInv
  <2> QED
    BY <2>1, <2>2, <2>3, <2>4 DEF ConstructInv
<1>2. CASE NameFile(t)
  <2> DEFINE f == CreateNewFile(t)
  <2>1. /\ setup' = setup /\ name' = [name EXCEPT ![t] = f] /\ CreateDirectory(t, Path(f))
        /\ pc' = [pc EXCEPT ![t] = "create"] /\ pc[t] = "name" /\ clock' = clock /\ ticks' = ticks
        /\ no' = no
    BY <1>2 DEF NameFile, Goto, clockVars
  <2>2. t \in DOMAIN setup.base
    BY <2>1 DEF ConstructInv, Constructing
  <2>3. f \in Seq(Token)
    BY <2>2, FileName DEF ConstructInv, Counts
  <2> HIDE DEF f
  <2>4. Path(f) \in Seq(Token)
    BY <2>3, PathType
  <2>5. MakersInv'
    BY <2>1, <2>4, CreateDirectoryInv DEF ConstructInv
  <2>6. /\ refused' = refused /\ pathname'[t] = Path(f) /\ maker' = [maker EXCEPT ![t] = "whole"]
        /\ \A u \in Makers \ {t} : maker'[u] = maker[u] /\ pathname'[u] = pathname[u]
    BY <2>1 DEF CreateDirectory, ConstructInv, MakersInv, MakerTypes
  <2>7. /\ Counts' /\ pc'[t] = "create" /\ name'[t] = f
        /\ \A u \in Makers \ {t} : pc'[u] = pc[u] /\ name'[u] = name[u]
    BY <2>1, <2>3 DEF ConstructInv, Counts, Places
  <2>8. Constructing(t)'
    <3>1. Path(name[t])' = Path(f)
      BY <2>7 DEF Path, SelectLastInSeq
    <3> QED
      BY <2>1, <2>2, <2>6, <2>7, <3>1 DEF Constructing
  <2>9. ASSUME NEW u \in Makers, u # t PROVE Constructing(u)'
    BY <2>1, <2>6, <2>7, <2>9, ConstructingSame DEF ConstructInv
  <2> QED
    BY <2>5, <2>7, <2>8, <2>9 DEF ConstructInv
<1> QED
  BY <1>1, <1>2

(* If nothing has hindered it, the directories are made and the file can   *)
(* be opened.                                                              *)
LEMMA OpenFirstInv ==
  ASSUME ConstructInv, NEW t \in Makers, OpenFirst(t)
  PROVE  ConstructInv'
<1>1. pc[t] = "create" /\ maker[t] = "made" /\ pathname[t] = Path(name[t]) /\ name[t] \in Seq(Token)
  BY DEF OpenFirst, ConstructInv, Constructing, Counts
<1>2. Unhindered(t) => CanOpen(name[t])
  <2>1. Unhindered(t) => Closed(dirs) /\ Passable(Path(name[t]))
    BY <1>1 DEF ConstructInv, MakersInv, Making, OnItsWay
  <2> QED
    BY <1>1, <2>1, PathPassable, PassableOpens
<1>3. PICK place \in {"idle", "failed"} :
        pc' = [pc EXCEPT ![t] = place] /\ (place = "failed" => ~ CanOpen(name[t]))
  BY DEF OpenFirst, Goto
<1>4. UNCHANGED <<setup, directoryVars, clockVars, name, no>>
  BY DEF OpenFirst
<1>5. name' \in [Makers -> Seq(Token)] /\ no' \in [Makers -> 0 .. MaxRecords]
  BY <1>4 DEF ConstructInv, Counts
<1> QED
  BY <1>1, <1>2, <1>3, <1>4, <1>5, SinkSteps

LEMMA MakingStepInv ==
  ASSUME ConstructInv, NEW t \in Makers, DirectoryStep(t), UNCHANGED <<setup, clockVars, sinkVars>>
  PROVE  ConstructInv'
<1>1. MakersInv'
  BY DirectoryStepInv DEF ConstructInv
<1>2. /\ maker[t] # "none" /\ pathname' = pathname /\ refused \subseteq refused'
      /\ \A u \in Makers \ {t} : maker'[u] = maker[u]
  BY DEF ConstructInv, MakersInv, MakerTypes, DirectoryStep, LookWhole, LookSub, Mkdir,
     MkdirFails, Advance
<1>3. setup' = setup /\ clock' = clock /\ ticks' = ticks /\ pc' = pc /\ name' = name /\ no' = no
  BY DEF clockVars, sinkVars
<1>4. Counts'
  BY <1>3 DEF ConstructInv, Counts
<1>5. Constructing(t)'
  <2>1. Path(name[t])' = Path(name[t])
    BY <1>3 DEF Path, SelectLastInSeq
  <2>2. Constructing(t)
    BY DEF ConstructInv
  <2> QED
    BY <1>2, <1>3, <2>1, <2>2 DEF Constructing, Unhindered, Plain
<1>6. ASSUME NEW u \in Makers, u # t PROVE Constructing(u)'
  BY <1>2, <1>3, <1>6, ConstructingSame DEF ConstructInv
<1> QED
  BY <1>1, <1>4, <1>5, <1>6 DEF ConstructInv

LEMMA CallInv ==
  ASSUME ConstructInv, NEW t \in Makers, Sink(t)
  PROVE  ConstructInv'
<1>1. UNCHANGED <<setup, directoryVars, clockVars>> /\ pc[t] \notin {"none", "name"}
  BY DEF Sink, Call, WriteOn, MustSwitch, Close, Reopen
<1>2. PICK place \in {"idle", "test", "switch", "reopen"} : pc' = [pc EXCEPT ![t] = place]
  BY DEF Sink, Call, WriteOn, MustSwitch, Close, Reopen, Goto
<1>3. no' \in [Makers -> 0 .. MaxRecords]
  <2>1. CASE Call(t)
    <3>1. no' = [no EXCEPT ![t] = @ + 1] /\ no[t] < setup.records
      BY <2>1 DEF Call
    <3>2. setup.records \in 0 .. MaxRecords /\ MaxRecords \in Nat
      BY RollByTimeAssumption DEF ConstructInv, Counts
    <3>3. no[t] + 1 \in 0 .. MaxRecords /\ no \in [Makers -> 0 .. MaxRecords]
      BY <3>1, <3>2 DEF ConstructInv, Counts
    <3> QED
      BY <3>1, <3>3
  <2>2. CASE ~ Call(t)
    BY <2>2 DEF ConstructInv, Counts, Sink, WriteOn, MustSwitch, Close, Reopen
  <2> QED
    BY <2>1, <2>2
<1>4. name' \in [Makers -> Seq(Token)] /\ \A u \in Makers \ {t} : name'[u] = name[u]
  <2>1. CASE Close(t)
    <3>1. name' = [name EXCEPT ![t] = CreateNewFile(t)]
      BY <2>1 DEF Close
    <3>2. t \in DOMAIN setup.base
      BY <1>1 DEF ConstructInv, Constructing
    <3>3. CreateNewFile(t) \in Seq(Token) /\ name \in [Makers -> Seq(Token)]
      BY <3>2, FileName DEF ConstructInv, Counts
    <3> QED
      BY <3>1, <3>3
  <2>2. CASE ~ Close(t)
    BY <2>2 DEF ConstructInv, Counts, Sink, Call, WriteOn, MustSwitch, Reopen
  <2> QED
    BY <2>1, <2>2
<1> QED
  BY <1>1, <1>2, <1>3, <1>4, SinkSteps

LEMMA ConstructAside ==
  ASSUME ConstructInv, UNCHANGED <<setup, directoryVars, pc, name, no>>,
         clock' \in Times, ticks' \in 0 .. MaxTicks
  PROVE  ConstructInv'
<1>1. MakersInv' /\ maker' = maker /\ pathname' = pathname /\ refused' = refused
  BY MakersAside DEF ConstructInv, directoryVars
<1>2. Counts'
  BY DEF ConstructInv, Counts
<1>3. \A u \in Makers : Constructing(u)'
  BY <1>1, ConstructingSame DEF ConstructInv
<1> QED
  BY <1>1, <1>2, <1>3 DEF ConstructInv

LEMMA ConstructNext == ConstructInv /\ [Next]_vars => ConstructInv'
<1> SUFFICES ASSUME ConstructInv, [Next]_vars PROVE ConstructInv'
  OBVIOUS
<1>1. CASE Tick
  <2>1. UNCHANGED <<setup, directoryVars, pc, name, no>> /\ clock' \in Times
    BY <1>1 DEF Tick, sinkVars
  <2>2. ticks' = ticks + 1 /\ ticks < setup.ticks
    BY <1>1 DEF Tick
  <2>3. setup.ticks \in 0 .. MaxTicks /\ MaxTicks \in Nat /\ ticks \in 0 .. MaxTicks
    BY RollByTimeAssumption DEF ConstructInv, Counts
  <2>4. ticks' \in 0 .. MaxTicks
    BY <2>2, <2>3
  <2> QED
    BY <2>1, <2>4, ConstructAside
<1>2. ASSUME UNCHANGED <<setup, directoryVars, clockVars, pc, name, no>> PROVE ConstructInv'
  <2>1. clock' \in Times /\ ticks' \in 0 .. MaxTicks
    BY <1>2 DEF ConstructInv, Counts, clockVars
  <2> QED
    BY <1>2, <2>1, ConstructAside
<1>3. ASSUME NEW t \in Makers, Spill(t) PROVE ConstructInv'
  BY <1>2, <1>3 DEF Spill
<1>4. CASE UNCHANGED vars
  BY <1>2, <1>4 DEF vars, sinkVars
<1> QED
  BY <1>1, <1>3, <1>4, ConstructStep, OpenFirstInv, MakingStepInv, CallInv DEF Next

(* No constructor comes back from CreateDirectory without the directories  *)
(* of its file and then fails, whoever else makes directories on its path  *)
(* or is refused some, unless the kernel has refused it one itself or a    *)
(* "\" stands directly before a "/" in its path (test.cc:26-31,            *)
(* util.hpp:45-82).                                                        *)
THEOREM ConstructorsAlwaysSucceed == Spec => []ConstructorsSucceed
<1>1. ConstructInv => ConstructorsSucceed
  <2> SUFFICES ASSUME ConstructInv PROVE ConstructorsSucceed
    OBVIOUS
  <2>1. ASSUME NEW t \in Makers, maker[t] = "made", Unhindered(t) PROVE CanOpen(pathname[t])
    <3>1. pathname[t] \in Seq(Token) /\ Closed(dirs) /\ Passable(pathname[t])
      BY <2>1 DEF ConstructInv, MakersInv, MakerTypes, Making, OnItsWay
    <3> QED
      BY <3>1, PassableOpens
  <2>2. \A t \in Makers : pc[t] = "failed" => ~ Unhindered(t)
    BY DEF ConstructInv, Constructing
  <2> QED
    BY <2>1, <2>2 DEF ConstructorsSucceed, DirectoryThere
<1> QED
  BY <1>1, ConstructInit, ConstructNext, PTL DEF Spec

(* Every variable keeps to the values the code gives it: what directories  *)
(* there are have a parent, CreateDirectory never looks behind the end of  *)
(* its path, and no record is in a stream that is closed (test.cc:9-68).   *)
THEOREM TypeCorrect == Spec => []TypeOK
<1>1. ConstructInv /\ IInv /\ RecordInv => TypeOK
  <2> SUFFICES ASSUME ConstructInv, IInv, RecordInv PROVE TypeOK
    OBVIOUS
  <2>1. DirectoryTypeOK
    BY DEF ConstructInv, MakersInv, MakerTypes, Making, Closed, DirectoryTypeOK
  <2>2. setup \in Setups /\ clock \in Times /\ ticks \in 0 .. MaxTicks /\ no \in [Makers -> 0 .. MaxRecords]
    BY DEF ConstructInv, Counts
  <2>3. /\ pc \in [Makers -> Places] /\ file_open_time \in [Makers -> Times]
        /\ \A t \in Makers : span[t] \subseteq Times
    BY DEF IInv, ClockTypes
  <2>4. \A t \in Makers : stream[t] # <<>> => pc[t] \in {"idle", "test", "switch"}
    BY DEF RecordInv, Stations
  <2> QED
    BY <2>1, <2>2, <2>3, <2>4 DEF TypeOK, Places
<1> QED
  BY <1>1, ConstructInit, ConstructNext, InitInv, StepInv, RecordInit, RecordStep, PTL DEF Spec
=============================================================================
