------------------------- MODULE RollFileSinkProofs -------------------------
(***************************************************************************)
(* What RollFileSink promises to a single caller, for any lengths, sizes,  *)
(* times, numbers of calls and processes.  How a time is spelled is not    *)
(* looked into: names of one process differ by the number behind it.  At   *)
(* the end, the types of its state with any number of callers.             *)
(***************************************************************************)
EXTENDS RollFileSink, Recursion, FiniteSetTheorems

Spellings == {Spelled(Times[i]) : i \in DOMAIN Times} \cup {<<>>}
Names == Spellings \X Nat
Opened == [name : Names, buf : Seq(Byte), open : BOOLEAN]
Local == [pc : Places, no : Nat, len : Lens \cup {0}, name : Names, file : Nat,
          size : Nat]

-----------------------------------------------------------------------------
(* The inductive invariant, of a process whose only caller is c.           *)

Types(c) ==
  /\ setup \in Setups
  /\ setup.callers = {c}
  /\ this \in [fs : Nat, cur_size : Nat, cnt : Nat]
  /\ this.fs \in 0 .. Len(streams)
  /\ streams \in Seq(Opened)
  /\ me \in [{c} -> Local]
  /\ me[c].pc # "out" => me[c].len \in Lens
  /\ me[c].file \in 0 .. Len(streams)
  /\ now \in DOMAIN Times /\ run \in Nat \ {0}
  /\ \A i \in 1 .. Len(streams) : streams[i].name \in DOMAIN files

(* fs_ is NULL where the code has just set it so, and where fopen has      *)
(* failed; elsewhere it is a FILE that is open.                            *)
Pointed(c) ==
  /\ me[c].pc \in {"name", "count", "open", "assign"} => this.fs = 0
  /\ me[c].pc \in {"full", "close", "null", "check", "size", "add", "flush"} => this.fs # 0
  /\ this.fs # 0 /\ me[c].pc # "null" => streams[this.fs].open
  /\ me[c].pc = "assign" /\ me[c].file # 0 => streams[me[c].file].open
  /\ "failed" \notin mishaps =>
       /\ me[c].pc \in {"reset", "write"} => this.fs # 0
       /\ me[c].pc = "assign" => me[c].file # 0
       /\ ~fault

(* The numbers in the names of the first process are below cnt_, and below *)
(* the one that is about to be used.                                       *)
Numbered(c) ==
  run = 1 =>
    /\ \A n \in DOMAIN files : n \in Names /\ n[2] < this.cnt
    /\ me[c].pc = "count" => me[c].name[2] = this.cnt
    /\ me[c].pc = "open" =>
         /\ me[c].name[2] < this.cnt
         /\ \A n \in DOMAIN files : n[2] < me[c].name[2]
    /\ "reused" \notin mishaps

(* cur_size_ is the length of the file that is open, within the bound.     *)
Length(i) == Len(Content(i))
HasRoom(n) == n = 0 \/ n < setup.max_size
Earlier(i) == Length(i) - Last(Content(i)).len
InBound(i) == Content(i) # <<>> => Earlier(i) = 0 \/ Earlier(i) \in 0 .. setup.max_size - 1
Distinct ==
  /\ \A i, j \in 1 .. Len(streams) : streams[i].name = streams[j].name => i = j
  /\ \A i \in 1 .. Len(streams) : files[streams[i].name] \in Seq(Byte)
Sized(c) ==
  "reused" \notin mishaps =>
    /\ Distinct
    /\ \A i \in 1 .. Len(streams) : InBound(i)
    /\ me[c].pc = "assign" /\ me[c].file # 0 => Length(me[c].file) = 0
    /\ this.fs # 0 =>
         /\ me[c].pc \in {"out", "full", "test", "close", "write", "flush"} =>
              this.cur_size = Length(this.fs)
         /\ me[c].pc = "reset" => Length(this.fs) = 0
         /\ me[c].pc = "write" => HasRoom(this.cur_size)
         /\ me[c].pc \in {"check", "size"} => Length(this.fs) = this.cur_size + me[c].len
         /\ me[c].pc = "add" => Length(this.fs) = me[c].size + me[c].len

Inv(c) == Types(c) /\ Pointed(c) /\ Numbered(c) /\ Sized(c)

-----------------------------------------------------------------------------
LEMMA Constants ==
  /\ Lens \subseteq Nat /\ MaxRuns \in Nat
  /\ \A s \in Setups : s.max_size \in Nat /\ s.callers \subseteq Callers
  /\ IsFiniteSet(Callers)
BY RollAssumption

(* A sequence that is cut is not changed by it.                            *)
LEMMA Cut ==
  ASSUME NEW S, NEW s \in Seq(S), NEW n \in 0 .. Len(s)
  PROVE  /\ First(n, s) \in Seq(S) /\ Len(First(n, s)) = n
         /\ From(n, s) \in Seq(S) /\ Len(From(n, s)) = Len(s) - n
BY DEF First, From

LEMMA LenGrown ==
  ASSUME NEW S, NEW old \in Seq(S), NEW buf \in Seq(S), NEW more \in Seq(S),
         NEW n \in 0 .. Len(buf \o more)
  PROVE  Len((old \o First(n, buf \o more)) \o From(n, buf \o more))
           = Len(old \o buf) + Len(more)
<1>1. buf \o more \in Seq(S) /\ Len(buf \o more) = Len(buf) + Len(more)
  OBVIOUS
<1>2. /\ First(n, buf \o more) \in Seq(S) /\ Len(First(n, buf \o more)) = n
      /\ From(n, buf \o more) \in Seq(S)
      /\ Len(From(n, buf \o more)) = Len(buf \o more) - n
  BY <1>1, Cut
<1>3. PICK s \in Seq(S) : s = First(n, buf \o more)
  BY <1>2
<1>4. PICK t \in Seq(S) : t = From(n, buf \o more)
  BY <1>2
<1>5. Len((old \o s) \o t) = Len(old) + Len(s) + Len(t)
  OBVIOUS
<1>6. Len(s) = n /\ Len(t) = Len(buf) + Len(more) - n
  BY <1>1, <1>2, <1>3, <1>4
<1>7. Len(old \o buf) = Len(old) + Len(buf)
  OBVIOUS
<1>8. Len((old \o s) \o t) = Len(old \o buf) + Len(more)
  BY <1>5, <1>6, <1>7
<1> QED
  BY <1>3, <1>4, <1>8

LEMMA CutIsWhole ==
  ASSUME NEW S, NEW s \in Seq(S), NEW n \in 0 .. Len(s)
  PROVE  First(n, s) \o From(n, s) = s
<1>1. 1 \in 1 .. Len(s) + 1 /\ n \in 1 - 1 .. Len(s) /\ Len(s) \in n .. Len(s)
  OBVIOUS
<1>2. SubSeq(s, 1, n) \o SubSeq(s, n + 1, Len(s)) = SubSeq(s, 1, Len(s))
  BY <1>1, ConcatAdjacentSubSeq, Zenon
<1> QED
  BY <1>2, SubSeqFull DEF First, From

(* However fwrite divides the bytes, file and buffer grow by them.         *)
Divided(S, old, buf, more, whole, n) ==
  /\ old \in Seq(S) /\ buf \in Seq(S) /\ more \in Seq(S) /\ whole \in Seq(S)
  /\ whole = buf \o more /\ n \in 0 .. Len(whole)

LEMMA Grown ==
  ASSUME NEW S, NEW old, NEW buf, NEW more, NEW whole, NEW n,
         Divided(S, old, buf, more, whole, n)
  PROVE  Cat(Cat(old, First(n, whole)), From(n, whole)) = Cat(Cat(old, buf), more)
<1> USE DEF Divided
<1>1. First(n, whole) \in Seq(S) /\ From(n, whole) \in Seq(S)
  BY Cut
<1>2. PICK one \in Seq(S) : one = First(n, whole)
  BY <1>1
<1>3. PICK two \in Seq(S) : two = From(n, whole)
  BY <1>1
<1>4. Cat(one, two) = whole /\ Cat(buf, more) = whole
  BY <1>2, <1>3, CutIsWhole DEF Cat
<1>5. Cat(Cat(old, one), two) = Cat(old, Cat(one, two))
  BY Regroup
<1>6. Cat(Cat(old, buf), more) = Cat(old, Cat(buf, more))
  BY Regroup
<1> QED
  BY <1>2, <1>3, <1>4, <1>5, <1>6

(* A record of some length is the last thing in a file that ends with its  *)
(* bytes.                                                                  *)
LEMMA LastOfGrown ==
  ASSUME NEW S, NEW old \in Seq(S), NEW m, m \in S, NEW len \in Nat, len = m.len
  PROVE  /\ len = 0 => old \o Bytes(m) = old
         /\ len # 0 => Last(old \o Bytes(m)) = m
<1>1. Bytes(m) = [i \in 1 .. len |-> m] /\ Bytes(m) \in Seq(S) /\ Len(Bytes(m)) = len
  BY DEF Bytes
<1>2. CASE len = 0
  <2>1. Bytes(m) = <<>>
    BY <1>1, <1>2, EmptySeq
  <2> QED
    BY <1>2, <2>1, ConcatEmptySeq
<1>3. CASE len # 0
  <2>1. Len(old \o Bytes(m)) = Len(old) + len
    BY <1>1
  <2>2. (old \o Bytes(m))[Len(old) + len] = Bytes(m)[len]
    BY <1>1, <1>3
  <2>3. Bytes(m)[len] = m
    BY <1>1, <1>3
  <2> QED
    BY <1>3, <2>1, <2>2, <2>3 DEF Last
<1> QED
  BY <1>2, <1>3

LEMMA SpillsRange ==
  ASSUME NEW S, NEW s \in Seq(S), NEW n \in Spills(s)
  PROVE  n \in 0 .. Len(s)
BY StdioAssumption DEF Spills

LEMMA InitInv ==
  ASSUME Init, NEW c, setup.callers = {c}
  PROVE  Inv(c)
<1>1. <<<<>>, 0>> \in Names
  BY DEF Names, Spellings
<1>2. me \in [{c} -> Local] /\ me[c].pc = "out" /\ me[c].file = 0
  BY <1>1 DEF Init, Idle, Local, Places
<1>3. 1 \in DOMAIN Times
  BY RollAssumption
<1>4. Types(c)
  BY <1>2, <1>3 DEF Init, NewSink, Types
<1>5. Pointed(c)
  BY <1>2 DEF Init, NewSink, Pointed
<1>6. Numbered(c)
  BY <1>2 DEF Init, NewSink, Numbered
<1>7. Sized(c)
  BY <1>2 DEF Init, NewSink, Sized, Distinct
<1> QED
  BY <1>4, <1>5, <1>6, <1>7 DEF Inv

LEMMA MoveOn ==
  ASSUME NEW c, me \in [{c} -> Local], NEW place \in Places, Goto(c, place)
  PROVE  /\ me' \in [{c} -> Local] /\ me'[c].pc = place
         /\ me'[c].no = me[c].no /\ me'[c].len = me[c].len
         /\ me'[c].name = me[c].name /\ me'[c].size = me[c].size
         /\ me'[c].file = me[c].file
<1> DEFINE next == [me[c] EXCEPT !.pc = place]
<1>1. next \in Local /\ next.pc = place /\ next.no = me[c].no /\ next.len = me[c].len
      /\ next.name = me[c].name /\ next.size = me[c].size /\ next.file = me[c].file
  BY DEF Local
<1>2. me' = [me EXCEPT ![c] = next]
  BY DEF Goto
<1> QED
  BY <1>1, <1>2

LEMMA EnterInv ==
  ASSUME NEW c, Inv(c), NEW len \in Lens, Enter(c, len)
  PROVE  Inv(c)'
<1> USE DEF Inv
<1> DEFINE place == IF this.fs = 0 THEN "test" ELSE "full"
<1>1. me' \in [{c} -> Local] /\ me'[c].len = len /\ me'[c].pc = place
      /\ me'[c].file = me[c].file
  <2> DEFINE m == me[c]
             counted == [m EXCEPT !.no = m.no + 1]
             told == [counted EXCEPT !.len = len]
             next == [told EXCEPT !.pc = place]
  <2>1. m \in Local /\ me \in [{c} -> Local] /\ place \in Places
    BY DEF Types, Places
  <2>2. counted \in Local /\ counted.file = m.file
    BY <2>1 DEF Local
  <2>3. told \in Local /\ told.len = len /\ told.file = m.file
    <3> HIDE DEF m, counted
    <3> QED
      BY <2>2 DEF Local
  <2>4. next \in Local /\ next.len = len /\ next.pc = place /\ next.file = m.file
    <3> HIDE DEF m, told, place
    <3> QED
      BY <2>1, <2>3 DEF Local
  <2>5. me' = [me EXCEPT ![c] = next]
    BY <2>1 DEF Enter
  <2> HIDE DEF next, place
  <2> QED
    BY <2>1, <2>4, <2>5
<1>2. me[c].pc = "out" /\ this.cur_size \in Nat /\ setup.max_size \in Nat
  BY Constants DEF Enter, At, Types
<1>3. UNCHANGED <<setup, this, streams, files, now, run, fault, history>>
  BY DEF Enter
<1>4. Types(c)'
  BY <1>1, <1>3 DEF Types
<1>5. Pointed(c)'
  BY <1>1, <1>2, <1>3 DEF Pointed, history
<1>6. Numbered(c)'
  BY <1>1, <1>2, <1>3 DEF Numbered, history
<1>7. \A i : Content(i)' = Content(i)
  BY <1>3 DEF Content
<1>8. Sized(c)'
  BY <1>1, <1>2, <1>3, <1>7 DEF Sized, Distinct, InBound, Earlier, Length, history
<1> QED
  BY <1>4, <1>5, <1>6, <1>8

(* A caller that only looks at fs_ or cur_size_, or at ferror, and goes on. *)
LEMMA LookInv ==
  ASSUME NEW c, Inv(c), TestFull(c) \/ TestOpen(c) \/ Ferror(c)
  PROVE  Inv(c)'
<1> USE DEF Inv
<1>1. UNCHANGED <<setup, this, streams, files, now, run, fault, sunk, mishaps>>
  BY DEF TestFull, TestOpen, Ferror, history
<1>2. PICK place \in Places :
        /\ Goto(c, place)
        /\ \/ /\ me[c].pc = "full"
              /\ place = IF this.cur_size >= setup.max_size THEN "test" ELSE "write"
           \/ me[c].pc = "test" /\ place = IF this.fs = 0 THEN "name" ELSE "close"
           \/ me[c].pc = "check" /\ place = "size"
  BY DEF TestFull, TestOpen, Ferror, At, Places
<1>3. me' \in [{c} -> Local] /\ me'[c].pc = place /\ me'[c].len = me[c].len
      /\ me'[c].file = me[c].file
  BY <1>2, MoveOn DEF Types
<1>4. Types(c)'
  BY <1>1, <1>2, <1>3 DEF Types
<1>5. Pointed(c)' /\ Numbered(c)'
  BY <1>1, <1>2, <1>3 DEF Pointed, Numbered
<1>6. \A i : Content(i)' = Content(i)
  BY <1>1 DEF Content
<1>7. this.cur_size \in Nat /\ setup.max_size \in Nat
  BY Constants DEF Types
<1>8. Sized(c)'
  BY <1>1, <1>2, <1>3, <1>6, <1>7 DEF Sized, Distinct, HasRoom, InBound, Earlier, Length
<1> QED
  BY <1>4, <1>5, <1>8

LEMMA EmptyRange ==
  ASSUME NEW i \in 1 .. Len(streams), streams \in Seq(Opened)
  PROVE  LET empty == [streams[i] EXCEPT !.buf = <<>>]
         IN  /\ empty \in Opened /\ empty.name = streams[i].name
             /\ empty.buf = <<>> /\ empty.open = streams[i].open
<1> DEFINE f == streams[i]
<1>1. f \in Opened /\ <<>> \in Seq(Byte)
  OBVIOUS
<1> HIDE DEF f
<1>2. [f EXCEPT !.buf = <<>>] \in Opened /\ [f EXCEPT !.buf = <<>>].name = f.name
      /\ [f EXCEPT !.buf = <<>>].buf = <<>> /\ [f EXCEPT !.buf = <<>>].open = f.open
  BY <1>1 DEF Opened
<1> QED
  BY <1>2 DEF f

(* What is in a buffer may go to its file: no content changes by that.     *)
LEMMA WriteOut ==
  ASSUME NEW c, Types(c), NEW i \in 1 .. Len(streams), files' = Written(i),
         streams' \in Seq(Opened), Len(streams') = Len(streams),
         \A j \in 1 .. Len(streams) :
           /\ streams'[j].name = streams[j].name
           /\ streams'[j].buf = IF j = i THEN <<>> ELSE streams[j].buf
  PROVE  /\ DOMAIN files' = DOMAIN files
         /\ Distinct => /\ Distinct'
                        /\ \A j \in 1 .. Len(streams) :
                             Content(j)' = Content(j) /\ Length(j)' = Length(j)
<1>1. files' = [files EXCEPT ![streams[i].name] = files[streams[i].name] \o streams[i].buf]
  BY DEF Written
<1>2. DOMAIN files' = DOMAIN files
  BY <1>1
<1> SUFFICES ASSUME Distinct
             PROVE  /\ Distinct'
                    /\ \A j \in 1 .. Len(streams) :
                         Content(j)' = Content(j) /\ Length(j)' = Length(j)
  BY <1>2
<1>3. ASSUME NEW j \in 1 .. Len(streams)
      PROVE  streams[j].buf \in Seq(Byte)
  <2>1. streams[j] \in Opened
    BY DEF Types
  <2> QED
    BY <2>1 DEF Opened
<1>4. ASSUME NEW j \in 1 .. Len(streams)
      PROVE  /\ files'[streams'[j].name] \in Seq(Byte)
             /\ Content(j)' = Content(j) /\ Length(j)' = Length(j)
  <2>1. /\ streams[j].name \in DOMAIN files /\ files[streams[j].name] \in Seq(Byte)
        /\ streams[j].buf \in Seq(Byte)
    BY <1>3 DEF Types, Distinct
  <2>2. CASE j = i
    <3>1. files'[streams'[j].name] = files[streams[i].name] \o streams[i].buf
          /\ streams'[j].buf = <<>>
      BY <1>1, <2>1, <2>2
    <3>2. files[streams[i].name] \o streams[i].buf \in Seq(Byte)
      BY <2>1, <2>2
    <3>3. Content(j)' = Content(j)
      BY <3>1, <3>2, <2>2, ConcatEmptySeq DEF Content
    <3> QED
      BY <3>1, <3>2, <3>3 DEF Length
  <2>3. CASE j # i
    <3>1. streams[j].name # streams[i].name
      BY <2>3 DEF Distinct
    <3>2. files'[streams'[j].name] = files[streams[j].name] /\ streams'[j].buf = streams[j].buf
      BY <1>1, <2>1, <2>3, <3>1
    <3> QED
      BY <2>1, <3>2 DEF Length, Content
  <2> QED
    BY <2>2, <2>3
<1> QED
  BY <1>4 DEF Distinct

LEMMA CloseInv ==
  ASSUME NEW c, Inv(c), Close(c)
  PROVE  Inv(c)'
<1> USE DEF Inv
<1>1. UNCHANGED <<setup, this, now, run, fault, sunk, mishaps>> /\ me[c].pc = "close" /\ ~fault
  BY DEF Close, history, At
<1>2. "null" \in Places /\ me \in [{c} -> Local]
  BY DEF Places, Types
<1>3. Goto(c, "null") /\ files' = Written(this.fs)
     /\ streams' = [Emptied(this.fs) EXCEPT ![this.fs].open = FALSE]
  BY DEF Close
<1>4. me' \in [{c} -> Local] /\ me'[c].pc = "null" /\ me'[c].len = me[c].len
     /\ me'[c].file = me[c].file
  BY <1>2, <1>3, MoveOn
<1>5. this.fs \in 1 .. Len(streams) /\ streams \in Seq(Opened)
  BY <1>1 DEF Types, Pointed
<1>6. /\ streams' \in Seq(Opened) /\ Len(streams') = Len(streams)
     /\ \A j \in 1 .. Len(streams) :
          /\ streams'[j].name = streams[j].name
          /\ streams'[j].buf = IF j = this.fs THEN <<>> ELSE streams[j].buf
  <2> DEFINE i == this.fs
             empty == [streams[i] EXCEPT !.buf = <<>>]
  <2>1. empty \in Opened /\ empty.name = streams[i].name /\ empty.buf = <<>>
    BY <1>5, EmptyRange
  <2>2. Emptied(i) = [streams EXCEPT ![i] = empty]
    BY DEF Emptied
  <2>3. Emptied(i) \in Seq(Opened) /\ Len(Emptied(i)) = Len(streams)
        /\ \A j \in 1 .. Len(streams) :
             Emptied(i)[j] = IF j = i THEN empty ELSE streams[j]
    <3> HIDE DEF empty, i
    <3> QED
      BY <1>5, <2>1, <2>2 DEF i
  <2> DEFINE closed == [empty EXCEPT !.open = FALSE]
  <2>4. closed \in Opened /\ closed.name = empty.name /\ closed.buf = <<>>
    <3> HIDE DEF empty
    <3> QED
      BY <2>1 DEF Opened
  <2>5. streams' = [Emptied(i) EXCEPT ![i] = closed]
    BY <1>3, <1>5, <2>3
  <2> HIDE DEF empty, closed
  <2> QED
    BY <1>5, <2>1, <2>3, <2>4, <2>5
<1>7. /\ DOMAIN files' = DOMAIN files
      /\ Distinct => Distinct' /\ \A j \in 1 .. Len(streams) : Content(j)' = Content(j)
  BY <1>3, <1>5, <1>6, WriteOut
<1>8. Types(c)'
  BY <1>1, <1>4, <1>6, <1>7 DEF Types
<1>9. Pointed(c)'
  BY <1>1, <1>4, <1>5 DEF Pointed
<1>10. Numbered(c)'
  BY <1>1, <1>4, <1>7 DEF Numbered
<1>11. Sized(c)'
  BY <1>1, <1>4, <1>5, <1>6, <1>7 DEF Sized, InBound, Earlier, Length
<1> QED
  BY <1>8, <1>9, <1>10, <1>11

LEMMA SetNullInv ==
  ASSUME NEW c, Inv(c), SetNull(c)
  PROVE  Inv(c)'
<1> USE DEF Inv
<1>1. /\ UNCHANGED <<setup, streams, files, now, run, fault, sunk, mishaps>>
      /\ me[c].pc = "null" /\ Goto(c, "name") /\ this' = [this EXCEPT !.fs = 0]
  BY DEF SetNull, history, At
<1>2. me' \in [{c} -> Local] /\ me'[c].pc = "name" /\ me'[c].len = me[c].len
      /\ me'[c].file = me[c].file
  BY <1>1, MoveOn DEF Types, Places
<1>3. /\ this' \in [fs : Nat, cur_size : Nat, cnt : Nat]
      /\ this'.fs = 0 /\ this'.cnt = this.cnt
  BY <1>1 DEF Types
<1>4. Types(c)'
  BY <1>1, <1>2, <1>3 DEF Types
<1>5. Pointed(c)' /\ Numbered(c)'
  BY <1>1, <1>2, <1>3 DEF Pointed, Numbered
<1>6. \A i : Content(i)' = Content(i)
  BY <1>1 DEF Content
<1>7. Sized(c)'
  BY <1>1, <1>2, <1>3, <1>6 DEF Sized, Distinct, InBound, Earlier, Length
<1> QED
  BY <1>4, <1>5, <1>7

LEMMA CreateFilenameInv ==
  ASSUME NEW c, Inv(c), CreateFilename(c)
  PROVE  Inv(c)'
<1> USE DEF Inv
<1> DEFINE name == <<Spelled(Times[now]), this.cnt>>
           named == [me[c] EXCEPT !.name = name]
           next == [named EXCEPT !.pc = "count"]
<1>1. /\ UNCHANGED <<setup, this, streams, files, now, run, fault, sunk, mishaps>>
      /\ me[c].pc = "name"
  BY DEF CreateFilename, history, At
<1>2. this.cnt \in Nat /\ me \in [{c} -> Local] /\ me[c] \in Local
      /\ Spelled(Times[now]) \in Spellings /\ "count" \in Places
  BY DEF Types, Spellings, Places
<1>3. name \in Names /\ name[2] = this.cnt
  BY <1>2 DEF Names
<1> HIDE DEF name
<1>4. named \in Local /\ named.name = name /\ named.len = me[c].len /\ named.file = me[c].file
  BY <1>2, <1>3 DEF Local
<1> HIDE DEF named
<1>5. next \in Local /\ next.pc = "count" /\ next.name = name /\ next.len = me[c].len
      /\ next.file = me[c].file
  BY <1>2, <1>4 DEF Local
<1>6. me' = [me EXCEPT ![c] = next]
  BY <1>2 DEF CreateFilename, named, name
<1> HIDE DEF next
<1>7. me' \in [{c} -> Local] /\ me'[c] = next
  BY <1>2, <1>5, <1>6
<1>8. Types(c)'
  BY <1>1, <1>5, <1>7 DEF Types
<1>9. Pointed(c)' /\ Numbered(c)'
  BY <1>1, <1>3, <1>5, <1>7 DEF Pointed, Numbered
<1>10. \A i : Content(i)' = Content(i)
  BY <1>1 DEF Content
<1>11. Sized(c)'
  BY <1>1, <1>5, <1>7, <1>10 DEF Sized, Distinct, InBound, Earlier, Length
<1> QED
  BY <1>8, <1>9, <1>11

LEMMA IncrementCntInv ==
  ASSUME NEW c, Inv(c), IncrementCnt(c)
  PROVE  Inv(c)'
<1> USE DEF Inv
<1>1. /\ UNCHANGED <<setup, streams, files, now, run, fault, sunk, mishaps>>
      /\ me[c].pc = "count" /\ Goto(c, "open")
      /\ this' = [this EXCEPT !.cnt = me[c].name[2] + 1]
  BY DEF IncrementCnt, history, At
<1>2. me' \in [{c} -> Local] /\ me'[c].pc = "open" /\ me'[c].len = me[c].len
      /\ me'[c].file = me[c].file /\ me'[c].name = me[c].name
  BY <1>1, MoveOn DEF Types, Places
<1>3. me[c].name[2] \in Nat
  BY DEF Types, Local, Names
<1>4. /\ this' \in [fs : Nat, cur_size : Nat, cnt : Nat] /\ this'.fs = this.fs
      /\ this'.cnt = me[c].name[2] + 1
  BY <1>1, <1>3 DEF Types
<1>5. Types(c)'
  BY <1>1, <1>2, <1>4 DEF Types
<1>6. Pointed(c)'
  BY <1>1, <1>2, <1>4 DEF Pointed
<1>7. Numbered(c)'
  <2> SUFFICES ASSUME run = 1 PROVE Numbered(c)'
    BY <1>1 DEF Numbered
  <2>1. this'.cnt = this.cnt + 1 /\ me[c].name[2] = this.cnt /\ this.cnt \in Nat
    BY <1>1, <1>4 DEF Numbered, Types
  <2>2. \A n \in DOMAIN files : n[2] \in Nat
    BY DEF Numbered, Names
  <2> QED
    BY <1>1, <1>2, <2>1, <2>2 DEF Numbered
<1>8. \A i : Content(i)' = Content(i)
  BY <1>1 DEF Content
<1>9. Sized(c)'
  BY <1>1, <1>2, <1>4, <1>8 DEF Sized, Distinct, InBound, Earlier, Length
<1> QED
  BY <1>5, <1>6, <1>7, <1>9

(* What fopen returned is kept by the caller.                              *)
LEMMA CallerOpens ==
  ASSUME NEW c, me \in [{c} -> Local], NEW file \in Nat,
         me' = [me EXCEPT ![c].file = file, ![c].pc = "assign"]
  PROVE  /\ me' \in [{c} -> Local] /\ me'[c].pc = "assign" /\ me'[c].file = file
         /\ me'[c].len = me[c].len
<1> DEFINE m == me[c]
           got == [m EXCEPT !.file = file]
           next == [got EXCEPT !.pc = "assign"]
<1>1. m \in Local /\ "assign" \in Places
  BY DEF Places
<1>2. me' = [me EXCEPT ![c] = next]
  OBVIOUS
<1>3. m.len = me[c].len
  OBVIOUS
<1> HIDE DEF m
<1>4. got \in Local /\ got.file = file /\ got.len = m.len
  BY <1>1 DEF Local
<1> HIDE DEF got
<1>5. next \in Local /\ next.file = file /\ next.len = m.len /\ next.pc = "assign"
  BY <1>1, <1>4 DEF Local
<1> HIDE DEF next
<1> QED
  BY <1>2, <1>3, <1>5

(* A name that is new names no FILE of this process, because each of them  *)
(* has its file; in the first process every name is new.                   *)
LEMMA FopenInv ==
  ASSUME NEW c, Inv(c), Fopen(c)
  PROVE  Inv(c)'
<1> USE DEF Inv
<1> DEFINE name == me[c].name
           file == [name |-> name, buf |-> <<>>, open |-> TRUE]
<1> PICK last \in Nat \ {0} : last = Len(streams) + 1
  BY DEF Types
<1>1. /\ UNCHANGED <<setup, this, now, run, fault, sunk>>
      /\ me[c].pc = "open" /\ me' = [me EXCEPT ![c].file = last, ![c].pc = "assign"]
      /\ streams' = Append(streams, file)
      /\ files' = [n \in DOMAIN files \cup {name} |->
                     IF n \in DOMAIN files THEN files[n] ELSE <<>>]
      /\ mishaps' = IF name \in DOMAIN files THEN mishaps \cup {"reused"} ELSE mishaps
  BY DEF Fopen, At
<1>2. me' \in [{c} -> Local] /\ me'[c].pc = "assign" /\ me'[c].file = last
      /\ me'[c].len = me[c].len
  BY <1>1, CallerOpens DEF Types
<1>3. name \in Names /\ name[2] \in Nat
  BY DEF Types, Local, Names
<1>4. file \in Opened /\ file.name = name /\ file.buf = <<>> /\ file.open
  BY <1>3 DEF Opened
<1> HIDE DEF name, file
<1>5. /\ streams' \in Seq(Opened) /\ Len(streams') = last
      /\ streams'[last] = file
      /\ \A i \in 1 .. Len(streams) : streams'[i] = streams[i]
  BY <1>1, <1>4 DEF Types
<1>6. this.fs = 0
  BY <1>1 DEF Pointed
<1>7. /\ name \in DOMAIN files' /\ DOMAIN files \subseteq DOMAIN files'
      /\ \A n \in DOMAIN files : files'[n] = files[n]
      /\ name \notin DOMAIN files => files'[name] = <<>>
  BY <1>1
<1>8. \A i \in 1 .. Len(streams) : streams[i].name \in DOMAIN files
  BY DEF Types
<1>9. Types(c)'
  BY <1>1, <1>2, <1>4, <1>5, <1>6, <1>7, <1>8 DEF Types
<1>10. Pointed(c)'
  BY <1>1, <1>2, <1>4, <1>5, <1>6 DEF Pointed
<1>11. Numbered(c)'
  <2> SUFFICES ASSUME run = 1 PROVE Numbered(c)'
    BY <1>1 DEF Numbered
  <2>1. /\ name[2] < this.cnt /\ "reused" \notin mishaps
        /\ \A n \in DOMAIN files : n \in Names /\ n[2] < this.cnt /\ n[2] < name[2]
    BY <1>1 DEF Numbered, name
  <2>2. name \notin DOMAIN files
    BY <1>3, <2>1
  <2>3. \A n \in DOMAIN files' : n \in DOMAIN files \/ n = name
    BY <1>1
  <2>4. \A n \in DOMAIN files' : n \in Names /\ n[2] < this'.cnt
    BY <1>1, <1>3, <2>1, <2>3
  <2> QED
    BY <1>1, <1>2, <2>1, <2>2, <2>4 DEF Numbered
<1>12. Sized(c)'
  <2> SUFFICES ASSUME "reused" \notin mishaps' PROVE Sized(c)'
    BY DEF Sized
  <2>1. name \notin DOMAIN files /\ "reused" \notin mishaps
    BY <1>1
  <2>2. Distinct /\ \A i \in 1 .. Len(streams) : InBound(i)
    BY <2>1 DEF Sized
  <2>3. ASSUME NEW i \in 1 .. Len(streams)
        PROVE  /\ files'[streams'[i].name] \in Seq(Byte) /\ Content(i)' = Content(i)
               /\ streams'[i].name # name
    BY <1>5, <1>7, <1>8, <2>1, <2>2 DEF Content, Distinct
  <2>4. files'[streams'[last].name] = <<>> /\ Content(last)' = <<>> /\ streams'[last].name = name
    <3>1. streams'[last].name = name /\ streams'[last].buf = <<>>
      BY <1>4, <1>5
    <3>2. files'[streams'[last].name] = <<>>
      BY <1>7, <2>1, <3>1
    <3>3. Content(last)' = <<>> \o <<>>
      BY <3>1, <3>2 DEF Content
    <3>4. <<>> \o <<>> = <<>>
      OBVIOUS
    <3> QED
      BY <3>1, <3>2, <3>3, <3>4
  <2>5. \A i \in 1 .. last : i \in 1 .. Len(streams) \/ i = last
    BY <1>5
  <2>6. Distinct'
    <3>1. \A i, j \in 1 .. last : streams'[i].name = streams'[j].name => i = j
      BY <1>5, <2>2, <2>3, <2>4, <2>5 DEF Distinct
    <3>2. <<>> \in Seq(Byte)
      OBVIOUS
    <3>3. \A i \in 1 .. last : files'[streams'[i].name] \in Seq(Byte)
      BY <2>3, <2>4, <2>5, <3>2
    <3> QED
      BY <1>5, <3>1, <3>3 DEF Distinct
  <2>7. ASSUME NEW i \in 1 .. last
        PROVE  InBound(i)'
    BY <1>1, <2>2, <2>3, <2>4, <2>5 DEF InBound, Earlier, Length
  <2>8. Length(last)' = 0
    BY <2>4 DEF Length
  <2> QED
    BY <1>1, <1>2, <1>5, <1>6, <2>6, <2>7, <2>8 DEF Sized
<1> QED
  BY <1>9, <1>10, <1>11, <1>12

LEMMA FopenFailsInv ==
  ASSUME NEW c, Inv(c), FopenFails(c)
  PROVE  Inv(c)'
<1> USE DEF Inv
<1>1. /\ UNCHANGED <<setup, this, streams, files, now, run, fault, sunk>>
      /\ me[c].pc = "open" /\ me' = [me EXCEPT ![c].file = 0, ![c].pc = "assign"]
      /\ mishaps' = mishaps \cup {"failed"}
  BY DEF FopenFails, At
<1>2. me' \in [{c} -> Local] /\ me'[c].pc = "assign" /\ me'[c].file = 0
      /\ me'[c].len = me[c].len
  BY <1>1, CallerOpens DEF Types
<1>3. Types(c)'
  BY <1>1, <1>2 DEF Types
<1>4. Pointed(c)' /\ Numbered(c)'
  BY <1>1, <1>2 DEF Pointed, Numbered
<1>5. \A i : Content(i)' = Content(i)
  BY <1>1 DEF Content
<1>6. this.fs = 0
  BY <1>1 DEF Pointed
<1>7. Sized(c)'
  BY <1>1, <1>2, <1>5, <1>6 DEF Sized, Distinct, InBound, Earlier, Length
<1> QED
  BY <1>3, <1>4, <1>7

LEMMA AssignInv ==
  ASSUME NEW c, Inv(c), Assign(c)
  PROVE  Inv(c)'
<1> USE DEF Inv
<1>1. /\ UNCHANGED <<setup, streams, files, now, run, fault, sunk, mishaps>>
      /\ me[c].pc = "assign" /\ Goto(c, "reset")
      /\ this' = [this EXCEPT !.fs = me[c].file]
  BY DEF Assign, history, At
<1>2. me' \in [{c} -> Local] /\ me'[c].pc = "reset" /\ me'[c].len = me[c].len
      /\ me'[c].file = me[c].file
  BY <1>1, MoveOn DEF Types, Places
<1>3. /\ this' \in [fs : Nat, cur_size : Nat, cnt : Nat]
      /\ this'.fs = me[c].file /\ this'.cnt = this.cnt
  BY <1>1 DEF Types, Local
<1>4. Types(c)'
  BY <1>1, <1>2, <1>3 DEF Types
<1>5. Pointed(c)' /\ Numbered(c)'
  BY <1>1, <1>2, <1>3 DEF Pointed, Numbered
<1>6. \A i : Content(i)' = Content(i)
  BY <1>1 DEF Content
<1>7. Sized(c)'
  BY <1>1, <1>2, <1>3, <1>6 DEF Sized, Distinct, InBound, Earlier, Length
<1> QED
  BY <1>4, <1>5, <1>7

LEMMA ResetSizeInv ==
  ASSUME NEW c, Inv(c), ResetSize(c)
  PROVE  Inv(c)'
<1> USE DEF Inv
<1>1. /\ UNCHANGED <<setup, streams, files, now, run, fault, sunk, mishaps>>
      /\ me[c].pc = "reset" /\ Goto(c, "write") /\ this' = [this EXCEPT !.cur_size = 0]
  BY DEF ResetSize, history, At
<1>2. me' \in [{c} -> Local] /\ me'[c].pc = "write" /\ me'[c].len = me[c].len
      /\ me'[c].file = me[c].file
  BY <1>1, MoveOn DEF Types, Places
<1>3. /\ this' \in [fs : Nat, cur_size : Nat, cnt : Nat]
      /\ this'.fs = this.fs /\ this'.cnt = this.cnt /\ this'.cur_size = 0
  BY <1>1 DEF Types
<1>4. Types(c)'
  BY <1>1, <1>2, <1>3 DEF Types
<1>5. Pointed(c)' /\ Numbered(c)'
  BY <1>1, <1>2, <1>3 DEF Pointed, Numbered
<1>6. \A i : Content(i)' = Content(i)
  BY <1>1 DEF Content
<1>7. Sized(c)'
  BY <1>1, <1>2, <1>3, <1>6 DEF Sized, Distinct, InBound, Earlier, Length, HasRoom
<1> QED
  BY <1>4, <1>5, <1>7

LEMMA ReadSizeInv ==
  ASSUME NEW c, Inv(c), ReadSize(c)
  PROVE  Inv(c)'
<1> USE DEF Inv
<1> DEFINE m == me[c]
           read == [m EXCEPT !.size = this.cur_size]
           next == [read EXCEPT !.pc = "add"]
<1>1. /\ UNCHANGED <<setup, this, streams, files, now, run, fault, sunk, mishaps>>
      /\ me[c].pc = "size" /\ me' = [me EXCEPT ![c] = next]
  BY DEF ReadSize, history, At
<1>2. me' \in [{c} -> Local] /\ me'[c].pc = "add" /\ me'[c].len = me[c].len
      /\ me'[c].file = me[c].file /\ me'[c].size = this.cur_size
  <2>1. m \in Local /\ this.cur_size \in Nat /\ "add" \in Places /\ me \in [{c} -> Local]
        /\ m.len = me[c].len /\ m.file = me[c].file
    BY DEF Types, Places
  <2> HIDE DEF m
  <2>2. read \in Local /\ read.size = this.cur_size /\ read.len = m.len /\ read.file = m.file
    BY <2>1 DEF Local
  <2> HIDE DEF read
  <2>3. next \in Local /\ next.pc = "add" /\ next.size = read.size /\ next.len = read.len
        /\ next.file = read.file
    BY <2>1, <2>2 DEF Local
  <2> HIDE DEF next
  <2> QED
    BY <1>1, <2>1, <2>2, <2>3
<1>3. Types(c)'
  BY <1>1, <1>2 DEF Types
<1>4. Pointed(c)' /\ Numbered(c)'
  BY <1>1, <1>2 DEF Pointed, Numbered
<1>5. \A i : Content(i)' = Content(i)
  BY <1>1 DEF Content
<1>6. Sized(c)'
  BY <1>1, <1>2, <1>5 DEF Sized, Distinct, InBound, Earlier, Length
<1> QED
  BY <1>3, <1>4, <1>6

LEMMA AddSizeInv ==
  ASSUME NEW c, Inv(c), AddSize(c)
  PROVE  Inv(c)'
<1> USE DEF Inv
<1>1. /\ UNCHANGED <<setup, streams, files, now, run, fault, sunk, mishaps>>
      /\ me[c].pc = "add" /\ Goto(c, "flush")
      /\ this' = [this EXCEPT !.cur_size = me[c].size + me[c].len]
  BY DEF AddSize, history, At
<1>2. me' \in [{c} -> Local] /\ me'[c].pc = "flush" /\ me'[c].len = me[c].len
      /\ me'[c].file = me[c].file
  BY <1>1, MoveOn DEF Types, Places
<1>3. me[c].size + me[c].len \in Nat
  BY Constants, <1>1 DEF Types, Local
<1>4. /\ this' \in [fs : Nat, cur_size : Nat, cnt : Nat] /\ this'.fs = this.fs
      /\ this'.cnt = this.cnt /\ this'.cur_size = me[c].size + me[c].len
  BY <1>1, <1>3 DEF Types
<1>5. Types(c)'
  BY <1>1, <1>2, <1>4 DEF Types
<1>6. Pointed(c)' /\ Numbered(c)'
  BY <1>1, <1>2, <1>4 DEF Pointed, Numbered
<1>7. \A i : Content(i)' = Content(i)
  BY <1>1 DEF Content
<1>8. Sized(c)'
  BY <1>1, <1>2, <1>4, <1>7 DEF Sized, Distinct, InBound, Earlier, Length
<1> QED
  BY <1>5, <1>6, <1>8

(* The file grows by what is written, wherever the buffer is cut.          *)
LEMMA FwriteInv ==
  ASSUME NEW c, Inv(c), Fwrite(c)
  PROVE  Inv(c)'
<1> USE DEF Inv
<1>1. /\ UNCHANGED <<setup, this, now, run, fault, mishaps>>
      /\ me[c].pc = "write" /\ this.fs # 0 /\ streams[this.fs].open /\ ~fault
      /\ Goto(c, "check")
  BY DEF Fwrite, At, Alive
<1>2. me' \in [{c} -> Local] /\ me'[c].pc = "check" /\ me'[c].len = me[c].len
      /\ me'[c].file = me[c].file
  BY <1>1, MoveOn DEF Types, Places
<1> PICK i \in 1 .. Len(streams) : i = this.fs
  BY <1>1 DEF Types
<1> DEFINE record == [from |-> c, no |-> me[c].no, len |-> me[c].len]
           bytes == Bytes(record)
           all == streams[i].buf \o bytes
<1>3. PICK n \in Spills(all) :
        /\ files' = [files EXCEPT ![streams[i].name] = files[streams[i].name] \o First(n, all)]
        /\ streams' = [streams EXCEPT ![i].buf = From(n, all)]
  BY DEF Fwrite
<1>4. bytes \in Seq(Byte) /\ Len(bytes) = me[c].len /\ me[c].len \in Nat
      /\ record \in Byte /\ record.len = me[c].len
  <2>1. me[c].len \in Lens /\ me[c].no \in Nat /\ me[c].len \in Nat /\ c \in Callers
    BY <1>1, Constants DEF Types, Local
  <2>2. record \in Byte /\ record.len = me[c].len
    BY <2>1 DEF Byte
  <2> HIDE DEF record
  <2> QED
    BY <2>1, <2>2 DEF Bytes
<1>5. streams[i] \in Opened /\ streams[i].name \in DOMAIN files
  BY DEF Types
<1>6. streams[i].buf \in Seq(Byte) /\ streams[i].buf \o bytes \in Seq(Byte)
      /\ Len(all) = Len(streams[i].buf) + me[c].len
  BY <1>4, <1>5 DEF Opened
<1> HIDE DEF record, bytes, all
<1>7. all \in Seq(Byte)
  BY <1>6 DEF all
<1>8. /\ First(n, all) \in Seq(Byte) /\ From(n, all) \in Seq(Byte)
      /\ n \in 0 .. Len(all) /\ Len(First(n, all)) = n /\ Len(From(n, all)) = Len(all) - n
  BY <1>7, Cut, SpillsRange
<1> DEFINE left == From(n, all)
           after == [streams[i] EXCEPT !.buf = left]
<1>9. after \in Opened /\ after.name = streams[i].name /\ after.open = streams[i].open
      /\ after.buf = From(n, all)
  <2> DEFINE f == streams[i]
  <2>1. f \in Opened /\ left \in Seq(Byte)
    BY <1>5, <1>8
  <2> HIDE DEF f, left
  <2>2. [f EXCEPT !.buf = left] \in Opened /\ [f EXCEPT !.buf = left].name = f.name
        /\ [f EXCEPT !.buf = left].open = f.open /\ [f EXCEPT !.buf = left].buf = left
    BY <2>1 DEF Opened
  <2> QED
    BY <2>2 DEF f, left
<1>10. streams' = [streams EXCEPT ![i] = after]
  BY <1>3
<1> HIDE DEF after
<1>11. /\ streams' \in Seq(Opened) /\ Len(streams') = Len(streams)
       /\ \A j \in 1 .. Len(streams) : streams'[j] = IF j = i THEN after ELSE streams[j]
  BY <1>9, <1>10 DEF Types
<1>12. \A j \in 1 .. Len(streams) :
         streams'[j].name = streams[j].name /\ streams'[j].open = streams[j].open
  BY <1>9, <1>11
<1>13. DOMAIN files' = DOMAIN files
  BY <1>3
<1>14. Types(c)'
  BY <1>1, <1>2, <1>11, <1>12, <1>13 DEF Types
<1>15. Pointed(c)'
  BY <1>1, <1>2, <1>12 DEF Pointed
<1>16. Numbered(c)'
  BY <1>1, <1>2, <1>13 DEF Numbered
<1>17. Sized(c)'
  <2> SUFFICES ASSUME "reused" \notin mishaps PROVE Sized(c)'
    BY <1>1 DEF Sized
  <2>1. Distinct /\ this.cur_size = Length(i) /\ HasRoom(this.cur_size)
        /\ \A j \in 1 .. Len(streams) : InBound(j)
    BY <1>1 DEF Sized
  <2>2. files[streams[i].name] \in Seq(Byte)
    BY <2>1 DEF Distinct
  <2>3. files'[streams'[i].name] = files[streams[i].name] \o First(n, all)
        /\ streams'[i].buf = From(n, all)
    BY <1>3, <1>5, <1>9, <1>11
  <2>4. files'[streams'[i].name] \in Seq(Byte)
    BY <1>8, <2>2, <2>3
  <2>5. Content(i)' = Cat(Content(i), bytes) /\ Content(i) \in Seq(Byte)
    <3>1. Divided(Byte, files[streams[i].name], streams[i].buf, bytes, all, n)
      BY <1>4, <1>6, <1>7, <1>8, <2>2 DEF Divided, all
    <3>2. Cat(Cat(files[streams[i].name], First(n, all)), From(n, all))
            = Cat(Cat(files[streams[i].name], streams[i].buf), bytes)
      BY <3>1, Grown
    <3>3. Content(i) = Cat(files[streams[i].name], streams[i].buf)
      BY DEF Content, Cat
    <3>4. Content(i)' = Cat(Cat(files[streams[i].name], First(n, all)), From(n, all))
      BY <2>3 DEF Content, Cat
    <3>5. Content(i) \in Seq(Byte)
      BY <1>6, <2>2, <3>3 DEF Cat
    <3> QED
      BY <3>2, <3>3, <3>4, <3>5
  <2>6. Length(i)' = Length(i) + me[c].len
    <3>1. PICK old \in Seq(Byte) : old = Content(i)
      BY <2>5
    <3>2. PICK more \in Seq(Byte) : more = bytes /\ Len(more) = me[c].len
      BY <1>4
    <3>3. Len(old \o more) = Len(old) + Len(more)
      OBVIOUS
    <3> QED
      BY <2>5, <3>1, <3>2, <3>3 DEF Length, Cat
  <2>7. ASSUME NEW j \in 1 .. Len(streams), j # i
        PROVE  files'[streams'[j].name] = files[streams[j].name] /\ Content(j)' = Content(j)
    <3>1. streams[j].name # streams[i].name /\ streams[j].name \in DOMAIN files
      BY <2>1, <2>7 DEF Distinct, Types
    <3>2. files'[streams'[j].name] = files[streams[j].name] /\ streams'[j].buf = streams[j].buf
      BY <1>3, <1>11, <1>12, <2>7, <3>1
    <3> QED
      BY <3>2 DEF Content
  <2>8. Distinct'
    BY <1>11, <1>12, <2>1, <2>4, <2>7 DEF Distinct
  <2>9. InBound(i)'
    <3>1. setup.max_size \in Nat /\ this.cur_size \in Nat
      BY Constants DEF Types
    <3>2. /\ me[c].len = 0 => Content(i)' = Content(i)
          /\ me[c].len # 0 => Last(Content(i)') = record
      BY <1>4, <2>5, LastOfGrown DEF Cat, bytes
    <3>3. CASE me[c].len = 0
      BY <1>1, <2>1, <3>2, <3>3 DEF InBound, Earlier, Length
    <3>4. CASE me[c].len # 0
      <4>1. Earlier(i)' = Length(i)' - me[c].len
        BY <1>4, <3>2, <3>4 DEF Earlier
      <4>2. Earlier(i)' = this.cur_size
        BY <1>4, <2>1, <2>6, <3>1, <4>1
      <4> QED
        BY <1>1, <2>1, <3>1, <4>2 DEF InBound, HasRoom
    <3> QED
      BY <3>3, <3>4
  <2>10. \A j \in 1 .. Len(streams) : InBound(j)'
    <3> TAKE j \in 1 .. Len(streams)
    <3>1. CASE j = i
      BY <2>9, <3>1
    <3>2. CASE j # i
      BY <1>1, <2>1, <2>7, <3>2 DEF InBound, Earlier, Length
    <3> QED
      BY <3>1, <3>2
  <2> QED
    BY <1>1, <1>2, <1>4, <1>11, <2>1, <2>6, <2>8, <2>10 DEF Sized
<1> QED
  BY <1>14, <1>15, <1>16, <1>17

LEMMA UseDeadInv ==
  ASSUME NEW c, Inv(c), UseDead(c)
  PROVE  Inv(c)'
<1> USE DEF Inv
<1>1. /\ UNCHANGED <<setup, this, streams, files, me, now, run, sunk, mishaps>>
      /\ me[c].pc \in {"close", "write", "check"} /\ ~Alive(this.fs)
  BY DEF UseDead, history
<1>2. "failed" \in mishaps
  BY <1>1 DEF Pointed, Alive
<1>3. \A i : Content(i)' = Content(i)
  BY <1>1 DEF Content
<1>4. Types(c)' /\ Pointed(c)' /\ Numbered(c)'
  BY <1>1, <1>2 DEF Types, Pointed, Numbered
<1>5. Sized(c)'
  BY <1>1, <1>3 DEF Sized, Distinct, InBound, Earlier, Length, HasRoom
<1> QED
  BY <1>4, <1>5

(* A caller that has written finds fs_ open: Flush writes out that FILE.   *)
LEMMA FlushInv ==
  ASSUME NEW c, Inv(c), Flush(c)
  PROVE  Inv(c)'
<1> USE DEF Inv
<1>1. UNCHANGED <<setup, this, now, run, sunk, mishaps>> /\ me[c].pc = "flush" /\ Goto(c, "out")
  BY DEF Flush, history, At
<1>2. this.fs # 0 /\ Alive(this.fs) /\ this.fs \in 1 .. Len(streams)
  BY <1>1 DEF Pointed, Alive, Types
<1>3. fault' = FALSE
  BY <1>2 DEF Flush
<1>4. \/ UNCHANGED <<files, streams>>
      \/ files' = Written(this.fs) /\ streams' = Emptied(this.fs)
  BY <1>2 DEF Flush
<1>5. me' \in [{c} -> Local] /\ me'[c].pc = "out" /\ me'[c].file = me[c].file
  BY <1>1, MoveOn DEF Types, Places
<1>6. CASE UNCHANGED <<files, streams>>
  <2>1. Types(c)' /\ Pointed(c)' /\ Numbered(c)'
    BY <1>1, <1>2, <1>3, <1>5, <1>6 DEF Types, Pointed, Numbered, Alive
  <2>2. \A i : Content(i)' = Content(i)
    BY <1>6 DEF Content
  <2>3. Sized(c)'
    BY <1>1, <1>5, <1>6, <2>2 DEF Sized, Distinct, InBound, Earlier, Length
  <2> QED
    BY <2>1, <2>3
<1>7. CASE files' = Written(this.fs) /\ streams' = Emptied(this.fs)
  <2> DEFINE i == this.fs
             empty == [streams[i] EXCEPT !.buf = <<>>]
  <2>1. streams \in Seq(Opened)
    BY DEF Types
  <2>2. empty \in Opened /\ empty.name = streams[i].name /\ empty.buf = <<>>
        /\ empty.open = streams[i].open
    BY <1>2, <2>1, EmptyRange
  <2>3. streams' = [streams EXCEPT ![i] = empty]
    BY <1>7 DEF Emptied
  <2>4. streams' \in Seq(Opened) /\ Len(streams') = Len(streams)
        /\ \A j \in 1 .. Len(streams) : streams'[j] = IF j = i THEN empty ELSE streams[j]
    <3> HIDE DEF empty, i
    <3> QED
      BY <1>2, <2>1, <2>2, <2>3 DEF i
  <2> HIDE DEF empty
  <2>5. \A j \in 1 .. Len(streams) :
          /\ streams'[j].name = streams[j].name /\ streams'[j].open = streams[j].open
          /\ streams'[j].buf = IF j = i THEN <<>> ELSE streams[j].buf
    BY <2>2, <2>4
  <2>6. /\ DOMAIN files' = DOMAIN files
        /\ Distinct => Distinct' /\ \A j \in 1 .. Len(streams) : Content(j)' = Content(j)
    BY <1>2, <1>7, <2>4, <2>5, WriteOut
  <2>7. Types(c)'
    BY <1>1, <1>5, <2>4, <2>5, <2>6 DEF Types
  <2>8. Pointed(c)' /\ Numbered(c)'
    BY <1>1, <1>2, <1>3, <1>5, <2>5, <2>6 DEF Pointed, Numbered, Alive
  <2>9. Sized(c)'
    BY <1>1, <1>2, <1>5, <2>4, <2>6 DEF Sized, InBound, Earlier, Length
  <2> QED
    BY <2>7, <2>8, <2>9
<1> QED
  BY <1>4, <1>6, <1>7

LEMMA TickInv ==
  ASSUME NEW c, Inv(c), Tick
  PROVE  Inv(c)'
<1> USE DEF Inv
<1>1. /\ UNCHANGED <<setup, this, streams, files, me, run, fault, sunk, mishaps>>
      /\ now' = now + 1 /\ now < Len(Times)
  BY DEF Tick, history
<1>2. now' \in DOMAIN Times
  BY <1>1, RollAssumption DEF Types
<1>3. Types(c)' /\ Pointed(c)' /\ Numbered(c)'
  BY <1>1, <1>2 DEF Types, Pointed, Numbered
<1>4. \A i : Content(i)' = Content(i)
  BY <1>1 DEF Content
<1>5. Sized(c)'
  BY <1>1, <1>4 DEF Sized, Distinct, InBound, Earlier, Length, HasRoom
<1> QED
  BY <1>3, <1>5

LEMMA StartAgainInv ==
  ASSUME NEW c, Inv(c), StartAgain
  PROVE  Inv(c)'
<1> USE DEF Inv
<1>1. /\ UNCHANGED <<setup, now, fault, mishaps>> /\ ~fault /\ setup.callers = {c}
      /\ run' = run + 1 /\ this' = NewSink /\ streams' = <<>>
      /\ me' = [d \in setup.callers |-> Idle(me[d].no)]
  BY DEF StartAgain, Types
<1>2. me[c].no \in Nat
  BY DEF Types, Local
<1>3. Idle(me[c].no) \in Local /\ Idle(me[c].no).pc = "out"
      /\ Idle(me[c].no).file = 0
  BY <1>2 DEF Idle, Local, Places, Names, Spellings
<1>4. me' \in [{c} -> Local] /\ me'[c].pc = "out" /\ me'[c].file = 0
  BY <1>1, <1>3
<1>5. this'.fs = 0 /\ this' \in [fs : Nat, cur_size : Nat, cnt : Nat]
  BY <1>1 DEF NewSink
<1>6. run' \in Nat \ {0} /\ run' # 1
  BY <1>1 DEF Types
<1>7. Types(c)'
  BY <1>1, <1>4, <1>5, <1>6 DEF Types
<1>8. Pointed(c)' /\ Numbered(c)'
  BY <1>1, <1>4, <1>5, <1>6 DEF Pointed, Numbered
<1>9. Sized(c)'
  BY <1>1, <1>4, <1>5 DEF Sized, Distinct
<1> QED
  BY <1>7, <1>8, <1>9

LEMMA NextInv ==
  ASSUME NEW c, Inv(c), [Next]_vars
  PROVE  Inv(c)'
<1>1. setup.callers = {c}
  BY DEF Inv, Types
<1>2. ASSUME NEW len \in Lens, Enter(c, len)
      PROVE  Inv(c)'
  BY <1>2, EnterInv
<1>3. CASE InitLogFile(c)
  BY <1>3, LookInv, CloseInv, SetNullInv, CreateFilenameInv, IncrementCntInv, FopenInv,
     FopenFailsInv, AssignInv, ResetSizeInv DEF InitLogFile
<1>4. CASE Fwrite(c) \/ Ferror(c) \/ UseDead(c) \/ ReadSize(c) \/ AddSize(c) \/ Flush(c)
  BY <1>4, FwriteInv, LookInv, UseDeadInv, ReadSizeInv, AddSizeInv, FlushInv
<1>5. CASE Tick
  BY <1>5, TickInv
<1>6. CASE Exit \/ Killed
  BY <1>6, StartAgainInv DEF Exit, Killed
<1>7. CASE UNCHANGED vars
  <2>1. UNCHANGED <<setup, this, streams, files, me, now, run, fault, sunk, mishaps>>
    BY <1>7 DEF vars, history
  <2>2. \A i : Content(i)' = Content(i)
    BY <2>1 DEF Content
  <2>3. Types(c)' /\ Pointed(c)' /\ Numbered(c)'
    BY <2>1 DEF Inv, Types, Pointed, Numbered
  <2>4. Sized(c)'
    BY <2>1, <2>2 DEF Inv, Sized, Distinct, InBound, Earlier, Length, HasRoom
  <2> QED
    BY <2>3, <2>4 DEF Inv
<1> QED
  BY <1>1, <1>2, <1>3, <1>4, <1>5, <1>6, <1>7 DEF Next, Sink, Terminated

-----------------------------------------------------------------------------
(* A single caller is one of Callers, and stays the only one.              *)
IInv == setup \in Setups /\ \A c : setup.callers = {c} => Inv(c)

LEMMA SetupFixed == [Next]_vars => setup' = setup
BY DEF Next, Sink, InitLogFile, Enter, TestFull, TestOpen, Close, SetNull, CreateFilename,
       IncrementCnt, Fopen, FopenFails, Assign, ResetSize, Fwrite, Ferror, UseDead, ReadSize,
       AddSize, Flush, Tick, StartAgain, Exit, Killed, Terminated, vars

LEMMA InductiveInvariant == Spec => []IInv
<1>1. Init => IInv
  BY InitInv DEF IInv, Init
<1>2. IInv /\ [Next]_vars => IInv'
  <2> SUFFICES ASSUME IInv, [Next]_vars PROVE IInv'
    OBVIOUS
  <2>1. setup' = setup
    BY SetupFixed
  <2>2. ASSUME NEW c, setup'.callers = {c}
        PROVE  Inv(c)'
    BY <2>1, <2>2, NextInv DEF IInv
  <2> QED
    BY <2>1, <2>2 DEF IInv
<1> QED
  BY <1>1, <1>2, PTL DEF Spec

LEMMA SingleCaller ==
  ASSUME Alone, setup \in Setups
  PROVE  \E c : setup.callers = {c}
<1>1. IsFiniteSet(setup.callers)
  BY Constants, FS_Subset
<1> QED
  BY <1>1, FS_Singleton DEF Alone

(* FilesAlive: rolling never leaves fs_ at NULL or at a closed FILE when   *)
(* Sink writes; only an fopen that fails does (sink.hpp:85, 104-118).      *)
THEOREM FilesStayAlive == Spec => []FilesAlive
<1>1. IInv => FilesAlive
  <2> SUFFICES ASSUME IInv, Alone, "failed" \notin mishaps PROVE ~fault
    BY DEF FilesAlive
  <2>1. PICK c : Inv(c)
    BY SingleCaller DEF IInv
  <2> QED
    BY <2>1 DEF Inv, Pointed
<1> QED
  BY <1>1, InductiveInvariant, PTL

(* NamesFresh: cnt_ keeps the names of the first process apart, whatever   *)
(* the clock and the spelling of its fields (sink.hpp:121-135).            *)
THEOREM FirstNamesAreFresh == Spec => []NamesFresh
<1>1. IInv => NamesFresh
  <2> SUFFICES ASSUME IInv, Alone, run = 1 PROVE "reused" \notin mishaps
    BY DEF NamesFresh
  <2>1. PICK c : Inv(c)
    BY SingleCaller DEF IInv
  <2> QED
    BY <2>1 DEF Inv, Numbered
<1> QED
  BY <1>1, InductiveInvariant, PTL

(* SizeBounded: no file exceeds max_size_ by more than its own last record, *)
(* of whatever lengths the records are and however fwrite and fflush       *)
(* divide them (sink.hpp:85-98, 104).                                      *)
THEOREM FilesAreBounded == Spec => []SizeBounded
<1>1. IInv => SizeBounded
  <2> SUFFICES ASSUME IInv, Alone, "reused" \notin mishaps, NEW i \in DOMAIN streams
               PROVE  InBound(i)
    BY DEF SizeBounded, InBound, Earlier, Length
  <2>1. PICK c : Inv(c)
    BY SingleCaller DEF IInv
  <2>2. i \in 1 .. Len(streams)
    BY <2>1 DEF Inv, Types
  <2> QED
    BY <2>1, <2>2 DEF Inv, Sized
<1> QED
  BY <1>1, InductiveInvariant, PTL

-----------------------------------------------------------------------------
(* The order of what was sunk.  A file whose turn is over is closed, full  *)
(* and has nothing left in a buffer; the files, one after the other, are   *)
(* what was sunk; fs_ points to the last of them, if to any.               *)

Contents == [i \in DOMAIN streams |-> Content(i)]
Retired(i) ==
  ~streams[i].open /\ streams[i].buf = <<>> /\ Length(i) >= setup.max_size
InOrder ==
  /\ FlattenSeq(Contents) = sunk
  /\ \A i \in 1 .. Len(streams) : i < Len(streams) => Retired(i)
Ordered(c) ==
  mishaps = {} =>
    /\ InOrder
    /\ this.fs # 0 => this.fs = Len(streams)
    /\ (this.fs = 0 /\ me[c].pc # "assign") \/ me[c].pc = "null" =>
         \A i \in 1 .. Len(streams) : Retired(i)
    /\ me[c].pc = "assign" => me[c].file = Len(streams)
    /\ me[c].pc \in {"test", "close"} /\ this.fs # 0 => this.cur_size >= setup.max_size

LEMMA ContentsType ==
  ASSUME NEW st \in Seq(Opened), NEW fl, NEW all,
         \A i \in 1 .. Len(st) : fl[st[i].name] \in Seq(Byte),
         all = [i \in DOMAIN st |-> fl[st[i].name] \o st[i].buf]
  PROVE  /\ all \in Seq(Seq(Byte)) /\ Len(all) = Len(st)
         /\ \A i \in 1 .. Len(st) : all[i] = fl[st[i].name] \o st[i].buf
<1>1. DOMAIN st = 1 .. Len(st) /\ Len(st) \in Nat
  OBVIOUS
<1>2. ASSUME NEW i \in 1 .. Len(st)
      PROVE  fl[st[i].name] \o st[i].buf \in Seq(Byte)
  <2>1. st[i] \in Opened
    OBVIOUS
  <2>2. st[i].buf \in Seq(Byte)
    BY <2>1 DEF Opened
  <2> QED
    BY <2>2
<1>3. all = [i \in 1 .. Len(st) |-> fl[st[i].name] \o st[i].buf]
  BY <1>1
<1>4. all \in Seq(Seq(Byte)) /\ Len(all) = Len(st)
  BY <1>1, <1>2, <1>3, IsASeq, LenProperties
<1> QED
  BY <1>3, <1>4

LEMMA ContentsAre ==
  ASSUME NEW c, Types(c), Distinct
  PROVE  /\ Contents \in Seq(Seq(Byte)) /\ Len(Contents) = Len(streams)
         /\ \A i \in 1 .. Len(streams) : Contents[i] = Content(i)
<1>1. streams \in Seq(Opened) /\ \A i \in 1 .. Len(streams) : files[streams[i].name] \in Seq(Byte)
  BY DEF Types, Distinct
<1>2. Contents = [i \in DOMAIN streams |-> files[streams[i].name] \o streams[i].buf]
  BY DEF Contents, Content
<1> QED
  BY <1>1, <1>2, ContentsType DEF Content

(* The same of the next state.                                             *)
LEMMA ContentsWillBe ==
  ASSUME NEW c, Types(c)', Distinct'
  PROVE  /\ Contents' \in Seq(Seq(Byte)) /\ Len(Contents') = Len(streams')
         /\ \A i \in 1 .. Len(streams') : Contents'[i] = Content(i)'
<1>1. streams' \in Seq(Opened)
      /\ \A i \in 1 .. Len(streams') : files'[streams'[i].name] \in Seq(Byte)
  BY DEF Types, Distinct
<1>2. Contents' = [i \in DOMAIN streams' |-> files'[streams'[i].name] \o streams'[i].buf]
  BY DEF Contents, Content
<1> QED
  BY <1>1, <1>2, ContentsType DEF Content

(* Contents that are the same are in the same order.                       *)
LEMMA SameOrder ==
  ASSUME NEW c, Types(c), Types(c)', Distinct, Distinct', Len(streams') = Len(streams),
         \A j \in 1 .. Len(streams) : Content(j)' = Content(j)
  PROVE  FlattenSeq(Contents)' = FlattenSeq(Contents)
<1>1. Contents' = Contents
  BY ContentsAre, ContentsWillBe, SeqEqual
<1> QED
  BY <1>1

(* Steps that touch no file.                                               *)
LEMMA NoFileTouched ==
  ASSUME UNCHANGED <<setup, streams, files, sunk>>
  PROVE  InOrder' = InOrder /\ \A i : Retired(i)' = Retired(i)
<1>1. \A i : Content(i)' = Content(i)
  BY DEF Content
<1>2. \A i : Retired(i)' = Retired(i)
  BY <1>1 DEF Retired, Length
<1>3. Contents' = Contents
  BY DEF Contents, Content
<1> QED
  BY <1>2, <1>3 DEF InOrder

-----------------------------------------------------------------------------
(* Every step keeps the order.                                             *)

LEMMA InitOrdered ==
  ASSUME Init, NEW c, setup.callers = {c}, Inv(c)
  PROVE  Ordered(c)
<1>1. streams = <<>> /\ sunk = <<>> /\ this.fs = 0 /\ me[c].pc = "out"
  BY DEF Init, NewSink, Idle
<1>2. Len(streams) = 0 /\ mishaps = {}
  BY <1>1 DEF Init
<1>3. Types(c) /\ Distinct
  BY <1>2 DEF Inv, Sized
<1>4. FlattenSeq(Contents) = <<>>
  BY <1>2, <1>3, ContentsAre, FlattenEmpty
<1> QED
  BY <1>1, <1>2, <1>4 DEF Ordered, InOrder

(* Before a file is retired it is full, and after that there is a new one. *)
LEMMA QuietOrdered ==
  ASSUME NEW c, Inv(c), Ordered(c), UNCHANGED <<setup, streams, files, sunk, mishaps>>,
         NEW len \in Lens,
         \/ Enter(c, len) \/ TestFull(c) \/ TestOpen(c) \/ SetNull(c) \/ CreateFilename(c)
         \/ IncrementCnt(c) \/ Assign(c) \/ ResetSize(c) \/ Ferror(c) \/ UseDead(c)
         \/ ReadSize(c) \/ AddSize(c),
         Inv(c)'
  PROVE  Ordered(c)'
<1> SUFFICES ASSUME mishaps = {} PROVE Ordered(c)'
  BY DEF Ordered
<1>1. InOrder' /\ \A i : Retired(i)' = Retired(i)
  BY NoFileTouched DEF Ordered
<1>2. streams' = streams /\ this.fs \in 0 .. Len(streams) /\ me \in [{c} -> Local]
      /\ this \in [fs : Nat, cur_size : Nat, cnt : Nat] /\ setup' = setup
  BY DEF Inv, Types
<1>3. CASE Enter(c, len)
  <2>1. this' = this /\ me[c].pc = "out"
        /\ me'[c].pc = IF this.fs = 0 THEN "test" ELSE "full"
    BY <1>2, <1>3 DEF Enter, At
  <2> QED
    BY <1>1, <1>2, <2>1 DEF Ordered
<1>4. CASE TestFull(c)
  <2>1. /\ this' = this /\ me[c].pc = "full"
        /\ me'[c].pc = IF this.cur_size >= setup.max_size THEN "test" ELSE "write"
    BY <1>2, <1>4 DEF TestFull, At, Goto
  <2> QED
    BY <1>1, <1>2, <2>1 DEF Ordered
<1>5. CASE TestOpen(c)
  <2>1. this' = this /\ me[c].pc = "test" /\ me'[c].pc = IF this.fs = 0 THEN "name" ELSE "close"
    BY <1>2, <1>5 DEF TestOpen, At, Goto
  <2> QED
    BY <1>1, <1>2, <2>1 DEF Ordered
<1>6. CASE SetNull(c)
  <2>1. this'.fs = 0 /\ me[c].pc = "null" /\ me'[c].pc = "name"
    BY <1>2, <1>6 DEF SetNull, At, Goto
  <2> QED
    BY <1>1, <1>2, <2>1 DEF Ordered
<1>7. CASE CreateFilename(c)
  <2>1. this' = this /\ me[c].pc = "name" /\ me'[c].pc = "count"
    BY <1>2, <1>7 DEF CreateFilename, At
  <2> QED
    BY <1>1, <1>2, <2>1 DEF Ordered
<1>8. CASE IncrementCnt(c)
  <2>1. this'.fs = this.fs /\ me[c].pc = "count" /\ me'[c].pc = "open"
    BY <1>2, <1>8 DEF IncrementCnt, At, Goto
  <2> QED
    BY <1>1, <1>2, <2>1 DEF Ordered
<1>9. CASE Assign(c)
  <2>1. this'.fs = me[c].file /\ me[c].pc = "assign" /\ me'[c].pc = "reset"
    BY <1>2, <1>9 DEF Assign, At, Goto
  <2>2. me[c].file = Len(streams) /\ me[c].file # 0
    BY <2>1 DEF Ordered, Inv, Pointed
  <2> QED
    BY <1>1, <1>2, <2>1, <2>2 DEF Ordered
<1>10. CASE ResetSize(c)
  <2>1. this'.fs = this.fs /\ me[c].pc = "reset" /\ me'[c].pc = "write"
    BY <1>2, <1>10 DEF ResetSize, At, Goto
  <2> QED
    BY <1>1, <1>2, <2>1 DEF Ordered
<1>11. CASE Ferror(c)
  <2>1. this' = this /\ me[c].pc = "check" /\ me'[c].pc = "size"
    BY <1>2, <1>11 DEF Ferror, At, Goto
  <2> QED
    BY <1>1, <1>2, <2>1 DEF Ordered
<1>12. CASE UseDead(c)
  <2>1. this' = this /\ me' = me
    BY <1>12 DEF UseDead
  <2> QED
    BY <1>1, <1>2, <2>1 DEF Ordered
<1>13. CASE ReadSize(c)
  <2>1. this' = this /\ me[c].pc = "size" /\ me'[c].pc = "add"
    BY <1>2, <1>13 DEF ReadSize, At
  <2> QED
    BY <1>1, <1>2, <2>1 DEF Ordered
<1>14. CASE AddSize(c)
  <2>1. this'.fs = this.fs /\ me[c].pc = "add" /\ me'[c].pc = "flush"
    BY <1>2, <1>14 DEF AddSize, At, Goto
  <2> QED
    BY <1>1, <1>2, <2>1 DEF Ordered
<1> QED
  BY <1>3, <1>4, <1>5, <1>6, <1>7, <1>8, <1>9, <1>10, <1>11, <1>12, <1>13, <1>14

(* fclose: the file is the last one, and it is full.                       *)
LEMMA CloseOrdered ==
  ASSUME NEW c, Inv(c), Ordered(c), Close(c), Inv(c)'
  PROVE  Ordered(c)'
<1>1. UNCHANGED <<setup, this, now, run, sunk, mishaps>> /\ me[c].pc = "close" /\ ~fault
      /\ me \in [{c} -> Local]
  BY DEF Close, history, At, Inv, Types
<1> SUFFICES ASSUME mishaps = {} PROVE Ordered(c)'
  BY <1>1 DEF Ordered
<1>2. files' = Written(this.fs) /\ Goto(c, "null")
     /\ streams' = [Emptied(this.fs) EXCEPT ![this.fs].open = FALSE]
  BY DEF Close
<1>3. me'[c].pc = "null"
  BY <1>1, <1>2, MoveOn DEF Places, Inv, Types
<1>4. PICK i \in 1 .. Len(streams) : i = this.fs /\ i = Len(streams)
  BY <1>1 DEF Inv, Types, Ordered, Pointed
<1>5. streams \in Seq(Opened)
  BY DEF Inv, Types
<1>6. /\ streams' \in Seq(Opened) /\ Len(streams') = Len(streams) /\ ~streams'[i].open
     /\ \A j \in 1 .. Len(streams) :
          /\ streams'[j].name = streams[j].name
          /\ streams'[j].buf = IF j = i THEN <<>> ELSE streams[j].buf
          /\ j # i => streams'[j].open = streams[j].open
  <2> DEFINE empty == [streams[i] EXCEPT !.buf = <<>>]
             closed == [empty EXCEPT !.open = FALSE]
             cleared == Emptied(i)
  <2>1. empty \in Opened /\ empty.name = streams[i].name /\ empty.buf = <<>>
    BY <1>5, EmptyRange
  <2>2. cleared = [streams EXCEPT ![i] = empty]
    BY DEF Emptied
  <2> HIDE DEF empty
  <2>3. cleared \in Seq(Opened) /\ Len(cleared) = Len(streams)
        /\ \A j \in 1 .. Len(streams) : cleared[j] = IF j = i THEN empty ELSE streams[j]
    <3> HIDE DEF cleared
    <3> QED
      BY <1>5, <2>1, <2>2
  <2>4. closed \in Opened /\ closed.name = empty.name /\ closed.buf = <<>> /\ ~closed.open
    BY <2>1 DEF Opened
  <2>5. streams' = [cleared EXCEPT ![i] = closed]
    BY <1>2, <1>4, <2>3
  <2> HIDE DEF cleared, closed
  <2> QED
    BY <2>1, <2>3, <2>4, <2>5
<1>7. Types(c) /\ Types(c)' /\ Distinct /\ Distinct'
  BY <1>1 DEF Inv, Sized
<1>8. \A j \in 1 .. Len(streams) : Content(j)' = Content(j) /\ Length(j)' = Length(j)
  BY <1>2, <1>4, <1>6, <1>7, WriteOut
<1>9. FlattenSeq(Contents)' = FlattenSeq(Contents)
  BY <1>6, <1>7, <1>8, SameOrder
<1>10. Length(i) >= setup.max_size
  BY <1>1, <1>4 DEF Inv, Sized, Ordered
<1>11. Retired(i)'
  BY <1>1, <1>6, <1>8, <1>10 DEF Retired
<1>12. ASSUME NEW j \in 1 .. Len(streams), j # i PROVE Retired(j)'
  <2>1. Retired(j)
    BY <1>4, <1>12 DEF Ordered, InOrder
  <2> QED
    BY <1>1, <1>6, <1>8, <1>12, <2>1 DEF Retired
<1>13. \A j \in 1 .. Len(streams') : Retired(j)'
  BY <1>6, <1>11, <1>12
<1> QED
  BY <1>1, <1>3, <1>4, <1>6, <1>9, <1>13 DEF Ordered, InOrder

(* fopen: the new file is empty, and all others have been retired.         *)
LEMMA FopenOrdered ==
  ASSUME NEW c, Inv(c), Ordered(c), Fopen(c), Inv(c)'
  PROVE  Ordered(c)'
<1> SUFFICES ASSUME mishaps' = {} PROVE Ordered(c)'
  BY DEF Ordered
<1> DEFINE name == me[c].name
           file == [name |-> name, buf |-> <<>>, open |-> TRUE]
<1> PICK last \in Nat \ {0} : last = Len(streams) + 1
  BY DEF Inv, Types
<1>1. /\ UNCHANGED <<setup, this, now, run, fault, sunk>>
      /\ me[c].pc = "open" /\ me' = [me EXCEPT ![c].file = last, ![c].pc = "assign"]
      /\ streams' = Append(streams, file)
      /\ files' = [n \in DOMAIN files \cup {name} |->
                     IF n \in DOMAIN files THEN files[n] ELSE <<>>]
      /\ mishaps' = IF name \in DOMAIN files THEN mishaps \cup {"reused"} ELSE mishaps
  BY DEF Fopen, At
<1>2. mishaps = {} /\ name \notin DOMAIN files
  BY <1>1
<1>3. Types(c) /\ Types(c)' /\ Distinct /\ Distinct' /\ this.fs = 0
  BY <1>1, <1>2 DEF Inv, Sized, Pointed
<1>4. me'[c].pc = "assign" /\ me'[c].file = last
  BY <1>1, <1>3, CallerOpens DEF Types
<1> HIDE DEF name
<1>5. /\ Len(streams') = last
      /\ streams'[last].name = name /\ streams'[last].buf = <<>>
      /\ \A j \in 1 .. Len(streams) : streams'[j] = streams[j]
  BY <1>1, <1>3 DEF Types
<1>6. files'[name] = <<>> /\ \A n \in DOMAIN files : files'[n] = files[n]
  BY <1>1, <1>2
<1>7. ASSUME NEW j \in 1 .. Len(streams) PROVE Content(j)' = Content(j)
  <2>1. streams[j].name \in DOMAIN files
    BY <1>3 DEF Types
  <2> QED
    BY <1>5, <1>6, <2>1 DEF Content
<1>8. Content(last)' = <<>>
  <2>1. Content(last)' = <<>> \o <<>>
    BY <1>5, <1>6 DEF Content
  <2>2. <<>> \o <<>> = <<>>
    OBVIOUS
  <2> QED
    BY <2>1, <2>2
<1>9. Contents' = Append(Contents, <<>>)
  <2>1. /\ Contents \in Seq(Seq(Byte)) /\ Len(Contents) = Len(streams)
        /\ \A j \in 1 .. Len(streams) : Contents[j] = Content(j)
    BY <1>3, ContentsAre
  <2>2. /\ Contents' \in Seq(Seq(Byte)) /\ Len(Contents') = last
        /\ \A j \in 1 .. last : Contents'[j] = Content(j)'
    BY <1>3, <1>5, ContentsWillBe
  <2> DEFINE grown == Append(Contents, <<>>)
  <2>3. /\ grown \in Seq(Seq(Byte)) /\ Len(grown) = last /\ grown[last] = <<>>
        /\ \A j \in 1 .. Len(streams) : grown[j] = Contents[j]
    <3>1. <<>> \in Seq(Byte)
      OBVIOUS
    <3> QED
      BY <2>1, <3>1
  <2> HIDE DEF grown
  <2>4. ASSUME NEW j \in 1 .. last PROVE Contents'[j] = grown[j]
    <3>1. j \in 1 .. Len(streams) \/ j = last
      BY <1>5
    <3> QED
      BY <1>7, <1>8, <2>1, <2>2, <2>3, <3>1
  <2>5. Contents' = grown
    BY <2>2, <2>3, <2>4, SeqEqual
  <2> QED
    BY <2>5 DEF grown
<1>10. FlattenSeq(Contents)' = FlattenSeq(Contents)
  <2>1. Contents \in Seq(Seq(Byte)) /\ <<>> \in Seq(Byte)
    BY <1>3, ContentsAre
  <2>2. FlattenSeq(Contents) \in Seq(Byte)
    BY <2>1, FlattenType
  <2>3. FlattenSeq(Contents') = FlattenSeq(Contents) \o <<>>
    BY <1>9, <2>1, FlattenAppend
  <2> QED
    BY <2>2, <2>3, ConcatEmptySeq
<1>11. ASSUME NEW j \in 1 .. Len(streams) PROVE Retired(j)'
  <2>1. Retired(j)
    BY <1>1, <1>2, <1>3 DEF Ordered
  <2> QED
    BY <1>1, <1>5, <1>7, <2>1 DEF Retired, Length
<1>12. \A j \in 1 .. Len(streams') : j < Len(streams') => j \in 1 .. Len(streams)
  BY <1>5
<1> QED
  BY <1>1, <1>2, <1>3, <1>4, <1>5, <1>10, <1>11, <1>12 DEF Ordered, InOrder

(* fwrite: what is written goes to the end of the last file.               *)
LEMMA FwriteOrdered ==
  ASSUME NEW c, Inv(c), Ordered(c), Fwrite(c), Inv(c)'
  PROVE  Ordered(c)'
<1> DEFINE bytes == Bytes([from |-> c, no |-> me[c].no, len |-> me[c].len])
<1>1. /\ UNCHANGED <<setup, this, now, run, fault, mishaps>>
      /\ me[c].pc = "write" /\ this.fs # 0 /\ sunk' = sunk \o bytes
      /\ Goto(c, "check")
  BY DEF Fwrite, At, Alive
<1> SUFFICES ASSUME mishaps = {} PROVE Ordered(c)'
  BY <1>1 DEF Ordered
<1>2. Types(c) /\ Types(c)' /\ Distinct /\ Distinct'
  BY <1>1 DEF Inv, Sized
<1> PICK i \in 1 .. Len(streams) : i = this.fs /\ i = Len(streams)
  BY <1>1, <1>2 DEF Types, Ordered
<1> DEFINE all == streams[i].buf \o bytes
<1>3. PICK n \in Spills(all) :
        /\ files' = [files EXCEPT ![streams[i].name] = files[streams[i].name] \o First(n, all)]
        /\ streams' = [streams EXCEPT ![i].buf = From(n, all)]
  BY DEF Fwrite
<1>4. bytes \in Seq(Byte)
  <2>1. me[c].len \in Lens /\ me[c].no \in Nat /\ me[c].len \in Nat /\ c \in Callers
    BY <1>1, <1>2, Constants DEF Types, Local
  <2>2. [from |-> c, no |-> me[c].no, len |-> me[c].len] \in Byte
    BY <2>1 DEF Byte
  <2> QED
    BY <2>1, <2>2 DEF Bytes
<1>5. streams[i] \in Opened /\ streams[i].name \in DOMAIN files
      /\ files[streams[i].name] \in Seq(Byte)
  BY <1>2 DEF Types, Distinct
<1>6. streams[i].buf \in Seq(Byte)
  BY <1>5 DEF Opened
<1>7. me'[c].pc = "check"
  BY <1>1, <1>2, MoveOn DEF Types, Places
<1> HIDE DEF bytes
<1>8. all \in Seq(Byte)
  BY <1>4, <1>6
<1> HIDE DEF all
<1>9. n \in 0 .. Len(all) /\ From(n, all) \in Seq(Byte)
  BY <1>8, Cut, SpillsRange
<1>10. /\ Len(streams') = Len(streams)
       /\ streams'[i].name = streams[i].name /\ streams'[i].buf = From(n, all)
       /\ \A j \in 1 .. Len(streams) : j # i => streams'[j] = streams[j]
  <2> DEFINE f == streams[i]
             left == From(n, all)
             after == [f EXCEPT !.buf = left]
  <2> HIDE DEF f, left
  <2>1. after.name = f.name /\ after.buf = left
    BY <1>5 DEF Opened, f
  <2>2. streams' = [streams EXCEPT ![i] = after] /\ streams \in Seq(Opened)
    BY <1>2, <1>3 DEF Types, f, left
  <2> HIDE DEF after
  <2> QED
    BY <2>1, <2>2 DEF f, left
<1>11. Content(i)' = Cat(Content(i), bytes)
  <2>1. files'[streams'[i].name] = files[streams[i].name] \o First(n, all)
    BY <1>3, <1>5, <1>10
  <2>2. all = streams[i].buf \o bytes
    BY DEF all
  <2>3. Cat(Cat(files[streams[i].name], First(n, all)), From(n, all))
          = Cat(Cat(files[streams[i].name], streams[i].buf), bytes)
    <3>1. Divided(Byte, files[streams[i].name], streams[i].buf, bytes, all, n)
      BY <1>4, <1>5, <1>6, <1>8, <1>9, <2>2 DEF Divided
    <3> QED
      BY <3>1, Grown
  <2>4. Content(i)' = Cat(Cat(files[streams[i].name], First(n, all)), From(n, all))
    BY <1>10, <2>1 DEF Content, Cat
  <2>5. Cat(Content(i), bytes) = Cat(Cat(files[streams[i].name], streams[i].buf), bytes)
    BY DEF Content, Cat
  <2> QED
    BY <2>3, <2>4, <2>5
<1>12. ASSUME NEW j \in 1 .. Len(streams), j # i PROVE Content(j)' = Content(j)
  <2>1. streams[j].name # streams[i].name /\ streams[j].name \in DOMAIN files
    BY <1>2, <1>12 DEF Distinct, Types
  <2>2. files'[streams'[j].name] = files[streams[j].name]
    BY <1>3, <1>10, <1>12, <2>1
  <2> QED
    BY <1>10, <1>12, <2>2 DEF Content
<1>13. FlattenSeq(Contents)' = FlattenSeq(Contents) \o bytes
  <2>1. /\ Contents \in Seq(Seq(Byte)) /\ Len(Contents) = i
        /\ \A j \in 1 .. i : Contents[j] = Content(j)
    BY <1>2, ContentsAre
  <2>2. /\ Contents' \in Seq(Seq(Byte)) /\ Len(Contents') = i
        /\ \A j \in 1 .. i : Contents'[j] = Content(j)'
    BY <1>2, <1>10, ContentsWillBe
  <2>3. i \in Nat \ {0} /\ \A j \in 1 .. i : j < i => Contents'[j] = Contents[j]
    BY <1>12, <2>1, <2>2
  <2>4. Contents'[i] = Cat(Contents[i], bytes)
    BY <1>11, <2>1, <2>2
  <2>5. FlattenSeq(Contents') = Cat(FlattenSeq(Contents), bytes)
    <3>1. LastGrows(Byte, Contents, Contents', bytes, i)
      BY <1>4, <2>1, <2>2, <2>3, <2>4 DEF LastGrows
    <3> QED
      BY <3>1, FlattenExtend
  <2> QED
    BY <2>5 DEF Cat
<1>14. ASSUME NEW j \in 1 .. Len(streams), j < Len(streams) PROVE Retired(j)'
  <2>1. Retired(j) /\ j # i
    BY <1>14 DEF Ordered, InOrder
  <2> QED
    BY <1>1, <1>10, <1>12, <1>14, <2>1 DEF Retired, Length
<1> QED
  BY <1>1, <1>7, <1>10, <1>13, <1>14 DEF Ordered, InOrder

(* fflush moves bytes from the buffer to the file: the contents stay.      *)
LEMMA FlushOrdered ==
  ASSUME NEW c, Inv(c), Ordered(c), Flush(c), Inv(c)'
  PROVE  Ordered(c)'
<1>1. UNCHANGED <<setup, this, now, run, sunk, mishaps>> /\ me[c].pc = "flush" /\ Goto(c, "out")
  BY DEF Flush, history, At
<1> SUFFICES ASSUME mishaps = {} PROVE Ordered(c)'
  BY <1>1 DEF Ordered
<1>2. Types(c) /\ Types(c)' /\ Distinct /\ Distinct' /\ this.fs # 0
  BY <1>1 DEF Inv, Sized, Pointed
<1>3. me'[c].pc = "out"
  BY <1>1, <1>2, MoveOn DEF Types, Places
<1>4. \/ UNCHANGED <<files, streams>>
      \/ files' = Written(this.fs) /\ streams' = Emptied(this.fs)
  BY <1>2 DEF Flush
<1>5. CASE UNCHANGED <<files, streams>>
  <2>1. InOrder' /\ \A i : Retired(i)' = Retired(i)
    BY <1>1, <1>5, NoFileTouched DEF Ordered
  <2> QED
    BY <1>1, <1>2, <1>3, <1>5, <2>1 DEF Ordered
<1>6. CASE files' = Written(this.fs) /\ streams' = Emptied(this.fs)
  <2> PICK i \in 1 .. Len(streams) : i = this.fs /\ i = Len(streams)
    BY <1>2 DEF Types, Ordered
  <2> DEFINE empty == [streams[i] EXCEPT !.buf = <<>>]
  <2>1. streams \in Seq(Opened)
    BY <1>2 DEF Types
  <2>2. empty \in Opened /\ empty.name = streams[i].name /\ empty.buf = <<>>
    BY <2>1, EmptyRange
  <2>3. streams' = [streams EXCEPT ![i] = empty]
    BY <1>6 DEF Emptied
  <2> HIDE DEF empty
  <2>4. streams' \in Seq(Opened) /\ Len(streams') = Len(streams)
        /\ \A j \in 1 .. Len(streams) : streams'[j] = IF j = i THEN empty ELSE streams[j]
    BY <2>1, <2>2, <2>3
  <2>5. \A j \in 1 .. Len(streams) :
          /\ streams'[j].name = streams[j].name
          /\ streams'[j].buf = IF j = i THEN <<>> ELSE streams[j].buf
    BY <2>2, <2>4
  <2>6. \A j \in 1 .. Len(streams) : Content(j)' = Content(j) /\ Length(j)' = Length(j)
    BY <1>2, <1>6, <2>4, <2>5, WriteOut
  <2>7. FlattenSeq(Contents)' = FlattenSeq(Contents)
    BY <1>2, <2>4, <2>6, SameOrder
  <2>8. ASSUME NEW j \in 1 .. Len(streams), j < Len(streams) PROVE Retired(j)'
    <3>1. Retired(j)
      BY <2>8 DEF Ordered, InOrder
    <3> QED
      BY <1>1, <2>4, <2>6, <2>8, <3>1 DEF Retired
  <2> QED
    BY <1>1, <1>2, <1>3, <2>4, <2>7, <2>8 DEF Ordered, InOrder
<1> QED
  BY <1>4, <1>5, <1>6

LEMMA StartAgainOrdered ==
  ASSUME NEW c, Inv(c), Ordered(c), StartAgain, Inv(c)'
  PROVE  Ordered(c)'
<1> SUFFICES ASSUME mishaps' = {} PROVE Ordered(c)'
  BY DEF Ordered
<1>1. setup.callers = {c} /\ this'.fs = 0 /\ streams' = <<>> /\ sunk' = <<>>
      /\ me' = [d \in setup.callers |-> Idle(me[d].no)]
  BY DEF StartAgain, NewSink, Inv, Types
<1>2. me'[c].pc = "out" /\ Len(streams') = 0
  BY <1>1 DEF Idle
<1>3. Types(c)' /\ Distinct'
  BY DEF Inv, Sized
<1>4. FlattenSeq(Contents') = <<>>
  BY <1>2, <1>3, ContentsWillBe, FlattenEmpty
<1> QED
  BY <1>1, <1>2, <1>4 DEF Ordered, InOrder

LEMMA NextOrdered ==
  ASSUME NEW c, Inv(c), Ordered(c), [Next]_vars, Inv(c)'
  PROVE  Ordered(c)'
<1>1. setup.callers = {c} /\ setup \in Setups
  BY DEF Inv, Types
<1>2. ASSUME NEW len \in Lens, Enter(c, len)
      PROVE  Ordered(c)'
  BY <1>2, QuietOrdered DEF Enter, history
<1>3. CASE \/ TestFull(c) \/ TestOpen(c) \/ SetNull(c) \/ CreateFilename(c) \/ IncrementCnt(c)
           \/ Assign(c) \/ ResetSize(c) \/ Ferror(c) \/ UseDead(c) \/ ReadSize(c) \/ AddSize(c)
  <2>1. UNCHANGED <<setup, streams, files, sunk, mishaps>> /\ me[c].len \in Lens
    BY <1>3 DEF TestFull, TestOpen, SetNull, CreateFilename, IncrementCnt, Assign, ResetSize,
                Ferror, UseDead, ReadSize, AddSize, history, At, Inv, Types
  <2> QED
    BY <1>3, <2>1, QuietOrdered
<1>4. CASE Close(c) \/ Fopen(c) \/ Fwrite(c) \/ Flush(c)
  BY <1>4, CloseOrdered, FopenOrdered, FwriteOrdered, FlushOrdered
<1>5. CASE FopenFails(c)
  <2>1. mishaps' # {}
    BY <1>5 DEF FopenFails
  <2> QED
    BY <2>1 DEF Ordered
<1>6. CASE Tick \/ UNCHANGED vars
  <2>1. UNCHANGED <<setup, this, me, streams, files, sunk, mishaps>>
    BY <1>6 DEF Tick, vars, history
  <2>2. InOrder' = InOrder /\ \A i : Retired(i)' = Retired(i)
    BY <2>1, NoFileTouched
  <2> QED
    BY <2>1, <2>2 DEF Ordered
<1>7. CASE Exit \/ Killed
  BY <1>7, StartAgainOrdered DEF Exit, Killed
<1> QED
  BY <1>1, <1>2, <1>3, <1>4, <1>5, <1>6, <1>7 DEF Next, Sink, InitLogFile, Terminated

(* RollsInOrder: rolling loses nothing, repeats nothing and splits nothing *)
(* between files, and a file that has had its turn is closed, full and out *)
(* of the buffer (sink.hpp:85-98, 104-118).                                *)
THEOREM RollsAlwaysInOrder == Spec => []RollsInOrder
<1> DEFINE All == IInv /\ \A c : setup.callers = {c} => Ordered(c)
<1>1. Init => All
  BY InitInv, InitOrdered DEF IInv, Init
<1>2. All /\ IInv' /\ [Next]_vars => All'
  <2> SUFFICES ASSUME All, IInv', [Next]_vars PROVE All'
    OBVIOUS
  <2>1. setup' = setup
    BY SetupFixed
  <2>2. ASSUME NEW c, setup'.callers = {c}
        PROVE  Ordered(c)'
    BY <2>1, <2>2, NextOrdered DEF IInv
  <2> QED
    BY <2>1, <2>2
<1>3. All => RollsInOrder
  <2> SUFFICES ASSUME All, Alone, mishaps = {}
               PROVE  /\ FlattenSeq(Contents) = sunk
                      /\ \A i \in DOMAIN streams : i < Len(streams) =>
                           /\ ~streams[i].open /\ streams[i].buf = <<>>
                           /\ Len(Content(i)) >= setup.max_size
    BY DEF RollsInOrder, Contents
  <2>1. PICK c : Inv(c) /\ Ordered(c)
    BY SingleCaller DEF IInv
  <2>2. DOMAIN streams = 1 .. Len(streams)
    BY <2>1 DEF Inv, Types
  <2> QED
    BY <2>1, <2>2 DEF Ordered, InOrder, Retired, Length
<1> QED
  BY <1>1, <1>2, <1>3, InductiveInvariant, PTL DEF Spec

-----------------------------------------------------------------------------
(* Types, for any number of callers.  What fflush(NULL) and exit() write   *)
(* out is computed by recursion over the streams.                          *)

Members == [fs : Nat, cur_size : Nat, cnt : Nat]
Stream == [name : Name, buf : Seq(Byte), open : BOOLEAN]
Caller == [pc : Places, no : 0 .. setup.max_calls, len : Lens \cup {0}, name : Name,
           file : Nat, size : Nat]

MembersTyped == this \in Members /\ this.fs \in 0 .. Len(streams)
FilesTyped ==
  /\ streams \in Seq(Stream)
  /\ DOMAIN files \subseteq Name /\ files \in [DOMAIN files -> Seq(Byte)]
  /\ \A i \in 1 .. Len(streams) : streams[i].name \in DOMAIN files
CallersTyped ==
  /\ me \in [setup.callers -> Caller]
  /\ \A c \in setup.callers : me[c].pc # "out" => me[c].len \in Lens
FilesHeld == \A c \in setup.callers : me[c].file \in 0 .. Len(streams)
RestTyped ==
  /\ setup \in Setups /\ now \in DOMAIN Times /\ run \in 1 .. MaxRuns
  /\ fault \in BOOLEAN /\ mishaps \subseteq {"failed", "reused"} /\ sunk \in Seq(Byte)
AllTyped == MembersTyped /\ FilesTyped /\ CallersTyped /\ FilesHeld /\ RestTyped

LEMMA Limits ==
  /\ Lens \subseteq Nat /\ MaxRuns \in Nat \ {0}
  /\ \A s \in Setups : /\ s.max_size \in Nat /\ s.max_calls \in Nat /\ s.flush_log \in Nat
                       /\ s.callers \subseteq Callers
  /\ Times \in Seq(Seq(0 .. 99)) /\ 1 \in DOMAIN Times
BY RollAssumption

(* One or two digits for each field.                                       *)
LEMMA SpelledType ==
  ASSUME NEW time \in Seq(0 .. 99)
  PROVE  Spelled(time) \in Seq(0 .. 9)
<1>1. \A k \in 0 .. 99 : Digits(k) \in Seq(0 .. 9)
  <2> SUFFICES ASSUME NEW k \in 0 .. 99 PROVE Digits(k) \in Seq(0 .. 9)
    OBVIOUS
  <2>1. CASE k < 10
    <3>1. k \in 0 .. 9
      BY <2>1
    <3> QED
      BY <2>1, <3>1 DEF Digits
  <2>2. CASE ~ (k < 10)
    <3>1. k \div 10 \in 0 .. 9 /\ k % 10 \in 0 .. 9
      BY <2>2
    <3> QED
      BY <2>2, <3>1 DEF Digits
  <2> QED
    BY <2>1, <2>2
<1> DEFINE fields == [i \in DOMAIN time |-> Digits(time[i])]
<1>2. fields \in Seq(Seq(0 .. 9))
  <2>1. DOMAIN time = 1 .. Len(time) /\ Len(time) \in Nat
        /\ \A i \in 1 .. Len(time) : time[i] \in 0 .. 99
    BY LenProperties, ElementOfSeq
  <2>2. fields = [i \in 1 .. Len(time) |-> Digits(time[i])]
    BY <2>1
  <2>3. \A i \in 1 .. Len(time) : Digits(time[i]) \in Seq(0 .. 9)
    BY <1>1, <2>1
  <2> QED
    BY <2>1, <2>2, <2>3, IsASeq
<1> HIDE DEF fields
<1>3. FlattenSeq(fields) \in Seq(0 .. 9)
  BY <1>2, FlattenType
<1> QED
  BY <1>3 DEF Spelled, fields

(* fflush(NULL) and exit() leave the directory a directory.                *)
LEMMA AllWrittenType ==
  ASSUME FilesTyped
  PROVE  AllWritten \in [DOMAIN files -> Seq(Byte)]
<1> DEFINE S == 0 .. Len(streams)
           V == [DOMAIN files -> Seq(Byte)]
           rank == [i \in S |-> i]
           grow(dir, i) == [dir EXCEPT ![streams[i].name] = @ \o streams[i].buf]
           step == [f \in [S -> V] |-> [i \in S |-> IF i = 0 THEN files ELSE grow(f[i - 1], i)]]
<1>1. Len(streams) \in Nat /\ files \in V
  BY DEF FilesTyped
<1>2. ASSUME NEW dir \in V, NEW i \in S, i # 0 PROVE grow(dir, i) \in V
  <2>1. i \in 1 .. Len(streams)
    BY <1>2
  <2>2. streams[i] \in Stream
    BY <2>1 DEF FilesTyped
  <2>3. streams[i].name \in DOMAIN files /\ streams[i].buf \in Seq(Byte)
    BY <2>1, <2>2 DEF FilesTyped, Stream
  <2>4. dir[streams[i].name] \o streams[i].buf \in Seq(Byte)
    BY <2>3
  <2> QED
    BY <2>3, <2>4
<1>3. step \in [[S -> V] -> [S -> V]]
  <2> SUFFICES ASSUME NEW f \in [S -> V], NEW i \in S
               PROVE  (IF i = 0 THEN files ELSE grow(f[i - 1], i)) \in V
    OBVIOUS
  <2> HIDE DEF grow, V
  <2>1. CASE i = 0
    BY <1>1, <2>1
  <2>2. CASE i # 0
    <3>1. i - 1 \in S
      BY <1>1, <2>2
    <3>2. f[i - 1] \in V
      BY <3>1
    <3> QED
      BY <1>2, <2>2, <3>2
  <2> QED
    BY <2>1, <2>2
<1>4. Grounded(S, V, rank, step)
  <2> SUFFICES ASSUME NEW f \in [S -> V], NEW g \in [S -> V], NEW i \in S,
                      \A j \in S : rank[j] < rank[i] => f[j] = g[j]
               PROVE  step[f][i] = step[g][i]
    BY DEF Grounded
  <2>1. i # 0 => i - 1 \in S /\ f[i - 1] = g[i - 1]
    BY <1>1
  <2>2. /\ step[f][i] = IF i = 0 THEN files ELSE grow(f[i - 1], i)
        /\ step[g][i] = IF i = 0 THEN files ELSE grow(g[i - 1], i)
    <3> HIDE DEF grow, V
    <3> QED
      OBVIOUS
  <2> HIDE DEF grow, V, step
  <2> QED
    BY <2>1, <2>2
<1>5. rank \in [S -> 0 .. Len(streams)] /\ V # {}
  BY <1>1
<1>6. Recursive(S, V, step)
  <2> HIDE DEF S, V, rank, step
  <2> QED
    BY <1>1, <1>3, <1>4, <1>5, RecursiveFunction
<1> DEFINE dirs == CHOOSE f : f = [i \in S |-> IF i = 0 THEN files ELSE grow(f[i - 1], i)]
<1>7. \E f \in [S -> V] : f = [i \in S |-> IF i = 0 THEN files ELSE grow(f[i - 1], i)]
  <2> HIDE DEF grow, V, S
  <2> QED
    BY <1>6 DEF Recursive
<1>8. dirs = [i \in S |-> IF i = 0 THEN files ELSE grow(dirs[i - 1], i)]
  <2> HIDE DEF grow, V, S
  <2> QED
    BY <1>7
<1>9. AllWritten = dirs[Len(streams)]
  BY DEF AllWritten
<1> HIDE DEF dirs
<1> DEFINE T == {i \in S : dirs[i] \in V}
<1>10. ASSUME NEW i \in S, \A j \in S : rank[j] < rank[i] => j \in T PROVE i \in T
  <2>1. dirs[i] = IF i = 0 THEN files ELSE grow(dirs[i - 1], i)
    <3> HIDE DEF grow
    <3> QED
      BY <1>8
  <2>2. CASE i = 0
    <3> HIDE DEF grow, V
    <3> QED
      BY <1>1, <2>1, <2>2
  <2>3. CASE i # 0
    <3>1. i - 1 \in S /\ rank[i - 1] < rank[i]
      BY <1>1, <2>3
    <3>2. dirs[i - 1] \in V
      BY <1>10, <3>1
    <3>3. grow(dirs[i - 1], i) \in V
      <4> HIDE DEF grow, V, S
      <4> QED
        BY <1>2, <2>3, <3>2
    <3> HIDE DEF grow, V
    <3> QED
      BY <2>1, <2>3, <3>3
  <2> QED
    BY <2>2, <2>3
<1>11. T = S
  <2>1. Progressive(S, rank, T) /\ T \in SUBSET S
    <3> HIDE DEF S, rank
    <3>1. T \in SUBSET S
      OBVIOUS
    <3> QED
      BY <1>10, <3>1 DEF Progressive
  <2> HIDE DEF S, V, rank, T
  <2> QED
    BY <1>1, <1>5, <2>1, RankInduction
<1>12. Len(streams) \in S
  BY <1>1
<1> QED
  BY <1>9, <1>11, <1>12

(* A caller whose locals change, while no FILE is forgotten.               *)
Fits(m) == m.file \in 0 .. Len(streams')
NoneForgotten ==
  Len(streams) \in Nat /\ Len(streams') \in Nat /\ Len(streams) <= Len(streams')

LEMMA CallerSet ==
  ASSUME CallersTyped, FilesHeld, setup' = setup, NoneForgotten, NEW c \in setup.callers,
         NEW next \in Caller, next.len \in Lens, Fits(next), me' = [me EXCEPT ![c] = next]
  PROVE  CallersTyped' /\ FilesHeld'
<1>1. me' \in [setup.callers -> Caller]
      /\ \A d \in setup.callers : me'[d] = IF d = c THEN next ELSE me[d]
  BY DEF CallersTyped
<1>2. \A d \in setup.callers : me'[d].pc # "out" => me'[d].len \in Lens
  BY <1>1 DEF CallersTyped
<1>3. ASSUME NEW d \in setup.callers PROVE me'[d].file \in 0 .. Len(streams')
  <2>1. me[d].file \in 0 .. Len(streams)
    BY DEF FilesHeld
  <2>2. me[d].file \in 0 .. Len(streams')
    BY <2>1 DEF NoneForgotten
  <2> QED
    BY <1>1, <2>2 DEF Fits
<1> QED
  BY <1>1, <1>2, <1>3 DEF CallersTyped, FilesHeld, Caller

LEMMA CallerMoves ==
  ASSUME CallersTyped, FilesHeld, setup' = setup, streams \in Seq(Stream),
         Len(streams') = Len(streams), NEW c \in setup.callers, NEW place \in Places,
         me[c].pc # "out", Goto(c, place)
  PROVE  CallersTyped' /\ FilesHeld'
<1> DEFINE m == me[c]
           next == [m EXCEPT !.pc = place]
<1>1. m \in Caller /\ m.len \in Lens /\ m.file \in 0 .. Len(streams)
  BY DEF CallersTyped, FilesHeld
<1>2. me' = [me EXCEPT ![c] = next]
  BY DEF Goto
<1> HIDE DEF m
<1>3. next \in Caller /\ next.len \in Lens /\ next.file = m.file
  BY <1>1 DEF Caller
<1>4. NoneForgotten
  BY DEF NoneForgotten
<1>5. Fits(next)
  BY <1>1, <1>3 DEF Fits
<1> HIDE DEF next
<1> QED
  BY <1>2, <1>3, <1>4, <1>5, CallerSet, Zenon

LEMMA NoName == <<<<>>, 0>> \in Name
<1>1. <<>> \in Seq(0 .. 9)
  OBVIOUS
<1> QED
  BY <1>1 DEF Name

LEMMA InitTyped == Init => AllTyped
<1> SUFFICES ASSUME Init PROVE AllTyped
  OBVIOUS
<1>1. setup \in Setups /\ setup.max_calls \in Nat
  BY Limits DEF Init
<1>2. 0 \in 0 .. setup.max_calls /\ "out" \in Places
  BY <1>1 DEF Places
<1>3. Idle(0) \in Caller /\ Idle(0).pc = "out" /\ Idle(0).file = 0
  BY <1>2, NoName DEF Idle, Caller
<1>4. CallersTyped /\ FilesHeld
  <2>1. me = [c \in setup.callers |-> Idle(0)] /\ Len(streams) = 0
    BY DEF Init
  <2> QED
    BY <1>3, <2>1 DEF CallersTyped, FilesHeld
<1>5. MembersTyped
  BY DEF Init, NewSink, MembersTyped, Members
<1>6. FilesTyped
  <2>1. files = <<>> /\ streams = <<>> /\ DOMAIN <<>> = {}
    BY DEF Init
  <2>2. files \in [DOMAIN files -> Seq(Byte)]
    BY <2>1
  <2> QED
    BY <2>1, <2>2 DEF FilesTyped
<1>7. RestTyped
  <2>1. run = 1 /\ now = 1 /\ fault = FALSE /\ mishaps = {} /\ sunk = <<>>
    BY DEF Init
  <2>2. <<>> \in Seq(Byte) /\ MaxRuns \in Nat \ {0}
    BY Limits
  <2>3. 1 \in 1 .. MaxRuns /\ 1 \in DOMAIN Times
    BY <2>2, Limits
  <2> QED
    BY <1>1, <2>1, <2>2, <2>3 DEF RestTyped
<1> QED
  BY <1>4, <1>5, <1>6, <1>7 DEF AllTyped

LEMMA EnterTyped ==
  ASSUME AllTyped, NEW c \in setup.callers, NEW len \in Lens, Enter(c, len)
  PROVE  AllTyped'
<1>1. /\ UNCHANGED <<setup, this, streams, files, now, run, fault, sunk, mishaps>>
      /\ me[c].no < setup.max_calls
  BY DEF Enter, history
<1> DEFINE place == IF this.fs = 0 THEN "test" ELSE "full"
           m == me[c]
           counted == [m EXCEPT !.no = m.no + 1]
           told == [counted EXCEPT !.len = len]
           next == [told EXCEPT !.pc = place]
<1>2. m \in Caller /\ place \in Places /\ setup.max_calls \in Nat
      /\ m.file \in 0 .. Len(streams) /\ Len(streams) \in Nat /\ streams \in Seq(Stream)
  BY Limits DEF AllTyped, CallersTyped, FilesHeld, FilesTyped, RestTyped, Places
<1>3. me' = [me EXCEPT ![c] = next]
  BY DEF Enter
<1> HIDE DEF place
<1>4. m.no + 1 \in 0 .. setup.max_calls
  <2>1. m.no \in 0 .. setup.max_calls
    BY <1>2 DEF Caller
  <2> QED
    BY <1>1, <1>2, <2>1
<1> HIDE DEF m
<1>5. counted \in Caller /\ counted.file = m.file
  BY <1>2, <1>4 DEF Caller
<1> HIDE DEF counted
<1>6. told \in Caller /\ told.len = len /\ told.file = m.file
  BY <1>5 DEF Caller
<1> HIDE DEF told
<1>7. next \in Caller /\ next.len = len /\ next.file = m.file
  BY <1>2, <1>6 DEF Caller
<1> HIDE DEF next
<1>8. NoneForgotten /\ Fits(next)
  BY <1>1, <1>2, <1>7 DEF NoneForgotten, Fits
<1>9. CallersTyped' /\ FilesHeld'
  BY <1>1, <1>3, <1>7, <1>8, CallerSet DEF AllTyped
<1> QED
  BY <1>1, <1>9 DEF AllTyped, MembersTyped, FilesTyped, RestTyped

LEMMA LookTyped ==
  ASSUME AllTyped, NEW c \in setup.callers, TestFull(c) \/ TestOpen(c) \/ Ferror(c)
  PROVE  AllTyped'
<1>1. UNCHANGED <<setup, this, streams, files, now, run, fault, sunk, mishaps>>
  BY DEF TestFull, TestOpen, Ferror, history
<1>2. PICK place \in Places : Goto(c, place) /\ me[c].pc # "out"
  BY DEF TestFull, TestOpen, Ferror, At, Places
<1>3. CallersTyped' /\ FilesHeld'
  BY <1>1, <1>2, CallerMoves DEF AllTyped, FilesTyped
<1> QED
  BY <1>1, <1>3 DEF AllTyped, MembersTyped, FilesTyped, RestTyped

(* A buffer that goes to its file.                                         *)
LEMMA WrittenTyped ==
  ASSUME FilesTyped, NEW i \in 1 .. Len(streams)
  PROVE  /\ Written(i) \in [DOMAIN files -> Seq(Byte)]
         /\ Emptied(i) \in Seq(Stream) /\ Len(Emptied(i)) = Len(streams)
         /\ \A j \in 1 .. Len(streams) : Emptied(i)[j].name = streams[j].name
<1>1. streams \in Seq(Stream) /\ streams[i] \in Stream /\ <<>> \in Seq(Byte)
  BY DEF FilesTyped
<1>2. streams[i].name \in DOMAIN files /\ streams[i].buf \in Seq(Byte)
  BY <1>1 DEF FilesTyped, Stream
<1>3. files[streams[i].name] \o streams[i].buf \in Seq(Byte)
  BY <1>2 DEF FilesTyped
<1>4. Written(i) \in [DOMAIN files -> Seq(Byte)]
  BY <1>2, <1>3 DEF FilesTyped, Written
<1> DEFINE f == streams[i]
           empty == [f EXCEPT !.buf = <<>>]
<1>5. empty \in Stream /\ empty.name = f.name
  <2> HIDE DEF f
  <2> QED
    BY <1>1 DEF Stream, f
<1>6. Emptied(i) = [streams EXCEPT ![i] = empty]
  BY DEF Emptied
<1> HIDE DEF empty
<1>7. /\ Emptied(i) \in Seq(Stream) /\ Len(Emptied(i)) = Len(streams)
      /\ \A j \in 1 .. Len(streams) : Emptied(i)[j] = IF j = i THEN empty ELSE streams[j]
  BY <1>1, <1>5, <1>6
<1> QED
  BY <1>4, <1>5, <1>7

LEMMA CloseTyped ==
  ASSUME AllTyped, NEW c \in setup.callers, Close(c)
  PROVE  AllTyped'
<1>1. UNCHANGED <<setup, this, now, run, fault, sunk, mishaps>> /\ me[c].pc = "close"
      /\ Goto(c, "null")
  BY DEF Close, history, At
<1>2. FilesTyped' /\ Len(streams') = Len(streams)
  <2>1. this.fs # 0 /\ files' = Written(this.fs)
        /\ streams' = [Emptied(this.fs) EXCEPT ![this.fs].open = FALSE]
    BY DEF Close, Alive
  <2>2. PICK i \in 1 .. Len(streams) : i = this.fs
    BY <2>1 DEF Alive, AllTyped, MembersTyped, Members, FilesTyped
  <2> DEFINE cleared == Emptied(i)
             f == cleared[i]
             closed == [f EXCEPT !.open = FALSE]
  <2>3. /\ files' \in [DOMAIN files -> Seq(Byte)]
        /\ cleared \in Seq(Stream) /\ Len(cleared) = Len(streams)
        /\ \A j \in 1 .. Len(streams) : cleared[j].name = streams[j].name
    BY <2>1, <2>2, WrittenTyped DEF AllTyped
  <2>4. streams' = [cleared EXCEPT ![i] = closed]
    BY <2>1, <2>2
  <2> HIDE DEF cleared
  <2>5. f \in Stream
    BY <2>3
  <2>6. closed \in Stream /\ closed.name = f.name
    <3> HIDE DEF f
    <3> QED
      BY <2>5 DEF Stream
  <2> HIDE DEF closed
  <2>7. /\ streams' \in Seq(Stream) /\ Len(streams') = Len(streams)
        /\ \A j \in 1 .. Len(streams) : streams'[j].name = streams[j].name
    BY <2>3, <2>4, <2>6
  <2>8. DOMAIN files' = DOMAIN files
    BY <2>3
  <2> QED
    BY <2>3, <2>7, <2>8 DEF AllTyped, FilesTyped
<1>3. CallersTyped' /\ FilesHeld'
  BY <1>1, <1>2, CallerMoves DEF AllTyped, FilesTyped, Places
<1> QED
  BY <1>1, <1>2, <1>3 DEF AllTyped, MembersTyped, RestTyped

LEMMA SetNullTyped ==
  ASSUME AllTyped, NEW c \in setup.callers, SetNull(c)
  PROVE  AllTyped'
<1>1. /\ UNCHANGED <<setup, streams, files, now, run, fault, sunk, mishaps>>
      /\ me[c].pc = "null" /\ Goto(c, "name") /\ this' = [this EXCEPT !.fs = 0]
  BY DEF SetNull, history, At
<1>2. CallersTyped' /\ FilesHeld'
  BY <1>1, CallerMoves DEF AllTyped, FilesTyped, Places
<1>3. this' \in Members /\ this'.fs = 0
  BY <1>1 DEF AllTyped, MembersTyped, Members
<1>4. MembersTyped'
  BY <1>1, <1>3 DEF AllTyped, MembersTyped, FilesTyped
<1> QED
  BY <1>1, <1>2, <1>4 DEF AllTyped, FilesTyped, RestTyped

LEMMA CreateFilenameTyped ==
  ASSUME AllTyped, NEW c \in setup.callers, CreateFilename(c)
  PROVE  AllTyped'
<1> DEFINE name == <<Spelled(Times[now]), this.cnt>>
           m == me[c]
           named == [m EXCEPT !.name = name]
           next == [named EXCEPT !.pc = "count"]
<1>1. /\ UNCHANGED <<setup, this, streams, files, now, run, fault, sunk, mishaps>>
      /\ me[c].pc = "name" /\ me' = [me EXCEPT ![c] = next]
  BY DEF CreateFilename, history, At
<1>2. name \in Name
  <2>1. Times \in Seq(Seq(0 .. 99)) /\ now \in DOMAIN Times
    BY Limits DEF AllTyped, RestTyped
  <2>2. Times[now] \in Seq(0 .. 99)
    BY <2>1
  <2>3. Spelled(Times[now]) \in Seq(0 .. 9)
    BY <2>2, SpelledType
  <2>4. this.cnt \in Nat
    BY DEF AllTyped, MembersTyped, Members
  <2> QED
    BY <2>3, <2>4 DEF Name
<1>3. m \in Caller /\ m.len \in Lens /\ "count" \in Places
      /\ m.file \in 0 .. Len(streams) /\ Len(streams) \in Nat /\ streams \in Seq(Stream)
  BY <1>1 DEF AllTyped, CallersTyped, FilesHeld, FilesTyped, Places
<1> HIDE DEF name, m
<1>4. named \in Caller /\ named.len = m.len /\ named.file = m.file
  BY <1>2, <1>3 DEF Caller
<1> HIDE DEF named
<1>5. next \in Caller /\ next.len \in Lens /\ next.file = m.file
  BY <1>3, <1>4 DEF Caller
<1> HIDE DEF next
<1>6. NoneForgotten /\ Fits(next)
  BY <1>1, <1>3, <1>5 DEF NoneForgotten, Fits
<1>7. CallersTyped' /\ FilesHeld'
  BY <1>1, <1>5, <1>6, CallerSet DEF AllTyped
<1> QED
  BY <1>1, <1>7 DEF AllTyped, MembersTyped, FilesTyped, RestTyped

LEMMA IncrementCntTyped ==
  ASSUME AllTyped, NEW c \in setup.callers, IncrementCnt(c)
  PROVE  AllTyped'
<1>1. /\ UNCHANGED <<setup, streams, files, now, run, fault, sunk, mishaps>>
      /\ me[c].pc = "count" /\ Goto(c, "open")
      /\ this' = [this EXCEPT !.cnt = me[c].name[2] + 1]
  BY DEF IncrementCnt, history, At
<1>2. CallersTyped' /\ FilesHeld'
  BY <1>1, CallerMoves DEF AllTyped, FilesTyped, Places
<1>3. me[c].name[2] \in Nat
  BY DEF AllTyped, CallersTyped, Caller, Name
<1>4. this' \in Members /\ this'.fs = this.fs
  BY <1>1, <1>3 DEF AllTyped, MembersTyped, Members
<1> QED
  BY <1>1, <1>2, <1>4 DEF AllTyped, MembersTyped, FilesTyped, RestTyped

(* What fopen returned is kept by the caller.                              *)
LEMMA CallerOpensTyped ==
  ASSUME AllTyped, setup' = setup, NEW c \in setup.callers, me[c].pc # "out",
         NoneForgotten, NEW file \in Nat, file <= Len(streams'),
         me' = [me EXCEPT ![c].file = file, ![c].pc = "assign"]
  PROVE  CallersTyped' /\ FilesHeld'
<1> DEFINE m == me[c]
           got == [m EXCEPT !.file = file]
           next == [got EXCEPT !.pc = "assign"]
<1>1. m \in Caller /\ m.len \in Lens /\ "assign" \in Places
  BY DEF AllTyped, CallersTyped, Places
<1>2. me' = [me EXCEPT ![c] = next]
  OBVIOUS
<1> HIDE DEF m
<1>3. got \in Caller /\ got.file = file /\ got.len = m.len
  BY <1>1 DEF Caller
<1> HIDE DEF got
<1>4. next \in Caller /\ next.file = file /\ next.len = m.len
  BY <1>1, <1>3 DEF Caller
<1> HIDE DEF next
<1>5. Fits(next)
  BY <1>4 DEF Fits, NoneForgotten
<1> HIDE DEF next
<1> QED
  BY <1>1, <1>2, <1>4, <1>5, CallerSet DEF AllTyped

LEMMA FopenTyped ==
  ASSUME AllTyped, NEW c \in setup.callers, Fopen(c)
  PROVE  AllTyped'
<1> DEFINE name == me[c].name
           file == [name |-> name, buf |-> <<>>, open |-> TRUE]
<1> PICK last \in Nat \ {0} : last = Len(streams) + 1
  BY DEF AllTyped, FilesTyped
<1>1. /\ UNCHANGED <<setup, this, now, run, fault, sunk>>
      /\ me[c].pc = "open" /\ me' = [me EXCEPT ![c].file = last, ![c].pc = "assign"]
      /\ streams' = Append(streams, file)
      /\ files' = [n \in DOMAIN files \cup {name} |->
                     IF n \in DOMAIN files THEN files[n] ELSE <<>>]
      /\ mishaps' = IF name \in DOMAIN files THEN mishaps \cup {"reused"} ELSE mishaps
  BY DEF Fopen, At
<1>2. name \in Name
  BY DEF AllTyped, CallersTyped, Caller
<1> HIDE DEF name
<1>3. file \in Stream /\ file.name = name
  BY <1>2 DEF Stream
<1> HIDE DEF file
<1>4. /\ streams' \in Seq(Stream) /\ Len(streams') = last /\ streams'[last] = file
      /\ \A i \in 1 .. Len(streams) : streams'[i] = streams[i]
  BY <1>1, <1>3 DEF AllTyped, FilesTyped
<1>5. Len(streams) \in Nat /\ NoneForgotten
  BY <1>4 DEF AllTyped, FilesTyped, NoneForgotten
<1>6. CallersTyped' /\ FilesHeld'
  <2>1. last \in Nat /\ last <= Len(streams') /\ setup' = setup /\ me[c].pc # "out"
        /\ me' = [me EXCEPT ![c].file = last, ![c].pc = "assign"]
    BY <1>1, <1>4
  <2> QED
    BY <1>5, <2>1, CallerOpensTyped
<1>7. DOMAIN files' = DOMAIN files \cup {name} /\ files' \in [DOMAIN files' -> Seq(Byte)]
  <2>1. <<>> \in Seq(Byte) /\ files \in [DOMAIN files -> Seq(Byte)]
    BY DEF AllTyped, FilesTyped
  <2> QED
    BY <1>1, <2>1
<1>8. FilesTyped'
  <2>1. \A i \in 1 .. last : i \in 1 .. Len(streams) \/ i = last
    OBVIOUS
  <2> QED
    BY <1>2, <1>3, <1>4, <1>7, <2>1 DEF AllTyped, FilesTyped
<1>9. MembersTyped'
  <2>1. this.fs \in 0 .. Len(streams)
    BY DEF AllTyped, MembersTyped
  <2>2. this.fs \in 0 .. last
    BY <1>5, <2>1
  <2> QED
    BY <1>1, <1>4, <2>2 DEF AllTyped, MembersTyped
<1>10. RestTyped'
  BY <1>1 DEF AllTyped, RestTyped
<1> QED
  BY <1>6, <1>8, <1>9, <1>10 DEF AllTyped

LEMMA FopenFailsTyped ==
  ASSUME AllTyped, NEW c \in setup.callers, FopenFails(c)
  PROVE  AllTyped'
<1>1. /\ UNCHANGED <<setup, this, streams, files, now, run, fault, sunk>>
      /\ me[c].pc = "open" /\ me' = [me EXCEPT ![c].file = 0, ![c].pc = "assign"]
      /\ mishaps' = mishaps \cup {"failed"}
  BY DEF FopenFails, At
<1>2. NoneForgotten /\ 0 <= Len(streams')
  BY <1>1 DEF AllTyped, FilesTyped, NoneForgotten
<1>3. CallersTyped' /\ FilesHeld'
  BY <1>1, <1>2, CallerOpensTyped
<1> QED
  BY <1>1, <1>3 DEF AllTyped, MembersTyped, FilesTyped, RestTyped

LEMMA AssignTyped ==
  ASSUME AllTyped, NEW c \in setup.callers, Assign(c)
  PROVE  AllTyped'
<1>1. /\ UNCHANGED <<setup, streams, files, now, run, fault, sunk, mishaps>>
      /\ me[c].pc = "assign" /\ Goto(c, "reset")
      /\ this' = [this EXCEPT !.fs = me[c].file]
  BY DEF Assign, history, At
<1>2. CallersTyped' /\ FilesHeld'
  BY <1>1, CallerMoves DEF AllTyped, FilesTyped, Places
<1>3. me[c].file \in 0 .. Len(streams) /\ me[c].file \in Nat
  BY DEF AllTyped, FilesHeld, CallersTyped, Caller
<1>4. this' \in Members /\ this'.fs = me[c].file
  BY <1>1, <1>3 DEF AllTyped, MembersTyped, Members
<1> QED
  BY <1>1, <1>2, <1>3, <1>4 DEF AllTyped, MembersTyped, FilesTyped, RestTyped

LEMMA SizeTyped ==
  ASSUME AllTyped, NEW c \in setup.callers, ResetSize(c) \/ AddSize(c)
  PROVE  AllTyped'
<1>1. UNCHANGED <<setup, streams, files, now, run, fault, sunk, mishaps>>
  BY DEF ResetSize, AddSize, history
<1>2. PICK place \in Places : Goto(c, place) /\ me[c].pc # "out"
  <2>1. "write" \in Places /\ "flush" \in Places
    BY DEF Places
  <2> QED
    BY <2>1 DEF ResetSize, AddSize, At
<1>3. CallersTyped' /\ FilesHeld'
  BY <1>1, <1>2, CallerMoves DEF AllTyped, FilesTyped
<1>4. PICK size \in Nat : this' = [this EXCEPT !.cur_size = size]
  <2>1. me[c].size + me[c].len \in Nat
    <3>1. me[c].size \in Nat /\ me[c].len \in Lens \cup {0}
      BY DEF AllTyped, CallersTyped, Caller
    <3>2. Lens \subseteq Nat
      BY Limits
    <3>3. PICK size \in Nat : size = me[c].size
      BY <3>1
    <3>4. PICK len \in Nat : len = me[c].len
      BY <3>1, <3>2
    <3> QED
      BY <3>3, <3>4
  <2> QED
    BY <2>1 DEF ResetSize, AddSize
<1>5. this' \in Members /\ this'.fs = this.fs
  BY <1>4 DEF AllTyped, MembersTyped, Members
<1> QED
  BY <1>1, <1>3, <1>5 DEF AllTyped, MembersTyped, FilesTyped, RestTyped

LEMMA ReadSizeTyped ==
  ASSUME AllTyped, NEW c \in setup.callers, ReadSize(c)
  PROVE  AllTyped'
<1> DEFINE m == me[c]
           read == [m EXCEPT !.size = this.cur_size]
           next == [read EXCEPT !.pc = "add"]
<1>1. /\ UNCHANGED <<setup, this, streams, files, now, run, fault, sunk, mishaps>>
      /\ me[c].pc = "size" /\ me' = [me EXCEPT ![c] = next]
  BY DEF ReadSize, history, At
<1>2. m \in Caller /\ m.len \in Lens /\ "add" \in Places /\ this.cur_size \in Nat
      /\ m.file \in 0 .. Len(streams) /\ Len(streams) \in Nat /\ streams \in Seq(Stream)
  BY <1>1 DEF AllTyped, CallersTyped, FilesHeld, FilesTyped, MembersTyped, Members, Places
<1> HIDE DEF m
<1>3. read \in Caller /\ read.len = m.len /\ read.file = m.file
  BY <1>2 DEF Caller
<1> HIDE DEF read
<1>4. next \in Caller /\ next.len = m.len /\ next.file = m.file
  BY <1>2, <1>3 DEF Caller
<1> HIDE DEF next
<1>5. NoneForgotten /\ Fits(next)
  BY <1>1, <1>2, <1>4 DEF NoneForgotten, Fits
<1>6. CallersTyped' /\ FilesHeld'
  BY <1>1, <1>2, <1>4, <1>5, CallerSet DEF AllTyped
<1> QED
  BY <1>1, <1>6 DEF AllTyped, MembersTyped, FilesTyped, RestTyped

LEMMA FwriteTyped ==
  ASSUME AllTyped, NEW c \in setup.callers, Fwrite(c)
  PROVE  AllTyped'
<1> DEFINE bytes == Bytes([from |-> c, no |-> me[c].no, len |-> me[c].len])
           m == me[c]
<1>1. /\ UNCHANGED <<setup, this, now, run, fault, mishaps>>
      /\ me[c].pc = "write" /\ this.fs # 0 /\ sunk' = sunk \o bytes
      /\ Goto(c, "check")
  BY DEF Fwrite, At, Alive
<1> PICK i \in 1 .. Len(streams) : i = this.fs
  BY <1>1 DEF AllTyped, MembersTyped, Members, FilesTyped
<1> DEFINE all == streams[i].buf \o bytes
<1>2. PICK n \in Spills(all) :
        /\ files' = [files EXCEPT ![streams[i].name] = files[streams[i].name] \o First(n, all)]
        /\ streams' = [streams EXCEPT ![i].buf = From(n, all)]
  BY DEF Fwrite
<1>3. m \in Caller /\ m.len \in Lens
  BY <1>1 DEF AllTyped, CallersTyped
<1>4. bytes \in Seq(Byte)
  <2>1. m.len \in Nat /\ setup.max_calls \in Nat /\ c \in Callers
    BY <1>3, Limits DEF AllTyped, RestTyped
  <2>2. m.no \in Nat
    BY <1>3, <2>1 DEF Caller
  <2>3. [from |-> c, no |-> m.no, len |-> m.len] \in Byte
    BY <1>3, <2>1, <2>2 DEF Byte
  <2> QED
    BY <2>1, <2>3 DEF Bytes
<1> HIDE DEF bytes, m
<1>5. streams[i] \in Stream /\ streams[i].name \in DOMAIN files
  BY DEF AllTyped, FilesTyped
<1>6. streams[i].buf \in Seq(Byte) /\ files[streams[i].name] \in Seq(Byte)
  BY <1>5 DEF Stream, AllTyped, FilesTyped
<1>7. all \in Seq(Byte)
  BY <1>4, <1>6
<1> HIDE DEF all
<1>8. First(n, all) \in Seq(Byte) /\ From(n, all) \in Seq(Byte)
  BY <1>7, Cut, SpillsRange
<1>9. FilesTyped' /\ Len(streams') = Len(streams)
  <2> DEFINE f == streams[i]
             left == From(n, all)
             after == [f EXCEPT !.buf = left]
             text == files[streams[i].name] \o First(n, all)
  <2> HIDE DEF f, left
  <2>1. after \in Stream /\ after.name = f.name
    BY <1>5, <1>8 DEF Stream, f, left
  <2>2. streams' = [streams EXCEPT ![i] = after]
    BY <1>2 DEF f, left
  <2> HIDE DEF after
  <2>3. /\ streams' \in Seq(Stream) /\ Len(streams') = Len(streams)
        /\ \A j \in 1 .. Len(streams) : streams'[j].name = streams[j].name
    BY <2>1, <2>2 DEF AllTyped, FilesTyped, f
  <2>4. text \in Seq(Byte)
    BY <1>6, <1>8
  <2>5. files' = [files EXCEPT ![streams[i].name] = text]
    BY <1>2
  <2> HIDE DEF text
  <2>6. files' \in [DOMAIN files -> Seq(Byte)] /\ DOMAIN files' = DOMAIN files
    BY <2>4, <2>5 DEF AllTyped, FilesTyped
  <2> QED
    BY <2>3, <2>6 DEF AllTyped, FilesTyped
<1>10. CallersTyped' /\ FilesHeld'
  BY <1>1, <1>9, CallerMoves DEF AllTyped, FilesTyped, Places
<1>11. sunk' \in Seq(Byte)
  BY <1>1, <1>4 DEF AllTyped, RestTyped
<1> QED
  BY <1>1, <1>10, <1>9, <1>11 DEF AllTyped, MembersTyped, RestTyped

LEMMA UseDeadTyped ==
  ASSUME AllTyped, NEW c \in setup.callers, UseDead(c)
  PROVE  AllTyped'
BY DEF UseDead, history, AllTyped, MembersTyped, FilesTyped, CallersTyped, FilesHeld, Caller,
       RestTyped

LEMMA FlushTyped ==
  ASSUME AllTyped, NEW c \in setup.callers, Flush(c)
  PROVE  AllTyped'
<1>1. UNCHANGED <<setup, this, now, run, sunk, mishaps>> /\ me[c].pc = "flush" /\ Goto(c, "out")
  BY DEF Flush, history, At
<1>2. Alive(this.fs) \in BOOLEAN
  BY DEF Alive, AllTyped, MembersTyped, Members, FilesTyped, Stream
<1>3. fault' \in BOOLEAN
  BY <1>2 DEF Flush
<1>4. FilesTyped' /\ Len(streams') = Len(streams)
  <2>1. CASE UNCHANGED <<files, streams>>
    BY <2>1 DEF AllTyped, FilesTyped
  <2>2. CASE this.fs # 0 /\ files' = Written(this.fs) /\ streams' = Emptied(this.fs)
    <3>1. this.fs \in 1 .. Len(streams)
      BY <2>2 DEF AllTyped, MembersTyped, Members, FilesTyped
    <3>2. DOMAIN files' = DOMAIN files
      BY <2>2, <3>1, WrittenTyped DEF AllTyped
    <3> QED
      BY <2>2, <3>1, <3>2, WrittenTyped DEF AllTyped, FilesTyped
  <2>3. CASE files' = AllWritten /\ streams' = AllEmptied
    <3>1. files' \in [DOMAIN files -> Seq(Byte)] /\ DOMAIN files' = DOMAIN files
      BY <2>3, AllWrittenType DEF AllTyped
    <3>2. /\ streams' \in Seq(Stream) /\ Len(streams') = Len(streams)
          /\ \A j \in 1 .. Len(streams) : streams'[j].name = streams[j].name
      <4>1. streams \in Seq(Stream) /\ DOMAIN streams = 1 .. Len(streams)
            /\ Len(streams) \in Nat /\ <<>> \in Seq(Byte)
        BY DEF AllTyped, FilesTyped
      <4>2. ASSUME NEW j \in 1 .. Len(streams)
            PROVE  /\ [streams[j] EXCEPT !.buf = <<>>] \in Stream
                   /\ [streams[j] EXCEPT !.buf = <<>>].name = streams[j].name
        <5> DEFINE f == streams[j]
        <5>1. f \in Stream
          BY <4>1
        <5> HIDE DEF f
        <5>2. [f EXCEPT !.buf = <<>>] \in Stream /\ [f EXCEPT !.buf = <<>>].name = f.name
          BY <4>1, <5>1 DEF Stream
        <5> QED
          BY <5>2 DEF f
      <4>3. streams' = [j \in 1 .. Len(streams) |-> [streams[j] EXCEPT !.buf = <<>>]]
        BY <2>3, <4>1 DEF AllEmptied
      <4> DEFINE empty(j) == [streams[j] EXCEPT !.buf = <<>>]
      <4> HIDE DEF empty
      <4>4. /\ streams' = [j \in 1 .. Len(streams) |-> empty(j)]
            /\ \A j \in 1 .. Len(streams) :
                 empty(j) \in Stream /\ empty(j).name = streams[j].name
        BY <4>2, <4>3 DEF empty
      <4> QED
        BY <4>1, <4>4
    <3> QED
      BY <3>1, <3>2 DEF AllTyped, FilesTyped
  <2> QED
    BY <2>1, <2>2, <2>3 DEF Flush
<1>5. CallersTyped' /\ FilesHeld'
  BY <1>1, <1>4, CallerMoves DEF AllTyped, FilesTyped, Places
<1> QED
  BY <1>1, <1>5, <1>3, <1>4 DEF AllTyped, MembersTyped, RestTyped

LEMMA StartAgainTyped ==
  ASSUME AllTyped, StartAgain, files' \in [DOMAIN files -> Seq(Byte)]
  PROVE  AllTyped'
<1>1. /\ UNCHANGED <<setup, now, fault, mishaps>> /\ run < MaxRuns /\ run' = run + 1
      /\ this' = NewSink /\ streams' = <<>> /\ sunk' = <<>>
      /\ me' = [c \in setup.callers |-> Idle(me[c].no)]
  BY DEF StartAgain
<1>2. <<>> \in Seq(Byte) /\ <<>> \in Seq(Stream) /\ Len(<<>>) = 0
  OBVIOUS
<1>3. ASSUME NEW c \in setup.callers PROVE Idle(me[c].no) \in Caller /\ Idle(me[c].no).pc = "out"
                                     /\ Idle(me[c].no).file = 0
  <2>1. me[c].no \in 0 .. setup.max_calls
    BY DEF AllTyped, CallersTyped, Caller
  <2>2. "out" \in Places
    BY DEF Places
  <2> QED
    BY <2>1, <2>2, NoName DEF Idle, Caller
<1>4. CallersTyped' /\ FilesHeld'
  BY <1>1, <1>2, <1>3 DEF CallersTyped, FilesHeld, Caller
<1>5. MembersTyped'
  BY <1>1, <1>2 DEF MembersTyped, Members, NewSink
<1>6. FilesTyped'
  <2>1. DOMAIN files' = DOMAIN files
    OBVIOUS
  <2> QED
    BY <1>1, <1>2, <2>1 DEF AllTyped, FilesTyped
<1>7. run' \in 1 .. MaxRuns
  BY <1>1, Limits DEF AllTyped, RestTyped
<1> QED
  BY <1>1, <1>2, <1>4, <1>5, <1>6, <1>7 DEF AllTyped, RestTyped

LEMMA NextTyped ==
  ASSUME AllTyped, [Next]_vars
  PROVE  AllTyped'
<1>1. ASSUME NEW c \in setup.callers, Sink(c)
      PROVE  AllTyped'
  BY <1>1, EnterTyped, LookTyped, CloseTyped, SetNullTyped, CreateFilenameTyped,
     IncrementCntTyped, FopenTyped, FopenFailsTyped, AssignTyped, SizeTyped, ReadSizeTyped,
     FwriteTyped, UseDeadTyped, FlushTyped DEF Sink, InitLogFile
<1>2. CASE Tick
  <2>1. /\ UNCHANGED <<setup, this, streams, files, me, run, fault, sunk, mishaps>>
        /\ now' = now + 1 /\ now < Len(Times)
    BY <1>2 DEF Tick, history
  <2>2. now' \in DOMAIN Times
    BY <2>1, Limits DEF AllTyped, RestTyped
  <2> QED
    BY <2>1, <2>2 DEF AllTyped, MembersTyped, FilesTyped, CallersTyped,
        FilesHeld, Caller, RestTyped
<1>3. CASE Exit
  <2>1. files' \in [DOMAIN files -> Seq(Byte)]
    BY <1>3, AllWrittenType DEF Exit, AllTyped
  <2> QED
    BY <1>3, <2>1, StartAgainTyped DEF Exit
<1>4. CASE Killed
  <2>1. files' \in [DOMAIN files -> Seq(Byte)]
    BY <1>4 DEF Killed, AllTyped, FilesTyped
  <2> QED
    BY <1>4, <2>1, StartAgainTyped DEF Killed
<1>5. CASE UNCHANGED vars
  BY <1>5 DEF vars, history, AllTyped, MembersTyped, FilesTyped, CallersTyped,
        FilesHeld, Caller, RestTyped
<1> QED
  BY <1>1, <1>2, <1>3, <1>4, <1>5 DEF Next, Terminated

(* TypeOK: whatever the threads do at the same time, fs_ is NULL or a FILE *)
(* this process opened, each such FILE has its file, and names are spelled *)
(* from digits (sink.hpp:80-135).                                          *)
THEOREM TypeCorrect == Spec => []TypeOK
<1>1. AllTyped => TypeOK
  <2> SUFFICES ASSUME AllTyped PROVE TypeOK
    OBVIOUS
  <2>1. this \in [fs : 0 .. Len(streams), cur_size : Nat, cnt : Nat]
    BY DEF AllTyped, MembersTyped, Members
  <2>2. /\ streams \in Seq([name : Name, buf : Seq(Byte), open : BOOLEAN])
        /\ DOMAIN files \subseteq Name /\ \A n \in DOMAIN files : files[n] \in Seq(Byte)
        /\ \A i \in DOMAIN streams : streams[i].name \in DOMAIN files
    <3>1. streams \in Seq(Stream) /\ DOMAIN streams = 1 .. Len(streams)
      BY DEF AllTyped, FilesTyped
    <3> QED
      BY <3>1 DEF AllTyped, FilesTyped, Stream
  <2>3. \A c \in setup.callers :
          /\ me[c].pc \in Places
          /\ me[c].no \in 0 .. setup.max_calls /\ me[c].len \in Lens \cup {0}
          /\ me[c].name \in Name /\ me[c].file \in 0 .. Len(streams)
          /\ me[c].size \in Nat
    BY DEF AllTyped, CallersTyped, FilesHeld, Caller
  <2> QED
    BY <2>1, <2>2, <2>3 DEF AllTyped, RestTyped, TypeOK
<1> QED
  BY <1>1, InitTyped, NextTyped, PTL DEF Spec
=============================================================================
