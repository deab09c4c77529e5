--------------------------- MODULE RollByTimeSink ---------------------------
(***************************************************************************)
(* RollByTimeSink (extention/test.cc), a sink that begins a new file when  *)
(* the time of the present one is over.  Each maker of Directories         *)
(* constructs one and then is the only thread that calls its Sink, as an   *)
(* AsyncLogger does; several sinks may have one basename.  The clock may   *)
(* be set, back as well.                                                   *)
(***************************************************************************)
EXTENDS Directories, FiniteSets

CONSTANTS
  Times,      \* times of the day, in seconds
  Wrap,       \* 2^64, the range of a size_t
  Setups,     \* programs: the basename of each sink that is constructed, the
              \* gap_type of all, how many records each is given, and how
              \* often the clock changes
  MaxRecords, \* bound: records of a sink
  MaxTicks    \* bound: changes of the clock

GapSize(gap_type) ==
  CASE gap_type = "GAP_SECOND" -> 1
    [] gap_type = "GAP_MINUTE" -> 60
    [] gap_type = "GAP_HOUR" -> 360
    [] gap_type = "GAP_DAY" -> 86400

ASSUME RollByTimeAssumption ==
  /\ Times \subseteq Nat /\ Wrap \in Nat /\ MaxRecords \in Nat /\ MaxTicks \in Nat
  /\ \A time \in Times : time + GapSize("GAP_DAY") < Wrap
  /\ \A s \in Setups :
       /\ DOMAIN s.base \subseteq Makers
       /\ \A t \in DOMAIN s.base : s.base[t] \in Seq(STRING)
       /\ s.gap_type \in {"GAP_SECOND", "GAP_MINUTE", "GAP_HOUR", "GAP_DAY"}
       /\ s.records \in 0 .. MaxRecords /\ s.ticks \in 0 .. MaxTicks

VARIABLES
  setup,           \* the program, an element of Setups
  clock,           \* what Date::Now returns
  ticks,           \* how often the clock has changed
  pc,              \* where each sink's thread is
  file_open_time,  \* file_open_time_ of each sink
  name,            \* the name of the file each sink has open or is about to open
  stream,          \* what each ofs_ has not written out yet
  files,           \* the contents of the files, by name
  no,              \* the number of the record each sink is given, or was given last
  span             \* history: times of Sink, of the records that found their file open

sinkVars == <<pc, file_open_time, name, stream, files, no, span>>
clockVars == <<clock, ticks>>
vars == <<setup, directoryVars, clockVars, sinkVars>>

(* The date and the time of the name, none of its fields padded: the date  *)
(* is always the same here.                                                *)
Digit(n) == <<"0", "1", "2", "3", "4", "5", "6", "7", "8", "9">>[n + 1]
Digits(n) == IF n < 10 THEN <<Digit(n)>> ELSE <<Digit(n \div 10), Digit(n % 10)>>
CreateNewFile(t) ==
  LET hour == (clock \div 3600) % 24
      minute == (clock % 3600) \div 60
  IN  setup.base[t] \o Digits(hour) \o Digits(minute) \o Digits(clock % 60)

Record(t) == [by |-> t, no |-> no[t]]
Content(n) == IF n \in DOMAIN files THEN files[n] ELSE <<>>

(* The variables range over the values the code gives them.                *)
TypeOK ==
  /\ DirectoryTypeOK
  /\ setup \in Setups
  /\ clock \in Times /\ ticks \in 0 .. MaxTicks
  /\ pc \in [Makers -> {"none", "name", "create", "idle", "test", "switch", "reopen", "failed"}]
  /\ file_open_time \in [Makers -> Times]
  /\ no \in [Makers -> 0 .. MaxRecords]
  /\ \A t \in Makers : span[t] \subseteq Times
  /\ \A t \in Makers : stream[t] # <<>> => pc[t] \in {"idle", "test", "switch"}

Init ==
  /\ setup \in Setups
  /\ DirectoryInit
  /\ clock \in Times
  /\ ticks = 0
  /\ pc = [t \in Makers |-> "none"]
  /\ file_open_time = [t \in Makers |-> clock]
  /\ name = [t \in Makers |-> <<>>]
  /\ stream = [t \in Makers |-> <<>>]
  /\ files = <<>>
  /\ no = [t \in Makers |-> 0]
  /\ span = [t \in Makers |-> {}]

Goto(t, place) == pc' = [pc EXCEPT ![t] = place]

-----------------------------------------------------------------------------
(* The constructor.                                                        *)

Construct(t) ==
  /\ pc[t] = "none" /\ t \in DOMAIN setup.base
  /\ file_open_time' = [file_open_time EXCEPT ![t] = clock]
  /\ Goto(t, "name")
  /\ UNCHANGED <<setup, directoryVars, clockVars, name, stream, files, no, span>>

NameFile(t) ==
  /\ pc[t] = "name"
  /\ name' = [name EXCEPT ![t] = CreateNewFile(t)]
  /\ CreateDirectory(t, Path(CreateNewFile(t)))
  /\ Goto(t, "create")
  /\ UNCHANGED <<setup, clockVars, file_open_time, stream, files, no, span>>

(* A slip for the run to find: without std::ios::app.                      *)
OpenedEmpty(n) == files' = [k \in DOMAIN files \cup {n} |-> IF k = n THEN <<>> ELSE files[k]]

(* ofs_.open, for appending.                                               *)
Opened(n) == files' = [k \in DOMAIN files \cup {n} |-> Content(k)]

OpenFirst(t) ==
  /\ pc[t] = "create" /\ maker[t] = "made"
  /\ IF CanOpen(name[t])
     THEN Opened(name[t]) /\ Goto(t, "idle")
     ELSE Goto(t, "failed") /\ UNCHANGED files
  /\ UNCHANGED <<setup, directoryVars, clockVars, file_open_time, name, stream, no, span>>

-----------------------------------------------------------------------------
(* Sink.                                                                   *)

Call(t) ==
  /\ pc[t] = "idle" /\ no[t] < setup.records
  /\ no' = [no EXCEPT ![t] = @ + 1]
  /\ Goto(t, "test")
  /\ UNCHANGED <<setup, directoryVars, clockVars, file_open_time, name, stream, files, span>>

(* A slip for the run to find: the difference of two signed numbers.       *)
ElapsedSigned(t) == IF clock >= file_open_time[t] THEN clock - file_open_time[t] ELSE 0

(* cur is a time_t, file_open_time_ a size_t: so is their difference.      *)
Elapsed(t) == (clock + Wrap - file_open_time[t]) % Wrap

Write(t) == stream' = [stream EXCEPT ![t] = Append(@, Record(t))]

WriteOn(t) ==
  /\ pc[t] = "test" /\ Elapsed(t) \div GapSize(setup.gap_type) = 0
  /\ Write(t)
  /\ span' = [span EXCEPT ![t] = @ \cup {clock}]
  /\ Goto(t, "idle")
  /\ UNCHANGED <<setup, directoryVars, clockVars, file_open_time, name, files, no>>

MustSwitch(t) ==
  /\ pc[t] = "test" /\ Elapsed(t) \div GapSize(setup.gap_type) >= 1
  /\ Goto(t, "switch")
  /\ UNCHANGED <<setup, directoryVars, clockVars, file_open_time, name, stream, files, no, span>>

(* A slip for the run to find: the stream is left for open to close.       *)
CloseHeld(t) ==
  /\ pc[t] = "switch"
  /\ name' = [name EXCEPT ![t] = CreateNewFile(t)]
  /\ Goto(t, "reopen")
  /\ UNCHANGED <<setup, directoryVars, clockVars, file_open_time, stream, files, no, span>>

(* close writes the stream out.  The clock is read again for the name, and *)
(* a third time for file_open_time_.                                       *)
Close(t) ==
  /\ pc[t] = "switch"
  /\ files' = [files EXCEPT ![name[t]] = @ \o stream[t]]
  /\ stream' = [stream EXCEPT ![t] = <<>>]
  /\ name' = [name EXCEPT ![t] = CreateNewFile(t)]
  /\ Goto(t, "reopen")
  /\ UNCHANGED <<setup, directoryVars, clockVars, file_open_time, no, span>>

Reopen(t) ==
  /\ pc[t] = "reopen"
  /\ file_open_time' = [file_open_time EXCEPT ![t] = clock]
  /\ Opened(name[t])
  /\ Write(t)
  /\ span' = [span EXCEPT ![t] = {}]
  /\ Goto(t, "idle")
  /\ UNCHANGED <<setup, directoryVars, clockVars, name, no>>

-----------------------------------------------------------------------------
(* The stream writes out when its buffer is full, which may be any time.   *)
Spill(t) ==
  /\ stream[t] # <<>>
  /\ files' = [files EXCEPT ![name[t]] = @ \o stream[t]]
  /\ stream' = [stream EXCEPT ![t] = <<>>]
  /\ UNCHANGED <<setup, directoryVars, clockVars, pc, file_open_time, name, no, span>>

Tick ==
  /\ ticks < setup.ticks
  /\ \E time \in Times \ {clock} : clock' = time
  /\ ticks' = ticks + 1
  /\ UNCHANGED <<setup, directoryVars, sinkVars>>

Sink(t) == Call(t) \/ WriteOn(t) \/ MustSwitch(t) \/ Close(t) \/ Reopen(t)

Next ==
  \/ \E t \in Makers :
       \/ Construct(t) \/ NameFile(t) \/ OpenFirst(t)
       \/ DirectoryStep(t) /\ UNCHANGED <<setup, clockVars, sinkVars>>
       \/ Sink(t)
       \/ Spill(t)
  \/ Tick

Spec == Init /\ [][Next]_vars

-----------------------------------------------------------------------------
(* No constructor fails for want of a directory, unless the kernel has     *)
(* refused it one or the name is one that CreateDirectory misreads: the    *)
(* assertion holds (test.cc:26-31, util.hpp:45-82).                        *)
ConstructorsSucceed ==
  DirectoryThere /\ \A t \in Makers : pc[t] = "failed" => ~ Unhindered(t)

(* A file takes records of one gap only: what is written to a file that is *)
(* open already is less than the gap younger than the file, and never      *)
(* older, even if the clock has been set back (test.cc:35-42).             *)
WindowKept ==
  \A t \in Makers : \A time \in span[t] :
    time \in file_open_time[t] .. file_open_time[t] + GapSize(setup.gap_type) - 1

(* Whatever files a sink has been through, be it that their names are      *)
(* spelled alike, that the clock has led back to an old one, or that       *)
(* another sink has it open too: what Sink has returned from is there      *)
(* once, and in the files in the order of the calls (test.cc:34-62).       *)
Numbers(t, s) == {s[i].no : i \in {i \in DOMAIN s : s[i].by = t}}
InOrder(t, s) == \A i, j \in DOMAIN s : i < j /\ s[i].by = t /\ s[j].by = t => s[i].no < s[j].no
Text(t, n) == IF n = name[t] THEN Content(n) \o stream[t] ELSE Content(n)
Done(t) == IF pc[t] \in {"test", "switch", "reopen"} THEN no[t] - 1 ELSE no[t]
NamesOf(t) == DOMAIN files \cup {name[t]}
RecordsKept ==
  \A t \in Makers :
    /\ \A n \in NamesOf(t) : InOrder(t, Text(t, n))
    /\ \A k \in 1 .. Done(t) :
         \E n \in NamesOf(t) :
           /\ k \in Numbers(t, Text(t, n))
           /\ \A m \in NamesOf(t) \ {n} : k \notin Numbers(t, Text(t, m))
=============================================================================
