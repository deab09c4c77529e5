---------------------------- MODULE RollFileSink ----------------------------
(***************************************************************************)
(* RollFileSink (sink.hpp).  Its members are shared without a lock by the  *)
(* threads that log through one SyncLogger, so every read and every write  *)
(* of one is a step of its own; the worker of an AsyncLogger is a single   *)
(* caller, which passes whole batches, empty ones included.  The process   *)
(* may end and be started again in the same directory.                     *)
(***************************************************************************)
EXTENDS Stdio, Integers, SequencesExt, FiniteSets

CONSTANTS
  Callers,  \* threads that may call Sink
  Setups,   \* which of them do, max_size_, flush_log, and a bound on calls
  Lens,     \* lengths of what they pass
  Times,    \* the passing of time: tuples of the fields CreateFilename prints
  MaxRuns   \* bound: processes started one after the other

ASSUME RollAssumption ==
  /\ Setups \subseteq [callers : SUBSET Callers, max_size : Nat, flush_log : Nat,
                      max_calls : Nat]
  /\ IsFiniteSet(Callers) /\ Lens \subseteq Nat /\ MaxRuns \in Nat \ {0}
  /\ Times \in Seq(Seq(0 .. 99)) /\ Times # <<>>

VARIABLES
  setup,    \* one of Setups, fixed when the first process starts
  this,     \* the members: fs (an index into streams, 0 is NULL), cur_size, cnt
  streams,  \* every FILE this process opened: [name, buf, open]
  files,    \* the directory: the bytes of each file, by name
  me,       \* each caller: pc, the call's no and len, and its locals
  now,      \* index into Times
  run,      \* processes started so far
  fault,    \* the process has used NULL, or a FILE after fclose
  sunk,     \* history: bytes passed to fwrite by this process, in order
  mishaps   \* history: fopen has "failed", or "reused" a file that was there

history == <<sunk, mishaps>>
vars == <<setup, this, streams, files, me, now, run, fault, history>>

(* Where a caller is: outside Sink, or before the access so named.         *)
Places == {"out", "full", "test", "close", "null", "name", "count", "open", "assign",
           "reset", "write", "check", "size", "add", "flush"}
Byte == [from : Callers, no : Nat, len : Lens]
Name == Seq(0 .. 9) \X Nat

(* The variables range over the values the code gives them, fs_ is NULL or *)
(* a FILE this process opened, and every such FILE has its file.           *)
TypeOK ==
  /\ setup \in Setups
  /\ this \in [fs : 0 .. Len(streams), cur_size : Nat, cnt : Nat]
  /\ streams \in Seq([name : Name, buf : Seq(Byte), open : BOOLEAN])
  /\ DOMAIN files \subseteq Name /\ \A n \in DOMAIN files : files[n] \in Seq(Byte)
  /\ \A i \in DOMAIN streams : streams[i].name \in DOMAIN files
  /\ \A c \in setup.callers :
       /\ me[c].pc \in Places
       /\ me[c].no \in 0 .. setup.max_calls /\ me[c].len \in Lens \cup {0}
       /\ me[c].name \in Name /\ me[c].file \in 0 .. Len(streams)
       /\ me[c].size \in Nat
  /\ now \in DOMAIN Times /\ run \in 1 .. MaxRuns
  /\ fault \in BOOLEAN /\ mishaps \subseteq {"failed", "reused"} /\ sunk \in Seq(Byte)

NewSink == [fs |-> 0, cur_size |-> 0, cnt |-> 1]
Idle(no) == [pc |-> "out", no |-> no, len |-> 0, name |-> <<<<>>, 0>>, file |-> 0,
             size |-> 0]

Init ==
  /\ setup \in Setups
  /\ this = NewSink
  /\ streams = <<>>
  /\ files = <<>>
  /\ me = [c \in setup.callers |-> Idle(0)]
  /\ now = 1 /\ run = 1 /\ fault = FALSE
  /\ sunk = <<>> /\ mishaps = {}

At(c, pc) == me[c].pc = pc /\ ~fault
Goto(c, pc) == me' = [me EXCEPT ![c].pc = pc]
Alive(i) == i # 0 /\ streams[i].open

(* The directory and the streams once the buffer of one stream, or those   *)
(* of all, oldest first, have been written out.  A closed stream holds     *)
(* nothing back.                                                           *)
Written(i) == [files EXCEPT ![streams[i].name] = @ \o streams[i].buf]
Emptied(i) == [streams EXCEPT ![i].buf = <<>>]
AllWritten ==
  LET dir[i \in 0 .. Len(streams)] ==
        IF i = 0 THEN files
        ELSE [dir[i - 1] EXCEPT ![streams[i].name] = @ \o streams[i].buf]
  IN  dir[Len(streams)]
AllEmptied == [i \in DOMAIN streams |-> [streams[i] EXCEPT !.buf = <<>>]]

-----------------------------------------------------------------------------
(* InitLogFile, called by c at the beginning of Sink.                      *)

Enter(c, len) ==
  /\ At(c, "out") /\ me[c].no < setup.max_calls
  /\ me' = [me EXCEPT ![c].no = @ + 1, ![c].len = len,
                      ![c].pc = IF this.fs = 0 THEN "test" ELSE "full"]
  /\ UNCHANGED <<setup, this, streams, files, now, run, fault, history>>

(* A slip for the runs to find: a file that is exactly full is not rolled. *)
TestFullLate(c) ==
  /\ At(c, "full")
  /\ Goto(c, IF this.cur_size > setup.max_size THEN "test" ELSE "write")
  /\ UNCHANGED <<setup, this, streams, files, now, run, fault, history>>

TestFull(c) ==
  /\ At(c, "full")
  /\ Goto(c, IF this.cur_size >= setup.max_size THEN "test" ELSE "write")
  /\ UNCHANGED <<setup, this, streams, files, now, run, fault, history>>

TestOpen(c) ==
  /\ At(c, "test")
  /\ Goto(c, IF this.fs = 0 THEN "name" ELSE "close")
  /\ UNCHANGED <<setup, this, streams, files, now, run, fault, history>>

(* fclose writes the buffer out.                                           *)
Close(c) ==
  /\ At(c, "close") /\ Alive(this.fs)
  /\ files' = Written(this.fs)
  /\ streams' = [Emptied(this.fs) EXCEPT ![this.fs].open = FALSE]
  /\ Goto(c, "null")
  /\ UNCHANGED <<setup, this, now, run, fault, history>>

(* A slip for the runs to find: the file is closed and no other one opened. *)
NullOnly(c) ==
  /\ At(c, "null")
  /\ this' = [this EXCEPT !.fs = 0]
  /\ Goto(c, "write")
  /\ UNCHANGED <<setup, streams, files, now, run, fault, history>>

SetNull(c) ==
  /\ At(c, "null")
  /\ this' = [this EXCEPT !.fs = 0]
  /\ Goto(c, "name")
  /\ UNCHANGED <<setup, streams, files, now, run, fault, history>>

(* CreateFilename prints the fields of the local time one after the other, *)
(* none padded with zeros, and then cnt_++, which is read here and written *)
(* back in the next step.                                                  *)
Digits(n) == IF n < 10 THEN <<n>> ELSE <<n \div 10, n % 10>>
Spelled(time) == FlattenSeq([i \in DOMAIN time |-> Digits(time[i])])

CreateFilename(c) ==
  /\ At(c, "name")
  /\ me' = [me EXCEPT ![c].name = <<Spelled(Times[now]), this.cnt>>, ![c].pc = "count"]
  /\ UNCHANGED <<setup, this, streams, files, now, run, fault, history>>

(* A slip for the runs to find: cnt_ is printed and not incremented.       *)
SameCnt(c) ==
  /\ At(c, "count")
  /\ Goto(c, "open")
  /\ UNCHANGED <<setup, this, streams, files, now, run, fault, history>>

IncrementCnt(c) ==
  /\ At(c, "count")
  /\ this' = [this EXCEPT !.cnt = me[c].name[2] + 1]
  /\ Goto(c, "open")
  /\ UNCHANGED <<setup, streams, files, now, run, fault, history>>

(* fopen creates the file or appends to it; fs_ is assigned afterwards.    *)
Fopen(c) ==
  LET name == me[c].name
  IN  /\ At(c, "open")
      /\ streams' = Append(streams, [name |-> name, buf |-> <<>>, open |-> TRUE])
      /\ files' = [n \in DOMAIN files \cup {name} |->
                     IF n \in DOMAIN files THEN files[n] ELSE <<>>]
      /\ mishaps' = IF name \in DOMAIN files THEN mishaps \cup {"reused"} ELSE mishaps
      /\ me' = [me EXCEPT ![c].file = Len(streams) + 1, ![c].pc = "assign"]
      /\ UNCHANGED <<setup, this, now, run, fault, sunk>>

FopenFails(c) ==
  /\ At(c, "open")
  /\ mishaps' = mishaps \cup {"failed"}
  /\ me' = [me EXCEPT ![c].file = 0, ![c].pc = "assign"]
  /\ UNCHANGED <<setup, this, streams, files, now, run, fault, sunk>>

Assign(c) ==
  /\ At(c, "assign")
  /\ this' = [this EXCEPT !.fs = me[c].file]
  /\ Goto(c, "reset")
  /\ UNCHANGED <<setup, streams, files, now, run, fault, history>>

(* A slip for the runs to find: cur_size_ is left as it was.               *)
ResetForgotten(c) ==
  /\ At(c, "reset")
  /\ Goto(c, "write")
  /\ UNCHANGED <<setup, this, streams, files, now, run, fault, history>>

ResetSize(c) ==
  /\ At(c, "reset")
  /\ this' = [this EXCEPT !.cur_size = 0]
  /\ Goto(c, "write")
  /\ UNCHANGED <<setup, streams, files, now, run, fault, history>>

-----------------------------------------------------------------------------
(* The rest of Sink.                                                       *)

Fwrite(c) ==
  LET bytes == Bytes([from |-> c, no |-> me[c].no, len |-> me[c].len])
      all == streams[this.fs].buf \o bytes
  IN  /\ At(c, "write") /\ Alive(this.fs)
      /\ \E n \in Spills(all) :
           /\ files' = [files EXCEPT ![streams[this.fs].name] = @ \o First(n, all)]
           /\ streams' = [streams EXCEPT ![this.fs].buf = From(n, all)]
      /\ sunk' = sunk \o bytes
      /\ Goto(c, "check")
      /\ UNCHANGED <<setup, this, now, run, fault, mishaps>>

(* ferror reads fs_ once more.                                             *)
Ferror(c) ==
  /\ At(c, "check") /\ Alive(this.fs)
  /\ Goto(c, "size")
  /\ UNCHANGED <<setup, this, streams, files, now, run, fault, history>>

(* fclose, fwrite or ferror is given NULL, after a failed fopen or because *)
(* of another thread, or a FILE that another thread closed: undefined.     *)
UseDead(c) ==
  /\ me[c].pc \in {"close", "write", "check"} /\ ~fault /\ ~Alive(this.fs)
  /\ fault' = TRUE
  /\ UNCHANGED <<setup, this, streams, files, me, now, run, history>>

(* cur_size_ += len reads cur_size_ and then writes it.                    *)
ReadSize(c) ==
  /\ At(c, "size")
  /\ me' = [me EXCEPT ![c].size = this.cur_size, ![c].pc = "add"]
  /\ UNCHANGED <<setup, this, streams, files, now, run, fault, history>>

(* A slip for the runs to find: the length is subtracted.                  *)
SubtractSize(c) ==
  /\ At(c, "add")
  /\ this' = [this EXCEPT !.cur_size = me[c].size - me[c].len]
  /\ Goto(c, "flush")
  /\ UNCHANGED <<setup, streams, files, now, run, fault, history>>

AddSize(c) ==
  /\ At(c, "add")
  /\ this' = [this EXCEPT !.cur_size = me[c].size + me[c].len]
  /\ Goto(c, "flush")
  /\ UNCHANGED <<setup, streams, files, now, run, fault, history>>

(* fflush for 1, of every FILE if it is given NULL; fsync for 2, which     *)
(* moves nothing from the buffer to the file and needs a FILE.             *)
Flush(c) ==
  /\ At(c, "flush")
  /\ fault' = CASE setup.flush_log = 1 -> this.fs # 0 /\ ~Alive(this.fs)
                [] setup.flush_log = 2 -> ~Alive(this.fs)
                [] OTHER -> FALSE
  /\ \/ setup.flush_log # 1 /\ UNCHANGED <<files, streams>>
     \/ setup.flush_log = 1 /\ this.fs # 0
        /\ files' = Written(this.fs) /\ streams' = Emptied(this.fs)
     \/ setup.flush_log = 1 /\ this.fs = 0
        /\ files' = AllWritten /\ streams' = AllEmptied
  /\ Goto(c, "out")
  /\ UNCHANGED <<setup, this, now, run, history>>

-----------------------------------------------------------------------------
(* The environment.                                                        *)

Tick ==
  /\ now < Len(Times) /\ ~fault
  /\ now' = now + 1
  /\ UNCHANGED <<setup, this, streams, files, me, run, fault, history>>

(* A new process starts where the last one ended; cnt_ starts again at 1.  *)
StartAgain ==
  /\ run < MaxRuns /\ ~fault
  /\ run' = run + 1
  /\ this' = NewSink
  /\ streams' = <<>>
  /\ me' = [c \in setup.callers |-> Idle(me[c].no)]
  /\ sunk' = <<>>
  /\ UNCHANGED <<setup, now, fault, mishaps>>

(* exit() writes out every FILE that is still open; a kill writes nothing. *)
Exit ==
  /\ \A c \in setup.callers : me[c].pc = "out"
  /\ files' = AllWritten
  /\ StartAgain
Killed == StartAgain /\ UNCHANGED files

Terminated ==
  /\ fault \/ \A c \in setup.callers : me[c].pc = "out"
  /\ UNCHANGED vars

InitLogFile(c) ==
  \/ TestFull(c) \/ TestOpen(c) \/ Close(c) \/ SetNull(c)
  \/ CreateFilename(c) \/ IncrementCnt(c)
  \/ Fopen(c) \/ FopenFails(c) \/ Assign(c) \/ ResetSize(c)

Sink(c) ==
  \/ \E len \in Lens : Enter(c, len)
  \/ InitLogFile(c)
  \/ Fwrite(c) \/ Ferror(c) \/ UseDead(c) \/ ReadSize(c) \/ AddSize(c) \/ Flush(c)

Next ==
  \/ \E c \in setup.callers : Sink(c)
  \/ Tick \/ Exit \/ Killed
  \/ Terminated

Spec == Init /\ [][Next]_vars

-----------------------------------------------------------------------------
(* What the sink promises to a single caller (an AsyncLogger's worker).    *)
Alone == Cardinality(setup.callers) = 1

(* The files of this process, and what each will hold once written out.    *)
Content(i) == files[streams[i].name] \o streams[i].buf

(* Only an fopen that fails makes Sink use a FILE that is not there: rolling *)
(* never leaves fs_ at a closed FILE.                                      *)
FilesAlive == Alone /\ "failed" \notin mishaps => ~fault

(* No file grows past max_size_ by more than its own last record: what was *)
(* in it before that record was nothing, or less than max_size_.  A file   *)
(* an earlier process left is excepted, cur_size_ does not count its bytes. *)
SizeBounded ==
  Alone /\ "reused" \notin mishaps =>
    \A i \in DOMAIN streams : Content(i) # <<>> =>
      LET before == Len(Content(i)) - Last(Content(i)).len
      IN  before = 0 \/ before \in 0 .. setup.max_size - 1

(* Rolling loses nothing and splits nothing: the files of this process, in *)
(* the order they were opened, hold what was sunk, each but the last full, *)
(* closed and safe from a kill.                                            *)
RollsInOrder ==
  Alone /\ mishaps = {} =>
    /\ FlattenSeq([i \in DOMAIN streams |-> Content(i)]) = sunk
    /\ \A i \in DOMAIN streams : i < Len(streams) =>
         /\ ~streams[i].open /\ streams[i].buf = <<>>
         /\ Len(Content(i)) >= setup.max_size

(* A process never reopens a file of its own: only what an earlier process *)
(* left can be there, because cnt_ starts again and the fields of the date *)
(* run into each other.                                                    *)
NamesFresh == Alone /\ run = 1 => "reused" \notin mishaps

(* sink.hpp:82 says that InitLogFile sees to it that the file need not     *)
(* roll: whatever is written goes to a file that is not full.              *)
RoomWhenWritten ==
  \A c \in setup.callers : At(c, "write") => this.cur_size < setup.max_size
=============================================================================
