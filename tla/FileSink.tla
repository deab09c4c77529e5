------------------------------ MODULE FileSink ------------------------------
(***************************************************************************)
(* FileSink (sink.hpp) under the threads of one SyncLogger, which call     *)
(* Sink without a lock of their own, or under the worker of an AsyncLogger *)
(* (a single caller whose records are whole batches).  The process may     *)
(* exit, be killed or lose power, and be started again on the same file.   *)
(***************************************************************************)
EXTENDS Stdio, FiniteSets

CONSTANTS
  Callers,     \* threads that call Sink
  Lens,        \* lengths of what they pass
  MaxCalls,    \* bound: calls per thread
  FlushModes,  \* values flush_log may be configured to
  MaxRuns      \* bound: processes started one after the other

ASSUME FileSinkAssumption ==
  Lens \subseteq Nat /\ MaxCalls \in Nat /\ FlushModes \subseteq Nat /\ MaxRuns \in Nat

VARIABLES
  flush_log,  \* g_conf_data->flush_log
  fs,         \* fs_, or "gone" while no process runs
  buf,        \* bytes in the buffer of fs_
  text,       \* bytes of the file as every process sees it
  disk,       \* how many of them have reached the disk
  pc,         \* where each caller is in Sink
  arg,        \* what each caller passes, or passed last
  run,        \* processes started so far
  lost,       \* history: the accidents that have happened
  returned    \* history: the records whose Sink has returned

file == <<text, disk>>
calls == <<pc, arg>>
vars == <<flush_log, fs, buf, file, calls, run, lost, returned>>

Record == [from : Callers, no : 1 .. MaxCalls, len : Lens]

(* The variables range over the values the code gives them; a FILE holds   *)
(* back no more than its buffer, the disk has no more than the file, and a *)
(* failed fopen lets no caller get past fwrite (sink.hpp:42-51).           *)
TypeOK ==
  /\ flush_log \in FlushModes
  /\ fs \in {"gone", "open", "NULL"}
  /\ buf \in Seq(Record) /\ Len(buf) <= BufSiz
  /\ text \in Seq(Record)
  /\ disk \in 0 .. Len(text)
  /\ pc \in [Callers -> {"out", "flush"}]
  /\ fs # "open" => buf = <<>> /\ \A c \in Callers : pc[c] = "out"
  /\ \A c \in Callers : arg[c] \in Record \/ arg[c] = [from |-> c, no |-> 0, len |-> 0]
  /\ run \in 0 .. MaxRuns
  /\ lost \subseteq {"process", "power"}
  /\ returned \subseteq Record

Init ==
  /\ flush_log \in FlushModes
  /\ fs = "gone"
  /\ buf = <<>>
  /\ text = <<>>
  /\ disk = 0
  /\ pc = [c \in Callers |-> "out"]
  /\ arg = [c \in Callers |-> [from |-> c, no |-> 0, len |-> 0]]
  /\ run = 0
  /\ lost = {}
  /\ returned = {}

-----------------------------------------------------------------------------
(* A slip for the runs to find: the file is opened with "wb".              *)
OpenTruncating ==
  /\ fs = "gone" /\ run < MaxRuns
  /\ fs' \in {"open", "NULL"}
  /\ text' = IF fs' = "open" THEN <<>> ELSE text
  /\ disk' = IF fs' = "open" THEN 0 ELSE disk
  /\ run' = run + 1
  /\ UNCHANGED <<flush_log, buf, calls, lost, returned>>

(* The constructor.  If fopen fails it says so and goes on with NULL.      *)
Open ==
  /\ fs = "gone" /\ run < MaxRuns
  /\ fs' \in {"open", "NULL"}
  /\ run' = run + 1
  /\ UNCHANGED <<flush_log, buf, file, calls, lost, returned>>

Call(c, len) ==
  /\ pc[c] = "out" /\ arg[c].no < MaxCalls
  /\ arg' = [arg EXCEPT ![c] = [from |-> c, no |-> arg[c].no + 1, len |-> len]]

(* A slip for the runs to find: only the call of fwrite is guarded against *)
(* a fs_ of NULL.                                                          *)
WriteGuarded(c, len) ==
  /\ fs # "gone" /\ Call(c, len)
  /\ LET all == buf \o Bytes(arg'[c])
     IN  \E n \in Spills(all) :
           /\ text' = IF fs = "open" THEN text \o First(n, all) ELSE text
           /\ buf' = IF fs = "open" THEN From(n, all) ELSE buf
  /\ pc' = [pc EXCEPT ![c] = "flush"]
  /\ UNCHANGED <<flush_log, fs, disk, run, lost, returned>>

(* fwrite: stdio locks the FILE, so one call's bytes stay together.        *)
Write(c, len) ==
  /\ fs = "open" /\ Call(c, len)
  /\ LET all == buf \o Bytes(arg'[c])
     IN  \E n \in Spills(all) :
           /\ text' = text \o First(n, all)
           /\ buf' = From(n, all)
  /\ pc' = [pc EXCEPT ![c] = "flush"]
  /\ UNCHANGED <<flush_log, fs, disk, run, lost, returned>>

(* The rest of Sink: fflush for 1, fsync for 2, nothing otherwise.         *)
Return(c) ==
  /\ pc' = [pc EXCEPT ![c] = "out"]
  /\ returned' = returned \cup {arg[c]}
  /\ UNCHANGED <<flush_log, fs, arg, run, lost>>

(* A slip for the runs to find: the two modes are mistaken.                *)
FlushSwapped(c) ==
  /\ pc[c] = "flush" /\ Return(c)
  /\ text' = IF flush_log = 2 THEN text \o buf ELSE text
  /\ buf' = IF flush_log = 2 THEN <<>> ELSE buf
  /\ disk' = IF flush_log = 1 THEN Len(text) ELSE disk

Flush(c) ==
  /\ pc[c] = "flush" /\ Return(c)
  /\ text' = IF flush_log = 1 THEN text \o buf ELSE text
  /\ buf' = IF flush_log = 1 THEN <<>> ELSE buf
  /\ disk' = IF flush_log = 2 THEN Len(text) ELSE disk

-----------------------------------------------------------------------------
(* The environment.                                                        *)

(* The kernel writes dirty pages when it likes.                            *)
Writeback ==
  /\ disk' \in disk + 1 .. Len(text)
  /\ UNCHANGED <<flush_log, fs, buf, text, calls, run, lost, returned>>

(* exit() after main's threads are done.  FileSink closes nothing; the C   *)
(* library writes out every open FILE.                                     *)
Exit ==
  /\ fs # "gone" /\ \A c \in Callers : pc[c] = "out"
  /\ fs' = "gone"
  /\ text' = text \o buf
  /\ buf' = <<>>
  /\ UNCHANGED <<flush_log, disk, calls, run, lost, returned>>

Die ==
  /\ fs # "gone"
  /\ fs' = "gone"
  /\ buf' = <<>>
  /\ pc' = [c \in Callers |-> "out"]
  /\ UNCHANGED <<flush_log, run, returned>>

Killed == Die /\ lost' = lost \cup {"process"} /\ UNCHANGED <<file, arg>>

(* fwrite to the NULL of a failed fopen ends the process.                  *)
WriteNull(c, len) ==
  /\ fs = "NULL" /\ Call(c, len) /\ Die
  /\ lost' = lost \cup {"process"}
  /\ UNCHANGED file

PowerFails ==
  /\ Die /\ UNCHANGED arg
  /\ lost' = lost \cup {"power"}
  /\ text' = First(disk, text)
  /\ UNCHANGED disk

Terminated == fs = "gone" /\ run = MaxRuns /\ UNCHANGED vars

Next ==
  \/ Open
  \/ \E c \in Callers :
       Flush(c) \/ \E len \in Lens : Write(c, len) \/ WriteNull(c, len)
  \/ Writeback \/ Exit \/ Killed \/ PowerFails
  \/ Terminated

Spec == Init /\ [][Next]_vars

-----------------------------------------------------------------------------
(* A clean run keeps everything: without an accident every record whose    *)
(* Sink has returned is whole in the file, or in the buffer for exit() to  *)
(* write, whatever flush_log says and over restarts that append.           *)
CleanRunKeepsAll == lost = {} => \A m \in returned : Whole(m, text \o buf)

(* flush_log 1 is worth its cost: a record whose Sink has returned is in   *)
(* the file and outlives the process, also when another thread's fwrite    *)
(* came between this one's and its fflush.                                 *)
FlushedSurvives ==
  flush_log = 1 /\ "power" \notin lost => \A m \in returned : Whole(m, text)

(* util.hpp:182 says that flush_log controls when the log is synced to the *)
(* disk, and that 2 calls fsync: a record whose Sink has returned is then  *)
(* on the disk.                                                            *)
SyncedSurvives == flush_log = 2 => \A m \in returned : Whole(m, First(disk, text))
=============================================================================
