----------------------------- MODULE SyncLogger -----------------------------
(***************************************************************************)
(* SyncLogger (logger.hpp): threads that log through the level methods,    *)
(* the backup serialize makes of ERROR and FATAL records and waits for,    *)
(* and the sinks, which every thread calls itself and without a lock.      *)
(*                                                                         *)
(* It composes Backup with the loggers that need it.  The pool is reduced  *)
(* to what ThreadPool shows of it: jobs start in the order of the queue,   *)
(* and no more of them run than there are workers.                         *)
(***************************************************************************)
EXTENDS Backup, SequencesExt

CONSTANTS
  Callers,   \* threads that log
  MaxCalls,  \* bound: calls of level methods, of all threads
  Levels,    \* the levels they use
  Limits,    \* the limits the logger may have
  Sinks,     \* the number of its sinks
  Workers    \* thread_count

(* LogLevel::value.                                                        *)
DEBUG == 0
INFO == 1
WARN == 2
ERROR == 3
FATAL == 4
OFF == 5

ASSUME SyncLoggerAssumption ==
  /\ Jobs \subseteq Callers \X (1 .. MaxCalls)
  /\ MaxCalls \in Nat /\ Sinks \in Nat /\ Workers \in Nat
  /\ Levels \subseteq DEBUG .. OFF /\ Limits \subseteq DEBUG .. OFF

VARIABLES
  limit_level,  \* limit_level_
  pc,           \* where each caller is
  calls,        \* how many calls each caller has made
  level,        \* the level of each record
  to,           \* the sink each caller calls next
  tasks,        \* the queue of the pool
  sunk          \* what each sink has been given

callers == <<limit_level, pc, calls, level, to, sunk>>
vars == <<backupVars, callers, tasks>>

(* The variables range over the values the code gives them.                *)
TypeOK ==
  /\ BackupTypeOK
  /\ limit_level \in Limits
  /\ pc \in [Callers -> {"out", "serialize", "get", "sink"}]
  /\ calls \in [Callers -> 0 .. MaxCalls]
  /\ level \in [Jobs -> Levels \cup {DEBUG}]
  /\ to \in [Callers -> (1 .. Sinks) \cup {1}]
  /\ tasks \in Seq(Jobs)
  /\ sunk \in [1 .. Sinks -> Seq(Jobs)]
  /\ fault \in {"none", "overrun", "vasprintf"}

Init ==
  /\ BackupInit
  /\ limit_level \in Limits
  /\ pc = [c \in Callers |-> "out"]
  /\ calls = [c \in Callers |-> 0]
  /\ level = [j \in Jobs |-> DEBUG]
  /\ to = [c \in Callers |-> 1]
  /\ tasks = <<>>
  /\ sunk = [s \in 1 .. Sinks |-> <<>>]

Current(c) == <<c, calls[c]>>
At(c, place) == pc' = [pc EXCEPT ![c] = place]

Made == {j \in Jobs : j[2] <= calls[j[1]]}
Fresh(c) == <<c, calls[c] + 1>>
Calls(c, lvl) ==
  /\ Runs /\ pc[c] = "out" /\ Fresh(c) \in Jobs /\ Cardinality(Made) < MaxCalls
  /\ calls' = [calls EXCEPT ![c] = @ + 1]
  /\ level' = [level EXCEPT ![Fresh(c)] = lvl]
NeedsBackup(lvl) == lvl \in {ERROR, FATAL}
ToSinks(c) == At(c, IF Sinks = 0 THEN "out" ELSE "sink")

(* Debug, Info, Warn, Error, Fatal and Off, one method per level, return   *)
(* at once below the limit.                                                *)
LogBelow(c, lvl) ==
  /\ Calls(c, lvl) /\ lvl < limit_level
  /\ UNCHANGED <<limit_level, pc, to, sunk, tasks, clientVars, serverVars, fault>>

(* vasprintf fails: ret, which it has not set, is used and freed.          *)
VasprintfFails(c, lvl) ==
  /\ Calls(c, lvl) /\ lvl >= limit_level
  /\ fault' = "vasprintf"
  /\ At(c, "serialize")
  /\ UNCHANGED <<limit_level, to, sunk, tasks, clientVars, serverVars>>

(* serialize, of a record that stays here.                                 *)
Log(c, lvl) ==
  /\ Calls(c, lvl) /\ lvl >= limit_level /\ ~NeedsBackup(lvl)
  /\ ToSinks(c)
  /\ UNCHANGED <<limit_level, to, sunk, tasks, clientVars, serverVars, fault>>

(* A slip for the run to find: the future is not waited for.               *)
EnqueueAndSink(c, lvl, n) ==
  /\ Calls(c, lvl) /\ lvl >= limit_level /\ NeedsBackup(lvl)
  /\ len' = [len EXCEPT ![Fresh(c)] = n]
  /\ job' = [job EXCEPT ![Fresh(c)] = "queued"]
  /\ tasks' = Append(tasks, Fresh(c))
  /\ ToSinks(c)
  /\ UNCHANGED <<limit_level, to, sunk, client, sock, cnt, sent, serverVars, fault>>

(* serialize, of one of n bytes that is backed up.                         *)
Enqueue(c, lvl, n) ==
  /\ Calls(c, lvl) /\ lvl >= limit_level /\ NeedsBackup(lvl)
  /\ len' = [len EXCEPT ![Fresh(c)] = n]
  /\ job' = [job EXCEPT ![Fresh(c)] = "queued"]
  /\ tasks' = Append(tasks, Fresh(c))
  /\ At(c, "get")
  /\ UNCHANGED <<limit_level, to, sunk, client, sock, cnt, sent, serverVars, fault>>

Get(c) ==
  /\ Runs /\ pc[c] = "get" /\ job[Current(c)] = "done"
  /\ ToSinks(c)
  /\ UNCHANGED <<limit_level, calls, level, to, sunk, tasks, clientVars, serverVars, fault>>

CallsSink(c, s) ==
  /\ Runs /\ pc[c] = "sink"
  /\ sunk' = [sunk EXCEPT ![s] = Append(@, Current(c))]
  /\ to' = [to EXCEPT ![c] = IF @ = Sinks THEN 1 ELSE @ + 1]
  /\ IF to[c] = Sinks THEN At(c, "out") ELSE UNCHANGED pc
  /\ UNCHANGED <<limit_level, calls, level, tasks, clientVars, serverVars, fault>>

(* A slip for the run to find: the first sink is called for every sink.    *)
SinkFirst(c) == CallsSink(c, 1)

(* Sink: one sink after the other, and the call returns.                   *)
Sink(c) == CallsSink(c, to[c])

(* A worker that is free takes the first task and runs start_backup.       *)
Running == {j \in Jobs : job[j] \in {"connect", "write"}}
TakeTask ==
  /\ tasks # <<>> /\ Cardinality(Running) < Workers
  /\ StartBackup(Head(tasks))
  /\ tasks' = Tail(tasks)
  /\ UNCHANGED callers

WorkerStep(j) ==
  /\ ClientStep(j)
  /\ UNCHANGED <<callers, tasks>>

CallerStep(c) == Get(c) \/ Sink(c)

Next ==
  \/ \E c \in Callers :
       \/ \E lvl \in Levels :
            \/ LogBelow(c, lvl)
            \/ VasprintfFails(c, lvl)
            \/ Log(c, lvl)
            \/ \E n \in Lens : Enqueue(c, lvl, n)
       \/ CallerStep(c)
  \/ TakeTask
  \/ \E j \in Jobs : WorkerStep(j)
  \/ ServerStep /\ UNCHANGED <<callers, tasks>>

Spec == Init /\ [][Next]_vars

(* While some thread of a kind can run, one of them does, in both          *)
(* processes, and what is sent arrives.  Each makes finitely many steps,   *)
(* so no fairness between them is needed.  Nobody has to log, and nobody   *)
(* has to start the server.                                                *)
FairSpec ==
  /\ Spec
  /\ WF_vars(\E c \in Callers : CallerStep(c))
  /\ WF_vars(TakeTask \/ \E j \in Jobs : WorkerStep(j))
  /\ WF_vars(ServerThreads /\ UNCHANGED <<callers, tasks>>)

-----------------------------------------------------------------------------
(* What sink s has been given, and the records that pass the level.        *)
Sunk(s) == Range(sunk[s])
Passing == {j \in Made : level[j] >= limit_level}

(* Each sink has the records a thread has logged at the limit or above, in *)
(* the order of its calls, each once, but for the one of the call it is    *)
(* in; and that one the first sinks have before the later ones.  So it is  *)
(* even if the process is killed (logger.hpp:32-139, 173-178).             *)
SinksAgree ==
  \A s \in 1 .. Sinks :
    /\ \A i, k \in DOMAIN sunk[s] :
         i < k /\ sunk[s][i][1] = sunk[s][k][1] => sunk[s][i][2] < sunk[s][k][2]
    /\ Sunk(s) \subseteq Passing
    /\ \A j \in Passing \ Sunk(s) : j = Current(j[1]) /\ pc[j[1]] # "out"
    /\ \A k \in 1 .. s : Sunk(s) \subseteq Sunk(k)

(* An ERROR or FATAL record is in no sink before its backup has been tried *)
(* to the end (logger.hpp:148-154).                                        *)
BackedUpFirst ==
  \A s \in 1 .. Sinks : \A i \in DOMAIN sunk[s] :
    NeedsBackup(level[sunk[s][i]]) => job[sunk[s][i]] = "done"

(* Every call returns if the pool has a worker, however often the server   *)
(* goes away, unless the process is killed or undefined behaviour comes in *)
(* between (logger.hpp:143-155, cli_backlog.hpp:48-61).                    *)
CallReturns ==
  \A c \in Callers :
    pc[c] # "out" ~> pc[c] = "out" \/ client = "killed" \/ fault # "none" \/ Workers = 0
=============================================================================
