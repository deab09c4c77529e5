----------------------------- MODULE ThreadPool -----------------------------
(***************************************************************************)
(* ThreadPool (thread_poll.hpp) and its clients: the threads that log an   *)
(* ERROR or a FATAL record, which enqueue a backup task and block on its   *)
(* future before they sink the record (Logger::serialize).                 *)
(*                                                                         *)
(* tasks and stop are only touched under queue_mutex, so a critical        *)
(* section is one step.  condition is notified outside of it, in a step of *)
(* its own.                                                                *)
(***************************************************************************)
EXTENDS Naturals, Sequences, FiniteSets

CONSTANTS
  Clients,   \* threads that log ERROR or FATAL records
  Workers,   \* threads the pool may have
  Pools,     \* the sets of threads the constructor may have launched
  MaxTasks   \* bound: enqueue calls per client

ASSUME PoolAssumption ==
  /\ Pools \subseteq SUBSET Workers
  /\ MaxTasks \in Nat

VARIABLES
  workers,   \* workers: thread_count of config.conf says how many
  tasks,     \* tasks, the queue
  stop,      \* stop
  wpc,       \* where each worker is in its loop
  serving,   \* the task each worker runs, or ran last
  cpc,       \* where each client is in serialize
  mine,      \* the task each client submitted last
  dpc,       \* where the destructor is
  accepted,  \* history: tasks enqueue took, in order
  ready      \* the tasks whose future is ready

client == <<cpc, mine>>
history == <<accepted, ready>>
vars == <<workers, tasks, stop, wpc, serving, client, dpc, history>>

Task == [by : Clients, no : 1 .. MaxTasks]
NoTask == [by |-> {}, no |-> 0]

(* The variables range over the values the code gives them, and a worker   *)
(* that runs a task has one.                                               *)
TypeOK ==
  /\ workers \subseteq Workers
  /\ tasks \in Seq(Task)
  /\ stop \in BOOLEAN
  /\ wpc \in [Workers -> {"awake", "waiting", "running", "exited"}]
  /\ serving \in [Workers -> Task \cup {NoTask}]
  /\ \A w \in Workers : wpc[w] = "running" => serving[w] \in Task
  /\ cpc \in [Clients -> {"out", "notify", "get"}]
  /\ mine \in [Clients -> [by : Clients, no : 0 .. MaxTasks]]
  /\ dpc \in {"alive", "notify", "joining", "gone"}
  /\ accepted \in Seq(Task)
  /\ ready \subseteq Task

Init ==
  /\ workers \in Pools
  /\ tasks = <<>>
  /\ stop = FALSE
  /\ wpc = [w \in Workers |-> "awake"]
  /\ serving = [w \in Workers |-> NoTask]
  /\ cpc = [c \in Clients |-> "out"]
  /\ mine = [c \in Clients |-> [by |-> c, no |-> 0]]
  /\ dpc = "alive"
  /\ accepted = <<>>
  /\ ready = {}

-----------------------------------------------------------------------------
(* enqueue, and the wait on its future, by client c.                       *)

NextTask(c) == [by |-> c, no |-> mine[c].no + 1]

Enqueue(c) ==
  /\ cpc[c] = "out" /\ mine[c].no < MaxTasks /\ ~stop
  /\ mine' = [mine EXCEPT ![c] = NextTask(c)]
  /\ tasks' = Append(tasks, NextTask(c))
  /\ accepted' = Append(accepted, NextTask(c))
  /\ cpc' = [cpc EXCEPT ![c] = "notify"]
  /\ UNCHANGED <<workers, stop, wpc, serving, dpc, ready>>

(* The exception leaves serialize: the record is neither backed up nor     *)
(* sunk.  Nobody calls enqueue on a pool that has been destroyed.          *)
EnqueueThrows(c) ==
  /\ cpc[c] = "out" /\ mine[c].no < MaxTasks /\ stop /\ dpc # "gone"
  /\ mine' = [mine EXCEPT ![c] = NextTask(c)]
  /\ UNCHANGED <<workers, tasks, stop, wpc, serving, cpc, dpc, history>>

Waiters == {w \in workers : wpc[w] = "waiting"}

(* Slips for the runs to find: only the first task of a non-empty queue is *)
(* announced; the caller does not wait for the future.                     *)
NotifyFirst(c) ==
  /\ cpc[c] = "notify"
  /\ IF Waiters = {} \/ Len(tasks) # 1
     THEN UNCHANGED wpc
     ELSE \E w \in Waiters : wpc' = [wpc EXCEPT ![w] = "awake"]
  /\ cpc' = [cpc EXCEPT ![c] = "get"]
  /\ UNCHANGED <<workers, tasks, stop, serving, mine, dpc, history>>
NotifyAndForget(c) ==
  /\ cpc[c] = "notify"
  /\ IF Waiters = {}
     THEN UNCHANGED wpc
     ELSE \E w \in Waiters : wpc' = [wpc EXCEPT ![w] = "awake"]
  /\ cpc' = [cpc EXCEPT ![c] = "out"]
  /\ UNCHANGED <<workers, tasks, stop, serving, mine, dpc, history>>

NotifyOne(c) ==
  /\ cpc[c] = "notify"
  /\ IF Waiters = {}
     THEN UNCHANGED wpc
     ELSE \E w \in Waiters : wpc' = [wpc EXCEPT ![w] = "awake"]
  /\ cpc' = [cpc EXCEPT ![c] = "get"]
  /\ UNCHANGED <<workers, tasks, stop, serving, mine, dpc, history>>

(* get returns, or throws because the queue was destroyed with the task.   *)
Get(c) ==
  /\ cpc[c] = "get" /\ (mine[c] \in ready \/ dpc = "gone")
  /\ cpc' = [cpc EXCEPT ![c] = "out"]
  /\ UNCHANGED <<workers, tasks, stop, wpc, serving, mine, dpc, history>>

-----------------------------------------------------------------------------
(* The loop of worker w.                                                   *)

(* Slips for the runs to find: the queue is popped before its front is     *)
(* read; the front is read and not popped.                                 *)
TakeSecond(w) ==
  /\ wpc[w] = "awake" /\ tasks # <<>>
  /\ serving' = [serving EXCEPT ![w] = IF Len(tasks) > 1 THEN tasks[2] ELSE NoTask]
  /\ tasks' = Tail(tasks)
  /\ wpc' = [wpc EXCEPT ![w] = "running"]
  /\ UNCHANGED <<workers, stop, client, dpc, history>>
TakeNoPop(w) ==
  /\ wpc[w] = "awake" /\ tasks # <<>>
  /\ serving' = [serving EXCEPT ![w] = Head(tasks)]
  /\ wpc' = [wpc EXCEPT ![w] = "running"]
  /\ UNCHANGED <<workers, tasks, stop, client, dpc, history>>

Take(w) ==
  /\ wpc[w] = "awake" /\ tasks # <<>>
  /\ serving' = [serving EXCEPT ![w] = Head(tasks)]
  /\ tasks' = Tail(tasks)
  /\ wpc' = [wpc EXCEPT ![w] = "running"]
  /\ UNCHANGED <<workers, stop, client, dpc, history>>

Sleep(w) ==
  /\ wpc[w] = "awake" /\ tasks = <<>> /\ ~stop
  /\ wpc' = [wpc EXCEPT ![w] = "waiting"]
  /\ UNCHANGED <<workers, tasks, stop, serving, client, dpc, history>>

(* A condition variable may wake a waiter on its own.                      *)
SpuriousWake(w) ==
  /\ wpc[w] = "waiting"
  /\ wpc' = [wpc EXCEPT ![w] = "awake"]
  /\ UNCHANGED <<workers, tasks, stop, serving, client, dpc, history>>

(* A slip for the runs to find: stop alone ends a worker.                  *)
ReturnAtOnce(w) ==
  /\ wpc[w] = "awake" /\ stop
  /\ wpc' = [wpc EXCEPT ![w] = "exited"]
  /\ UNCHANGED <<workers, tasks, stop, serving, client, dpc, history>>

Return(w) ==
  /\ wpc[w] = "awake" /\ tasks = <<>> /\ stop
  /\ wpc' = [wpc EXCEPT ![w] = "exited"]
  /\ UNCHANGED <<workers, tasks, stop, serving, client, dpc, history>>

(* The packaged task makes its future ready, by value or by exception.     *)
RunTask(w) ==
  /\ wpc[w] = "running"
  /\ ready' = ready \cup {serving[w]}
  /\ wpc' = [wpc EXCEPT ![w] = "awake"]
  /\ UNCHANGED <<workers, tasks, stop, serving, client, dpc, accepted>>

-----------------------------------------------------------------------------
(* The destructor.                                                         *)

SetStop ==
  /\ dpc = "alive"
  /\ stop' = TRUE
  /\ dpc' = "notify"
  /\ UNCHANGED <<workers, tasks, wpc, serving, client, history>>

(* A slip for the runs to find: one worker is told to stop.                *)
NotifyOneToStop ==
  /\ dpc = "notify"
  /\ IF Waiters = {}
     THEN UNCHANGED wpc
     ELSE \E w \in Waiters : wpc' = [wpc EXCEPT ![w] = "awake"]
  /\ dpc' = "joining"
  /\ UNCHANGED <<workers, tasks, stop, serving, client, history>>

NotifyAll ==
  /\ dpc = "notify"
  /\ wpc' = [w \in Workers |-> IF w \in Waiters THEN "awake" ELSE wpc[w]]
  /\ dpc' = "joining"
  /\ UNCHANGED <<workers, tasks, stop, serving, client, history>>

(* All threads are joined.  The owner may not free the pool under a call   *)
(* of enqueue: no client is about to notify.                               *)
JoinAll ==
  /\ dpc = "joining"
  /\ \A w \in workers : wpc[w] = "exited"
  /\ \A c \in Clients : cpc[c] # "notify"
  /\ dpc' = "gone"
  /\ UNCHANGED <<workers, tasks, stop, wpc, serving, client, history>>

Terminated ==
  /\ dpc = "gone" /\ \A c \in Clients : cpc[c] = "out"
  /\ UNCHANGED vars

-----------------------------------------------------------------------------
ClientStep(c) == Enqueue(c) \/ EnqueueThrows(c) \/ NotifyOne(c) \/ Get(c)

WorkerStep(w) == Take(w) \/ Sleep(w) \/ SpuriousWake(w) \/ Return(w) \/ RunTask(w)

Next ==
  \/ \E c \in Clients : ClientStep(c)
  \/ \E w \in workers : WorkerStep(w)
  \/ SetStop \/ NotifyAll \/ JoinAll
  \/ Terminated

Spec == Init /\ [][Next]_vars

(* Every thread keeps running.  Nobody has to log or to destroy the pool,  *)
(* and nothing wakes spuriously on purpose.                                *)
Fairness ==
  /\ \A c \in Clients : WF_vars(NotifyOne(c)) /\ WF_vars(Get(c))
  /\ \A w \in Workers :
        /\ WF_vars(w \in workers /\ (Take(w) \/ Sleep(w) \/ Return(w)))
        /\ WF_vars(w \in workers /\ RunTask(w))
  /\ WF_vars(NotifyAll)
  /\ WF_vars(JoinAll)

FairSpec == Spec /\ Fairness

-----------------------------------------------------------------------------
(* Safety.                                                                 *)

(* No wakeup is lost although notify_one comes after the unlock and finds  *)
(* other tasks and other workers than enqueue left: while a task is        *)
(* queued, a worker is on its feet or a notification is still to come.     *)
NoLostWakeup ==
  workers # {} /\ tasks # <<>> =>
    \/ \E w \in workers : wpc[w] \in {"awake", "running"}
    \/ \E c \in Clients : cpc[c] = "notify"

(* Nor is the one to stop: once notify_all is through, no worker sleeps,   *)
(* so each of them sees stop and join() is not called on a sleeper.        *)
StopReachesAll == dpc \in {"joining", "gone"} => Waiters = {}

(* No task is run by two workers, run again, or run while still queued.    *)
Running(w, t) == w \in workers /\ wpc[w] = "running" /\ serving[w] = t
RunsOnce ==
  /\ \A v, w \in workers, t \in Task : Running(v, t) /\ Running(w, t) => v = w
  /\ \A w \in workers, t \in Task : Running(w, t) => t \notin ready
  /\ \A i \in 1 .. Len(tasks) :
        tasks[i] \notin ready /\ \A w \in workers : ~Running(w, tasks[i])

(* The std::queue has no bound of its own; it holds at most one task per   *)
(* logging thread because serialize blocks on the future of each.          *)
QueueBounded == \A i, j \in 1 .. Len(tasks) : tasks[i].by = tasks[j].by => i = j

(* The pool keeps the promise of Executor, if it has a thread at all: in   *)
(* order, each task once, and joined only when every task has finished.    *)
Started == Len(accepted) - Len(tasks)
Exec == INSTANCE Executor WITH
          started <- Started,
          finished <- {i \in 1 .. Len(accepted) : accepted[i] \in ready},
          closed <- workers # {} /\ dpc = "gone"
ExecutorSpec == Exec!Spec

(* Progress, under FairSpec.                                               *)

(* The future serialize waits for becomes ready, also when the pool is     *)
(* being destroyed.  With thread_count 0 it never does.                    *)
FutureReturns ==
  \A c \in Clients : workers # {} /\ cpc[c] = "get" ~> mine[c] \in ready

(* The destructor drains the queue, joins every thread and returns.        *)
DestructorReturns == stop ~> dpc = "gone"
=============================================================================
