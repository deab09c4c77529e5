-------------------------- MODULE ThreadPoolProofs --------------------------
(***************************************************************************)
(* Proofs about ThreadPool, for any number of workers, clients and tasks.  *)
(***************************************************************************)
EXTENDS ThreadPool, SequenceTheorems, TLAPS

-----------------------------------------------------------------------------
(* The parts of the inductive invariant.                                   *)

(* stop is set by the destructor, and a worker only leaves when stop is    *)
(* set and the queue is empty.                                             *)
StopInv ==
  /\ stop <=> dpc # "alive"
  /\ \A w \in workers : wpc[w] = "exited" => stop /\ tasks = <<>>

(* accepted is a history of distinct tasks, and the queue its end.         *)
HistoryInv ==
  /\ \A i \in 1 .. Len(accepted) : accepted[i].no <= mine[accepted[i].by].no
  /\ \A i, j \in 1 .. Len(accepted) : accepted[i] = accepted[j] => i = j
  /\ Len(tasks) <= Len(accepted)
  /\ \A i \in 1 .. Len(tasks) : tasks[i] = accepted[Started + i]

(* The started tasks are those that run and those that have finished.      *)
ServiceInv ==
  /\ \A w \in workers : wpc[w] = "running" =>
        \E i \in 1 .. Started : serving[w] = accepted[i]
  /\ \A t \in ready : \E i \in 1 .. Started : t = accepted[i]
  /\ \A i \in 1 .. Started :
        accepted[i] \in ready \/ \E w \in workers : Running(w, accepted[i])

(* A queued task is the last one of a client that still waits for it.      *)
QueueInv ==
  dpc # "gone" =>
    \A i \in 1 .. Len(tasks) :
      cpc[tasks[i].by] # "out" /\ tasks[i] = mine[tasks[i].by]

-----------------------------------------------------------------------------
(* Types.                                                                  *)

LEMMA NextTaskType ==
  ASSUME TypeOK, NEW c \in Clients, mine[c].no < MaxTasks
  PROVE  /\ NextTask(c) \in Task
         /\ mine[c].no \in Nat
         /\ NextTask(c) \in [by : Clients, no : 0 .. MaxTasks]
<1>1. mine[c].no \in 0 .. MaxTasks
  BY DEF TypeOK
<1>2. mine[c].no + 1 \in 1 .. MaxTasks /\ mine[c].no + 1 \in 0 .. MaxTasks
  BY <1>1, PoolAssumption
<1>3. mine[c].no \in Nat
  BY <1>1, PoolAssumption
<1> QED
  BY <1>2, <1>3 DEF NextTask, Task

LEMMA TypeInit == Init => TypeOK
<1> SUFFICES ASSUME Init PROVE TypeOK
  OBVIOUS
<1>1. workers \subseteq Workers
  BY PoolAssumption DEF Init
<1>2. tasks \in Seq(Task) /\ accepted \in Seq(Task)
  BY EmptySeq DEF Init
<1>3. mine \in [Clients -> [by : Clients, no : 0 .. MaxTasks]]
  <2>1. 0 \in 0 .. MaxTasks
    BY PoolAssumption
  <2> QED
    BY <2>1 DEF Init
<1> QED
  BY <1>1, <1>2, <1>3 DEF Init, TypeOK

LEMMA TypeStep == TypeOK /\ [Next]_vars => TypeOK'
<1> SUFFICES ASSUME TypeOK, [Next]_vars PROVE TypeOK'
  OBVIOUS
<1> USE DEF client, history
<1>1. ASSUME NEW c \in Clients, Enqueue(c) PROVE TypeOK'
  <2>1. NextTask(c) \in Task /\ NextTask(c) \in [by : Clients, no : 0 .. MaxTasks]
    BY <1>1, NextTaskType DEF Enqueue
  <2>2. tasks' \in Seq(Task) /\ accepted' \in Seq(Task)
    BY <1>1, <2>1, AppendProperties DEF Enqueue, TypeOK
  <2> QED
    BY <1>1, <2>1, <2>2 DEF Enqueue, TypeOK
<1>2. ASSUME NEW c \in Clients, EnqueueThrows(c) PROVE TypeOK'
  <2>1. NextTask(c) \in [by : Clients, no : 0 .. MaxTasks]
    BY <1>2, NextTaskType DEF EnqueueThrows
  <2> QED
    BY <1>2, <2>1 DEF EnqueueThrows, TypeOK
<1>3. ASSUME NEW c \in Clients, NotifyOne(c) PROVE TypeOK'
  BY <1>3 DEF NotifyOne, Waiters, TypeOK
<1>4. ASSUME NEW c \in Clients, Get(c) PROVE TypeOK'
  BY <1>4 DEF Get, TypeOK
<1>5. ASSUME NEW w \in workers, Take(w) PROVE TypeOK'
  <2>1. Head(tasks) \in Task /\ Tail(tasks) \in Seq(Task)
    BY <1>5, HeadTailProperties DEF Take, TypeOK
  <2>2. w \in Workers
    BY DEF TypeOK
  <2> QED
    BY <1>5, <2>1, <2>2 DEF Take, TypeOK
<1>6. ASSUME NEW w \in workers, Sleep(w) PROVE TypeOK'
  BY <1>6 DEF Sleep, TypeOK
<1>7. ASSUME NEW w \in workers, SpuriousWake(w) PROVE TypeOK'
  BY <1>7 DEF SpuriousWake, TypeOK
<1>8. ASSUME NEW w \in workers, Return(w) PROVE TypeOK'
  BY <1>8 DEF Return, TypeOK
<1>9. ASSUME NEW w \in workers, RunTask(w) PROVE TypeOK'
  BY <1>9 DEF RunTask, TypeOK
<1>10. CASE SetStop
  BY <1>10 DEF SetStop, TypeOK
<1>11. CASE NotifyAll
  BY <1>11 DEF NotifyAll, Waiters, TypeOK
<1>12. CASE JoinAll
  BY <1>12 DEF JoinAll, TypeOK
<1>13. CASE UNCHANGED vars
  BY <1>13 DEF vars, TypeOK
<1> QED
  BY <1>1, <1>2, <1>3, <1>4, <1>5, <1>6, <1>7, <1>8, <1>9, <1>10, <1>11, <1>12, <1>13
     DEF Next, ClientStep, WorkerStep, Terminated

(* The variables of ThreadPool keep their types.                           *)
THEOREM TypeCorrect == Spec => []TypeOK
BY TypeInit, TypeStep, PTL DEF Spec

-----------------------------------------------------------------------------
(* Sleeping and waking.                                                    *)

LEMMA StopStep == TypeOK /\ StopInv /\ [Next]_vars => StopInv'
<1> SUFFICES ASSUME TypeOK, StopInv, [Next]_vars PROVE StopInv'
  OBVIOUS
<1> USE DEF client, history
<1>0. workers \subseteq Workers
  BY DEF TypeOK
<1>1. ASSUME NEW c \in Clients, Enqueue(c) PROVE StopInv'
  BY <1>1 DEF Enqueue, StopInv
<1>2. ASSUME NEW c \in Clients, NotifyOne(c) PROVE StopInv'
  BY <1>0, <1>2 DEF NotifyOne, Waiters, StopInv, TypeOK
<1>3. ASSUME NEW w \in workers, Take(w) PROVE StopInv'
  BY <1>0, <1>3 DEF Take, StopInv, TypeOK
<1>4. ASSUME NEW w \in workers, Sleep(w) \/ SpuriousWake(w) \/ Return(w) \/ RunTask(w)
      PROVE  StopInv'
  BY <1>0, <1>4 DEF Sleep, SpuriousWake, Return, RunTask, StopInv, TypeOK
<1>5. CASE SetStop \/ NotifyAll \/ JoinAll
  BY <1>0, <1>5 DEF SetStop, NotifyAll, JoinAll, Waiters, StopInv, TypeOK
<1>6. CASE UNCHANGED <<workers, tasks, stop, wpc, dpc>>
  BY <1>6 DEF StopInv
<1> QED
  BY <1>1, <1>2, <1>3, <1>4, <1>5, <1>6
     DEF Next, ClientStep, WorkerStep, EnqueueThrows, Get, Terminated, vars

THEOREM StopCorrect == Spec => []StopInv
<1>1. Init => StopInv
  BY PoolAssumption DEF Init, StopInv
<1> QED
  BY <1>1, StopStep, TypeCorrect, PTL DEF Spec

LEMMA WakeupStep == TypeOK /\ StopInv /\ NoLostWakeup /\ [Next]_vars => NoLostWakeup'
<1> SUFFICES ASSUME TypeOK, StopInv, NoLostWakeup, [Next]_vars,
                    workers' # {}, tasks' # <<>>
             PROVE  \/ \E w \in workers' : wpc'[w] \in {"awake", "running"}
                    \/ \E c \in Clients : cpc'[c] = "notify"
  BY DEF NoLostWakeup
<1> USE DEF client, history
<1>0. workers \subseteq Workers /\ workers' = workers
  BY DEF TypeOK, Next, ClientStep, WorkerStep, Enqueue, EnqueueThrows, NotifyOne, Get,
         Take, Sleep, SpuriousWake, Return, RunTask, SetStop, NotifyAll, JoinAll,
         Terminated, vars
<1>1. ASSUME NEW c \in Clients, Enqueue(c) PROVE cpc'[c] = "notify"
  BY <1>1 DEF Enqueue, TypeOK
<1>2. ASSUME NEW c \in Clients, NotifyOne(c)
      PROVE  \E w \in workers' : wpc'[w] \in {"awake", "running"}
  <2>1. tasks # <<>>
    BY <1>2 DEF NotifyOne
  <2>2. CASE Waiters = {}
    <3>1. PICK w \in workers : TRUE
      BY <1>0
    <3>2. wpc[w] \in {"awake", "running"}
      BY <1>0, <2>1, <2>2 DEF Waiters, StopInv, TypeOK
    <3> QED
      BY <1>0, <1>2, <2>2, <3>2 DEF NotifyOne
  <2>3. CASE Waiters # {}
    <3>1. PICK w \in Waiters : wpc' = [wpc EXCEPT ![w] = "awake"]
      BY <1>2, <2>3 DEF NotifyOne
    <3>2. w \in workers /\ wpc'[w] = "awake"
      BY <1>0, <3>1 DEF Waiters, TypeOK
    <3> QED
      BY <1>0, <3>2
  <2> QED
    BY <2>2, <2>3
<1>3. ASSUME NEW w \in workers, Take(w) \/ SpuriousWake(w) \/ RunTask(w)
      PROVE  wpc'[w] \in {"awake", "running"}
  BY <1>0, <1>3 DEF Take, SpuriousWake, RunTask, TypeOK
<1>4. ASSUME NEW w \in workers, Sleep(w) \/ Return(w) PROVE FALSE
  BY <1>4 DEF Sleep, Return
<1>5. ASSUME NEW c \in Clients, EnqueueThrows(c) \/ Get(c)
      PROVE  \/ \E w \in workers' : wpc'[w] \in {"awake", "running"}
             \/ \E d \in Clients : cpc'[d] = "notify"
  BY <1>0, <1>5 DEF EnqueueThrows, Get, NoLostWakeup, TypeOK
<1>6. CASE NotifyAll
  BY <1>0, <1>6 DEF NotifyAll, NoLostWakeup, TypeOK
<1>7. CASE UNCHANGED <<workers, tasks, wpc, cpc>>
  BY <1>7 DEF NoLostWakeup
<1> QED
  BY <1>0, <1>1, <1>2, <1>3, <1>4, <1>5, <1>6, <1>7
     DEF Next, ClientStep, WorkerStep, SetStop, JoinAll, Terminated, vars

(* Notifying after the unlock loses no wakeup, for any number of workers   *)
(* and clients.                                                            *)
THEOREM NoWakeupIsLost == Spec => []NoLostWakeup
<1>1. Init => NoLostWakeup
  BY DEF Init, NoLostWakeup
<1> QED
  BY <1>1, WakeupStep, TypeCorrect, StopCorrect, PTL DEF Spec

LEMMA SleepersStep == TypeOK /\ StopInv /\ StopReachesAll /\ [Next]_vars => StopReachesAll'
<1> SUFFICES ASSUME TypeOK, StopInv, StopReachesAll, [Next]_vars PROVE StopReachesAll'
  OBVIOUS
<1> USE DEF client, history, Waiters
<1>0. workers \subseteq Workers
  BY DEF TypeOK
<1>1. ASSUME NEW c \in Clients, NotifyOne(c) PROVE StopReachesAll'
  BY <1>0, <1>1 DEF NotifyOne, StopReachesAll, TypeOK
<1>2. ASSUME NEW w \in workers,
             Take(w) \/ Sleep(w) \/ SpuriousWake(w) \/ Return(w) \/ RunTask(w)
      PROVE  StopReachesAll'
  BY <1>0, <1>2
     DEF Take, Sleep, SpuriousWake, Return, RunTask, StopReachesAll, StopInv, TypeOK
<1>3. CASE SetStop \/ NotifyAll \/ JoinAll
  BY <1>0, <1>3 DEF SetStop, NotifyAll, JoinAll, StopReachesAll, TypeOK
<1>4. CASE UNCHANGED <<workers, wpc, dpc>>
  BY <1>4 DEF StopReachesAll
<1> QED
  BY <1>1, <1>2, <1>3, <1>4
     DEF Next, ClientStep, WorkerStep, Enqueue, EnqueueThrows, Get, Terminated, vars

(* After notify_all no worker sleeps, or falls asleep again.               *)
THEOREM StopWakesEveryone == Spec => []StopReachesAll
<1>1. Init => StopReachesAll
  BY DEF Init, StopReachesAll
<1> QED
  BY <1>1, SleepersStep, TypeCorrect, StopCorrect, PTL DEF Spec

-----------------------------------------------------------------------------
(* The history and the queue.                                              *)

LEMMA Lengths ==
  ASSUME TypeOK
  PROVE  /\ Len(tasks) \in Nat /\ Len(accepted) \in Nat
         /\ \A i \in 1 .. Len(tasks) : tasks[i] \in Task
         /\ \A i \in 1 .. Len(accepted) : accepted[i] \in Task
         /\ tasks = <<>> <=> Len(tasks) = 0
BY LenProperties, ElementOfSeq, EmptySeq DEF TypeOK

LEMMA EnqueueFacts ==
  ASSUME TypeOK, NEW c \in Clients, Enqueue(c)
  PROVE  /\ NextTask(c) \in Task
         /\ NextTask(c).by = c /\ NextTask(c).no = mine[c].no + 1
         /\ mine[c].no \in Nat
         /\ Len(tasks') = Len(tasks) + 1 /\ Len(accepted') = Len(accepted) + 1
         /\ \A i \in 1 .. Len(tasks) : tasks'[i] = tasks[i]
         /\ \A i \in 1 .. Len(accepted) : accepted'[i] = accepted[i]
         /\ tasks'[Len(tasks) + 1] = NextTask(c)
         /\ accepted'[Len(accepted) + 1] = NextTask(c)
<1>1. NextTask(c) \in Task /\ mine[c].no \in Nat
  BY NextTaskType DEF Enqueue
<1>2. NextTask(c).by = c /\ NextTask(c).no = mine[c].no + 1
  BY DEF NextTask
<1> QED
  BY <1>1, <1>2, AppendProperties DEF Enqueue, TypeOK

LEMMA TakeFacts ==
  ASSUME TypeOK, NEW w \in workers, Take(w)
  PROVE  /\ Head(tasks) = tasks[1]
         /\ Len(tasks) \in Nat \ {0}
         /\ Len(tasks') = Len(tasks) - 1
         /\ \A i \in 1 .. Len(tasks') : tasks'[i] = tasks[i + 1]
BY HeadTailProperties, EmptySeq DEF Take, TypeOK

LEMMA HistoryStep == TypeOK /\ HistoryInv /\ [Next]_vars => HistoryInv'
<1> SUFFICES ASSUME TypeOK, HistoryInv, [Next]_vars PROVE HistoryInv'
  OBVIOUS
<1> USE DEF client, history
<1>1. ASSUME NEW c \in Clients, Enqueue(c) PROVE HistoryInv'
  <2> DEFINE t == NextTask(c)
             n == Len(accepted)
  <2>1. /\ n \in Nat /\ Len(tasks) \in Nat
        /\ \A i \in 1 .. n : accepted[i] \in Task
    BY Lengths
  <2>2. /\ t.by = c /\ t.no = mine[c].no + 1 /\ mine[c].no \in Nat
        /\ Len(tasks') = Len(tasks) + 1 /\ Len(accepted') = n + 1
        /\ \A i \in 1 .. Len(tasks) : tasks'[i] = tasks[i]
        /\ \A i \in 1 .. n : accepted'[i] = accepted[i]
        /\ tasks'[Len(tasks) + 1] = t /\ accepted'[n + 1] = t
    BY <1>1, EnqueueFacts
  <2>3. mine' = [mine EXCEPT ![c] = t] /\ mine'[c] = t
    BY <1>1 DEF Enqueue, TypeOK
  <2> HIDE DEF t, n
  <2>4. \A i \in 1 .. n : accepted[i].no \in Nat /\ accepted[i].by \in Clients
    BY <2>1 DEF Task
  <2>5. \A i \in 1 .. n : accepted[i] # t
    BY <2>2, <2>4 DEF HistoryInv, n
  <2>6. \A i \in 1 .. n + 1 : i \in 1 .. n \/ i = n + 1
    BY <2>1
  <2>7. \A i \in 1 .. n + 1 : accepted'[i].no <= mine'[accepted'[i].by].no
    <3>1. ASSUME NEW i \in 1 .. n
          PROVE  accepted'[i].no <= mine'[accepted'[i].by].no
      <4>1. accepted'[i] = accepted[i] /\ accepted[i].by \in Clients
        BY <2>2, <2>4
      <4>2. accepted[i].no <= mine[accepted[i].by].no
        BY DEF HistoryInv, n
      <4>3. CASE accepted[i].by = c
        BY <2>2, <2>3, <2>4, <4>1, <4>2, <4>3
      <4>4. CASE accepted[i].by # c
        <5>1. mine'[accepted[i].by] = mine[accepted[i].by]
          BY <2>3, <4>1, <4>4 DEF TypeOK
        <5> QED
          BY <4>1, <4>2, <5>1
      <4> QED
        BY <4>3, <4>4
    <3>2. accepted'[n + 1].no <= mine'[accepted'[n + 1].by].no
      BY <2>2, <2>3
    <3> QED
      BY <2>6, <3>1, <3>2
  <2>8. \A i, j \in 1 .. n + 1 : accepted'[i] = accepted'[j] => i = j
    BY <2>2, <2>5, <2>6 DEF HistoryInv, n
  <2>9. Started' = Started /\ Started + Len(tasks) = n
    BY <2>1, <2>2 DEF Started, n
  <2>10. \A i \in 1 .. Len(tasks') : tasks'[i] = accepted'[Started' + i]
    <3>1. ASSUME NEW i \in 1 .. Len(tasks)
          PROVE  tasks'[i] = accepted'[Started' + i]
      <4>1. Started + i \in 1 .. n
        BY <2>1, <2>9 DEF HistoryInv, Started, n
      <4>2. tasks[i] = accepted[Started + i]
        BY DEF HistoryInv
      <4> QED
        BY <2>2, <2>9, <4>1, <4>2
    <3>2. tasks'[Len(tasks) + 1] = accepted'[Started' + (Len(tasks) + 1)]
      <4>1. Started' + (Len(tasks) + 1) = n + 1
        BY <2>1, <2>9 DEF Started, n
      <4> QED
        BY <2>2, <4>1
    <3>3. \A i \in 1 .. Len(tasks) + 1 : i \in 1 .. Len(tasks) \/ i = Len(tasks) + 1
      BY <2>1
    <3> QED
      BY <2>2, <3>1, <3>2, <3>3
  <2>11. Len(tasks') <= Len(accepted')
    BY <2>1, <2>2 DEF HistoryInv, n
  <2> QED
    BY <2>2, <2>7, <2>8, <2>10, <2>11 DEF HistoryInv
<1>2. ASSUME NEW c \in Clients, EnqueueThrows(c) PROVE HistoryInv'
  <2>1. \A i \in 1 .. Len(accepted) : accepted[i].by \in Clients
    BY Lengths DEF Task
  <2>2. \A d \in Clients : mine[d].no <= mine'[d].no
    <3>1. ASSUME NEW d \in Clients PROVE mine[d].no <= mine'[d].no
      <4>1. mine[d].no \in Nat
        BY PoolAssumption DEF TypeOK
      <4>2. mine'[d] = IF d = c THEN NextTask(c) ELSE mine[d]
        BY <1>2 DEF EnqueueThrows, TypeOK
      <4> QED
        BY <4>1, <4>2 DEF NextTask
    <3> QED
      BY <3>1
  <2>3. UNCHANGED <<tasks, accepted>>
    BY <1>2 DEF EnqueueThrows
  <2>4. \A i \in 1 .. Len(accepted) : accepted[i].no <= mine'[accepted[i].by].no
    <3>1. ASSUME NEW i \in 1 .. Len(accepted)
          PROVE  accepted[i].no <= mine'[accepted[i].by].no
      <4> DEFINE d == accepted[i].by
      <4>1. d \in Clients /\ mine[d].no <= mine'[d].no /\ accepted[i].no <= mine[d].no
        BY <2>1, <2>2 DEF HistoryInv
      <4>2. mine[d].no \in Nat /\ mine'[d].no \in Nat /\ accepted[i].no \in Nat
        BY <4>1, TypeStep, Lengths, PoolAssumption DEF TypeOK, Task
      <4> QED
        BY <4>1, <4>2
    <3> QED
      BY <3>1
  <2> QED
    BY <2>3, <2>4 DEF HistoryInv, Started
<1>3. ASSUME NEW w \in workers, Take(w) PROVE HistoryInv'
  <2>1. /\ Len(tasks) \in Nat \ {0} /\ Len(accepted) \in Nat
        /\ Len(tasks') = Len(tasks) - 1
        /\ \A i \in 1 .. Len(tasks') : tasks'[i] = tasks[i + 1]
    BY <1>3, TakeFacts, Lengths
  <2>2. UNCHANGED <<accepted, mine>>
    BY <1>3 DEF Take
  <2>3. Started' = Started + 1 /\ Started \in Int
    BY <2>1, <2>2 DEF Started
  <2>4. ASSUME NEW i \in 1 .. Len(tasks') PROVE tasks'[i] = accepted'[Started' + i]
    <3>1. i + 1 \in 1 .. Len(tasks) /\ i \in Int
      BY <2>1
    <3>2. tasks[i + 1] = accepted[Started + (i + 1)]
      BY <3>1 DEF HistoryInv
    <3>3. Started + (i + 1) = Started' + i
      BY <2>3, <3>1
    <3> QED
      BY <2>1, <2>2, <3>2, <3>3
  <2> QED
    BY <2>1, <2>2, <2>4 DEF HistoryInv
<1>4. CASE UNCHANGED <<tasks, accepted, mine>>
  BY <1>4 DEF HistoryInv, Started
<1> QED
  BY <1>1, <1>2, <1>3, <1>4
     DEF Next, ClientStep, WorkerStep, NotifyOne, Get, Sleep, SpuriousWake, Return,
         RunTask, SetStop, NotifyAll, JoinAll, Terminated, vars

THEOREM HistoryCorrect == Spec => []HistoryInv
<1>1. Init => HistoryInv
  BY EmptySeq DEF Init, HistoryInv, Started
<1> QED
  BY <1>1, HistoryStep, TypeCorrect, PTL DEF Spec

-----------------------------------------------------------------------------
(* Started, running and finished tasks.                                    *)

LEMMA StartedNat ==
  ASSUME TypeOK, HistoryInv
  PROVE  Started \in 0 .. Len(accepted)
BY Lengths DEF HistoryInv, Started

LEMMA ServiceStep ==
  TypeOK /\ HistoryInv /\ ServiceInv /\ [Next]_vars => ServiceInv'
<1> SUFFICES ASSUME TypeOK, HistoryInv, ServiceInv, [Next]_vars PROVE ServiceInv'
  OBVIOUS
<1> USE DEF client, history
<1>0. Started \in 0 .. Len(accepted) /\ workers \subseteq Workers
  BY StartedNat DEF TypeOK
<1>1. ASSUME NEW c \in Clients, Enqueue(c) PROVE ServiceInv'
  <2>1. /\ Started' = Started
        /\ \A i \in 1 .. Started : accepted'[i] = accepted[i]
    <3>1. /\ Len(tasks) \in Nat /\ Len(accepted) \in Nat
          /\ Len(tasks') = Len(tasks) + 1 /\ Len(accepted') = Len(accepted) + 1
          /\ \A i \in 1 .. Len(accepted) : accepted'[i] = accepted[i]
      BY <1>1, EnqueueFacts, Lengths
    <3> QED
      BY <1>0, <3>1 DEF Started
  <2>2. UNCHANGED <<workers, wpc, serving, ready>>
    BY <1>1 DEF Enqueue
  <2> QED
    BY <2>1, <2>2 DEF ServiceInv, Running
<1>2. ASSUME NEW w \in workers, Take(w) PROVE ServiceInv'
  <2>1. UNCHANGED <<workers, accepted, ready>> /\ w \in Workers
    BY <1>0, <1>2 DEF Take
  <2>2. Started' = Started + 1 /\ Head(tasks) = accepted[Started + 1]
    <3>1. /\ Len(tasks) \in Nat \ {0} /\ Len(accepted) \in Nat
          /\ Len(tasks') = Len(tasks) - 1 /\ Head(tasks) = tasks[1]
      BY <1>2, TakeFacts, Lengths
    <3> QED
      BY <2>1, <3>1 DEF HistoryInv, Started
  <2>3. /\ wpc'[w] = "running" /\ serving'[w] = accepted[Started + 1]
        /\ \A v \in workers \ {w} : wpc'[v] = wpc[v] /\ serving'[v] = serving[v]
        /\ wpc[w] # "running"
    BY <1>0, <1>2, <2>2 DEF Take, TypeOK
  <2>4. \A i \in 1 .. Started : i \in 1 .. Started'
    BY <1>0, <2>2
  <2>5. \A i \in 1 .. Started' : i \in 1 .. Started \/ i = Started + 1
    BY <1>0, <2>2
  <2>6. Started + 1 \in 1 .. Started'
    BY <1>0, <2>2
  <2>7. \A v \in workers : wpc'[v] = "running" =>
           \E i \in 1 .. Started' : serving'[v] = accepted'[i]
    BY <2>1, <2>3, <2>4, <2>6 DEF ServiceInv
  <2>8. \A t \in ready' : \E i \in 1 .. Started' : t = accepted'[i]
    BY <2>1, <2>4 DEF ServiceInv
  <2>9. ASSUME NEW i \in 1 .. Started'
        PROVE  accepted'[i] \in ready' \/ \E v \in workers' : Running(v, accepted[i])'
    <3>1. CASE i = Started + 1
      BY <2>1, <2>3, <3>1 DEF Running
    <3>2. CASE i \in 1 .. Started
      <4>1. CASE accepted[i] \in ready
        BY <2>1, <4>1
      <4>2. CASE \E v \in workers : Running(v, accepted[i])
        <5>1. PICK v \in workers : Running(v, accepted[i])
          BY <4>2
        <5>2. v # w
          BY <2>3, <5>1 DEF Running
        <5> QED
          BY <2>1, <2>3, <5>1, <5>2 DEF Running
      <4> QED
        BY <3>2, <4>1, <4>2 DEF ServiceInv
    <3> QED
      BY <2>5, <3>1, <3>2
  <2> QED
    BY <2>1, <2>7, <2>8, <2>9 DEF ServiceInv, Running
<1>3. ASSUME NEW w \in workers, RunTask(w) PROVE ServiceInv'
  <2>1. UNCHANGED <<workers, tasks, accepted, serving>> /\ Started' = Started
    BY <1>3 DEF RunTask, Started
  <2>2. /\ ready' = ready \cup {serving[w]}
        /\ wpc[w] = "running" /\ wpc'[w] = "awake"
        /\ \A v \in workers \ {w} : wpc'[v] = wpc[v]
    BY <1>0, <1>3 DEF RunTask, TypeOK
  <2>3. ASSUME NEW i \in 1 .. Started
        PROVE  accepted[i] \in ready' \/ \E v \in workers : Running(v, accepted[i])'
    <3>1. CASE accepted[i] \in ready
      BY <2>2, <3>1
    <3>2. CASE \E v \in workers : Running(v, accepted[i])
      <4>1. PICK v \in workers : Running(v, accepted[i])
        BY <3>2
      <4> QED
        BY <2>1, <2>2, <4>1 DEF Running
    <3> QED
      BY <3>1, <3>2 DEF ServiceInv
  <2>4. \A v \in workers : wpc'[v] = "running" => wpc[v] = "running"
    BY <2>2
  <2>5. \E i \in 1 .. Started : serving[w] = accepted[i]
    BY <2>2 DEF ServiceInv
  <2> QED
    BY <2>1, <2>2, <2>3, <2>4, <2>5 DEF ServiceInv, Running
<1>4. ASSUME UNCHANGED <<workers, tasks, accepted, serving, ready>>,
             \A w \in workers : wpc'[w] = "running" <=> wpc[w] = "running"
      PROVE  ServiceInv'
  BY <1>4 DEF ServiceInv, Running, Started
<1>5. ASSUME NEW c \in Clients, EnqueueThrows(c) \/ NotifyOne(c) \/ Get(c)
      PROVE  ServiceInv'
  BY <1>0, <1>4, <1>5 DEF EnqueueThrows, NotifyOne, Get, Waiters, TypeOK
<1>6. ASSUME NEW w \in workers, Sleep(w) \/ SpuriousWake(w) \/ Return(w)
      PROVE  ServiceInv'
  BY <1>0, <1>4, <1>6 DEF Sleep, SpuriousWake, Return, TypeOK
<1>7. CASE SetStop \/ NotifyAll \/ JoinAll \/ UNCHANGED vars
  BY <1>0, <1>4, <1>7 DEF SetStop, NotifyAll, JoinAll, Waiters, TypeOK, vars
<1> QED
  BY <1>1, <1>2, <1>3, <1>5, <1>6, <1>7
     DEF Next, ClientStep, WorkerStep, Terminated

THEOREM ServiceCorrect == Spec => []ServiceInv
<1>1. ASSUME Init PROVE ServiceInv
  <2>1. Started = 0 /\ ready = {}
    BY <1>1, EmptySeq DEF Init, Started
  <2>2. \A w \in workers : wpc[w] = "awake"
    BY <1>1, PoolAssumption DEF Init
  <2> QED
    BY <2>1, <2>2 DEF ServiceInv
<1>2. Init => ServiceInv
  BY <1>1
<1> QED
  BY <1>2, ServiceStep, TypeCorrect, HistoryCorrect, PTL DEF Spec

(* A running task is neither running elsewhere nor finished.               *)
RunsApart ==
  /\ \A v, w \in workers, t \in Task : Running(v, t) /\ Running(w, t) => v = w
  /\ \A w \in workers, t \in Task : Running(w, t) => t \notin ready

LEMMA RunsApartStep ==
  /\ TypeOK /\ HistoryInv /\ ServiceInv
  /\ RunsApart /\ [Next]_vars
  => RunsApart'
<1> SUFFICES ASSUME TypeOK, HistoryInv, ServiceInv, RunsApart, [Next]_vars
             PROVE  RunsApart'
  OBVIOUS
<1> USE DEF client, history
<1>0. Started \in 0 .. Len(accepted) /\ workers \subseteq Workers
  BY StartedNat DEF TypeOK
<1>1. ASSUME NEW w \in workers, Take(w) PROVE RunsApart'
  <2>1. UNCHANGED <<workers, ready>> /\ w \in Workers
    BY <1>0, <1>1 DEF Take
  <2>2. Head(tasks) = accepted[Started + 1] /\ Started + 1 \in 1 .. Len(accepted)
    <3>1. /\ Len(tasks) \in Nat \ {0} /\ Len(accepted) \in Nat
          /\ Head(tasks) = tasks[1]
      BY <1>1, TakeFacts, Lengths
    <3> QED
      BY <3>1 DEF HistoryInv, Started
  <2>3. /\ serving'[w] = accepted[Started + 1]
        /\ \A v \in workers \ {w} : wpc'[v] = wpc[v] /\ serving'[v] = serving[v]
    BY <1>0, <1>1, <2>2 DEF Take, TypeOK
  <2>4. \A i \in 1 .. Started : accepted[i] # accepted[Started + 1]
    BY <1>0, <2>2 DEF HistoryInv
  <2>5. \A v \in workers \ {w} : wpc[v] = "running" => serving[v] # serving'[w]
    BY <2>3, <2>4 DEF ServiceInv
  <2>6. serving'[w] \notin ready
    BY <2>3, <2>4 DEF ServiceInv
  <2> QED
    BY <2>1, <2>3, <2>5, <2>6 DEF RunsApart, Running
<1>2. ASSUME NEW w \in workers, RunTask(w) PROVE RunsApart'
  <2>1. UNCHANGED <<workers, serving>>
    BY <1>2 DEF RunTask
  <2>2. /\ ready' = ready \cup {serving[w]}
        /\ wpc[w] = "running" /\ wpc'[w] = "awake" /\ serving[w] \in Task
        /\ \A v \in workers \ {w} : wpc'[v] = wpc[v]
    BY <1>0, <1>2 DEF RunTask, TypeOK
  <2> QED
    BY <2>1, <2>2 DEF RunsApart, Running
<1>3. ASSUME UNCHANGED <<workers, serving, ready>>,
             \A w \in workers : wpc'[w] = "running" <=> wpc[w] = "running"
      PROVE  RunsApart'
  BY <1>3 DEF RunsApart, Running
<1>4. ASSUME NEW c \in Clients,
             Enqueue(c) \/ EnqueueThrows(c) \/ NotifyOne(c) \/ Get(c)
      PROVE  RunsApart'
  BY <1>0, <1>3, <1>4 DEF Enqueue, EnqueueThrows, NotifyOne, Get, Waiters, TypeOK
<1>5. ASSUME NEW w \in workers, Sleep(w) \/ SpuriousWake(w) \/ Return(w)
      PROVE  RunsApart'
  BY <1>0, <1>3, <1>5 DEF Sleep, SpuriousWake, Return, TypeOK
<1>6. CASE SetStop \/ NotifyAll \/ JoinAll \/ UNCHANGED vars
  BY <1>0, <1>3, <1>6 DEF SetStop, NotifyAll, JoinAll, Waiters, TypeOK, vars
<1> QED
  BY <1>1, <1>2, <1>4, <1>5, <1>6 DEF Next, ClientStep, WorkerStep, Terminated

(* Every task runs at most once, however many workers compete for it.      *)
THEOREM TasksRunOnce == Spec => []RunsOnce
<1>1. ASSUME Init PROVE RunsApart
  <2>1. \A w \in workers : wpc[w] = "awake"
    BY <1>1, PoolAssumption DEF Init
  <2> QED
    BY <2>1 DEF RunsApart, Running
<1>2. ASSUME TypeOK, HistoryInv, ServiceInv, RunsApart PROVE RunsOnce
  <2>1. Started \in 0 .. Len(accepted) /\ Len(tasks) \in Nat /\ Len(accepted) \in Nat
    BY <1>2, StartedNat, Lengths
  <2>2. ASSUME NEW i \in 1 .. Len(tasks), NEW j \in 1 .. Started
        PROVE  tasks[i] # accepted[j]
    <3>1. Started + i \in 1 .. Len(accepted) /\ j \in 1 .. Len(accepted)
          /\ Started + i # j
      BY <2>1, Lengths, <1>2 DEF Started
    <3> QED
      BY <1>2, <3>1 DEF HistoryInv
  <2> QED
    BY <1>2, <2>2 DEF RunsOnce, RunsApart, ServiceInv, Running
<1>3. Init => RunsApart
  BY <1>1
<1>4. TypeOK /\ HistoryInv /\ ServiceInv /\ RunsApart => RunsOnce
  BY <1>2
<1> QED
  BY <1>3, <1>4, RunsApartStep, TypeCorrect, HistoryCorrect, ServiceCorrect, PTL
     DEF Spec

-----------------------------------------------------------------------------
(* The length of the queue.                                                *)

LEMMA QueueStep ==
  /\ TypeOK /\ StopInv /\ RunsOnce
  /\ QueueInv /\ QueueBounded /\ [Next]_vars
  => QueueInv' /\ QueueBounded'
<1> SUFFICES ASSUME TypeOK, StopInv, RunsOnce, QueueInv, QueueBounded, [Next]_vars
             PROVE  QueueInv' /\ QueueBounded'
  OBVIOUS
<1> USE DEF client, history
<1>0. /\ Len(tasks) \in Nat /\ workers \subseteq Workers
      /\ \A i \in 1 .. Len(tasks) : tasks[i] \in Task /\ tasks[i].by \in Clients
  BY Lengths DEF TypeOK, Task
<1>1. ASSUME NEW c \in Clients, Enqueue(c) PROVE QueueInv' /\ QueueBounded'
  <2> DEFINE t == NextTask(c)
  <2>1. /\ t.by = c /\ Len(tasks') = Len(tasks) + 1
        /\ \A i \in 1 .. Len(tasks) : tasks'[i] = tasks[i]
        /\ tasks'[Len(tasks) + 1] = t
    BY <1>1, EnqueueFacts
  <2>2. cpc[c] = "out" /\ dpc # "gone" /\ dpc' = dpc
    BY <1>1 DEF Enqueue, StopInv
  <2>3. \A i \in 1 .. Len(tasks) : tasks[i].by # c
    BY <2>2 DEF QueueInv
  <2>4. /\ mine'[c] = t /\ cpc'[c] = "notify"
        /\ \A d \in Clients \ {c} : mine'[d] = mine[d] /\ cpc'[d] = cpc[d]
    BY <1>1 DEF Enqueue, TypeOK
  <2>5. \A i \in 1 .. Len(tasks) + 1 : i \in 1 .. Len(tasks) \/ i = Len(tasks) + 1
    BY <1>0
  <2> HIDE DEF t
  <2>6. QueueBounded'
    BY <2>1, <2>3, <2>5 DEF QueueBounded
  <2>7. QueueInv'
    BY <1>0, <2>1, <2>2, <2>3, <2>4, <2>5 DEF QueueInv
  <2> QED
    BY <2>6, <2>7
<1>2. ASSUME NEW c \in Clients, EnqueueThrows(c) PROVE QueueInv' /\ QueueBounded'
  <2>1. cpc[c] = "out" /\ dpc # "gone" /\ UNCHANGED <<tasks, cpc, dpc>>
    BY <1>2 DEF EnqueueThrows
  <2>2. \A i \in 1 .. Len(tasks) : tasks[i].by # c
    BY <2>1 DEF QueueInv
  <2>3. \A d \in Clients \ {c} : mine'[d] = mine[d]
    BY <1>2 DEF EnqueueThrows, TypeOK
  <2> QED
    BY <1>0, <2>1, <2>2, <2>3 DEF QueueInv, QueueBounded
<1>3. ASSUME NEW c \in Clients, NotifyOne(c) PROVE QueueInv' /\ QueueBounded'
  <2>1. UNCHANGED <<tasks, mine, dpc>> /\ cpc' = [cpc EXCEPT ![c] = "get"]
    BY <1>3 DEF NotifyOne
  <2> QED
    BY <1>0, <2>1 DEF QueueInv, QueueBounded, TypeOK
<1>4. ASSUME NEW c \in Clients, Get(c) PROVE QueueInv' /\ QueueBounded'
  <2>1. UNCHANGED <<tasks, mine, dpc>> /\ cpc' = [cpc EXCEPT ![c] = "out"]
    BY <1>4 DEF Get
  <2>2. mine[c] \in ready \/ dpc = "gone"
    BY <1>4 DEF Get
  <2>3. CASE dpc = "gone"
    BY <2>1, <2>3 DEF QueueInv, QueueBounded
  <2>4. CASE dpc # "gone"
    <3>1. \A i \in 1 .. Len(tasks) : tasks[i].by # c
      BY <2>2, <2>4 DEF QueueInv, RunsOnce
    <3> QED
      BY <1>0, <2>1, <3>1 DEF QueueInv, QueueBounded, TypeOK
  <2> QED
    BY <2>3, <2>4
<1>5. ASSUME NEW w \in workers, Take(w) PROVE QueueInv' /\ QueueBounded'
  <2>1. /\ Len(tasks) \in Nat \ {0} /\ Len(tasks') = Len(tasks) - 1
        /\ \A i \in 1 .. Len(tasks') : tasks'[i] = tasks[i + 1]
    BY <1>5, TakeFacts
  <2>2. \A i \in 1 .. Len(tasks') : i \in Nat /\ i + 1 \in 1 .. Len(tasks)
    BY <2>1
  <2>3. UNCHANGED <<cpc, mine, dpc>>
    BY <1>5 DEF Take
  <2>4. QueueInv'
    BY <2>1, <2>2, <2>3 DEF QueueInv
  <2>5. ASSUME NEW i \in 1 .. Len(tasks'), NEW j \in 1 .. Len(tasks'),
               tasks'[i].by = tasks'[j].by
        PROVE  i = j
    <3>1. i + 1 = j + 1
      BY <2>1, <2>2, <2>5 DEF QueueBounded
    <3> QED
      BY <2>2, <3>1
  <2> QED
    BY <2>4, <2>5 DEF QueueBounded
<1>6. CASE JoinAll
  BY <1>6 DEF JoinAll, QueueInv, QueueBounded
<1>7. CASE SetStop \/ NotifyAll
  BY <1>7 DEF SetStop, NotifyAll, QueueInv, QueueBounded
<1>8. CASE UNCHANGED <<tasks, cpc, mine, dpc>>
  BY <1>8 DEF QueueInv, QueueBounded
<1> QED
  BY <1>1, <1>2, <1>3, <1>4, <1>5, <1>6, <1>7, <1>8
     DEF Next, ClientStep, WorkerStep, Sleep, SpuriousWake, Return, RunTask,
         Terminated, vars

(* At most one task of each logging thread is queued.                      *)
THEOREM QueueIsBounded == Spec => []QueueBounded
<1>1. Init => QueueInv /\ QueueBounded
  BY EmptySeq DEF Init, QueueInv, QueueBounded
<1> QED
  BY <1>1, QueueStep, TypeCorrect, StopCorrect, TasksRunOnce, PTL DEF Spec

-----------------------------------------------------------------------------
(* ThreadPool implements Executor.                                         *)

(* The refinement mapping.                                                 *)
Finished == {i \in 1 .. Len(accepted) : accepted[i] \in ready}
Closed == workers # {} /\ dpc = "gone"

LEMMA ExecutorInit == Init => Exec!Init
BY EmptySeq DEF Init, Exec!Init, Started

LEMMA ExecutorStep ==
  /\ TypeOK /\ StopInv /\ HistoryInv /\ ServiceInv /\ RunsOnce
  /\ [Next]_vars
  => [Exec!Next]_Exec!vars
<1> SUFFICES ASSUME TypeOK, StopInv, HistoryInv, ServiceInv, RunsOnce, [Next]_vars
             PROVE  Exec!Next \/ UNCHANGED <<accepted, Started, Finished, Closed>>
  BY DEF Exec!vars, Finished, Closed
<1> USE DEF client, history
<1>0. /\ Started \in 0 .. Len(accepted) /\ workers \subseteq Workers
      /\ Len(tasks) \in Nat /\ Len(accepted) \in Nat
  BY StartedNat, Lengths DEF TypeOK
<1>1. ASSUME NEW c \in Clients, Enqueue(c) PROVE Exec!Next
  <2> DEFINE t == NextTask(c)
  <2>1. /\ t \in Task /\ t.by = c /\ t.no = mine[c].no + 1 /\ mine[c].no \in Nat
        /\ Len(tasks') = Len(tasks) + 1 /\ Len(accepted') = Len(accepted) + 1
        /\ \A i \in 1 .. Len(accepted) : accepted'[i] = accepted[i]
        /\ accepted'[Len(accepted) + 1] = t
    BY <1>1, EnqueueFacts
  <2>2. accepted' = Append(accepted, t) /\ UNCHANGED <<workers, dpc, ready>>
    BY <1>1 DEF Enqueue
  <2>3. ~Closed /\ Closed' = Closed
    BY <1>1, <2>2 DEF Enqueue, StopInv, Closed
  <2>4. Started' = Started
    BY <1>0, <2>1 DEF Started
  <2>5. t \notin ready
    <3>1. \A i \in 1 .. Len(accepted) : accepted[i].no \in Nat /\ accepted[i] \in Task
      BY Lengths DEF Task
    <3>2. \A i \in 1 .. Len(accepted) : accepted[i] # t
      BY <2>1, <3>1 DEF HistoryInv
    <3>3. \A i \in 1 .. Started : i \in 1 .. Len(accepted)
      BY <1>0
    <3> QED
      BY <3>2, <3>3 DEF ServiceInv
  <2>6. \A i : i \in 1 .. Len(accepted') <=>
                 i \in 1 .. Len(accepted) \/ i = Len(accepted) + 1
    BY <1>0, <2>1
  <2> HIDE DEF t
  <2>7. Finished' = Finished
    BY <1>0, <2>1, <2>2, <2>5, <2>6 DEF Finished
  <2>8. Exec!Submit(t)
    BY <2>2, <2>3, <2>4, <2>7 DEF Exec!Submit, Finished, Closed
  <2> QED
    BY <2>1, <2>8 DEF Exec!Next
<1>2. ASSUME NEW w \in workers, Take(w) PROVE Exec!Next
  <2>1. /\ Len(tasks) \in Nat \ {0} /\ Len(tasks') = Len(tasks) - 1
    BY <1>2, TakeFacts
  <2>2. UNCHANGED <<workers, dpc, accepted, ready>>
    BY <1>2 DEF Take
  <2>3. Started' = Started + 1 /\ Started < Len(accepted)
    BY <1>0, <2>1, <2>2 DEF Started
  <2>4. Exec!Start
    BY <2>2, <2>3 DEF Exec!Start
  <2> QED
    BY <2>4 DEF Exec!Next
<1>3. ASSUME NEW w \in workers, RunTask(w) PROVE Exec!Next
  <2>1. /\ UNCHANGED <<workers, tasks, dpc, accepted>>
        /\ ready' = ready \cup {serving[w]} /\ wpc[w] = "running"
        /\ serving[w] \in Task
    BY <1>0, <1>3 DEF RunTask, TypeOK
  <2>2. PICK i \in 1 .. Started : serving[w] = accepted[i]
    BY <2>1 DEF ServiceInv
  <2>3. i \in 1 .. Len(accepted)
    BY <1>0
  <2>4. serving[w] \notin ready
    BY <2>1 DEF RunsOnce, Running
  <2>5. \A j \in 1 .. Len(accepted) : accepted[j] = serving[w] <=> j = i
    BY <2>2, <2>3 DEF HistoryInv
  <2>6. i \notin Finished /\ Finished' = Finished \cup {i}
    BY <2>1, <2>2, <2>3, <2>4, <2>5 DEF Finished
  <2>7. Exec!Finish(i)
    BY <2>1, <2>6 DEF Exec!Finish, Finished, Started
  <2> QED
    BY <2>7 DEF Exec!Next
<1>4. CASE JoinAll
  <2>1. UNCHANGED <<workers, tasks, accepted, ready>> /\ dpc' = "gone"
    BY <1>4 DEF JoinAll
  <2>2. CASE workers = {}
    BY <2>1, <2>2 DEF Started, Finished, Closed
  <2>3. CASE workers # {}
    <3>1. tasks = <<>> /\ \A w \in workers : wpc[w] = "exited"
      BY <1>4, <2>3 DEF JoinAll, StopInv
    <3>2. Started = Len(accepted)
      BY <1>0, <3>1, Lengths DEF Started
    <3>3. \A i \in 1 .. Len(accepted) : accepted[i] \in ready
      BY <3>1, <3>2 DEF ServiceInv, Running
    <3>4. Finished = 1 .. Len(accepted)
      BY <3>3 DEF Finished
    <3>5. Exec!Close
      BY <2>1, <2>3, <3>4 DEF Exec!Close, Finished, Started
    <3> QED
      BY <3>5 DEF Exec!Next
  <2> QED
    BY <2>2, <2>3
<1>5. CASE SetStop \/ NotifyAll
  BY <1>5 DEF SetStop, NotifyAll, StopInv, Started, Finished, Closed
<1>6. CASE UNCHANGED <<workers, tasks, accepted, ready, dpc>>
  BY <1>6 DEF Started, Finished, Closed
<1> QED
  BY <1>1, <1>2, <1>3, <1>4, <1>5, <1>6
     DEF Next, ClientStep, WorkerStep, EnqueueThrows, NotifyOne, Get, Sleep,
         SpuriousWake, Return, Terminated, vars

(* A pool with at least one thread starts tasks in order, each once, and   *)
(* is joined only when every task it took has finished.                    *)
THEOREM ImplementsExecutor == Spec => ExecutorSpec
<1>1. /\ TypeOK /\ StopInv /\ HistoryInv /\ ServiceInv /\ RunsOnce
      /\ [Next]_vars
      => [Exec!Next]_Exec!vars
  BY ExecutorStep
<1>2. Spec => []TypeOK /\ []StopInv /\ []HistoryInv /\ []ServiceInv /\ []RunsOnce
  BY TypeCorrect, StopCorrect, HistoryCorrect, ServiceCorrect, TasksRunOnce
<1> QED
  BY ExecutorInit, <1>1, <1>2, PTL DEF Spec, ExecutorSpec, Exec!Spec
=============================================================================
