-------------------------- MODULE SyncLoggerProofs --------------------------
(***************************************************************************)
(* Theorems about SyncLogger and the Backup it composes, for any callers,  *)
(* records, limits, numbers of sinks, workers, retries and descriptors.    *)
(***************************************************************************)
EXTENDS SyncLogger, TLAPS

-----------------------------------------------------------------------------
(* The inductive invariant: the client's and the server's part.            *)

(* A job that has not got past connect has a retry left and no connection; *)
(* before its one write it has sent nothing.                               *)
JobInv ==
  \A j \in Jobs :
    /\ job[j] \in {"none", "queued", "connect"} => cnt[j] >= 1 /\ conn[j] = "none"
    /\ job[j] # "done" => sent[j] = 0
    /\ conn[j] = "read" => got[j] >= 1

(* A connection waits in one place of the queue.                           *)
QueueInv ==
  /\ \A i, k \in DOMAIN queue : queue[i] = queue[k] => i = k
  /\ \A i \in DOMAIN queue : conn[queue[i]] = "waiting"

(* What is in the file comes from a connection that is served for good.    *)
FileInv ==
  /\ SavedOnce
  /\ \A i \in DOMAIN file : conn[file[i].job] = "served"

BackupInv == BackupTypeOK /\ JobInv /\ QueueInv /\ FileInv

-----------------------------------------------------------------------------
(* The callers' part.                                                      *)

CallerTypes ==
  /\ limit_level \in Limits
  /\ pc \in [Callers -> {"out", "serialize", "get", "sink"}]
  /\ calls \in [Callers -> 0 .. MaxCalls]
  /\ level \in [Jobs -> Levels \cup {DEBUG}]
  /\ to \in [Callers -> (1 .. Sinks) \cup {1}]
  /\ tasks \in Seq(Jobs)
  /\ sunk \in [1 .. Sinks -> Seq(Jobs)]

(* A caller inside a call has a record, and sinks only once its backup is  *)
(* through.                                                                *)
CallInv ==
  \A c \in Callers :
    /\ pc[c] # "out" => Current(c) \in Jobs
    /\ pc[c] = "sink" => Sinks >= 1
    /\ pc[c] = "sink" /\ NeedsBackup(level[Current(c)]) => job[Current(c)] = "done"

(* Records that have not been made yet are nowhere.                        *)
MadeInv ==
  /\ \A j \in Jobs : j[2] > calls[j[1]] => job[j] = "none"
  /\ \A s \in 1 .. Sinks : \A i \in DOMAIN sunk[s] : sunk[s][i][2] <= calls[sunk[s][i][1]]

CallerInv == CallerTypes /\ CallInv /\ MadeInv /\ BackedUpFirst

IInv == BackupInv /\ CallerInv /\ fault \in {"none", "overrun", "vasprintf"}

LEMMA JobFacts ==
  ASSUME NEW j \in Jobs
  PROVE  j[1] \in Callers /\ j[2] \in Nat /\ j = <<j[1], j[2]>>
BY SyncLoggerAssumption

LEMMA SequenceFacts ==
  ASSUME BackupTypeOK
  PROVE  /\ \A i \in DOMAIN queue : queue[i] \in Jobs
         /\ \A i \in DOMAIN file : file[i] \in Entry
         /\ \A i \in DOMAIN file : file[i].job \in Jobs /\ file[i].len \in Nat
<1>1. queue \in Seq(Jobs) /\ file \in Seq(Entry)
  BY DEF BackupTypeOK
<1>2. \A i \in DOMAIN file : file[i] \in Entry
  BY <1>1
<1> QED
  BY <1>1, <1>2 DEF Entry

LEMMA InitInv == Init => IInv
<1> SUFFICES ASSUME Init PROVE IInv
  OBVIOUS
<1>1. BackupTypeOK
  <2>1. Retries \in 0 .. Retries /\ 0 \in 0 .. MaxFds /\ 0 \in 0 .. MaxStops /\ 0 <= Backlog
    BY BackupAssumption
  <2>2. queue \in Seq(Jobs) /\ Len(queue) = 0 /\ file \in Seq(Entry)
    BY DEF Init, BackupInit
  <2>3. sent \in [Jobs -> Nat] /\ arrived \in [Jobs -> Nat] /\ got \in [Jobs -> Nat]
    BY DEF Init, BackupInit
  <2>4. \A j \in Jobs : got[j] <= arrived[j] /\ arrived[j] <= sent[j] /\ sent[j] <= len[j]
    BY DEF Init, BackupInit
  <2> QED
    BY <2>1, <2>2, <2>3, <2>4 DEF Init, BackupInit, BackupTypeOK
<1>2. JobInv /\ QueueInv /\ FileInv
  BY BackupAssumption DEF Init, BackupInit, JobInv, QueueInv, FileInv, SavedOnce
<1>3. CallerTypes
  BY SyncLoggerAssumption DEF Init, CallerTypes
<1>4. CallInv /\ BackedUpFirst
  BY DEF Init, CallInv, BackedUpFirst
<1>5. MadeInv
  BY DEF Init, BackupInit, MadeInv
<1>6. fault = "none"
  BY DEF Init, BackupInit
<1> QED
  BY <1>1, <1>2, <1>3, <1>4, <1>5, <1>6 DEF IInv, BackupInv, CallerInv

-----------------------------------------------------------------------------
(* The steps of a backup keep the backup's part, whoever calls it.         *)

LEMMA StartBackupInv ==
  ASSUME BackupInv, NEW j \in Jobs, StartBackup(j)
  PROVE  BackupInv'
BY DEF StartBackup, Goto, serverVars, BackupInv, BackupTypeOK, JobInv, QueueInv, FileInv, SavedOnce

LEMMA ConnectInv ==
  ASSUME BackupInv, NEW j \in Jobs, Connect(j)
  PROVE  BackupInv'
<1>1. conn[j] = "none" /\ sent[j] = 0 /\ Len(queue) < Backlog
  BY DEF Connect, Connects, Reachable, BackupInv, JobInv
<1>2. /\ queue' = Append(queue, j) /\ queue \in Seq(Jobs)
      /\ conn' = [conn EXCEPT ![j] = "waiting"] /\ job' = [job EXCEPT ![j] = "write"]
  BY DEF Connect, Becomes, Goto, BackupInv, BackupTypeOK
<1>3. UNCHANGED <<client, sock, cnt, len, sent, up, arrived, got, fds, file, stops>>
  BY DEF Connect
<1>4. BackupTypeOK'
  <2>1. queue' \in Seq(Jobs) /\ Len(queue') = Len(queue) + 1
    BY <1>2
  <2>2. Len(queue') <= Backlog
    BY <1>1, <1>2, <2>1, BackupAssumption
  <2> QED
    BY <1>2, <1>3, <2>1, <2>2 DEF BackupInv, BackupTypeOK
<1>5. JobInv'
  <2> SUFFICES ASSUME NEW k \in Jobs
               PROVE  /\ job'[k] \in {"none", "queued", "connect"} => cnt'[k] >= 1 /\ conn'[k] = "none"
                      /\ job'[k] # "done" => sent'[k] = 0
                      /\ conn'[k] = "read" => got'[k] >= 1
    BY DEF JobInv
  <2>1. CASE k = j
    BY <1>1, <1>2, <1>3, <2>1 DEF BackupInv, BackupTypeOK
  <2>2. CASE k # j
    BY <1>2, <1>3, <2>2 DEF BackupInv, BackupTypeOK, JobInv
  <2> QED
    BY <2>1, <2>2
<1>6. QueueInv'
  <2>1. \A i \in DOMAIN queue : queue[i] # j
    BY <1>1 DEF BackupInv, QueueInv
  <2>2. DOMAIN queue' = DOMAIN queue \cup {Len(queue) + 1} /\ queue'[Len(queue) + 1] = j
        /\ \A i \in DOMAIN queue : queue'[i] = queue[i]
    BY <1>2
  <2> QED
    <3>1. \A i, k \in DOMAIN queue' : queue'[i] = queue'[k] => i = k
      BY <2>1, <2>2 DEF BackupInv, QueueInv
    <3>2. ASSUME NEW i \in DOMAIN queue' PROVE conn'[queue'[i]] = "waiting"
      <4>1. CASE i \in DOMAIN queue
        <5>1. queue'[i] = queue[i] /\ queue[i] \in Jobs /\ conn[queue[i]] = "waiting"
          BY <2>2, <4>1, SequenceFacts DEF BackupInv, QueueInv
        <5> QED
          BY <1>2, <5>1 DEF BackupInv, BackupTypeOK
      <4>2. CASE i = Len(queue) + 1
        BY <1>2, <2>2, <4>2 DEF BackupInv, BackupTypeOK
      <4> QED
        BY <2>2, <4>1, <4>2
    <3> QED
      BY <3>1, <3>2 DEF QueueInv
<1>7. FileInv'
  BY <1>1, <1>2, <1>3 DEF BackupInv, BackupTypeOK, FileInv, SavedOnce
<1> QED
  BY <1>4, <1>5, <1>6, <1>7 DEF BackupInv

LEMMA ConnectFailsInv ==
  ASSUME BackupInv, NEW j \in Jobs, ConnectFails(j)
  PROVE  BackupInv'
<1>1. /\ cnt[j] >= 1 /\ cnt' = [cnt EXCEPT ![j] = cnt[j] - 1] /\ job[j] = "connect"
      /\ IF cnt[j] = 1 THEN job' = [job EXCEPT ![j] = "write"] ELSE job' = job
  BY DEF ConnectFails, Goto, BackupInv, JobInv
<1>2. UNCHANGED <<client, sock, len, sent, serverVars>>
  BY DEF ConnectFails
<1>3. BackupTypeOK'
  <2>1. cnt' \in [Jobs -> 0 .. Retries]
    BY <1>1, BackupAssumption DEF BackupInv, BackupTypeOK
  <2>2. job' \in [Jobs -> {"none", "queued", "connect", "write", "done"}]
    BY <1>1 DEF BackupInv, BackupTypeOK
  <2> QED
    BY <1>2, <2>1, <2>2 DEF BackupInv, BackupTypeOK, serverVars
<1>4. JobInv'
  BY <1>1, <1>2 DEF BackupInv, BackupTypeOK, JobInv, serverVars
<1> QED
  BY <1>2, <1>3, <1>4 DEF BackupInv, QueueInv, FileInv, SavedOnce, serverVars

LEMMA WriteInv ==
  ASSUME BackupInv, NEW j \in Jobs, Write(j)
  PROVE  BackupInv'
<1>1. /\ sent[j] = 0 /\ job[j] = "write"
      /\ sent' = [sent EXCEPT ![j] = IF conn[j] = "broken" THEN 0 ELSE len[j]]
      /\ job' = [job EXCEPT ![j] = "done"]
  BY DEF Write, Return, Goto, BackupInv, JobInv
<1>2. /\ UNCHANGED <<client, len, serverVars>>
      /\ sock' = [sock EXCEPT ![j] = FALSE] /\ cnt' = [cnt EXCEPT ![j] = Retries]
  BY DEF Write, Return
<1>3. len[j] \in Nat /\ arrived[j] = 0 /\ got[j] = 0
  <2>1. len[j] \in Nat /\ arrived[j] \in Nat /\ got[j] \in Nat
    <3>1. Lens \cup {0} \subseteq Nat
      BY BackupAssumption
    <3> QED
      BY <3>1 DEF BackupInv, BackupTypeOK
  <2>2. got[j] <= arrived[j] /\ arrived[j] <= sent[j]
    BY DEF BackupInv, BackupTypeOK
  <2> QED
    BY <1>1, <2>1, <2>2
<1>4. BackupTypeOK'
  BY <1>1, <1>2, <1>3, BackupAssumption DEF BackupInv, BackupTypeOK, serverVars
<1>5. JobInv' /\ QueueInv'
  BY <1>1, <1>2 DEF BackupInv, BackupTypeOK, JobInv, QueueInv, serverVars
<1>6. \A i \in DOMAIN file : file[i].job # j
  BY <1>1 DEF BackupInv, FileInv, SavedOnce
<1>7. FileInv'
  <2>1. \A i \in DOMAIN file : file[i].job \in Jobs
    BY SequenceFacts DEF BackupInv
  <2> QED
    BY <1>1, <1>2, <1>6, <2>1 DEF BackupInv, BackupTypeOK, FileInv, SavedOnce, serverVars
<1> QED
  BY <1>4, <1>5, <1>7 DEF BackupInv

LEMMA WriteUnconnectedInv ==
  ASSUME BackupInv, NEW j \in Jobs, WriteUnconnected(j)
  PROVE  BackupInv'
BY DEF WriteUnconnected, BackupInv, BackupTypeOK, JobInv, QueueInv, FileInv, SavedOnce, serverVars

LEMMA WriteNowhereInv ==
  ASSUME BackupInv, NEW j \in Jobs, WriteNowhere(j)
  PROVE  BackupInv'
<1>1. /\ job[j] = "write" /\ job' = [job EXCEPT ![j] = "done"]
      /\ sock' = [sock EXCEPT ![j] = FALSE] /\ cnt' = [cnt EXCEPT ![j] = Retries]
      /\ UNCHANGED <<client, len, sent, serverVars>>
  BY DEF WriteNowhere, Return, Goto
<1>2. BackupTypeOK'
  BY <1>1, BackupAssumption DEF BackupInv, BackupTypeOK, serverVars
<1>3. JobInv'
  BY <1>1 DEF BackupInv, BackupTypeOK, JobInv, serverVars
<1> QED
  BY <1>1, <1>2, <1>3 DEF BackupInv, QueueInv, FileInv, SavedOnce, serverVars

-----------------------------------------------------------------------------
(* The steps of the network and of the server keep it too.                 *)

(* A connection that has left the queue changes its state, while clients,  *)
(* queue and file stay as they are.                                        *)
LEMMA ServiceStep ==
  ASSUME BackupInv, NEW j \in Jobs, NEW s \in {"accepted", "read", "served", "unread"},
         conn[j] \in {"accepted", "read"},
         conn' = [conn EXCEPT ![j] = s],
         s = "read" => got'[j] >= 1,
         \A k \in Jobs \ {j} : got'[k] = got[k],
         UNCHANGED <<clientVars, queue>>
  PROVE  JobInv' /\ QueueInv' /\ \A i \in DOMAIN file : file[i].job # j
<1>1. conn \in [Jobs -> {"none", "waiting", "accepted", "read",
                     "served", "unserved", "unread", "broken"}]
  BY DEF BackupInv, BackupTypeOK
<1>2. JobInv'
  BY <1>1 DEF BackupInv, JobInv, clientVars
<1>3. QueueInv'
  BY <1>1, SequenceFacts DEF BackupInv, QueueInv
<1>4. \A i \in DOMAIN file : file[i].job # j
  BY DEF BackupInv, FileInv
<1> QED
  BY <1>2, <1>3, <1>4

LEMMA AcceptInv ==
  ASSUME BackupInv, NEW s \in {"accepted", "unserved"}, AcceptAs(s)
  PROVE  BackupInv'
<1> DEFINE h == Head(queue)
<1>1. queue \in Seq(Jobs) /\ queue # <<>> /\ Len(queue) <= Backlog
  BY DEF AcceptAs, BackupInv, BackupTypeOK
<1>2. h = queue[1] /\ 1 \in DOMAIN queue /\ h \in Jobs
  BY <1>1
<1>3. conn[h] = "waiting"
  BY <1>2 DEF BackupInv, QueueInv
<1>4. /\ queue' = Tail(queue) /\ conn' = [conn EXCEPT ![h] = s] /\ fds' = fds + 1
      /\ UNCHANGED <<clientVars, up, arrived, got, file, stops>> /\ fds < MaxFds
  BY DEF AcceptAs, Becomes
<1>5. /\ Tail(queue) \in Seq(Jobs) /\ Len(Tail(queue)) = Len(queue) - 1
      /\ DOMAIN Tail(queue) = 1 .. Len(queue) - 1
      /\ \A i \in DOMAIN Tail(queue) : i + 1 \in DOMAIN queue /\ Tail(queue)[i] = queue[i + 1]
  BY <1>1
<1>6. BackupTypeOK'
  <2>1. Len(Tail(queue)) <= Backlog
    BY <1>1, <1>5, BackupAssumption
  <2>2. fds + 1 \in 0 .. MaxFds
    BY <1>4, BackupAssumption DEF BackupInv, BackupTypeOK
  <2> QED
    BY <1>2, <1>4, <1>5, <2>1, <2>2 DEF BackupInv, BackupTypeOK, clientVars
<1>7. JobInv'
  BY <1>2, <1>3, <1>4 DEF BackupInv, BackupTypeOK, JobInv, clientVars
<1>8. QueueInv'
  <2>1. \A i, k \in DOMAIN Tail(queue) : Tail(queue)[i] = Tail(queue)[k] => i = k
    BY <1>1, <1>5 DEF BackupInv, QueueInv
  <2>2. ASSUME NEW i \in DOMAIN Tail(queue)
        PROVE  conn'[Tail(queue)[i]] = "waiting"
    <3>1. i + 1 \in DOMAIN queue /\ i + 1 # 1 /\ Tail(queue)[i] = queue[i + 1]
      BY <1>5
    <3>2. queue[i + 1] # h /\ queue[i + 1] \in Jobs /\ conn[queue[i + 1]] = "waiting"
      BY <1>2, <3>1, SequenceFacts DEF BackupInv, QueueInv
    <3> QED
      BY <1>4, <3>1, <3>2 DEF BackupInv, BackupTypeOK
  <2> QED
    BY <1>4, <2>1, <2>2 DEF QueueInv
<1>9. FileInv'
  <2>1. \A i \in DOMAIN file : file[i].job # h /\ file[i].job \in Jobs
    BY <1>3, SequenceFacts DEF BackupInv, FileInv
  <2> QED
    BY <1>4, <2>1 DEF BackupInv, BackupTypeOK, FileInv, SavedOnce, clientVars
<1> QED
  BY <1>6, <1>7, <1>8, <1>9 DEF BackupInv

LEMMA ArriveInv ==
  ASSUME BackupInv, NEW j \in Jobs, Arrive(j)
  PROVE  BackupInv'
<1>1. PICK n \in arrived[j] + 1 .. sent[j] : arrived' = [arrived EXCEPT ![j] = n]
  BY DEF Arrive
<1>2. arrived[j] \in Nat /\ sent[j] \in Nat /\ got[j] \in Nat /\ got[j] <= arrived[j]
  BY DEF BackupInv, BackupTypeOK
<1>3. n \in Nat /\ n <= sent[j] /\ got[j] <= n
  BY <1>1, <1>2
<1>4. UNCHANGED <<clientVars, up, queue, conn, got, fds, file, stops>>
  BY DEF Arrive
<1>5. BackupTypeOK'
  BY <1>1, <1>3, <1>4 DEF BackupInv, BackupTypeOK, clientVars
<1> QED
  BY <1>4, <1>5 DEF BackupInv, JobInv, QueueInv, FileInv, SavedOnce, clientVars

LEMMA ReadInv ==
  ASSUME BackupInv, NEW j \in Jobs, Read(j)
  PROVE  BackupInv'
<1>1. /\ conn[j] = "accepted" /\ arrived[j] \in 1 .. BufSize - 1
      /\ got' = [got EXCEPT ![j] = arrived[j]] /\ conn' = [conn EXCEPT ![j] = "read"]
      /\ UNCHANGED <<clientVars, up, queue, arrived, fds, file, stops>>
  BY DEF Read, Becomes
<1>2. arrived[j] \in Nat /\ arrived[j] >= 1
  BY <1>1, BackupAssumption DEF BackupInv, BackupTypeOK
<1>3. BackupTypeOK'
  BY <1>1, <1>2 DEF BackupInv, BackupTypeOK, clientVars
<1>4. got'[j] >= 1 /\ \A k \in Jobs \ {j} : got'[k] = got[k]
  BY <1>1, <1>2 DEF BackupInv, BackupTypeOK
<1>5. JobInv' /\ QueueInv' /\ \A i \in DOMAIN file : file[i].job # j
  BY <1>1, <1>4, ServiceStep
<1>6. FileInv'
  BY <1>1, <1>5, SequenceFacts DEF BackupInv, BackupTypeOK, FileInv, SavedOnce, clientVars
<1> QED
  BY <1>3, <1>5, <1>6 DEF BackupInv

LEMMA ReadNothingInv ==
  ASSUME BackupInv, NEW j \in Jobs, ReadNothing(j)
  PROVE  BackupInv'
<1>1. /\ conn[j] = "accepted" /\ conn' = [conn EXCEPT ![j] = "served"]
      /\ UNCHANGED <<clientVars, up, queue, arrived, got, fds, file, stops>>
  BY DEF ReadNothing, Becomes
<1>2. BackupTypeOK'
  BY <1>1 DEF BackupInv, BackupTypeOK, clientVars
<1>3. JobInv' /\ QueueInv' /\ \A i \in DOMAIN file : file[i].job # j
  BY <1>1, ServiceStep
<1>4. FileInv'
  BY <1>1, <1>3, SequenceFacts DEF BackupInv, BackupTypeOK, FileInv, SavedOnce, clientVars
<1> QED
  BY <1>2, <1>3, <1>4 DEF BackupInv

LEMMA ReadFailsInv ==
  ASSUME BackupInv, NEW j \in Jobs, ReadFails(j)
  PROVE  BackupInv'
<1>1. /\ conn[j] = "accepted" /\ conn' = [conn EXCEPT ![j] = "unread"]
      /\ UNCHANGED <<clientVars, up, queue, arrived, got, fds, file, stops>>
  BY DEF ReadFails, Becomes
<1>2. BackupTypeOK'
  BY <1>1 DEF BackupInv, BackupTypeOK, clientVars
<1>3. JobInv' /\ QueueInv' /\ \A i \in DOMAIN file : file[i].job # j
  BY <1>1, ServiceStep
<1>4. FileInv'
  BY <1>1, <1>3, SequenceFacts DEF BackupInv, BackupTypeOK, FileInv, SavedOnce, clientVars
<1> QED
  BY <1>2, <1>3, <1>4 DEF BackupInv

LEMMA BackupLogInv ==
  ASSUME BackupInv, NEW j \in Jobs, BackupLog(j)
  PROVE  BackupInv'
<1> DEFINE e == [job |-> j, len |-> got[j]]
<1>1. /\ conn[j] = "read" /\ conn' = [conn EXCEPT ![j] = "served"]
      /\ file' = Append(file, e)
      /\ UNCHANGED <<clientVars, up, queue, arrived, got, fds, stops>>
  BY DEF BackupLog, Becomes
<1>2. /\ got[j] \in Nat /\ arrived[j] \in Nat /\ sent[j] \in Nat
      /\ got[j] <= arrived[j] /\ arrived[j] <= sent[j] /\ got[j] >= 1
  BY <1>1 DEF BackupInv, BackupTypeOK, JobInv
<1>3. file \in Seq(Entry) /\ e \in Entry
  BY <1>2 DEF BackupInv, BackupTypeOK, Entry
<1>4. BackupTypeOK'
  BY <1>1, <1>3 DEF BackupInv, BackupTypeOK, clientVars
<1>5. JobInv' /\ QueueInv' /\ \A i \in DOMAIN file : file[i].job # j
  BY <1>1, ServiceStep
<1>6. /\ DOMAIN file' = DOMAIN file \cup {Len(file) + 1} /\ file'[Len(file) + 1] = e
      /\ \A i \in DOMAIN file : file'[i] = file[i]
  BY <1>1, <1>3
<1>7. SavedOnce'
  <2>1. \A i, k \in DOMAIN file' : file'[i].job = file'[k].job => i = k
    BY <1>5, <1>6 DEF BackupInv, FileInv, SavedOnce
  <2>2. \A i \in DOMAIN file' : file'[i].len \in 1 .. sent[file'[i].job]
    BY <1>2, <1>6 DEF BackupInv, FileInv, SavedOnce
  <2> QED
    BY <1>1, <2>1, <2>2 DEF SavedOnce, clientVars
<1>8. \A i \in DOMAIN file' : conn'[file'[i].job] = "served"
  BY <1>1, <1>6, SequenceFacts DEF BackupInv, BackupTypeOK, FileInv
<1> QED
  BY <1>4, <1>5, <1>7, <1>8 DEF BackupInv, FileInv

LEMMA DownInv ==
  ASSUME BackupInv, Down, UNCHANGED <<clientVars, arrived, got, file>>, stops' \in 0 .. MaxStops
  PROVE  BackupInv'
<1>1. /\ queue' = <<>> /\ fds' = 0 /\ up' = FALSE
      /\ conn' = [j \in Jobs |-> IF conn[j] \in {"waiting", "accepted", "read"}
                                 THEN "broken" ELSE conn[j]]
  BY DEF Down
<1>2. 0 \in 0 .. MaxFds /\ 0 <= Backlog
  BY BackupAssumption
<1>3. BackupTypeOK'
  <2>1. queue' \in Seq(Jobs) /\ Len(queue') <= Backlog
    BY <1>1, <1>2
  <2> QED
    BY <1>1, <1>2, <2>1 DEF BackupInv, BackupTypeOK, clientVars
<1>4. JobInv' /\ QueueInv'
  BY <1>1 DEF BackupInv, JobInv, QueueInv, clientVars
<1>5. FileInv'
  BY <1>1, SequenceFacts DEF BackupInv, FileInv, SavedOnce, clientVars
<1> QED
  BY <1>3, <1>4, <1>5 DEF BackupInv

LEMMA ServerInv ==
  ASSUME BackupInv, fault \in {"none", "overrun", "vasprintf"}, ServerStep
  PROVE  BackupInv' /\ fault' \in {"none", "overrun", "vasprintf"} /\ UNCHANGED clientVars
<1>1. CASE Accept \/ ThreadFails
  <2>1. PICK s \in {"accepted", "unserved"} : AcceptAs(s)
    BY <1>1 DEF Accept, ThreadFails
  <2> QED
    BY <2>1, AcceptInv DEF AcceptAs
<1>2. CASE \E j \in Jobs : Arrive(j)
  BY <1>2, ArriveInv DEF Arrive
<1>3. CASE \E j \in Jobs : Read(j)
  BY <1>3, ReadInv DEF Read
<1>4. CASE \E j \in Jobs : ReadNothing(j)
  BY <1>4, ReadNothingInv DEF ReadNothing
<1>5. CASE \E j \in Jobs : ReadOverruns(j)
  BY <1>5 DEF ReadOverruns, clientVars, serverVars, BackupInv, BackupTypeOK, JobInv,
     QueueInv, FileInv, SavedOnce
<1>6. CASE \E j \in Jobs : BackupLog(j)
  BY <1>6, BackupLogInv DEF BackupLog
<1>7. CASE \E j \in Jobs : BackupLogFails(j)
  <2>1. stops' \in 0 .. MaxStops
    BY <1>7 DEF BackupLogFails, BackupInv, BackupTypeOK
  <2> QED
    BY <1>7, <2>1, DownInv DEF BackupLogFails
<1>8. CASE ServerStarts
  BY <1>8 DEF ServerStarts, clientVars, BackupInv, BackupTypeOK, JobInv, QueueInv, FileInv, SavedOnce
<1>9. CASE ServerStops
  <2>1. stops' \in 0 .. MaxStops
    BY <1>9, BackupAssumption DEF ServerStops, BackupInv, BackupTypeOK
  <2> QED
    BY <1>9, <2>1, DownInv DEF ServerStops
<1>10. CASE \E j \in Jobs : ReadFails(j)
  BY <1>10, ReadFailsInv DEF ReadFails
<1> QED
  BY <1>1, <1>2, <1>3, <1>4, <1>5, <1>6, <1>7, <1>8, <1>9, <1>10
  DEF ServerStep, ServerThreads, Accidents, Service

-----------------------------------------------------------------------------
(* The callers' part, through the steps of pool, client and server.        *)

LEMMA WorkerInv ==
  ASSUME BackupInv, NEW j \in Jobs, StartBackup(j) \/ ClientStep(j)
  PROVE  /\ BackupInv' /\ fault' = fault
         /\ \A k \in Jobs : job[k] \in {"none", "done"} => job'[k] = job[k]
<1>1. BackupInv' /\ fault' = fault
  BY StartBackupInv, ConnectInv, ConnectFailsInv, WriteInv, WriteUnconnectedInv, WriteNowhereInv
  DEF ClientStep, StartBackup, Connect, ConnectFails, Write, WriteUnconnected, WriteNowhere
<1>2. \A k \in Jobs : job[k] \in {"none", "done"} => job'[k] = job[k]
  BY DEF StartBackup, ClientStep, Connect, ConnectFails, Write, WriteUnconnected, WriteNowhere,
     Return, Goto, BackupInv, BackupTypeOK
<1> QED
  BY <1>1, <1>2

LEMMA CurrentInJobs ==
  ASSUME CallerInv, NEW c \in Callers, pc[c] # "out"
  PROVE  Current(c) \in Jobs
BY DEF CallerInv, CallInv

LEMMA CallersAside ==
  ASSUME CallerInv, UNCHANGED callers, tasks' \in Seq(Jobs),
         \A k \in Jobs : job[k] \in {"none", "done"} => job'[k] = job[k]
  PROVE  CallerInv'
<1>1. UNCHANGED <<limit_level, pc, calls, level, to, sunk>>
  BY DEF callers
<1>2. \A s \in 1 .. Sinks : \A i \in DOMAIN sunk[s] : sunk[s][i] \in Jobs
  <2>1. sunk \in [1 .. Sinks -> Seq(Jobs)]
    BY DEF CallerInv, CallerTypes
  <2> QED
    BY <2>1
<1>3. CallerTypes'
  BY <1>1 DEF CallerInv, CallerTypes
<1>4. CallInv'
  BY <1>1 DEF CallerInv, CallInv, Current
<1>5. MadeInv'
  BY <1>1 DEF CallerInv, MadeInv
<1>6. BackedUpFirst'
  BY <1>1, <1>2 DEF CallerInv, BackedUpFirst
<1> QED
  BY <1>3, <1>4, <1>5, <1>6 DEF CallerInv

-----------------------------------------------------------------------------
(* The callers' own steps.                                                 *)

(* A call of a level method makes a new record: nothing is known of it.    *)
LEMMA CallsInv ==
  ASSUME CallerInv, NEW c \in Callers, NEW lvl \in Levels, Calls(c, lvl),
         NEW place \in {"out", "serialize", "get", "sink"},
         pc' = [pc EXCEPT ![c] = place],
         place = "sink" => Sinks >= 1 /\ ~NeedsBackup(lvl),
         UNCHANGED <<limit_level, to, sunk>>, tasks' \in Seq(Jobs),
         \A k \in Jobs \ {Fresh(c)} : job'[k] = job[k]
  PROVE  CallerInv'
<1> DEFINE f == Fresh(c)
<1>1. /\ f \in Jobs /\ f = <<c, calls[c] + 1>> /\ f[1] = c /\ f[2] = calls[c] + 1
      /\ calls' = [calls EXCEPT ![c] = calls[c] + 1]
      /\ level' = [level EXCEPT ![f] = lvl]
  BY DEF Calls, Fresh
<1>2. /\ calls \in [Callers -> 0 .. MaxCalls] /\ level \in [Jobs -> Levels \cup {DEBUG}]
      /\ pc \in [Callers -> {"out", "serialize", "get", "sink"}]
      /\ \A s \in 1 .. Sinks : \A i \in DOMAIN sunk[s] : sunk[s][i] \in Jobs
      /\ MaxCalls \in Nat
  BY SyncLoggerAssumption DEF CallerInv, CallerTypes
<1>3. calls[c] + 1 \in 1 .. MaxCalls
  BY <1>1, SyncLoggerAssumption
<1>4. Current(c)' = f /\ \A d \in Callers \ {c} : Current(d)' = Current(d) /\ Current(d) # f
  BY <1>1, <1>2 DEF Current
<1>5. \A j \in Jobs : j[2] > calls'[j[1]] => j[2] > calls[j[1]] /\ j # f
  <2> SUFFICES ASSUME NEW j \in Jobs, j[2] > calls'[j[1]]
               PROVE  j[2] > calls[j[1]] /\ j # f
    OBVIOUS
  <2>1. j[1] \in Callers /\ j[2] \in Nat
    BY JobFacts
  <2> QED
    BY <1>1, <1>2, <2>1
<1>6. \A s \in 1 .. Sinks : \A i \in DOMAIN sunk[s] :
        sunk[s][i] # f /\ sunk[s][i][2] <= calls'[sunk[s][i][1]]
  <2> SUFFICES ASSUME NEW s \in 1 .. Sinks, NEW i \in DOMAIN sunk[s]
               PROVE  sunk[s][i] # f /\ sunk[s][i][2] <= calls'[sunk[s][i][1]]
    OBVIOUS
  <2>1. /\ sunk[s][i][1] \in Callers /\ sunk[s][i][2] \in Nat
        /\ sunk[s][i][2] <= calls[sunk[s][i][1]]
    BY <1>2, JobFacts DEF CallerInv, MadeInv
  <2> QED
    BY <1>1, <1>2, <2>1
<1>7. CallerTypes'
  BY <1>1, <1>2, <1>3 DEF CallerInv, CallerTypes
<1>8. CallInv'
  <2> SUFFICES ASSUME NEW d \in Callers
               PROVE  /\ pc'[d] # "out" => Current(d)' \in Jobs
                      /\ pc'[d] = "sink" => Sinks >= 1
                      /\ pc'[d] = "sink" /\ NeedsBackup(level'[Current(d)'])
                           => job'[Current(d)'] = "done"
    BY DEF CallInv, Current
  <2>1. CASE d = c
    BY <1>1, <1>2, <1>4, <2>1
  <2>2. CASE d # c
    <3>1. pc'[d] = pc[d] /\ Current(d)' = Current(d) /\ Current(d) # f
      BY <1>2, <1>4, <2>2
    <3>2. /\ pc[d] # "out" => Current(d) \in Jobs
          /\ pc[d] = "sink" => Sinks >= 1
          /\ pc[d] = "sink" /\ NeedsBackup(level[Current(d)]) => job[Current(d)] = "done"
      BY DEF CallerInv, CallInv
    <3> QED
      BY <1>1, <1>2, <3>1, <3>2
  <2> QED
    BY <2>1, <2>2
<1>9. MadeInv'
  BY <1>5, <1>6 DEF CallerInv, MadeInv
<1>10. BackedUpFirst'
  BY <1>1, <1>2, <1>6 DEF CallerInv, BackedUpFirst
<1> QED
  BY <1>7, <1>8, <1>9, <1>10 DEF CallerInv

LEMMA GetInv ==
  ASSUME CallerInv, NEW c \in Callers, Get(c)
  PROVE  CallerInv'
<1>1. /\ pc[c] = "get" /\ job[Current(c)] = "done"
      /\ pc' = [pc EXCEPT ![c] = IF Sinks = 0 THEN "out" ELSE "sink"]
      /\ UNCHANGED <<limit_level, calls, level, to, sunk, tasks, job>>
  BY DEF Get, ToSinks, At, clientVars
<1>2. Sinks \in Nat
  BY SyncLoggerAssumption
<1>3. CallerTypes'
  BY <1>1 DEF CallerInv, CallerTypes
<1>4. CallInv'
  <2> SUFFICES ASSUME NEW d \in Callers
               PROVE  /\ pc'[d] # "out" => Current(d) \in Jobs
                      /\ pc'[d] = "sink" => Sinks >= 1
                      /\ pc'[d] = "sink" /\ NeedsBackup(level[Current(d)])
                           => job[Current(d)] = "done"
    BY <1>1 DEF CallInv, Current
  <2>1. pc \in [Callers -> {"out", "serialize", "get", "sink"}]
    BY DEF CallerInv, CallerTypes
  <2>2. CASE d = c
    BY <1>1, <1>2, <2>1, <2>2, CurrentInJobs
  <2>3. CASE d # c
    BY <1>1, <2>1, <2>3 DEF CallerInv, CallInv
  <2> QED
    BY <2>2, <2>3
<1>5. MadeInv' /\ BackedUpFirst'
  BY <1>1 DEF CallerInv, MadeInv, BackedUpFirst
<1> QED
  BY <1>3, <1>4, <1>5 DEF CallerInv

LEMMA SinkInv ==
  ASSUME CallerInv, NEW c \in Callers, Sink(c)
  PROVE  CallerInv'
<1> DEFINE s == to[c]
           r == Current(c)
<1>1. /\ pc[c] = "sink"
      /\ sunk' = [sunk EXCEPT ![s] = Append(sunk[s], r)]
      /\ to' = [to EXCEPT ![c] = IF to[c] = Sinks THEN 1 ELSE to[c] + 1]
      /\ IF to[c] = Sinks THEN pc' = [pc EXCEPT ![c] = "out"] ELSE pc' = pc
      /\ UNCHANGED <<limit_level, calls, level, tasks, job>>
  BY DEF Sink, CallsSink, At, clientVars
<1>2. r \in Jobs /\ r = <<c, calls[c]>> /\ Sinks \in Nat /\ Sinks >= 1
  BY <1>1, CurrentInJobs, SyncLoggerAssumption DEF CallerInv, CallInv, Current
<1>3. NeedsBackup(level[r]) => job[r] = "done"
  BY <1>1 DEF CallerInv, CallInv
<1>4. s \in 1 .. Sinks /\ (to[c] # Sinks => to[c] + 1 \in 1 .. Sinks)
  BY <1>2 DEF CallerInv, CallerTypes
<1>5. sunk \in [1 .. Sinks -> Seq(Jobs)]
  BY DEF CallerInv, CallerTypes
<1>6. Append(sunk[s], r) \in Seq(Jobs)
  BY <1>2, <1>4, <1>5
<1>7. \A k \in 1 .. Sinks : \A i \in DOMAIN sunk'[k] :
        sunk'[k][i] = r \/ (i \in DOMAIN sunk[k] /\ sunk'[k][i] = sunk[k][i])
  <2> SUFFICES ASSUME NEW k \in 1 .. Sinks, NEW i \in DOMAIN sunk'[k]
               PROVE  sunk'[k][i] = r \/ (i \in DOMAIN sunk[k] /\ sunk'[k][i] = sunk[k][i])
    OBVIOUS
  <2>1. CASE k = s
    <3>1. sunk'[k] = Append(sunk[s], r) /\ sunk[s] \in Seq(Jobs)
      BY <1>1, <1>4, <1>5, <2>1
    <3> QED
      BY <2>1, <3>1
  <2>2. CASE k # s
    BY <1>1, <1>5, <2>2
  <2> QED
    BY <2>1, <2>2
<1>8. CallerTypes'
  BY <1>1, <1>2, <1>4, <1>5, <1>6 DEF CallerInv, CallerTypes
<1>9. CallInv'
  <2> SUFFICES ASSUME NEW d \in Callers
               PROVE  /\ pc'[d] # "out" => Current(d) \in Jobs
                      /\ pc'[d] = "sink" => Sinks >= 1
                      /\ pc'[d] = "sink" /\ NeedsBackup(level[Current(d)])
                           => job[Current(d)] = "done"
    BY <1>1 DEF CallInv, Current
  <2>1. pc'[d] = pc[d] \/ pc'[d] = "out"
    BY <1>1 DEF CallerInv, CallerTypes
  <2> QED
    BY <2>1 DEF CallerInv, CallInv
<1>10. MadeInv'
  <2>1. r[1] = c /\ r[2] = calls[c] /\ calls[c] \in 0 .. MaxCalls
    BY <1>2 DEF CallerInv, CallerTypes
  <2>2. \A k \in 1 .. Sinks : \A i \in DOMAIN sunk'[k] :
          sunk'[k][i][2] <= calls[sunk'[k][i][1]]
    BY <1>7, <2>1 DEF CallerInv, MadeInv
  <2> QED
    BY <1>1, <2>2 DEF CallerInv, MadeInv
<1>11. BackedUpFirst'
  BY <1>1, <1>3, <1>7 DEF CallerInv, BackedUpFirst
<1> QED
  BY <1>8, <1>9, <1>10, <1>11 DEF CallerInv

(* The record that is put into the queue of the pool has no job yet.       *)
LEMMA EnqueueInv ==
  ASSUME IInv, NEW c \in Callers, NEW lvl \in Levels, NEW n \in Lens, Enqueue(c, lvl, n)
  PROVE  IInv'
<1> DEFINE f == Fresh(c)
<1>1. /\ Calls(c, lvl) /\ f \in Jobs /\ f[1] = c /\ f[2] = calls[c] + 1
      /\ len' = [len EXCEPT ![f] = n] /\ job' = [job EXCEPT ![f] = "queued"]
      /\ tasks' = Append(tasks, f) /\ pc' = [pc EXCEPT ![c] = "get"]
      /\ UNCHANGED <<limit_level, to, sunk, client, sock, cnt, sent, serverVars, fault>>
  BY DEF Enqueue, Calls, Fresh, At
<1>2. job[f] = "none"
  <2>1. calls[c] \in 0 .. MaxCalls
    BY DEF IInv, CallerInv, CallerTypes
  <2> QED
    BY <1>1, <2>1 DEF IInv, CallerInv, MadeInv
<1>3. BackupTypeOK'
  <2>1. sent[f] = 0 /\ n \in Nat
    BY <1>1, <1>2, BackupAssumption DEF IInv, BackupInv, JobInv
  <2> QED
    BY <1>1, <2>1 DEF IInv, BackupInv, BackupTypeOK, serverVars
<1>4. JobInv'
  <2>1. cnt[f] >= 1 /\ conn[f] = "none" /\ sent[f] = 0
    BY <1>1, <1>2 DEF IInv, BackupInv, JobInv
  <2> QED
    BY <1>1, <2>1 DEF IInv, BackupInv, BackupTypeOK, JobInv, serverVars
<1>5. QueueInv' /\ FileInv'
  BY <1>1 DEF IInv, BackupInv, QueueInv, FileInv, SavedOnce, serverVars
<1>6. CallerInv'
  <2>1. tasks' \in Seq(Jobs)
    BY <1>1 DEF IInv, CallerInv, CallerTypes
  <2>2. \A k \in Jobs \ {Fresh(c)} : job'[k] = job[k]
    BY <1>1 DEF IInv, BackupInv, BackupTypeOK
  <2> QED
    BY <1>1, <2>1, <2>2, CallsInv DEF IInv
<1> QED
  BY <1>1, <1>3, <1>4, <1>5, <1>6 DEF IInv, BackupInv

LEMMA NextInv == IInv /\ [Next]_vars => IInv'
<1> SUFFICES ASSUME IInv, [Next]_vars PROVE IInv'
  OBVIOUS
<1>1. tasks \in Seq(Jobs) /\ Sinks \in Nat
  BY SyncLoggerAssumption DEF IInv, CallerInv, CallerTypes
<1>2. ASSUME UNCHANGED <<clientVars, serverVars>> PROVE BackupInv'
  BY <1>2 DEF clientVars, serverVars, IInv, BackupInv, BackupTypeOK, JobInv, QueueInv, FileInv, SavedOnce
<1>3. ASSUME NEW c \in Callers, NEW lvl \in Levels, LogBelow(c, lvl)
      PROVE  IInv'
  <2>1. pc' = [pc EXCEPT ![c] = "out"]
    BY <1>3 DEF LogBelow, Calls, IInv, CallerInv, CallerTypes
  <2> QED
    BY <1>1, <1>2, <1>3, <2>1, CallsInv DEF LogBelow, IInv, clientVars
<1>4. ASSUME NEW c \in Callers, NEW lvl \in Levels, VasprintfFails(c, lvl)
      PROVE  IInv'
  BY <1>1, <1>2, <1>4, CallsInv DEF VasprintfFails, At, IInv, clientVars
<1>5. ASSUME NEW c \in Callers, NEW lvl \in Levels, Log(c, lvl)
      PROVE  IInv'
  <2>1. CASE Sinks = 0
    BY <1>1, <1>2, <1>5, <2>1, CallsInv DEF Log, ToSinks, At, IInv, clientVars
  <2>2. CASE Sinks # 0
    <3>1. Sinks >= 1
      BY <1>1, <2>2
    <3>2. pc' = [pc EXCEPT ![c] = "sink"] /\ ~NeedsBackup(lvl) /\ Calls(c, lvl)
      BY <1>5, <2>2 DEF Log, ToSinks, At
    <3>3. UNCHANGED <<limit_level, to, sunk, tasks, clientVars, serverVars, fault>>
      BY <1>5 DEF Log
    <3>4. CallerInv'
      BY <1>1, <3>1, <3>2, <3>3, CallsInv DEF IInv, clientVars
    <3> QED
      BY <1>2, <3>3, <3>4 DEF IInv
  <2> QED
    BY <2>1, <2>2
<1>6. ASSUME NEW c \in Callers, CallerStep(c)
      PROVE  IInv'
  <2>1. CallerInv'
    BY <1>6, GetInv, SinkInv DEF CallerStep, IInv
  <2>2. UNCHANGED <<clientVars, serverVars, fault>>
    BY <1>6 DEF CallerStep, Get, Sink, CallsSink
  <2> QED
    BY <1>2, <2>1, <2>2 DEF IInv
<1>7. CASE TakeTask
  <2>1. Head(tasks) \in Jobs /\ tasks' \in Seq(Jobs) /\ UNCHANGED callers
    BY <1>1, <1>7 DEF TakeTask
  <2>2. StartBackup(Head(tasks))
    BY <1>7 DEF TakeTask
  <2>3. /\ BackupInv' /\ fault' = fault
        /\ \A k \in Jobs : job[k] \in {"none", "done"} => job'[k] = job[k]
    BY <2>1, <2>2, WorkerInv DEF IInv
  <2> QED
    BY <2>1, <2>3, CallersAside DEF IInv
<1>8. ASSUME NEW j \in Jobs, WorkerStep(j)
      PROVE  IInv'
  <2>1. /\ BackupInv' /\ fault' = fault
        /\ \A k \in Jobs : job[k] \in {"none", "done"} => job'[k] = job[k]
    BY <1>8, WorkerInv DEF WorkerStep, IInv
  <2> QED
    BY <1>1, <1>8, <2>1, CallersAside DEF WorkerStep, IInv
<1>9. CASE ServerStep /\ UNCHANGED <<callers, tasks>>
  <2>1. BackupInv' /\ fault' \in {"none", "overrun", "vasprintf"} /\ UNCHANGED clientVars
    BY <1>9, ServerInv DEF IInv
  <2>2. tasks' \in Seq(Jobs) /\ job' = job /\ UNCHANGED callers
    BY <1>1, <1>9, <2>1 DEF clientVars
  <2>3. CallerInv'
    BY <2>2, CallersAside DEF IInv
  <2> QED
    BY <2>1, <2>3 DEF IInv
<1>10. CASE UNCHANGED vars
  BY <1>1, <1>2, <1>10, CallersAside DEF vars, backupVars, clientVars, IInv
<1> QED
  BY <1>3, <1>4, <1>5, <1>6, <1>7, <1>8, <1>9, <1>10, EnqueueInv DEF Next

LEMMA Invariance == Spec => []IInv
BY InitInv, NextInv, PTL DEF Spec

-----------------------------------------------------------------------------
(* What the sinks have been given: the records that pass, each caller's in *)
(* the order of its calls, up to the one of the call it is in, which       *)
(* exactly the sinks before the next one have.                             *)
SunkInv ==
  \A s \in 1 .. Sinks :
    /\ \A i, k \in DOMAIN sunk[s] :
         i < k /\ sunk[s][i][1] = sunk[s][k][1] => sunk[s][i][2] < sunk[s][k][2]
    /\ Sunk(s) \subseteq Passing
    /\ \A j \in Passing \ Sunk(s) : j = Current(j[1]) /\ pc[j[1]] # "out"

InCallInv ==
  \A c \in Callers : pc[c] # "out" =>
    /\ level[Current(c)] >= limit_level
    /\ \A s \in 1 .. Sinks : Current(c) \in Sunk(s) <=> pc[c] = "sink" /\ s < to[c]

ToInv == \A c \in Callers : pc[c] # "sink" => to[c] = 1

DeliveryInv == SunkInv /\ InCallInv /\ ToInv

LEMMA SunkFacts ==
  ASSUME CallerInv
  PROVE  /\ \A s \in 1 .. Sinks : sunk[s] \in Seq(Jobs)
         /\ \A s \in 1 .. Sinks : \A i \in DOMAIN sunk[s] : sunk[s][i] \in Jobs /\ sunk[s][i] \in Sunk(s)
         /\ \A s \in 1 .. Sinks : \A j \in Sunk(s) : \E i \in DOMAIN sunk[s] : j = sunk[s][i]
         /\ \A s \in 1 .. Sinks : \A j \in Sunk(s) : j \in Jobs
<1>1. sunk \in [1 .. Sinks -> Seq(Jobs)]
  BY DEF CallerInv, CallerTypes
<1>2. \A s \in 1 .. Sinks : \A i \in DOMAIN sunk[s] : sunk[s][i] \in Jobs
  BY <1>1
<1> QED
  BY <1>1, <1>2 DEF Sunk, Range

(* A call of a level method makes a record no sink has.                    *)
LEMMA CallsDelivery ==
  ASSUME CallerInv, DeliveryInv, NEW c \in Callers, NEW lvl \in Levels, Calls(c, lvl),
         NEW place \in {"out", "serialize", "get", "sink"},
         pc' = [pc EXCEPT ![c] = place],
         place # "out" => lvl >= limit_level,
         place = "out" => lvl < limit_level \/ Sinks = 0,
         UNCHANGED <<limit_level, to, sunk>>
  PROVE  DeliveryInv'
<1> DEFINE f == Fresh(c)
<1>1. /\ f \in Jobs /\ f = <<c, calls[c] + 1>> /\ f[1] = c /\ f[2] = calls[c] + 1
      /\ pc[c] = "out"
      /\ calls' = [calls EXCEPT ![c] = calls[c] + 1]
      /\ level' = [level EXCEPT ![f] = lvl]
  BY DEF Calls, Fresh
<1>2. /\ calls \in [Callers -> 0 .. MaxCalls] /\ level \in [Jobs -> Levels \cup {DEBUG}]
      /\ pc \in [Callers -> {"out", "serialize", "get", "sink"}]
  BY DEF CallerInv, CallerTypes
<1>3. Current(c)' = f /\ \A d \in Callers \ {c} : Current(d)' = Current(d) /\ Current(d) # f
  BY <1>1, <1>2 DEF Current
<1>4. \A s \in 1 .. Sinks : Sunk(s)' = Sunk(s) /\ f \notin Sunk(s)
  <2>1. ASSUME NEW s \in 1 .. Sinks, NEW i \in DOMAIN sunk[s] PROVE sunk[s][i] # f
    BY <1>1, <1>2, <2>1 DEF CallerInv, MadeInv
  <2> QED
    BY <2>1, SunkFacts DEF Sunk
<1>5. \A j \in Jobs : j # f => (j \in Passing' <=> j \in Passing)
  <2> SUFFICES ASSUME NEW j \in Jobs, j # f
               PROVE  j \in Passing' <=> j \in Passing
    OBVIOUS
  <2>1. j[1] \in Callers /\ j[2] \in Nat /\ j = <<j[1], j[2]>>
    BY JobFacts
  <2>2. j[2] <= calls'[j[1]] <=> j[2] <= calls[j[1]]
    BY <1>1, <1>2, <2>1
  <2> QED
    BY <1>1, <1>2, <2>2 DEF Passing, Made
<1>6. f \in Passing' => place # "out" \/ Sinks = 0
  <2>1. level'[f] = lvl /\ limit_level \in Nat /\ lvl \in Nat
    BY <1>1, <1>2, SyncLoggerAssumption DEF CallerInv, CallerTypes, DEBUG, OFF
  <2> QED
    BY <2>1 DEF Passing
<1>7. SunkInv'
  <2> SUFFICES ASSUME NEW s \in 1 .. Sinks
               PROVE  /\ Sunk(s)' \subseteq Passing'
                      /\ \A j \in Passing' \ Sunk(s)' : j = Current(j[1])' /\ pc'[j[1]] # "out"
    BY DEF DeliveryInv, SunkInv, Current
  <2>1. Sunk(s)' \subseteq Passing'
    BY <1>4, <1>5, SunkFacts DEF DeliveryInv, SunkInv
  <2>2. ASSUME NEW j \in Passing' \ Sunk(s)'
        PROVE  j = Current(j[1])' /\ pc'[j[1]] # "out"
    <3>1. j \in Jobs /\ j[1] \in Callers
      BY JobFacts DEF Passing, Made
    <3>2. CASE j = f
      <4>1. place # "out"
        BY <1>6, <3>2
      <4> QED
        BY <1>1, <1>2, <1>3, <3>2, <4>1
    <3>3. CASE j # f
      <4>1. j \in Passing \ Sunk(s)
        BY <1>4, <1>5, <3>1, <3>3
      <4>2. j = Current(j[1]) /\ pc[j[1]] # "out"
        BY <4>1 DEF DeliveryInv, SunkInv
      <4>3. j[1] # c
        BY <1>1, <4>2
      <4> QED
        BY <1>2, <1>3, <3>1, <4>2, <4>3
    <3> QED
      BY <3>2, <3>3
  <2> QED
    BY <2>1, <2>2
<1>8. InCallInv'
  <2> SUFFICES ASSUME NEW d \in Callers, pc'[d] # "out"
               PROVE  /\ level'[Current(d)'] >= limit_level
                      /\ \A s \in 1 .. Sinks : Current(d)' \in Sunk(s)' <=> pc'[d] = "sink" /\ s < to[d]
    BY DEF InCallInv, Current
  <2>1. CASE d = c
    <3>1. to[c] = 1
      BY <1>1 DEF DeliveryInv, ToInv
    <3> QED
      BY <1>1, <1>2, <1>3, <1>4, <2>1, <3>1
  <2>2. CASE d # c
    <3>1. pc'[d] = pc[d] /\ Current(d)' = Current(d) /\ Current(d) # f /\ Current(d) \in Jobs
      BY <1>2, <1>3, <2>2 DEF CallerInv, CallInv
    <3> QED
      BY <1>1, <1>2, <1>4, <3>1 DEF DeliveryInv, InCallInv
  <2> QED
    BY <2>1, <2>2
<1>9. ToInv'
  BY <1>1, <1>2 DEF DeliveryInv, ToInv
<1> QED
  BY <1>7, <1>8, <1>9 DEF DeliveryInv

LEMMA GetDelivery ==
  ASSUME CallerInv, DeliveryInv, NEW c \in Callers, Get(c)
  PROVE  DeliveryInv'
<1>1. /\ pc[c] = "get"
      /\ pc' = [pc EXCEPT ![c] = IF Sinks = 0 THEN "out" ELSE "sink"]
      /\ UNCHANGED <<limit_level, calls, level, to, sunk>>
  BY DEF Get, ToSinks, At
<1>2. pc \in [Callers -> {"out", "serialize", "get", "sink"}] /\ Sinks \in Nat
  BY SyncLoggerAssumption DEF CallerInv, CallerTypes
<1>3. /\ Passing' = Passing /\ \A s \in 1 .. Sinks : Sunk(s)' = Sunk(s)
      /\ \A d \in Callers : Current(d)' = Current(d)
  BY <1>1 DEF Passing, Made, Sunk, Range, Current
<1>4. to[c] = 1
  BY <1>1 DEF DeliveryInv, ToInv
<1>5. SunkInv'
  <2>1. \A s \in 1 .. Sinks : \A d \in Callers : pc'[d] = "out" => pc[d] = "out"
    BY <1>1, <1>2
  <2>2. \A j \in Passing : j[1] \in Callers
    BY JobFacts DEF Passing, Made
  <2> QED
    BY <1>1, <1>3, <2>1, <2>2 DEF DeliveryInv, SunkInv
<1>6. InCallInv'
  <2> SUFFICES ASSUME NEW d \in Callers, pc'[d] # "out"
               PROVE  /\ level[Current(d)] >= limit_level
                      /\ \A s \in 1 .. Sinks : Current(d) \in Sunk(s) <=> pc'[d] = "sink" /\ s < to[d]
    BY <1>1, <1>3 DEF InCallInv
  <2>1. CASE d = c
    BY <1>1, <1>2, <1>4, <2>1 DEF DeliveryInv, InCallInv
  <2>2. CASE d # c
    BY <1>1, <1>2, <2>2 DEF DeliveryInv, InCallInv
  <2> QED
    BY <2>1, <2>2
<1>7. ToInv'
  BY <1>1, <1>2, <1>4 DEF DeliveryInv, ToInv
<1> QED
  BY <1>5, <1>6, <1>7 DEF DeliveryInv

(* One sink gets the record of a caller, and it is the newest of that      *)
(* caller there.                                                           *)
LEMMA SinkDelivery ==
  ASSUME CallerInv, DeliveryInv, NEW c \in Callers, Sink(c)
  PROVE  DeliveryInv'
<1>0. PICK t, r : t = to[c] /\ r = Current(c)
  OBVIOUS
<1>1. /\ pc[c] = "sink"
      /\ sunk' = [sunk EXCEPT ![t] = Append(sunk[t], r)]
      /\ to' = [to EXCEPT ![c] = IF to[c] = Sinks THEN 1 ELSE to[c] + 1]
      /\ IF to[c] = Sinks THEN pc' = [pc EXCEPT ![c] = "out"] ELSE pc' = pc
      /\ UNCHANGED <<limit_level, calls, level>>
  BY <1>0 DEF Sink, CallsSink, At
<1>2. /\ r \in Jobs /\ r = <<c, calls[c]>> /\ r[1] = c /\ r[2] = calls[c] /\ calls[c] \in Nat
      /\ Sinks \in Nat /\ Sinks >= 1
  BY <1>0, <1>1, CurrentInJobs, SyncLoggerAssumption DEF CallerInv, CallerTypes, CallInv, Current
<1>3. t \in 1 .. Sinks
  BY <1>0, <1>2 DEF CallerInv, CallerTypes
<1>4. /\ sunk \in [1 .. Sinks -> Seq(Jobs)] /\ to \in [Callers -> (1 .. Sinks) \cup {1}]
      /\ pc \in [Callers -> {"out", "serialize", "get", "sink"}]
  BY DEF CallerInv, CallerTypes
<1>5. r \in Passing /\ \A s \in 1 .. Sinks : r \in Sunk(s) <=> s < t
  <2>1. /\ level[Current(c)] >= limit_level
        /\ \A s \in 1 .. Sinks : Current(c) \in Sunk(s) <=> pc[c] = "sink" /\ s < to[c]
    BY <1>1 DEF DeliveryInv, InCallInv
  <2>2. r[2] <= calls[r[1]]
    BY <1>2
  <2> QED
    BY <1>0, <1>1, <1>2, <2>1, <2>2 DEF Passing, Made
<1>6. /\ Passing' = Passing /\ \A d \in Callers : Current(d)' = Current(d)
  BY <1>1 DEF Passing, Made, Current
<1>7. /\ \A s \in 1 .. Sinks : s # t => sunk'[s] = sunk[s] /\ Sunk(s)' = Sunk(s)
      /\ sunk'[t] = Append(sunk[t], r)
      /\ DOMAIN sunk'[t] = DOMAIN sunk[t] \cup {Len(sunk[t]) + 1}
      /\ sunk'[t][Len(sunk[t]) + 1] = r
      /\ \A i \in DOMAIN sunk[t] : sunk'[t][i] = sunk[t][i]
      /\ DOMAIN sunk[t] = 1 .. Len(sunk[t]) /\ Len(sunk[t]) \in Nat
  <2>1. sunk'[t] = Append(sunk[t], r) /\ sunk[t] \in Seq(Jobs)
    BY <1>1, <1>3, <1>4
  <2>2. \A s \in 1 .. Sinks : s # t => sunk'[s] = sunk[s]
    BY <1>1, <1>4
  <2> QED
    BY <1>2, <2>1, <2>2 DEF Sunk, Range
<1>8. Sunk(t)' = Sunk(t) \cup {r}
  BY <1>7 DEF Sunk, Range
<1>9. SunkInv'
  <2> SUFFICES ASSUME NEW s \in 1 .. Sinks
               PROVE  /\ \A i, k \in DOMAIN sunk'[s] :
                           i < k /\ sunk'[s][i][1] = sunk'[s][k][1] => sunk'[s][i][2] < sunk'[s][k][2]
                      /\ Sunk(s)' \subseteq Passing
                      /\ \A j \in Passing \ Sunk(s)' : j = Current(j[1]) /\ pc'[j[1]] # "out"
    <3>1. \A j \in Passing : j[1] \in Callers
      BY JobFacts DEF Passing, Made
    <3> QED
      BY <1>6, <3>1 DEF SunkInv
  <2>1. Sunk(s)' \subseteq Passing
    BY <1>5, <1>7, <1>8 DEF DeliveryInv, SunkInv
  <2>2. ASSUME NEW j \in Passing \ Sunk(s)'
        PROVE  j = Current(j[1]) /\ pc'[j[1]] # "out"
    <3>1. j \in Passing \ Sunk(s) /\ j = Current(j[1]) /\ pc[j[1]] # "out" /\ j[1] \in Callers
      BY <1>7, <1>8, JobFacts DEF DeliveryInv, SunkInv, Passing, Made
    <3>2. j[1] = c => to[c] # Sinks
      <4> SUFFICES ASSUME j[1] = c, to[c] = Sinks PROVE FALSE
        OBVIOUS
      <4>1. j = r /\ s # t /\ r \notin Sunk(s)
        BY <1>0, <1>7, <1>8, <3>1
      <4> QED
        BY <1>0, <1>2, <1>3, <1>5, <4>1
    <3> QED
      BY <1>1, <1>4, <3>1, <3>2
  <2>3. ASSUME NEW i \in DOMAIN sunk'[s], NEW k \in DOMAIN sunk'[s],
               i < k, sunk'[s][i][1] = sunk'[s][k][1]
        PROVE  sunk'[s][i][2] < sunk'[s][k][2]
    <3>1. CASE s # t
      BY <1>7, <2>3, <3>1 DEF DeliveryInv, SunkInv
    <3>2. CASE s = t /\ k \in DOMAIN sunk[t]
      <4>1. i \in DOMAIN sunk[t]
        BY <1>7, <2>3, <3>2
      <4> QED
        BY <1>3, <1>7, <2>3, <3>2, <4>1 DEF DeliveryInv, SunkInv
    <3>3. CASE s = t /\ k = Len(sunk[t]) + 1
      <4>1. i \in DOMAIN sunk[t] /\ sunk'[s][k] = r /\ sunk'[s][i] = sunk[t][i]
        BY <1>7, <2>3, <3>3
      <4> DEFINE j == sunk[t][i]
      <4>2. j \in Jobs /\ j \in Sunk(t) /\ j[1] = c /\ j[2] <= calls[c]
        BY <1>2, <1>3, <2>3, <4>1, SunkFacts DEF CallerInv, MadeInv
      <4>3. j # r
        BY <1>3, <1>5, <4>2
      <4>4. j = <<j[1], j[2]>> /\ j[2] \in Nat
        BY <4>2, JobFacts
      <4>5. j[2] # calls[c]
        BY <1>2, <4>2, <4>3, <4>4
      <4> QED
        BY <1>2, <4>1, <4>2, <4>4, <4>5
    <3> QED
      BY <1>7, <3>1, <3>2, <3>3
  <2> QED
    BY <2>1, <2>2, <2>3
<1>10. InCallInv'
  <2> SUFFICES ASSUME NEW d \in Callers, pc'[d] # "out"
               PROVE  /\ level[Current(d)] >= limit_level
                      /\ \A s \in 1 .. Sinks : Current(d) \in Sunk(s)' <=> pc'[d] = "sink" /\ s < to'[d]
    BY <1>1, <1>6 DEF InCallInv
  <2>1. CASE d = c
    <3>1. to[c] # Sinks /\ pc'[c] = "sink" /\ to'[c] = t + 1
      BY <1>0, <1>1, <1>4, <2>1
    <3>2. level[r] >= limit_level
      BY <1>5 DEF Passing
    <3>3. \A s \in 1 .. Sinks : r \in Sunk(s)' <=> s < t + 1
      BY <1>3, <1>5, <1>7, <1>8
    <3> QED
      BY <1>0, <2>1, <3>1, <3>2, <3>3
  <2>2. CASE d # c
    <3>1. pc'[d] = pc[d] /\ to'[d] = to[d]
      BY <1>1, <1>4, <2>2
    <3>2. Current(d) # r
      BY <1>0, <1>2, <2>2 DEF Current
    <3>3. \A s \in 1 .. Sinks : Current(d) \in Sunk(s)' <=> Current(d) \in Sunk(s)
      BY <1>7, <1>8, <3>2
    <3> QED
      BY <3>1, <3>3 DEF DeliveryInv, InCallInv
  <2> QED
    BY <2>1, <2>2
<1>11. ToInv'
  <2>1. to[c] = Sinks => to'[c] = 1
    BY <1>1, <1>4
  <2> QED
    BY <1>1, <1>4, <2>1 DEF DeliveryInv, ToInv
<1> QED
  BY <1>9, <1>10, <1>11 DEF DeliveryInv

LEMMA DeliveryAside ==
  ASSUME DeliveryInv, UNCHANGED callers
  PROVE  DeliveryInv'
BY DEF callers, DeliveryInv, SunkInv, InCallInv, ToInv, Sunk, Range, Passing, Made, Current

LEMMA DeliveryInit == Init => DeliveryInv
<1> SUFFICES ASSUME Init PROVE DeliveryInv
  OBVIOUS
<1>1. \A c \in Callers : pc[c] = "out" /\ to[c] = 1 /\ calls[c] = 0
  BY DEF Init
<1>2. Passing = {}
  BY <1>1, SyncLoggerAssumption DEF Passing, Made
<1>3. \A s \in 1 .. Sinks : sunk[s] = <<>> /\ Sunk(s) = {}
  BY DEF Init, Sunk, Range
<1> QED
  BY <1>1, <1>2, <1>3 DEF DeliveryInv, SunkInv, InCallInv, ToInv

LEMMA DeliveryNext == IInv /\ DeliveryInv /\ [Next]_vars => DeliveryInv'
<1> SUFFICES ASSUME IInv, DeliveryInv, [Next]_vars PROVE DeliveryInv'
  OBVIOUS
<1>1. CallerInv /\ Sinks \in Nat
  BY SyncLoggerAssumption DEF IInv
<1>2. ASSUME NEW c \in Callers, NEW lvl \in Levels,
             LogBelow(c, lvl) \/ VasprintfFails(c, lvl) \/ Log(c, lvl)
               \/ \E n \in Lens : Enqueue(c, lvl, n)
      PROVE  DeliveryInv'
  <2> DEFINE place == pc'[c]
  <2>1. Calls(c, lvl) /\ UNCHANGED <<limit_level, to, sunk>> /\ pc[c] = "out"
    BY <1>2 DEF LogBelow, VasprintfFails, Log, Enqueue, Calls
  <2>2. PICK p \in {"out", "serialize", "get", "sink"} :
          /\ pc' = [pc EXCEPT ![c] = p]
          /\ p # "out" => lvl >= limit_level
          /\ p = "out" => lvl < limit_level \/ Sinks = 0
    <3>1. CASE LogBelow(c, lvl)
      <4>1. pc' = [pc EXCEPT ![c] = "out"] /\ lvl < limit_level
        BY <1>1, <2>1, <3>1 DEF LogBelow, CallerInv, CallerTypes
      <4> QED
        BY <4>1
    <3>2. CASE VasprintfFails(c, lvl)
      BY <3>2 DEF VasprintfFails, At
    <3>3. CASE Log(c, lvl)
      BY <3>3 DEF Log, ToSinks, At
    <3>4. CASE \E n \in Lens : Enqueue(c, lvl, n)
      BY <3>4 DEF Enqueue, At
    <3> QED
      BY <1>2, <3>1, <3>2, <3>3, <3>4
  <2> QED
    BY <1>1, <2>1, <2>2, CallsDelivery
<1>3. ASSUME NEW c \in Callers, CallerStep(c) PROVE DeliveryInv'
  BY <1>1, <1>3, GetDelivery, SinkDelivery DEF CallerStep
<1>4. CASE UNCHANGED callers
  BY <1>4, DeliveryAside
<1>5. CASE TakeTask \/ \E j \in Jobs : WorkerStep(j)
  BY <1>4, <1>5 DEF TakeTask, WorkerStep
<1> QED
  BY <1>2, <1>3, <1>4, <1>5 DEF Next, vars

(* Every sink has the records a thread has logged at the limit or above,   *)
(* in the order of its calls and each once, but for the record of the call *)
(* it is in, which the first sinks have before the later ones              *)
(* (logger.hpp:32-139, 173-178).                                           *)
THEOREM SinksAlwaysAgree == Spec => []SinksAgree
<1>1. Spec => []DeliveryInv
  BY DeliveryInit, DeliveryNext, Invariance, PTL DEF Spec
<1>2. IInv /\ DeliveryInv => SinksAgree
  <2> SUFFICES ASSUME IInv, DeliveryInv, NEW s \in 1 .. Sinks, NEW k \in 1 .. s
               PROVE  Sunk(s) \subseteq Sunk(k)
    BY DEF SinksAgree, DeliveryInv, SunkInv
  <2>1. k \in 1 .. Sinks /\ k <= s /\ Sinks \in Nat
    BY SyncLoggerAssumption
  <2>2. ASSUME NEW j \in Sunk(s), j \notin Sunk(k) PROVE FALSE
    <3>1. j \in Passing /\ j = Current(j[1]) /\ pc[j[1]] # "out" /\ j[1] \in Callers
      BY <2>1, <2>2, JobFacts DEF DeliveryInv, SunkInv, Passing, Made
    <3>2. s < to[j[1]] /\ ~ (k < to[j[1]]) /\ to[j[1]] \in Nat
      <4>1. PICK c \in Callers : c = j[1] /\ j = Current(c)
        BY <3>1
      <4>2. \A i \in 1 .. Sinks : j \in Sunk(i) <=> pc[c] = "sink" /\ i < to[c]
        BY <3>1, <4>1 DEF DeliveryInv, InCallInv
      <4>3. to[c] \in Nat
        BY <2>1 DEF IInv, CallerInv, CallerTypes
      <4> QED
        BY <2>1, <2>2, <4>1, <4>2, <4>3
    <3> QED
      BY <2>1, <3>2
  <2> QED
    BY <2>2
<1> QED
  BY <1>1, <1>2, Invariance, PTL

-----------------------------------------------------------------------------
(* The variables of loggers, client and server range over the values the   *)
(* code gives them; what is read of a record has arrived, what has arrived *)
(* was sent, and no more is sent than the record has.                      *)
THEOREM TypeCorrect == Spec => []TypeOK
<1>1. IInv => TypeOK
  BY DEF IInv, BackupInv, CallerInv, CallerTypes, TypeOK
<1> QED
  BY <1>1, Invariance, PTL

(* No record is saved twice, and none longer than it was sent, whatever    *)
(* retries there are and however often the server goes down                *)
(* (cli_backlog.hpp:48-61, server.hpp:100-113).                            *)
THEOREM NothingSavedTwice == Spec => []SavedOnce
<1>1. IInv => SavedOnce
  BY DEF IInv, BackupInv, FileInv
<1> QED
  BY <1>1, Invariance, PTL

(* No ERROR or FATAL record reaches a sink before its backup has been      *)
(* tried to the end (logger.hpp:148-154).                                  *)
THEOREM AlwaysBackedUpFirst == Spec => []BackedUpFirst
<1>1. IInv => BackedUpFirst
  BY DEF IInv, CallerInv
<1> QED
  BY <1>1, Invariance, PTL
=============================================================================
