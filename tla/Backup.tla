------------------------------- MODULE Backup -------------------------------
(***************************************************************************)
(* The backup of one record after another: start_backup (cli_backlog.hpp), *)
(* which a worker of the pool runs as a job, the TCP connection it opens,  *)
(* and the server (server.hpp, server.cpp).                                *)
(*                                                                         *)
(* A job has a socket of its own, so the state of a connection is indexed  *)
(* by the job.  The datagram sent first goes to a port nobody reads        *)
(* and leaves no trace.  Lengths count bytes in units: BufSize of them are *)
(* the 1024 bytes of buf.                                                  *)
(***************************************************************************)
EXTENDS Naturals, Sequences, FiniteSets

CONSTANTS
  Jobs,      \* calls of start_backup
  Lens,      \* lengths of records
  BufSize,   \* sizeof(buf) in service
  Retries,   \* cnt in start_backup
  Backlog,   \* connections that may wait for accept
  MaxFds,    \* descriptors left to the server for connections and for its file
  MaxStops   \* bound: how often the server goes down

ASSUME BackupAssumption ==
  /\ Lens \subseteq Nat \ {0}
  /\ BufSize \in Nat \ {0} /\ Retries \in Nat \ {0}
  /\ Backlog \in Nat /\ MaxFds \in Nat /\ MaxStops \in Nat

VARIABLES
  client,   \* the logging process: running or killed
  job,      \* where each call of start_backup is
  sock,     \* whether each call has got its stream socket
  cnt,      \* cnt, of each call
  len,      \* length of the record of each job
  sent,     \* bytes write() took, of each connection
  up,       \* whether the server process runs
  queue,    \* connections that wait for accept
  conn,     \* the state of each connection at the server
  arrived,  \* bytes of each connection that have come to the server
  got,      \* bytes read() returned, of each connection
  fds,      \* descriptors of connections the server holds
  file,     \* entries of ./logfile.log: of which job, and how long
  stops,    \* how often the server has gone down
  fault     \* undefined behaviour that has happened, or "none"

clientVars == <<client, job, sock, cnt, len, sent>>
serverVars == <<up, queue, conn, arrived, got, fds, file, stops>>
backupVars == <<clientVars, serverVars, fault>>

Entry == [job : Jobs, len : Nat]

BackupTypeOK ==
  /\ client \in {"running", "killed"}
  /\ job \in [Jobs -> {"none", "queued", "connect", "write", "done"}]
  /\ sock \in [Jobs -> BOOLEAN]
  /\ cnt \in [Jobs -> 0 .. Retries]
  /\ len \in [Jobs -> Lens \cup {0}]
  /\ up \in BOOLEAN
  /\ queue \in Seq(Jobs) /\ Len(queue) <= Backlog
  /\ conn \in [Jobs -> {"none", "waiting", "accepted", "read",
                       "served", "unserved", "unread", "broken"}]
  /\ fds \in 0 .. MaxFds
  /\ file \in Seq(Entry)
  /\ stops \in 0 .. MaxStops
  /\ sent \in [Jobs -> Nat] /\ arrived \in [Jobs -> Nat] /\ got \in [Jobs -> Nat]
  /\ \A j \in Jobs : got[j] <= arrived[j] /\ arrived[j] <= sent[j] /\ sent[j] <= len[j]

BackupInit ==
  /\ client = "running"
  /\ job = [j \in Jobs |-> "none"]
  /\ sock = [j \in Jobs |-> FALSE]
  /\ cnt = [j \in Jobs |-> Retries]
  /\ len = [j \in Jobs |-> 0]
  /\ sent = [j \in Jobs |-> 0]
  /\ up = FALSE
  /\ queue = <<>>
  /\ conn = [j \in Jobs |-> "none"]
  /\ arrived = [j \in Jobs |-> 0]
  /\ got = [j \in Jobs |-> 0]
  /\ fds = 0
  /\ file = <<>>
  /\ stops = 0
  /\ fault = "none"

Runs == client = "running" /\ fault = "none"
Serves == up /\ fault = "none"
Goto(j, place) == job' = [job EXCEPT ![j] = place]
Becomes(j, s) == conn' = [conn EXCEPT ![j] = s]

-----------------------------------------------------------------------------
(* start_backup, from the sockets on.                                      *)

(* If the stream socket cannot be created, the code says so and goes on    *)
(* with -1.                                                                *)
StartBackup(j) ==
  /\ Runs /\ job[j] = "queued"
  /\ \E created \in BOOLEAN : sock' = [sock EXCEPT ![j] = created]
  /\ Goto(j, "connect")
  /\ UNCHANGED <<client, cnt, len, sent, serverVars, fault>>

(* The kernel of the server completes the handshake: a listening process   *)
(* that does not call accept is reachable until its backlog is full.       *)
Reachable == up /\ Len(queue) < Backlog

Connects(j) == sock[j] /\ Reachable

Connect(j) ==
  /\ Runs /\ job[j] = "connect" /\ Connects(j)
  /\ queue' = Append(queue, j)
  /\ Becomes(j, "waiting")
  /\ Goto(j, "write")
  /\ UNCHANGED <<client, sock, cnt, len, sent, up, arrived, got, fds, file, stops, fault>>

(* A slip for the run to find: the loop is left only when cnt is below 0,  *)
(* which it never is, being unsigned.                                      *)
ConnectFailsForEver(j) ==
  /\ Runs /\ job[j] = "connect" /\ ~Connects(j)
  /\ cnt' = [cnt EXCEPT ![j] = IF @ = 0 THEN Retries ELSE @ - 1]
  /\ UNCHANGED <<client, job, sock, len, sent, serverVars, fault>>

(* A slip for the run to find: cnt is tested before it is decremented.     *)
ConnectFailsLate(j) ==
  /\ Runs /\ job[j] = "connect" /\ ~Connects(j)
  /\ cnt' = [cnt EXCEPT ![j] = @ - 1]
  /\ IF cnt[j] = 0 THEN Goto(j, "write") ELSE UNCHANGED job
  /\ UNCHANGED <<client, sock, len, sent, serverVars, fault>>

(* The last failure leaves the loop, without a connection.  A server that  *)
(* can be reached is of no use to a call without a socket.                 *)
ConnectFails(j) ==
  /\ Runs /\ job[j] = "connect" /\ ~Connects(j)
  /\ cnt' = [cnt EXCEPT ![j] = @ - 1]
  /\ IF cnt[j] = 1 THEN Goto(j, "write") ELSE UNCHANGED job
  /\ UNCHANGED <<client, sock, len, sent, serverVars, fault>>

(* The socket is closed, and the variables of the call are gone.           *)
Return(j) ==
  /\ Goto(j, "done")
  /\ sock' = [sock EXCEPT ![j] = FALSE]
  /\ cnt' = [cnt EXCEPT ![j] = Retries]

(* write and close.  A server that has gone takes nothing any more; write  *)
(* may say so, which makes no difference.                                  *)
Write(j) ==
  /\ Runs /\ job[j] = "write" /\ conn[j] # "none"
  /\ sent' = [sent EXCEPT ![j] = IF conn[j] = "broken" THEN 0 ELSE len[j]]
  /\ Return(j)
  /\ UNCHANGED <<client, len, serverVars, fault>>

(* write on a socket that never was connected raises SIGPIPE, which nobody *)
(* handles or ignores.                                                     *)
WriteUnconnected(j) ==
  /\ Runs /\ job[j] = "write" /\ sock[j] /\ conn[j] = "none"
  /\ client' = "killed"
  /\ UNCHANGED <<job, sock, cnt, len, sent, serverVars, fault>>

(* write on -1 only returns an error, and the process lives on.            *)
WriteNowhere(j) ==
  /\ Runs /\ job[j] = "write" /\ ~sock[j]
  /\ Return(j)
  /\ UNCHANGED <<client, len, sent, serverVars, fault>>

-----------------------------------------------------------------------------
(* The network: bytes come in order, in pieces of any size.                *)

Arrive(j) ==
  /\ fault = "none" /\ conn[j] \in {"waiting", "accepted"}
  /\ \E n \in arrived[j] + 1 .. sent[j] : arrived' = [arrived EXCEPT ![j] = n]
  /\ UNCHANGED <<clientVars, up, queue, conn, got, fds, file, stops, fault>>

-----------------------------------------------------------------------------
(* The server.  start_service accepts while it has descriptors; without    *)
(* one, accept fails, and it tries again.                                  *)

AcceptAs(s) ==
  /\ Serves /\ queue # <<>> /\ fds < MaxFds
  /\ Becomes(Head(queue), s)
  /\ queue' = Tail(queue)
  /\ fds' = fds + 1
  /\ UNCHANGED <<clientVars, up, arrived, got, file, stops, fault>>

Accept == AcceptAs("accepted")

(* pthread_create fails, and nobody looks at what it returns.              *)
ThreadFails == AcceptAs("unserved")

(* service.  One read, which waits for the first bytes or the end of the   *)
(* connection.                                                             *)
Closed(j) == job[j] = "done" \/ client = "killed"

Read(j) ==
  /\ Serves /\ conn[j] = "accepted" /\ arrived[j] \in 1 .. BufSize - 1
  /\ got' = [got EXCEPT ![j] = arrived[j]]
  /\ Becomes(j, "read")
  /\ UNCHANGED <<clientVars, up, queue, arrived, fds, file, stops, fault>>

(* buf[r_ret] = 0 with a full buffer.                                      *)
ReadOverruns(j) ==
  /\ Serves /\ conn[j] = "accepted" /\ arrived[j] >= BufSize
  /\ fault' = "overrun"
  /\ UNCHANGED <<clientVars, serverVars>>

ReadNothing(j) ==
  /\ Serves /\ conn[j] = "accepted" /\ arrived[j] = sent[j] /\ sent[j] = 0 /\ Closed(j)
  /\ Becomes(j, "served")
  /\ UNCHANGED <<clientVars, up, queue, arrived, got, fds, file, stops, fault>>

(* read returns -1, which is only reported.                                *)
ReadFails(j) ==
  /\ Serves /\ conn[j] = "accepted"
  /\ Becomes(j, "unread")
  /\ UNCHANGED <<clientVars, up, queue, arrived, got, fds, file, stops, fault>>

(* A slip for the run to find: the file is neither flushed nor closed.     *)
BackupLogHeld(j) ==
  /\ Serves /\ conn[j] = "read" /\ fds < MaxFds
  /\ Becomes(j, "served")
  /\ UNCHANGED <<clientVars, up, queue, arrived, got, fds, file, stops, fault>>

(* A slip for the run to find: the append counts as failed and is repeated.*)
BackupLogAgain(j) ==
  /\ Serves /\ conn[j] = "read" /\ fds < MaxFds
  /\ file' = Append(file, [job |-> j, len |-> got[j]])
  /\ UNCHANGED <<clientVars, up, queue, conn, arrived, got, fds, stops, fault>>

(* backup_log: the file is opened for appending, and what was read fits    *)
(* into one write.  The connection is not closed.                          *)
BackupLog(j) ==
  /\ Serves /\ conn[j] = "read" /\ fds < MaxFds
  /\ file' = Append(file, [job |-> j, len |-> got[j]])
  /\ Becomes(j, "served")
  /\ UNCHANGED <<clientVars, up, queue, arrived, got, fds, stops, fault>>

(* The server process ends, and the kernel with its connections.           *)
Down ==
  /\ up' = FALSE
  /\ queue' = <<>>
  /\ conn' = [j \in Jobs |-> IF conn[j] \in {"waiting", "accepted", "read"} THEN "broken" ELSE conn[j]]
  /\ fds' = 0

(* fopen fails, and the assertion behind it ends the server: connections,  *)
(* which nobody closes, and files of other threads hold all descriptors.   *)
BackupLogFails(j) ==
  /\ Serves /\ conn[j] = "read"
  /\ fds + Cardinality({k \in Jobs \ {j} : conn[k] = "read"}) >= MaxFds
  /\ Down
  /\ UNCHANGED <<clientVars, arrived, got, file, stops, fault>>

ServerStarts ==
  /\ ~up /\ fault = "none"
  /\ up' = TRUE
  /\ UNCHANGED <<clientVars, queue, conn, arrived, got, fds, file, stops, fault>>

ServerStops ==
  /\ Serves /\ stops < MaxStops
  /\ Down
  /\ stops' = stops + 1
  /\ UNCHANGED <<clientVars, arrived, got, file, fault>>

ClientStep(j) ==
  Connect(j) \/ ConnectFails(j) \/ Write(j) \/ WriteUnconnected(j) \/ WriteNowhere(j)
Service(j) ==
  Read(j) \/ ReadOverruns(j) \/ ReadNothing(j) \/ BackupLog(j) \/ BackupLogFails(j)
ServerThreads == Accept \/ \E j \in Jobs : Arrive(j) \/ Service(j)
Accidents == ThreadFails \/ ServerStops \/ \E j \in Jobs : ReadFails(j)
ServerStep == ServerThreads \/ Accidents \/ ServerStarts

-----------------------------------------------------------------------------
(* Retries and several connections at once save no record twice, and what  *)
(* is saved is a beginning of a record that was sent (cli_backlog.hpp      *)
(* 48-61, server.hpp:100-113).                                             *)
SavedOnce ==
  /\ \A i, k \in DOMAIN file : file[i].job = file[k].job => i = k
  /\ \A i \in DOMAIN file : file[i].len \in 1 .. sent[file[i].job]

(* A record that was written to the server is saved as it was, unless the  *)
(* server goes down, has no descriptor or thread left for it, fails to     *)
(* read it, or finds only a part of it when it reads.  Nothing else in the *)
(* interplay of the two processes loses one (server.hpp:76-113).           *)
SavedWhole(j) == \E i \in DOMAIN file : file[i] = [job |-> j, len |-> len[j]]
LossNamed(j) ==
  \/ conn[j] \in {"broken", "unserved", "unread"}
  \/ conn[j] = "waiting" /\ fds = MaxFds
  \/ got[j] \in 1 .. len[j] - 1
  \/ fault # "none"
WrittenIsSaved ==
  \A j \in Jobs : sent[j] > 0 ~> SavedWhole(j) \/ LossNamed(j)
=============================================================================
