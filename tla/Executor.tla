------------------------------ MODULE Executor ------------------------------
(***************************************************************************)
(* What a pool of threads promises: tasks are started in the order in      *)
(* which they were accepted, each once, they may finish in any order, and  *)
(* the pool closes only when all of them have finished.                    *)
(*                                                                         *)
(* ThreadPool implements this specification (see ThreadPool!Exec).         *)
(***************************************************************************)
EXTENDS Naturals, Sequences

CONSTANT Task   \* the tasks callers may submit

VARIABLES
  accepted,   \* tasks submitted, in order
  started,    \* how many of them have been started
  finished,   \* positions in accepted of the tasks that have finished
  closed      \* no thread of the pool is left

vars == <<accepted, started, finished, closed>>

Init ==
  /\ accepted = <<>>
  /\ started = 0
  /\ finished = {}
  /\ closed = FALSE

Submit(t) ==
  /\ ~closed
  /\ accepted' = Append(accepted, t)
  /\ UNCHANGED <<started, finished, closed>>

Start ==
  /\ started < Len(accepted)
  /\ started' = started + 1
  /\ UNCHANGED <<accepted, finished, closed>>

Finish(i) ==
  /\ i \notin finished
  /\ finished' = finished \cup {i}
  /\ UNCHANGED <<accepted, started, closed>>

Close ==
  /\ finished = 1 .. Len(accepted)
  /\ closed' = TRUE
  /\ UNCHANGED <<accepted, started, finished>>

Next ==
  \/ \E t \in Task : Submit(t)
  \/ Start
  \/ \E i \in 1 .. started : Finish(i)
  \/ Close

Spec == Init /\ [][Next]_vars
=============================================================================
