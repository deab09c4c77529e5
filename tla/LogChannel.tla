----------------------------- MODULE LogChannel -----------------------------
(***************************************************************************)
(* What an asynchronous logger promises its callers: records are accepted  *)
(* one at a time, they reach the sinks in the order in which they were     *)
(* accepted, none twice and none skipped, and the channel closes only when *)
(* everything accepted has been written.                                   *)
(*                                                                         *)
(* AsyncLooper implements this specification (see AsyncLooper!Channel).    *)
(***************************************************************************)
EXTENDS Naturals, Sequences

CONSTANT Record   \* the records callers may log

VARIABLES
  accepted,   \* records whose Push has returned, in order
  written,    \* records the callback has handed to the sinks, in order
  closed      \* the background thread has ended

vars == <<accepted, written, closed>>

TypeOK ==
  /\ accepted \in Seq(Record)
  /\ written \in Seq(Record)
  /\ closed \in BOOLEAN

Init ==
  /\ accepted = <<>>
  /\ written = <<>>
  /\ closed = FALSE

Accept(m) ==
  /\ ~closed
  /\ accepted' = Append(accepted, m)
  /\ UNCHANGED <<written, closed>>

(* One batch: everything up to some accepted record becomes written.       *)
WriteBatch ==
  /\ ~closed
  /\ \E n \in Len(written) .. Len(accepted) :
        written' = SubSeq(accepted, 1, n)
  /\ UNCHANGED <<accepted, closed>>

Close ==
  /\ written = accepted
  /\ closed' = TRUE
  /\ UNCHANGED <<accepted, written>>

Next ==
  \/ \E m \in Record : Accept(m)
  \/ WriteBatch
  \/ Close

Spec == Init /\ [][Next]_vars
=============================================================================
