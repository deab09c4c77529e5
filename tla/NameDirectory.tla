--------------------------- MODULE NameDirectory ---------------------------
(***************************************************************************)
(* What a registry of loggers promises: a name is given to the first       *)
(* logger registered under it and never to another, and a lookup answers   *)
(* with the logger that has the name at that moment.                       *)
(*                                                                         *)
(* Registry implements this specification (see Registry!Directory).        *)
(***************************************************************************)
CONSTANTS
  Asker,     \* who looks names up
  Logger,    \* what may be registered; a logger has a field name
  Nobody     \* the answer for a name nobody has

VARIABLES
  bound,     \* the loggers that have their names
  asked,     \* the name each asker looks up, or looked up last
  answer     \* the last answer each asker got

vars == <<bound, asked, answer>>

Holders(n) == {l \in bound : l.name = n}

LoggerNames == {l.name : l \in Logger}

Init ==
  /\ bound = {}
  /\ asked \in [Asker -> LoggerNames]
  /\ answer = [a \in Asker |-> Nobody]

Register(l) ==
  /\ Holders(l.name) = {}
  /\ bound' = bound \cup {l}
  /\ UNCHANGED <<asked, answer>>

Ask(a, n) ==
  /\ asked' = [asked EXCEPT ![a] = n]
  /\ UNCHANGED <<bound, answer>>

Answer(a) ==
  /\ \E l \in Logger \cup {Nobody} :
       /\ IF Holders(asked[a]) = {} THEN l = Nobody ELSE l \in Holders(asked[a])
       /\ answer' = [answer EXCEPT ![a] = l]
  /\ UNCHANGED <<bound, asked>>

Next ==
  \/ \E l \in Logger : Register(l)
  \/ \E a \in Asker : Answer(a) \/ \E n \in LoggerNames : Ask(a, n)

Spec == Init /\ [][Next]_vars
=============================================================================
