----------------------------- MODULE MCRegistry -----------------------------
(* Instances of Registry for TLC.                                            *)
EXTENDS Registry

CONSTANTS t1, t2

SomeNames == {"default", "sync_logger", ""}

SomeCharacters ==
  {"%", "{", "}", "[", "]", ":", " ", "H", "M", "S", "q",
   "d", "t", "c", "p", "n", "f", "l", "T", "m"}

(* The default pattern, by the grammar.                                      *)
DefaultSegments ==
  << Literal("["), Directive("d", DefaultTime), Literal("]"),
     Literal("["), Bare("t"), Literal("]"),
     Literal("["), Bare("p"), Literal("]"),
     Literal("["), Bare("c"), Literal("]"),
     Literal("["), Bare("f"), Literal(":"), Bare("l"), Literal("]"),
     Literal(" "), Bare("m"), Bare("n") >>

(* All patterns of up to three segments: characters that may be mistaken for *)
(* something else, directives bare, with an argument and with an empty one.  *)
Segments ==
  {Literal(c) : c \in {"m", "%", "{", "}"}} \cup
  {Bare("d"), Directive("d", <<>>), Directive("d", <<"%", "d", "{">>), Directive("m", <<"m">>)}
SomeGrammar == {DefaultSegments} \cup {g \in BoundedSeq(Segments, 3) : WellFormed(g)}

(* Patterns no grammar spells: cut off, or with an unknown directive.        *)
Malformed ==
  {Spell(g) \o tail : g \in BoundedSeq(Segments, 1),
     tail \in {<<"%">>, <<"%", "q">>, <<"%", "%", "%">>, <<"%", "d", "{", "m">>}}

Alone == [threads |-> {t1}, names |-> {}, builds |-> 1, sinks |-> 0,
          patterns |-> {Spell(g) : g \in SomeGrammar} \cup Malformed]
Couple == [threads |-> {t1, t2}, names |-> SomeNames \ {""}, builds |-> 1, sinks |-> 0, patterns |-> {}]
Nameless == [threads |-> {t1}, names |-> SomeNames, builds |-> 2, sinks |-> 1, patterns |-> {}]
SomeSetups == {Alone, Couple, Nameless}
=============================================================================
