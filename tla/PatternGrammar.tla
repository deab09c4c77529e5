--------------------------- MODULE PatternGrammar ---------------------------
(***************************************************************************)
(* What a log pattern means, by its grammar: a pattern is a sequence of    *)
(* segments, each a literal character, a bare directive or one with an     *)
(* argument in braces.  Formatter, which reads patterns, is checked        *)
(* against it.                                                             *)
(*                                                                         *)
(* A text is a sequence of characters, an output a sequence of parts: a    *)
(* part with an empty field is text as it stands, any other names what the *)
(* record contributes, and the format of a time.                           *)
(***************************************************************************)
EXTENDS Naturals, SequencesExt, FiniteSetsExt

CONSTANT Characters    \* what texts are made of

Keys == {"d", "t", "c", "p", "n", "f", "l", "T", "m"}
DefaultTime == <<"%", "H", ":", "%", "M", ":", "%", "S">>

ASSUME CharactersAssumption ==
  Keys \cup {"%", "{", "}", "H", ":", "M", "S"} \subseteq Characters /\ "" \notin Characters

Literal(c) == [key |-> "", text |-> <<c>>, braces |-> FALSE]
Bare(k) == [key |-> k, text |-> <<>>, braces |-> FALSE]
Directive(k, arg) == [key |-> k, text |-> arg, braces |-> TRUE]

Segment == [key : Keys \cup {""}, text : Seq(Characters), braces : BOOLEAN]
IsSegment(s) ==
  IF s.key = "" THEN s.text # <<>> /\ s = Literal(s.text[1])
  ELSE s = Bare(s.key) \/ (s = Directive(s.key, s.text) /\ "}" \notin Range(s.text))

SpellSegment(s) ==
  IF s.braces THEN <<"%", s.key, "{">> \o s.text \o <<"}">>
  ELSE IF s.key # "" THEN <<"%", s.key>>
  ELSE IF s.text = <<"%">> THEN <<"%", "%">>
  ELSE s.text
Spell(segs) == FlattenSeq([i \in DOMAIN segs |-> SpellSegment(segs[i])])

(* A brace after a bare directive would begin its argument.                *)
WellFormed(segs) ==
  /\ segs \in Seq(Segment)
  /\ \A i \in DOMAIN segs : IsSegment(segs[i])
  /\ \A i \in 1 .. Len(segs) - 1 :
       segs[i] = Bare(segs[i].key) => segs[i + 1] # Literal("{")

(* What no segment begins like: a directive that is cut off, that has no   *)
(* meaning, or whose braces are not closed.                                *)
Broken(tail) ==
  /\ tail # <<>> /\ tail[1] = "%"
  /\ \/ Len(tail) = 1
     \/ tail[2] \notin Keys \cup {"%"}
     \/ Len(tail) > 2 /\ tail[2] # "%" /\ tail[3] = "{" /\ "}" \notin Range(tail)

MeaningOf(s) ==
  [field |-> s.key,
   text |-> CASE s.key = "" -> s.text
              [] s.key = "d" /\ s.text = <<>> -> DefaultTime
              [] s.key = "d" -> s.text
              [] OTHER -> <<>>]
Meaning(segs) == [i \in DOMAIN segs |-> MeaningOf(segs[i])]

(* The segments up to the last directive.                                  *)
UpToLastDirective(segs) ==
  SubSeq(segs, 1, Max({0} \cup {i \in DOMAIN segs : segs[i].key # ""}))
=============================================================================
