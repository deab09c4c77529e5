------------------------------ MODULE Formatter ------------------------------
(***************************************************************************)
(* Formatter (formatter.hpp).  item_ is filled once, by the constructor,   *)
(* and is a function of pattern_: Items(p) for the pattern p.  format      *)
(* concatenates what the items write.                                      *)
(*                                                                         *)
(* pos counts from 1 here.  Reading one past the end of a std::string      *)
(* gives a NUL.                                                            *)
(***************************************************************************)
EXTENDS Naturals, SequencesExt

Eos == "NUL"
Opening == "{"
Closing == "}"
Blank == " "

(* The key of a pair that is plain text.                                   *)
TextKey == ""

At(p, pos) == IF pos <= Len(p) THEN p[pos] ELSE Eos

(* The default pattern, "[%d{%H:%M:%S}][%t][%p][%c][%f:%l] %m%n".          *)
DefaultPattern ==
  << "[", "%", "d", Opening, "%", "H", ":", "%", "M", ":", "%", "S", Closing, "]",
     "[", "%", "t", "]", "[", "%", "p", "]", "[", "%", "c", "]",
     "[", "%", "f", ":", "%", "l", "]", Blank, "%", "m", "%", "n" >>

(* A slip for the run to find: after %% the second % is read again.        *)
LiteralFromTwice(p) ==
  LET f[pos \in 1 .. Len(p) + 1] ==
        IF pos > Len(p) \/ (p[pos] = "%" /\ At(p, pos + 1) # "%")
        THEN [val |-> <<>>, next |-> pos]
        ELSE LET rest == f[pos + 1]
             IN [rest EXCEPT !.val = <<p[pos]>> \o @]
  IN f

(* The literal text that begins at pos, and where it ends.                 *)
LiteralFrom(p) ==
  LET f[pos \in 1 .. Len(p) + 1] ==
        IF pos > Len(p) \/ (p[pos] = "%" /\ At(p, pos + 1) # "%")
        THEN [val |-> <<>>, next |-> pos]
        ELSE LET rest == f[pos + (IF p[pos] = "%" THEN 2 ELSE 1)]
             IN [rest EXCEPT !.val = <<p[pos]>> \o @]
  IN f

(* What stands between braces from pos on, and where that ends.            *)
BracedFrom(p) ==
  LET f[pos \in 1 .. Len(p) + 1] ==
        IF pos > Len(p) \/ p[pos] = Closing
        THEN [val |-> <<>>, next |-> pos]
        ELSE LET rest == f[pos + 1] IN [rest EXCEPT !.val = <<p[pos]>> \o @]
  IN f

Pair(key, val) == [key |-> key, val |-> val]
Unclosed == Pair("unclosed", <<>>)

(* sub_fmt.  val is pushed when a directive follows: a literal text that   *)
(* ends the pattern is not.                                                *)
ParseFrom(p) ==
  LET f[pos \in 1 .. Len(p) + 2] ==
        IF pos > Len(p) \/ LiteralFrom(p)[pos].next > Len(p) THEN <<>>
        ELSE LET literal == LiteralFrom(p)[pos]
                 at == literal.next + 1
                 before == IF literal.val = <<>> THEN <<>> ELSE <<Pair(TextKey, literal.val)>>
                 braced == BracedFrom(p)[at + 2]
             IN before \o
                IF At(p, at + 1) # Opening THEN <<Pair(At(p, at), <<>>)>> \o f[at + 1]
                ELSE IF At(p, braced.next) # Closing THEN <<Unclosed>>
                ELSE <<Pair(At(p, at), braced.val)>> \o f[braced.next + 1]
  IN f

ParsePattern(p) == ParseFrom(p)[1]

ItemKeys == {"d", "t", "c", "p", "n", "f", "l", "T", "m", TextKey}

(* The constructor's assertion, and the one in CreateItem.                 *)
Accepted(p) == \A i \in DOMAIN ParsePattern(p) : ParsePattern(p)[i].key \in ItemKeys

(* What the item for a pair writes: its own text, the time in its own      *)
(* format, or a field of the record.                                       *)
CreateItem(pair) ==
  CASE pair.key = TextKey -> [i \in DOMAIN pair.val |-> [field |-> TextKey, text |-> <<pair.val[i]>>]]
    [] pair.key = "d" /\ pair.val = <<>> ->
         << [field |-> "d", text |-> <<"%", "H", ":", "%", "M", ":", "%", "S">>] >>
    [] pair.key = "d" -> << [field |-> "d", text |-> pair.val] >>
    [] OTHER -> << [field |-> pair.key, text |-> <<>>] >>

Items(p) == [i \in DOMAIN ParsePattern(p) |-> CreateItem(ParsePattern(p)[i])]
Format(p) == FlattenSeq(Items(p))
=============================================================================
