------------------------------- MODULE Texts -------------------------------
(***************************************************************************)
(* The string operations that the modules on texts share: a text is a      *)
(* sequence of characters (String.prototype.split, join, includes,         *)
(* startsWith and the trims).                                              *)
(***************************************************************************)
EXTENDS Integers, Sequences, SequencesExt

IsAt(part, text, i) ==
  /\ i + Len(part) - 1 <= Len(text)
  /\ SubSeq(text, i, i + Len(part) - 1) = part

Occurs(part, text) == \E i \in 1..Len(text) + 1 : IsAt(part, text, i)

(* What is between the occurrences of a nonempty part; they are looked for *)
(* from the left and do not overlap.                                       *)
Split(text, part) ==
  LET from[i \in 1..Len(text) + 1] ==
        IF i > Len(text) THEN <<<<>>>>
        ELSE IF IsAt(part, text, i) THEN <<<<>>>> \o from[i + Len(part)]
        ELSE LET rest == from[i + 1] IN <<<<text[i]>> \o Head(rest)>> \o Tail(rest)
  IN from[1]

Join(texts, separator) ==
  IF texts = <<>> THEN <<>>
  ELSE FoldLeft(LAMBDA all, text : all \o separator \o text, Head(texts), Tail(texts))

ReplaceAllOf(text, part, by) == Join(Split(text, part), by)

TrimStart(text, spaces) ==
  LET kept == {i \in DOMAIN text : text[i] \notin spaces}
  IN IF kept = {} THEN <<>>
     ELSE SubSeq(text, CHOOSE i \in kept : \A j \in kept : i <= j, Len(text))

Trim(text, spaces) == Reverse(TrimStart(Reverse(TrimStart(text, spaces)), spaces))
=============================================================================
