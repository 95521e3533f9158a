----------------------------- MODULE Normalise ------------------------------
(***************************************************************************)
(* parse_price of app/ingestion/normalize.py: a number written with        *)
(* separators, read back.  A text is the sequence of its digits,           *)
(* separators and sign; a Decimal is the digits before and after its       *)
(* point.                                                                  *)
(***************************************************************************)
EXTENDS Python, Integers, FiniteSetsExt, SequencesExt

CONSTANT Unusable      \* what parse_price returns for a text it cannot use

Without(text, chars) == Only(text, {i \in DOMAIN text : text[i] \notin chars})
LastAt(text, char) == Max({0} \cup {i \in DOMAIN text : text[i] = char})
Count(text, char) == Cardinality({i \in DOMAIN text : text[i] = char})
Replace(text, char, by) == [i \in DOMAIN text |-> IF text[i] = char THEN by ELSE text[i]]

(* What groups digits and is never a decimal point.                        *)
Blanks == {" ", "'"}

(* Mutant: three digits after the last separator are always thousands.     *)
NormaliseByTail(text) ==
  LET cleaned == Without(text, Blanks)
      comma == LastAt(cleaned, ",")  dot == LastAt(cleaned, ".")
      decimal == IF comma > dot THEN "," ELSE "."
      thousands == IF comma > dot THEN "." ELSE ","
      tail == Len(cleaned) - Max({comma, dot})
  IN IF comma = 0 /\ dot = 0 THEN cleaned
     ELSE IF tail = 3 THEN Without(cleaned, {",", "."})
     ELSE Replace(Without(cleaned, {thousands}), decimal, ".")

(* _normalise_number_text: the last separator is the decimal one, unless   *)
(* it is the only one and three digits follow.                             *)
NormaliseNumberText(text) ==
  LET cleaned == Without(text, Blanks)
      comma == LastAt(cleaned, ",")  dot == LastAt(cleaned, ".")
      decimal == IF comma > dot THEN "," ELSE "."
      thousands == IF comma > dot THEN "." ELSE ","
      tail == Len(cleaned) - Max({comma, dot})
  IN IF comma = 0 /\ dot = 0 THEN cleaned
     ELSE IF tail = 3 /\ Count(cleaned, decimal) = 1 /\ Count(cleaned, thousands) = 0
     THEN Without(cleaned, {decimal})
     ELSE Replace(Without(cleaned, {thousands}), decimal, ".")

(* Decimal(text) for a text without a sign: InvalidOperation at a second   *)
(* point.                                                                  *)
ToDecimal(text) ==
  LET dot == LastAt(text, ".")
  IN IF Count(text, ".") > 1 THEN Unusable
     ELSE IF dot = 0 THEN [whole |-> text, fraction |-> <<>>]
     ELSE [whole |-> SubSeq(text, 1, dot - 1), fraction |-> SubSeq(text, dot + 1, Len(text))]

(* A negative price is corrupt data.                                       *)
ParsePrice(text) ==
  IF text[1] = "-" THEN Unusable ELSE ToDecimal(NormaliseNumberText(text))

-----------------------------------------------------------------------------
(* How feeds write numbers: whole digits in groups, the last of three, and *)
(* the ones before it of three or, in India, of two.                       *)
Separators == {"none", ",", ".", " ", "'"}

Style == [group : Separators, size : {2, 3}, point : {",", "."}]

Styles == {s \in Style : s.group # s.point}

(* Whether a separator follows the i-th of n digits.                       *)
Breaks(i, n, size) == i <= n - 3 /\ (n - 3 - i) % size = 0

(* Where the i-th of n digits is in the text: after the digits before it   *)
(* and the separators between them.                                        *)
DigitAt(i, n, size) == i + Cardinality({j \in 1 .. i - 1 : Breaks(j, n, size)})

Grouped(whole, style) ==
  LET n == Len(whole)
      at(i) == DigitAt(i, n, style.size)
  IN IF style.group = "none" THEN whole
     ELSE [p \in 1 .. at(n + 1) - 1 |-> IF \E i \in 1 .. n : p = at(i)
                                       THEN whole[CHOOSE i \in 1 .. n : p = at(i)] ELSE style.group]

Written(number, style) ==
  Grouped(number.whole, style)
    \o (IF number.fraction = <<>> THEN <<>> ELSE <<style.point>> \o number.fraction)

Groups(number, style) == Cardinality({i \in DOMAIN number.whole : Breaks(i, Len(number.whole), style.size)})

(* Several commas or several dots, and no other separator.                 *)
OnlyGroups(number, style) ==
  number.fraction = <<>> /\ style.group \in {",", "."} /\ Groups(number, style) > 1

(* One separator, three digits after it: thousands, says the docstring.    *)
Ambiguous(number, style) ==
  /\ Len(number.fraction) = 3
  /\ style.group \in {",", "."} => Groups(number, style) = 0

(* A number in any of the styles is read as itself, a negative one is      *)
(* refused, an ambiguous one is read as a thousandfold, and one with       *)
(* several groups and no decimals is lost rather than misread.             *)
NothingMisread(number, style) ==
  LET parsed == ParsePrice(Written(number, style))
  IN /\ parsed = IF Ambiguous(number, style)
                 THEN [whole |-> number.whole \o number.fraction, fraction |-> <<>>]
                 ELSE IF OnlyGroups(number, style) THEN Unusable
                 ELSE number
     /\ ParsePrice(<<"-">> \o Written(number, style)) = Unusable

=============================================================================
