------------------------------- MODULE Python --------------------------------
(***************************************************************************)
(* What the pure parts take from Python: None, sorted, and comprehensions  *)
(* that filter.                                                            *)
(***************************************************************************)
EXTENDS Integers, FiniteSets

CONSTANT None

(* The elements of s at the positions I, sorted as Python does: by key,    *)
(* and stable, so that equals keep their order.                            *)
UpTo(i, I, key) == {j \in I : key[j] < key[i] \/ (key[j] = key[i] /\ j <= i)}

Arranged(s, I, key) ==
  [k \in 1 .. Cardinality(I) |-> s[CHOOSE i \in I : Cardinality(UpTo(i, I, key)) = k]]

Only(s, I) == Arranged(s, I, [i \in I |-> i])
Sorted(s, key) == Arranged(s, DOMAIN s, key)

=============================================================================
