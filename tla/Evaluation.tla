----------------------------- MODULE Evaluation -----------------------------
(***************************************************************************)
(* The retrieval metrics of eval/metrics.py.                               *)
(*                                                                         *)
(* The judgements of a query are a function from documents to relevance.   *)
(* 1 / log2(rank + 1) is Discount[rank], a decreasing table of thousandths *)
(* as long as the rankings; the rates are fractions, numerator and         *)
(* denominator, and None is the undefined of a query with nothing          *)
(* relevant.                                                               *)
(***************************************************************************)
EXTENDS Python, Integers, FiniteSetsExt, SequencesExt

CONSTANT Discount

EvaluationAssumption ==
  /\ Discount \in Seq(Nat \ {0})
  /\ \A i, k \in DOMAIN Discount : i < k => Discount[i] > Discount[k]
  /\ None \notin Nat \X Nat

(* Mutant: repeated documents are scored each time.                        *)
AsReturned(ranking) == DOMAIN ranking

(* _dedupe: where each document occurs first.                              *)
Dedupe(ranking) == {i \in DOMAIN ranking : \A h \in 1 .. i - 1 : ranking[h] # ranking[i]}

Rank(ranking, i) == Cardinality({h \in Dedupe(ranking) : h <= i})
FirstK(ranking, k) == {i \in Dedupe(ranking) : Rank(ranking, i) <= k}
Retrieved(ranking, k) == {ranking[i] : i \in FirstK(ranking, k)}

Relevant(judgements) == {d \in DOMAIN judgements : judgements[d] > 0}
Grade(judgements, d) == IF d \in DOMAIN judgements THEN judgements[d] ELSE 0

(* 2 ^ relevance - 1: the golden queries are graded 0 to 2.                *)
Gain(relevance) == <<0, 1, 3>>[relevance + 1]

Dcg(ranking, judgements, k) ==
  LET gained == [i \in FirstK(ranking, k) |->
                   Gain(Grade(judgements, ranking[i])) * Discount[Rank(ranking, i)]]
  IN MapThenSumSet(LAMBDA i : gained[i], FirstK(ranking, k))

(* The relevant documents in a best order.                                 *)
Ideal(judgements) ==
  CHOOSE best \in [1 .. Cardinality(Relevant(judgements)) -> Relevant(judgements)] :
    \A i, h \in DOMAIN best :
      i < h => best[i] # best[h] /\ judgements[best[i]] >= judgements[best[h]]

Idcg(judgements, k) == Dcg(Ideal(judgements), judgements, k)

Ndcg(ranking, judgements, k) ==
  IF Relevant(judgements) = {} THEN None
  ELSE <<Dcg(ranking, judgements, k), Idcg(judgements, k)>>

Recall(ranking, judgements, k) ==
  IF Relevant(judgements) = {} THEN None
  ELSE <<Cardinality(Retrieved(ranking, k) \cap Relevant(judgements)),
         Cardinality(Relevant(judgements))>>

Precision(ranking, judgements, k) ==
  IF k = 0 \/ Relevant(judgements) = {} THEN None
  ELSE <<Cardinality(Retrieved(ranking, k) \cap Relevant(judgements)), k>>

ReciprocalRank(ranking, judgements) ==
  LET hits == {i \in Dedupe(ranking) : ranking[i] \in Relevant(judgements)}
  IN IF Relevant(judgements) = {} THEN None
     ELSE IF hits = {} THEN <<0, 1>> ELSE <<1, Rank(ranking, Min(hits))>>

HitRate(ranking, judgements, k) ==
  IF Relevant(judgements) = {} THEN None
  ELSE IF Retrieved(ranking, k) \cap Relevant(judgements) # {} THEN <<1, 1>>
  ELSE <<0, 1>>

-----------------------------------------------------------------------------
AtMostRate(a, b) == a[1] * b[2] <= b[1] * a[2]

(* No ranking scores above the ideal one, and only one that ranks its top  *)
(* k by relevance scores as high; repeating a document never gains         *)
(* anything; and a query is undefined for all the metrics or for none.     *)
IdealIsBest(ranking, judgements, k) ==
  LET ndcg == Ndcg(ranking, judgements, k)
      all == {ndcg, Recall(ranking, judgements, k), Precision(ranking, judgements, k),
              ReciprocalRank(ranking, judgements), HitRate(ranking, judgements, k)}
      best == Ideal(judgements)
      level == \A h \in FirstK(best, k) : \E i \in FirstK(ranking, k) :
                 /\ Rank(ranking, i) = Rank(best, h)
                 /\ Grade(judgements, ranking[i]) = judgements[best[h]]
      again(i) == InsertAt(ranking, i, ranking[1])
  IN /\ None \in all <=> all = {None}
     /\ None \notin all =>
          /\ \A rate \in all : rate[1] <= rate[2]
          /\ ndcg[1] = ndcg[2] <=> level
          /\ (ReciprocalRank(ranking, judgements)[1] = 0 <=> Recall(ranking, judgements, Len(ranking))[1] = 0)
          /\ \A i \in 2 .. Len(ranking) :
               AtMostRate(Ndcg(again(i), judgements, k), ndcg)

=============================================================================
