------------------------------ MODULE Quality -------------------------------
(***************************************************************************)
(* app/ingestion/quality.py: what the quality report flags in one catalog  *)
(* (detect_anomalies) and which catalog of a run has suspiciously many     *)
(* duplicates (duplicate_rate_flags).  A rate is counted in units of       *)
(* RateUnit hundredths, a critical value in thousandths; square roots are  *)
(* compared squared, and logarithms as products.                           *)
(***************************************************************************)
EXTENDS Python, Naturals, FiniteSetsExt, SequencesExt

CONSTANT RateUnit

(* GRUBBS_CRITICAL_VALUES, for 3 to 15 catalogs.                           *)
GRUBBS_CRITICAL_VALUES ==
  <<1155, 1481, 1715, 1887, 2020, 2126, 2215, 2290, 2355, 2412, 2462, 2507, 2549>>

(* Mutant: one threshold for every number of catalogs.                     *)
FlatThreshold(n) == 2000

Critical(n) == GRUBBS_CRITICAL_VALUES[IF n > 15 THEN 13 ELSE n - 2]

DUPLICATE_RATE_ABSOLUTE_FALLBACK == 20

Sum(s) == MapThenSumSet(LAMBDA i : s[i], DOMAIN s)

(* The first of the catalogs with the highest rate.                        *)
Highest(rates) ==
  CHOOSE i \in DOMAIN rates : /\ rates[i] = Max(ToSet(rates))
                              /\ \A k \in 1 .. i - 1 : rates[k] < rates[i]

(* With n catalogs, sum S and sum of squares Q, the population deviation   *)
(* is the root of nQ - SS over n, so that G is (nh - S) over that root.    *)
DuplicateRateFlags(rates) ==
  IF Len(rates) < 3
  THEN {i \in DOMAIN rates : rates[i] * RateUnit > DUPLICATE_RATE_ABSOLUTE_FALLBACK}
  ELSE LET n == Len(rates)
           h == Highest(rates)
           above == n * rates[h] - Sum(rates)
           spread == n * Sum([i \in DOMAIN rates |-> rates[i] * rates[i]])
                       - Sum(rates) * Sum(rates)
           c == Critical(n)
       IN IF spread > 0 /\ 1000 * 1000 * above * above > c * c * spread THEN {h} ELSE {}

-----------------------------------------------------------------------------
(* numeric_summary: the value at a share of the way, the index rounded to  *)
(* the nearest, a half to the even one.  The share is in quarters.         *)
Nearest(quarters) ==
  LET floor == quarters \div 4  rest == quarters % 4
  IN IF rest > 2 \/ (rest = 2 /\ floor % 2 = 1) THEN floor + 1 ELSE floor

Percentile(sorted, quarters) == sorted[Nearest(quarters * (Len(sorted) - 1)) + 1]

(* The prices that are there, ascending.                                   *)
Present(prices) ==
  LET there == Only(prices, {i \in DOMAIN prices : prices[i] # None}) IN Sorted(there, there)

(* CategoryDiversity.hhi above so many hundredths, for the number of       *)
(* products with each label.                                               *)
ConcentratedAbove(counts, hundredths) ==
  100 * Sum([i \in DOMAIN counts |-> counts[i] * counts[i]]) > hundredths * Sum(counts) * Sum(counts)

CATEGORY_DEGENERACY_MIN_SAMPLE == 20

CategoryFlag(counts) ==
  IF Sum(counts) < CATEGORY_DEGENERACY_MIN_SAMPLE \/ ~ConcentratedAbove(counts, 15) THEN None
  ELSE IF ConcentratedAbove(counts, 25) THEN "highly" ELSE "moderately"

(* Mutant: Tukey's fence on the prices themselves.                         *)
BeyondLinearFence(p25, p75, max) == max > p75 + 3 * (p75 - p25)

(* log max > log p75 + 3 (log p75 - log p25).                              *)
BeyondFence(p25, p75, max) == max * p25 * p25 * p25 > p75 * p75 * p75 * p75

(* detect_anomalies of the prices: a price of nothing is critical, and the *)
(* fence is only drawn where three quarters have one and they differ.      *)
PriceFlags(prices) ==
  LET sorted == Present(prices)
      p25 == Percentile(sorted, 1)  p75 == Percentile(sorted, 3)
  IN IF sorted = <<>> THEN {} ELSE
     (IF sorted[1] <= 0 THEN {"nonpositive"} ELSE {})
     \cup (IF p25 > 0 /\ p75 > p25 /\ BeyondFence(p25, p75, Last(sorted)) THEN {"beyond"} ELSE {})

(* even_sample: n items at even distances; the distance is a float there.  *)
EvenSample(items, n) ==
  IF n >= Len(items) THEN items ELSE [i \in 1 .. n |-> items[((i - 1) * Len(items)) \div n + 1]]

-----------------------------------------------------------------------------
(* At each number of catalogs the table knows, one with duplicates among   *)
(* clean peers is flagged whatever its rate, a run where two share the     *)
(* highest rate flags neither below 15 catalogs, and at most one, the      *)
(* highest, is flagged at all.                                             *)
OutliersOnly(rates) ==
  LET flags == DuplicateRateFlags(rates)
      top == {i \in DOMAIN rates : rates[i] = Max(ToSet(rates))}
  IN Len(rates) \in 3..15 =>
       /\ Cardinality(flags) <= 1 /\ flags \subseteq top
       /\ Cardinality(top) = 1 /\ (\A i \in DOMAIN rates \ top : rates[i] = 0) => flags = top
       /\ Cardinality(top) > 1 /\ Len(rates) < 15 => flags = {}

(* "A smooth, entirely legitimate geometric spread" is never flagged, a    *)
(* missing price changes nothing, and what is flagged is one value beyond  *)
(* the fence, not a cluster: without the dearest product it is another     *)
(* catalog.                                                                *)
FarOutIsFair(prices, ratio) ==
  LET sorted == Present(prices)
      geometric == \A i \in 1 .. Len(sorted) - 1 : sorted[i + 1] = ratio * sorted[i]
      far == "beyond" \in PriceFlags(prices)
      priciest == {i \in DOMAIN sorted : sorted[i] = Last(sorted)}
  IN /\ geometric => ~far
     /\ PriceFlags(Append(prices, None)) = PriceFlags(prices)
     /\ PriceFlags([i \in DOMAIN prices |-> IF prices[i] = None THEN None ELSE 2 * prices[i]])
          = PriceFlags(prices)
     /\ far => 4 * Cardinality(priciest) <= Len(sorted) + 2

(* The bands: a single label in a large enough catalog is always flagged,  *)
(* seven or more labels shared evenly never are.                           *)
BandsAreFair(counts) ==
  LET even == \A i, k \in DOMAIN counts : counts[i] = counts[k]
  IN /\ Len(counts) = 1 /\ Sum(counts) >= CATEGORY_DEGENERACY_MIN_SAMPLE => CategoryFlag(counts) = "highly"
     /\ even /\ Len(counts) >= 7 => CategoryFlag(counts) = None

(* A sample has n different items, in order, none of them skipped by more  *)
(* than one further than another.                                          *)
SampleIsEven(size, n) ==
  LET sample == EvenSample([i \in 1 .. size |-> i], n)
      gaps == {sample[i + 1] - sample[i] : i \in 1 .. Len(sample) - 1}
  IN /\ Len(sample) = Min({n, size}) /\ (sample # <<>> => sample[1] = 1)
     /\ \A g \in gaps : g >= 1 /\ \A h \in gaps : g <= h + 1

=============================================================================
