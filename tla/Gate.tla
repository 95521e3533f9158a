-------------------------------- MODULE Gate --------------------------------
(***************************************************************************)
(* What the evaluation decides from the scores of its queries: whether a   *)
(* change passes (eval/ci_quality_gate.py, with aggregate of               *)
(* eval/metrics.py) and which alpha each class of queries gets             *)
(* (eval/sweep_alpha.py).                                                  *)
(*                                                                         *)
(* A score is counted in hundredths, None where it is undefined because    *)
(* nothing is relevant to the query; a mean is a fraction, compared        *)
(* exactly (the code rounds it to four places).  One metric stands for     *)
(* those that TRACKED_METRICS names: each is gated alike.                  *)
(***************************************************************************)
EXTENDS Python, Integers, FiniteSetsExt

CONSTANTS
  Absent,   \* of a query that the report's fixture does not have
  Classes,
  Alphas    \* the sweep's grid, by number

(* No report is None, and a key is a class or "overall".                   *)
GateAssumption ==
  /\ Alphas # {} /\ Alphas \subseteq Nat /\ IsFiniteSet(Alphas)
  /\ Classes # {} /\ IsFiniteSet(Classes) /\ "overall" \notin Classes
  /\ None # Absent /\ {None, Absent} \cap Int = {}
  /\ \A keys \in SUBSET (Classes \cup {"overall"}) : None \notin [keys -> {None} \cup Int \X Nat]

(* In hundredths.                                                          *)
REGRESSION_TOLERANCE == 3

-----------------------------------------------------------------------------
(* aggregate: the mean of the scores that are defined, each at its place.  *)
Mean(score) ==
  LET defined == {i \in DOMAIN score : score[i] # None}
  IN IF defined = {} THEN None
     ELSE <<MapThenSumSet(LAMBDA i : score[i], defined), Cardinality(defined)>>

Ran(queries, side) == {i \in DOMAIN queries : queries[i][side] # Absent}

(* Mutant: the report without its breakdown by class.                      *)
OverallAlone(queries, side) ==
  [key \in {"overall"} |-> Mean([i \in Ran(queries, side) |-> queries[i][side]])]

(* _run_queries: once over all, and once per class that has queries.       *)
Report(queries, side) ==
  LET of(class) == {i \in Ran(queries, side) : class = "overall" \/ queries[i].class = class}
      keys == {"overall"} \cup {queries[i].class : i \in Ran(queries, side)}
  IN [key \in keys |-> Mean([i \in of(key) |-> queries[i][side]])]

Drop(expected, current) == <<expected[1] * current[2] - current[1] * expected[2],
                             current[2] * expected[2]>>

Dropped(expected, current) ==
  LET drop == Drop(expected, current) IN drop[1] > REGRESSION_TOLERANCE * drop[2]

(* main without --write-baseline: a class absent from either side is       *)
(* skipped.  _print_report formats every mean, so that an undefined one    *)
(* ends the run before "missing value" could be reported: both exit with   *)
(* an error.                                                               *)
Verdict(baseline, report) ==
  IF baseline = None THEN "no baseline"
  ELSE IF \E r \in {baseline, report} : \E key \in DOMAIN r : r[key] = None THEN "crashed"
  ELSE IF \E key \in DOMAIN baseline \cap DOMAIN report : Dropped(baseline[key], report[key])
  THEN "failed" ELSE "passed"

-----------------------------------------------------------------------------
(* _sweep_class: a class without a defined score has 0 at every alpha.     *)
ClassMean(queries, class, alpha) ==
  LET mine == {i \in DOMAIN queries : queries[i].class = class}
      mean == Mean([i \in mine |-> IF queries[i].scores = None THEN None
                                   ELSE queries[i].scores[alpha]])
  IN IF mean = None THEN <<0, 1>> ELSE mean

Less(a, b) == a[1] * b[2] < b[1] * a[2]

Grid(queries) == [class \in Classes |-> [alpha \in Alphas |-> ClassMean(queries, class, alpha)]]

(* The mean over the classes, for a choice of alpha in each, without the   *)
(* division by their number.                                               *)
PlusFraction(a, b) == <<a[1] * b[2] + b[1] * a[2], a[2] * b[2]>>
Macro(grid, choice) ==
  LET score == [class \in Classes |-> grid[class][choice[class]]]
  IN FoldSet(LAMBDA class, sum : PlusFraction(score[class], sum), <<0, 1>>, Classes)

Everywhere(alpha) == [class \in Classes |-> alpha]

(* _best_fixed_alpha_overall: the first alpha that beats those before it.  *)
BestFixedAlpha(grid) ==
  CHOOSE a \in Alphas : \A b \in Alphas :
    /\ ~Less(Macro(grid, Everywhere(a)), Macro(grid, Everywhere(b)))
    /\ b < a => Less(Macro(grid, Everywhere(b)), Macro(grid, Everywhere(a)))

(* Mutant: each class gets the alpha that is best over all.                *)
BestForAll(grid) == Everywhere(BestFixedAlpha(grid))

(* _dynamic_score: the first best alpha of each class.                     *)
BestAlphaPerClass(grid) ==
  [class \in Classes |->
     CHOOSE a \in Alphas : \A b \in Alphas :
       ~Less(grid[class][a], grid[class][b]) /\ (b < a => Less(grid[class][b], grid[class][a]))]

-----------------------------------------------------------------------------
(* "An offsetting regression": a change passes if the fixture is the same  *)
(* and no query got worse, and fails if those of one class did by more     *)
(* than the tolerance each, whatever the others gained and whichever of    *)
(* the other classes' queries were taken out.                              *)
CollapsesFail(queries) ==
  LET scored == {i \in DOMAIN queries : queries[i].before # None}
      of(class) == {i \in scored : queries[i].class = class}
      kept == {i \in scored : queries[i].after # Absent}
      worse == {i \in kept : queries[i].after < queries[i].before - REGRESSION_TOLERANCE}
      better == {i \in kept : queries[i].after >= queries[i].before}
      verdict == Verdict(Report(queries, "before"), Report(queries, "after"))
  IN queries # <<>> =>
       /\ scored = better => verdict \in {"passed", "crashed"}
       /\ (\E class \in Classes : of(class) # {} /\ of(class) \subseteq worse)
            => verdict \in {"failed", "crashed"}

(* "Dynamic alpha has a measured advantage over every fixed alternative":  *)
(* it is never behind, and level only if one alpha is best for each class. *)
DynamicNeverLoses(queries) ==
  LET grid == Grid(queries)
      dynamic == Macro(grid, BestAlphaPerClass(grid))
      fixed == Macro(grid, Everywhere(BestFixedAlpha(grid)))
      best(class) == {a \in Alphas : \A b \in Alphas : ~Less(grid[class][a], grid[class][b])}
  IN /\ ~Less(dynamic, fixed)
     /\ Less(fixed, dynamic) <=> \A a \in Alphas : \E class \in Classes : a \notin best(class)

=============================================================================
