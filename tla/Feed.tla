------------------------------- MODULE Feed --------------------------------
(***************************************************************************)
(* What one pass over a feed's rows yields: parse_and_dedupe of            *)
(* app/ingestion/pipeline.py and deduplicate of                            *)
(* app/ingestion/adapters/base.py, which the pipeline says it combines     *)
(* with the tracking of the raw rows.                                      *)
(*                                                                         *)
(* A row is abstracted to the SKU it names (None when that is missing) and *)
(* the content hash of the product it maps to (None when the row is        *)
(* rejected for another reason, such as an empty title).                   *)
(***************************************************************************)
EXTENDS Python, Naturals, FiniteSets, SequencesExt

CONSTANTS Skus, Hashes

FeedAssumption == None \notin Skus \cup Hashes

Row == [sku : Skus \cup {None}, hash : Hashes \cup {None}]

(* FeedAdapter.parse_row returns a product or an IngestionError.           *)
Accepted(row) == row.sku # None /\ row.hash # None

-----------------------------------------------------------------------------
(* parse_and_dedupe.  winner is the number of the row kept in raw_by_sku.  *)

NoRows == [products |-> [s \in Skus |-> None], winner |-> [s \in Skus |-> 0],
           order |-> <<>>, errors |-> <<>>,
           total |-> 0, ok |-> 0, failed |-> 0, duplicates |-> 0]

Seen(acc, row) == row.sku \in ToSet(acc.order)

CountOk(acc, row) ==
  IF Seen(acc, row) THEN [acc EXCEPT !.ok = @ + 1, !.duplicates = @ + 1]
  ELSE [acc EXCEPT !.ok = @ + 1, !.order = Append(@, row.sku)]

(* Mutant: the first row of a SKU is kept.                                 *)
KeepFirst(acc, row) ==
  IF acc.winner[row.sku] # 0 THEN acc
  ELSE [acc EXCEPT !.products[row.sku] = row.hash, !.winner[row.sku] = acc.total]

Keep(acc, row) ==
  [acc EXCEPT !.products[row.sku] = row.hash, !.winner[row.sku] = acc.total]

ParseRow(acc, row) ==
  LET counted == [acc EXCEPT !.total = @ + 1]
  IN IF Accepted(row) THEN Keep(CountOk(counted, row), row)
     ELSE [counted EXCEPT !.failed = @ + 1, !.errors = Append(@, row)]

ParseAndDedupe(rows) == FoldLeft(ParseRow, NoRows, rows)

-----------------------------------------------------------------------------
(* deduplicate: errors stream through, the last product of each SKU        *)
(* follows in first-appearance order.                                      *)

(* Mutant: a repeated SKU moves to the end.                                *)
OrderByLast(acc, row) == Append(Remove(acc.order, row.sku), row.sku)

OrderByFirst(acc, row) ==
  IF Seen(acc, row) THEN acc.order ELSE Append(acc.order, row.sku)

DedupeRow(acc, row) ==
  IF Accepted(row)
  THEN [acc EXCEPT !.duplicates = IF Seen(acc, row) THEN @ + 1 ELSE @,
                   !.order = OrderByFirst(acc, row), !.seen[row.sku] = row]
  ELSE [acc EXCEPT !.out = Append(@, row)]

Deduplicate(results) ==
  LET last == FoldLeft(DedupeRow,
                       [seen |-> [s \in Skus |-> None], order |-> <<>>,
                        duplicates |-> 0, out |-> <<>>],
                       results)
  IN [results |-> last.out \o [i \in DOMAIN last.order |-> last.seen[last.order[i]]],
      duplicates |-> last.duplicates]

-----------------------------------------------------------------------------
(* The feed as the ingestion model sees it.                                *)
ParsedFeed(rows) ==
  LET parsed == ParseAndDedupe(rows)
  IN [products |-> parsed.products,
      rejected |-> {row.sku : row \in ToSet(parsed.errors)} \ {None},
      total |-> parsed.total, failed |-> parsed.failed,
      duplicates |-> parsed.duplicates]

=============================================================================
