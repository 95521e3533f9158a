------------------------------ MODULE Evidence ------------------------------
(***************************************************************************)
(* What a chat turn gathers and how its answer is verified: tool_node and  *)
(* validate_and_store of app/llm/graph.py with app/llm/markers.py,         *)
(* citations.py, claims.py and refusal_text.py.                            *)
(*                                                                         *)
(* An answer is what the markers declare: the SKUs it cites, the figures   *)
(* it states (whole numbers), whether it opens with NO_MATCH and whether   *)
(* it reads as a refusal.  A SKU has an id, its case-folded form and the   *)
(* words of it the index knows.                                            *)
(***************************************************************************)
EXTENDS Retrieval

CONSTANT SearchLimit   \* the limit of _run_search_catalog

EvidenceAssumption == SearchLimit \in Nat \ {0} /\ None \notin BOOLEAN

-----------------------------------------------------------------------------
(* prompting.py: what each tool lets the model fill in, which is never the *)
(* tenant; a catalog without genders offers no gender filter.              *)
FilterProperties(gendered) ==
  {"min_price", "max_price", "brand", "category", "in_stock_only"}
    \cup IF gendered THEN {"gender"} ELSE {}

ToolProperties(gendered) ==
  [search_catalog |-> FilterProperties(gendered) \cup {"query", "sort_by"},
   get_catalog_stats |-> FilterProperties(gendered) \cup {"metric"},
   get_product_detail |-> {"skus"}]

-----------------------------------------------------------------------------
(* The tool handlers: the evidence of a call over the turn's catalog.  Its *)
(* arguments are a function of the properties the model filled in.         *)
Get(args, property, default) ==
  IF property \in DOMAIN args THEN args[property] ELSE default

(* An empty name is no filter, a bound of zero is one.                     *)
Named(words) == IF words \in {None, {}} THEN {} ELSE {words}

FiltersFromToolInput(args) ==
  [min_price |-> Get(args, "min_price", None), max_price |-> Get(args, "max_price", None),
   brands |-> Named(Get(args, "brand", None)), categories |-> Named(Get(args, "category", None)),
   genders |-> Named(Get(args, "gender", None)),
   in_stock_only |-> Get(args, "in_stock_only", FALSE), min_rating |-> None]

ProductEvidence(hits) == [i \in DOMAIN hits |-> [kind |-> "product", sku |-> hits[i].sku]]

SearchCatalog(catalog, args) ==
  LET filters == FiltersFromToolInput(args)
      sort_by == Get(args, "sort_by", "relevance")
  IN ProductEvidence(
       IF sort_by = "relevance"
       THEN Search(catalog, [SortedRequest(filters) EXCEPT !.limit = SearchLimit, !.rerank = None])
       ELSE SearchSorted(catalog, filters, sort_by, SearchLimit))

CallTool(catalog, call) ==
  CASE call.tool = "search_catalog" -> SearchCatalog(catalog, call.args)
    [] call.tool = "get_catalog_stats" ->
         <<Stats(catalog, FiltersFromToolInput(call.args), Get(call.args, "metric", "price"))>>
    [] call.tool = "get_product_detail" ->
         ProductEvidence(GetBySkus(catalog, Get(call.args, "skus", <<>>)))

(* What the result of get_product_detail tells the model is missing, by    *)
(* the exact spelling it asked for.                                        *)
NotFound(catalog, requested) ==
  LET found == {p.sku.id : p \in ToSet(GetBySkus(catalog, requested))}
  IN Only(requested, {i \in DOMAIN requested : requested[i].id \notin found})

IsProduct(e) == e.kind = "product"
IsStats(e) == e.kind = "stats"

Products(evidence) == Only(evidence, {i \in DOMAIN evidence : IsProduct(evidence[i])})
Statistics(evidence) == Only(evidence, {i \in DOMAIN evidence : IsStats(evidence[i])})

(* tool_node: rounds accumulate, a product already found is not repeated.  *)
Accumulate(citations, new) ==
  LET seen == {e.sku : e \in {c \in ToSet(citations) : IsProduct(c)}}
  IN citations \o Only(new, {i \in DOMAIN new : IsProduct(new[i]) => new[i].sku \notin seen})

(* Mutant: a round's evidence replaces that of the rounds before.          *)
OfLastRound(catalog, calls) ==
  FoldLeft(LAMBDA citations, call : CallTool(catalog, call), <<>>, calls)

Gathered(catalog, calls) ==
  FoldLeft(LAMBDA citations, call : Accumulate(citations, CallTool(catalog, call)), <<>>, calls)

-----------------------------------------------------------------------------
(* citations.py                                                            *)
Folds(evidence) == {e.sku.fold : e \in ToSet(evidence)}

(* What is cited and was not found, each once in any of its spellings.     *)
Hallucinated(cited, evidence) ==
  Only(cited, {i \in DOMAIN cited : /\ cited[i].fold \notin Folds(evidence)
                                    /\ \A h \in 1 .. i - 1 : cited[h].fold # cited[i].fold})

-----------------------------------------------------------------------------
(* claims.py.  A figure matches a known value within a fiftieth of it.     *)
WithinTolerance(figure, known) ==
  LET n == known[1]  d == known[2]
      apart == IF figure * d > n THEN figure * d - n ELSE n - figure * d
  IN n # 0 /\ 50 * apart <= n

(* Mutant: the mean is not among the known values.                         *)
KnownExtremes(entry) == {entry.minimum, entry.maximum} \ {None}

KnownFigures(entry) == {entry.minimum, entry.maximum, entry.mean} \ {None}

(* find_stat_claim_mismatch: None when there is nothing to compare with.   *)
StatMismatch(figures, stats) ==
  LET prices == Only(stats, {i \in DOMAIN stats : stats[i].metric = "price"})
  IN IF figures = {} \/ Len(prices) # 1 \/ KnownFigures(prices[1]) = {} THEN None
     ELSE \E f \in figures : \A k \in KnownFigures(prices[1]) : ~WithinTolerance(f, k)

UnverifiedRefusal(figures, stats) == figures # {} /\ stats = <<>>

-----------------------------------------------------------------------------
(* validate_and_store, but for the cache (Coherence).                      *)

(* A cited SKU no tool of this turn returned is looked up in the catalog.  *)
Backfilled(catalog, found, cited) ==
  LET missing == Only(cited, {i \in DOMAIN cited : cited[i].fold \notin Folds(found)})
  IN found \o ProductEvidence(GetBySkus(catalog, missing))

Validate(catalog, citations, answer) ==
  LET products == Backfilled(catalog, Products(citations), answer.cited)
      stats == Statistics(citations)
      cited == {s.fold : s \in ToSet(answer.cited)}
  IN [hallucinated |-> Hallucinated(answer.cited, products),
      stat_mismatch |-> StatMismatch(answer.figures, stats),
      unverified |-> UnverifiedRefusal(answer.figures, stats),
      displayed |-> IF answer.no_match \/ answer.refuses THEN <<>>
                    ELSE Only(products, {i \in DOMAIN products : products[i].sku.fold \in cited})]

-----------------------------------------------------------------------------
(* The properties, for the calls of a turn and its answer.                 *)

Sold(catalog, s) == \E p \in ToSet(catalog) : p.sku.fold = s.fold

(* Another product whose SKU has all the words of this one.                *)
Sibling(s, t) == s.fold # t.fold /\ s.words \subseteq t.words

(* The model is told that a SKU is missing whenever it is, and of one that *)
(* is sold as spelt only when a sibling took its place in the lookup.      *)
MissingIsReported(catalog, requested) ==
  \A s \in ToSet(requested) :
    LET missing == s.id \in {m.id : m \in ToSet(NotFound(catalog, requested))}
        misled == \E p \in ToSet(catalog), t \in ToSet(requested) : Sibling(t, p.sku)
    IN IF \E p \in ToSet(catalog) : p.sku.id = s.id THEN missing => misled ELSE missing

(* Every product the answer names gets one card and no reproach, whichever *)
(* round or turn found it, and every invention is reproached, unless the   *)
(* lookup of a SKU the tools did not return took up a sibling instead.     *)
OnlySiblingsMisleadIn(catalog, calls, answer) ==
  LET citations == Gathered(catalog, calls)
      verdict == Validate(catalog, citations, answer)
      returned == UNION {Folds(Products(CallTool(catalog, c))) : c \in ToSet(calls)}
      looked == {s \in ToSet(answer.cited) : s.fold \notin returned}
      misled == \E p \in ToSet(catalog), s \in looked : Sibling(s, p.sku)
  IN /\ \A s \in ToSet(answer.cited) :
          IF ~Sold(catalog, s) THEN \E t \in ToSet(verdict.hallucinated) : t.fold = s.fold
          ELSE (s.fold \in returned \/ ~misled) =>
                 /\ s.fold \notin {t.fold : t \in ToSet(verdict.hallucinated)}
                 /\ answer.no_match \/ answer.refuses \/ s.fold \in Folds(verdict.displayed)
     /\ IsInjective(verdict.displayed) \/ misled

(* A figure the stats tool returned is reproached only when it is a count, *)
(* a zero or of another metric than price, and always passes unverified    *)
(* when no such call was made.                                             *)
FlagsAreFairIn(catalog, calls, answer) ==
  LET citations == Gathered(catalog, calls)
      verdict == Validate(catalog, citations, answer)
      prices == {e \in ToSet(citations) : IsStats(e) /\ e.metric = "price"}
      repeats(f) == \E e \in prices, k \in {"minimum", "maximum", "mean"} :
                      e[k] # None /\ f * e[k][2] = e[k][1]
  IN /\ verdict.stat_mismatch = TRUE =>
          \E f \in answer.figures : f = 0 \/ ~repeats(f)
     /\ verdict.unverified => ~\E c \in ToSet(calls) : c.tool = "get_catalog_stats"
     /\ (\A f \in answer.figures : \A e \in prices :
           \A k \in KnownFigures(e) : 2 * f * k[2] <= k[1] \/ f * k[2] >= 2 * k[1])
          => verdict.stat_mismatch # FALSE

=============================================================================
