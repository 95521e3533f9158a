----------------------------- MODULE Retrieval ------------------------------
(***************************************************************************)
(* WeaviateHybridRetriever of app/retrieval/hybrid.py over one tenant's    *)
(* catalog: search, search_sorted, stats and get_by_skus.                  *)
(*                                                                         *)
(* A catalog is the sequence of its products in the order in which the     *)
(* engine ranks them for one query, scored says whether the blend reaches  *)
(* the product at all (pure keyword search, alpha 0, only reaches those    *)
(* that share a word with the query), and fit is the cross-encoder's       *)
(* score.  A text property is the set of the words it is tokenised into:   *)
(* sku, brand and category_path are indexed by WORD (weaviate_client.py),  *)
(* so a filter value matches when all its words occur.                     *)
(***************************************************************************)
EXTENDS Python, Integers, FiniteSetsExt, SequencesExt

CONSTANTS
  RetrieveTopK,   \* settings.retrieve_top_k
  SortPoolSize    \* _SORT_POOL_SIZE

RetrievalAssumption ==
  RetrieveTopK \in Nat \ {0} /\ SortPoolSize \in Nat \ {0} /\ None \notin Int \cup (Int \X Int)

SortBy == {"price_asc", "price_desc", "rating_desc"}

-----------------------------------------------------------------------------
(* _build_filters: a bound is inclusive and refuses a product without the  *)
(* property, the values of one list are alternatives, and a list that is   *)
(* empty or absent does not filter.                                        *)
AtLeast(value, bound) == bound # None => value # None /\ value >= bound
AtMost(value, bound) == bound # None => value # None /\ value <= bound
AnyOf(words, values) == values # {} => \E v \in values : v \subseteq words

Matches(p, filters) ==
  /\ AtLeast(p.price, filters.min_price)
  /\ AtMost(p.price, filters.max_price)
  /\ AnyOf(p.brand, filters.brands)
  /\ AnyOf(p.category_path, filters.categories)
  /\ filters.in_stock_only => p.in_stock
  /\ filters.genders # {} => p.gender \in filters.genders
  /\ AtLeast(p.rating, filters.min_rating)

-----------------------------------------------------------------------------
FirstOf(s, n) == SubSeq(s, 1, Min({n, Len(s)}))

(* The products a query finds: those that match, and that the blend        *)
(* reaches.                                                                *)
Matching(catalog, filters) ==
  Only(catalog, {i \in DOMAIN catalog : Matches(catalog[i], filters)})

Reach(catalog, filters) ==
  Only(catalog, {i \in DOMAIN catalog : Matches(catalog[i], filters) /\ catalog[i].scored})

(* Whether the request's own choice, the merchant's, or the process's      *)
(* decides; only the first is above the identifier heuristic.              *)
ShouldRerank(request) ==
  IF request.rerank # None THEN request.rerank ELSE
  /\ IF request.rerank_default # None THEN request.rerank_default
     ELSE request.rerank_enabled
  /\ ~request.identifier

(* Mutant: the pool is always the reranker's, whatever page was asked for. *)
PoolOfTopK(catalog, request) ==
  FirstOf(Reach(catalog, request.filters), RetrieveTopK)

Pool(catalog, request) ==
  FirstOf(Reach(catalog, request.filters), Max({RetrieveTopK, request.limit}))

BestFitFirst(pool) == Sorted(pool, [i \in DOMAIN pool |-> 0 - pool[i].fit])

Search(catalog, request) ==
  LET pool == Pool(catalog, request)
  IN FirstOf(IF ShouldRerank(request) THEN BestFitFirst(pool) ELSE pool, request.limit)

-----------------------------------------------------------------------------
(* stats: count is of every match, the others of those with the metric.    *)
Metric(p, metric) == IF metric = "price" THEN p.price ELSE p.rating

Keyed(s, metric) == Only(s, {i \in DOMAIN s : Metric(s[i], metric) # None})

(* A figure is a fraction: numerator and denominator.                      *)
Stats(catalog, filters, metric) ==
  LET matches == Matching(catalog, filters)
      keyed == Keyed(matches, metric)
      values == [i \in DOMAIN keyed |-> Metric(keyed[i], metric)]
      sum == MapThenSumSet(LAMBDA i : values[i], DOMAIN values)
  IN [kind |-> "stats", metric |-> metric, count |-> Len(matches),
      minimum |-> IF keyed = <<>> THEN None ELSE <<Min(ToSet(values)), 1>>,
      maximum |-> IF keyed = <<>> THEN None ELSE <<Max(ToSet(values)), 1>>,
      mean |-> IF keyed = <<>> THEN None ELSE <<sum, Len(keyed)>>]

-----------------------------------------------------------------------------
(* search_sorted: a pool of the most relevant, those without the key left  *)
(* out, sorted, and only then cut to the page.                             *)
KeyField(sort_by) == IF sort_by = "rating_desc" THEN "rating" ELSE "price"

SortedRequest(filters) ==
  [limit |-> SortPoolSize, filters |-> filters, rerank |-> FALSE,
   rerank_default |-> None, rerank_enabled |-> TRUE, identifier |-> FALSE]

(* With reverse, the order of the negated keys.                            *)
SortKey(p, sort_by) ==
  LET value == Metric(p, KeyField(sort_by))
  IN IF sort_by = "price_asc" THEN value ELSE 0 - value

SortedBy(pool, sort_by) ==
  LET keyed == Keyed(pool, KeyField(sort_by))
  IN Sorted(keyed, [i \in DOMAIN keyed |-> SortKey(keyed[i], sort_by)])

(* Mutant: the page is cut before it is sorted.                            *)
SortThePage(catalog, filters, sort_by, limit) ==
  SortedBy(FirstOf(Search(catalog, SortedRequest(filters)), limit), sort_by)

SearchSorted(catalog, filters, sort_by, limit) ==
  FirstOf(SortedBy(Search(catalog, SortedRequest(filters)), sort_by), limit)

-----------------------------------------------------------------------------
(* get_by_skus: a wanted SKU matches every product that has all its words, *)
(* and as many are returned as were wanted, in the engine's own order.     *)
GetBySkus(catalog, skus) ==
  LET named == {i \in DOMAIN catalog :
                  \E s \in ToSet(skus) : s.words \subseteq catalog[i].sku.words}
  IN FirstOf(Only(catalog, named), Len(skus))

-----------------------------------------------------------------------------
(* The properties, for a catalog, whatever is asked of it.                 *)

(* "Fetching fewer than request.limit would silently truncate a caller's   *)
(* page": a page is full or holds every product in reach, without repeats, *)
(* and nothing it leaves out of the reranker's pool beats what it shows.   *)
PageIsFull(catalog, request) ==
  LET page == Search(catalog, request)
      reach == Reach(catalog, request.filters)
      shown == {i \in DOMAIN reach : reach[i] \in ToSet(page)}
  IN /\ Len(page) = Min({request.limit, Len(reach)})
     /\ IsInjective(page)
     /\ ShouldRerank(request) =>
          \A i \in shown, k \in DOMAIN reach \ shown :
            k <= RetrieveTopK => reach[i].fit >= reach[k].fit

(* A superlative by search_sorted never beats the one by stats, and agrees *)
(* with it when every match is in the pool it sorted.                      *)
SortAgrees(catalog, filters, sort_by, limit) ==
  LET best == SearchSorted(catalog, filters, sort_by, limit)
      stats == Stats(catalog, filters, KeyField(sort_by))
      bound == IF sort_by = "price_asc" THEN stats.minimum ELSE stats.maximum
      extreme == IF bound = None THEN None ELSE bound[1]
      matches == Matching(catalog, filters)
      complete == Len(matches) <= SortPoolSize /\ \A p \in ToSet(matches) : p.scored
      value == Metric(best[1], KeyField(sort_by))
  IN /\ best # <<>> => /\ extreme # None
                       /\ IF sort_by = "price_asc" THEN value >= extreme ELSE value <= extreme
     /\ complete => IF extreme = None THEN best = <<>> ELSE best # <<>> /\ value = extreme

=============================================================================
