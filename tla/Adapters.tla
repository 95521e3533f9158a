------------------------------ MODULE Adapters ------------------------------
(***************************************************************************)
(* The three demo catalogs, as two programs read them: the adapters of     *)
(* app/ingestion/adapters/demo_catalogs.py, which give a row its SKU and   *)
(* its category, and load_work_items of scripts/enrich_categories.py,      *)
(* which decided what to have classified, and under which key; with the    *)
(* taxonomies of app/ingestion/taxonomy.py.                                *)
(*                                                                         *)
(* A row has a title column, the one that replaces it on a best-seller, a  *)
(* link that may hold an ASIN, a SKU column and a rank badge that names a  *)
(* category; a hash is the tuple of what it is made from.                  *)
(***************************************************************************)
EXTENDS Python, Naturals, FiniteSetsExt, SequencesExt

CONSTANT DefaultCategory

Tenants == {"demo-fashion-in", "demo-electronics-in", "demo-home-goods"}

-----------------------------------------------------------------------------
(* The taxonomies, some leaves of each: a category and a subcategory, each *)
(* the set of its words.                                                   *)
UNCATEGORIZED == <<{"other"}, {"uncategorized"}>>

TaxonomyByTenant ==
  [t \in Tenants |->
     CASE t = "demo-fashion-in" ->
            {<<{"bags", "luggage"}, {"bags"}>>, <<{"bags", "luggage"}, {"backpacks"}>>,
             <<{"watches"}, {"watches"}>>, <<{"home", "living"}, {"kitchen", "dining"}>>,
             UNCATEGORIZED}
       [] t = "demo-electronics-in" ->
            {<<{"computing"}, {"laptops"}>>, <<{"wearables"}, {"wearables"}>>, UNCATEGORIZED}
       [] t = "demo-home-goods" ->
            {<<{"kitchen", "dining"}, {"cookware"}>>, <<{"home", "decor"}, {"wall", "decor"}>>,
             UNCATEGORIZED}]

(* What the agent may filter by: either level of a leaf, and anything for  *)
(* a merchant without a taxonomy.                                          *)
CategoryFilterValues(tenant) ==
  IF tenant \notin Tenants THEN None
  ELSE UNION {{leaf[1], leaf[2]} : leaf \in TaxonomyByTenant[tenant]}

(* The properties the tools share, with the values their schema allows:    *)
(* only fashion has genders.                                               *)
PriceBrandFilterProperties(tenant) ==
  [category |-> CategoryFilterValues(tenant),
   gender |-> IF tenant = "demo-fashion-in"
              THEN {"Men", "Women", "Unisex", "Boys", "Girls", "Unisex Kids"} ELSE None]

(* contains_any of one value: category_path is indexed by word, the words  *)
(* of its elements together.                                               *)
ContainsAny(path, value) == value \subseteq UNION ToSet(path)

-----------------------------------------------------------------------------
(* A best-seller's title is in the column of its link.                     *)
Title(tenant, row) ==
  IF row.title # None THEN row.title
  ELSE IF tenant = "demo-home-goods" THEN row.jump ELSE None

(* load_work_items: the key of a row, None for a row left out.             *)
RowKey(tenant, row) ==
  IF Title(tenant, row) = None THEN None
  ELSE IF tenant = "demo-electronics-in" THEN row.asin
  ELSE Title(tenant, row)

(* The row that stands for a key: the first of a title, the last of an     *)
(* ASIN.                                                                   *)
WorkItem(tenant, rows, key) ==
  LET ofKey == {i \in DOMAIN rows : RowKey(tenant, rows[i]) = key}
  IN rows[IF tenant = "demo-electronics-in" THEN Max(ofKey) ELSE Min(ofKey)]

WorkKeys(tenant, rows) == {RowKey(tenant, row) : row \in ToSet(rows)} \ {None}

-----------------------------------------------------------------------------
(* The adapters' preprocess.                                               *)

(* SheinHomeGoodsAdapter: the badge, or the file's own category.           *)
HashedCategory(row) == IF row.rank # None THEN row.rank ELSE DefaultCategory

Digest(row) == <<"shein", HashedCategory(row), Title("demo-home-goods", row)>>

Sku(tenant, row) ==
  CASE tenant = "demo-fashion-in" -> row.sku
    [] tenant = "demo-electronics-in" -> row.asin
    [] tenant = "demo-home-goods" -> Digest(row)

(* Mutant: only the first column, so that best-sellers have no title.      *)
KeyWithoutFallback(tenant, row) ==
  IF tenant = "demo-electronics-in" THEN row.asin ELSE row.title

EnrichmentKey(tenant, row) ==
  IF tenant = "demo-electronics-in" THEN row.asin ELSE Title(tenant, row)

(* _map needs both.                                                        *)
Accepted(tenant, row) == Sku(tenant, row) # None /\ Title(tenant, row) # None

DisplayCategory(tenant, row, enrichment) ==
  LET key == EnrichmentKey(tenant, row)
  IN IF key \in DOMAIN enrichment THEN enrichment[key] ELSE UNCATEGORIZED

(* The last row of a SKU is the product.                                   *)
ProductRow(tenant, rows, sku) ==
  rows[Max({i \in DOMAIN rows : Accepted(tenant, rows[i]) /\ Sku(tenant, rows[i]) = sku})]

SkusOf(tenant, rows) == {Sku(tenant, row) : row \in {r \in ToSet(rows) : Accepted(tenant, r)}}

-----------------------------------------------------------------------------
(* Whatever a run that got through has had classified, every product shows *)
(* the class its key was given, and the agent can filter by it: the two    *)
(* programs agree on what identifies a row.  Only the title of a fashion   *)
(* or home row may be another row's, with another description or badge.    *)
ProductsAreClassified(tenant, rows) ==
  \A sku \in SkusOf(tenant, rows) :
    LET row == ProductRow(tenant, rows, sku)
        key == EnrichmentKey(tenant, row)
    IN /\ key \in WorkKeys(tenant, rows)
       /\ Title(tenant, WorkItem(tenant, rows, key)) = Title(tenant, row)
       /\ \A leaf \in TaxonomyByTenant[tenant] :
            LET shown == DisplayCategory(tenant, row, [k \in WorkKeys(tenant, rows) |-> leaf])
            IN ToSet(shown) \subseteq PriceBrandFilterProperties(tenant).category

(* A category the agent may ask for brings every product that shows it, and *)
(* another only where its words are part of one longer name: asking for    *)
(* Bags brings all of Bags & Luggage.                                       *)
FiltersFindTheirLeaves(tenant) ==
  \A value \in PriceBrandFilterProperties(tenant).category, leaf \in TaxonomyByTenant[tenant] :
    ContainsAny(leaf, value) <=> \E name \in ToSet(leaf) : value \subseteq name

(* "Two products that scraped to an identical title and landed in the same *)
(* category collide": home rows of one title are one product in one        *)
(* category, and as many products as categories otherwise.                 *)
CollisionsAreRepeats(rows) ==
  \A i, k \in DOMAIN rows :
    LET r == rows[i]  q == rows[k]
    IN Accepted("demo-home-goods", r) /\ Accepted("demo-home-goods", q) =>
         (Sku("demo-home-goods", r) = Sku("demo-home-goods", q)
            <=> Title("demo-home-goods", r) = Title("demo-home-goods", q)
                /\ HashedCategory(r) = HashedCategory(q))

RowsAreIdentified(rows) ==
  /\ CollisionsAreRepeats(rows)
  /\ \A tenant \in Tenants : ProductsAreClassified(tenant, rows) /\ FiltersFindTheirLeaves(tenant)

=============================================================================
