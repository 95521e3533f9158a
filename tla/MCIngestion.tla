---------------------------- MODULE MCIngestion ----------------------------
(***************************************************************************)
(* Ingestion on small instances: two SKUs, two versions of a product.      *)
(***************************************************************************)
EXTENDS Ingestion, TLC

CONSTANTS s1, s2, h1, h2

Cat(a, b) == s1 :> a @@ s2 :> b

FeedOfRows(products, rejected, duplicates) ==
  [products |-> products, rejected |-> rejected,
   total |-> Cardinality(Present(products)) + Cardinality(rejected) + duplicates,
   failed |-> Cardinality(rejected), duplicates |-> duplicates]

(* A new product beside a twice updated one, the other version of the new  *)
(* product alone, and an unchanged product beside a rejected row.          *)
MCFeeds == { FeedOfRows(Cat(h2, h1), {}, 1), FeedOfRows(Cat(None, h2), {}, 0),
             FeedOfRows(Cat(h1, None), {s2}, 0) }

(* They are what parse_and_dedupe makes of these rows.                     *)
Parsing == INSTANCE Feed

Line(sku, hash) == [sku |-> sku, hash |-> hash]

ASSUME MCFeedsAreParsed ==
  MCFeeds = { Parsing!ParsedFeed(<<Line(s1, h1), Line(s2, h1), Line(s1, h2)>>),
              Parsing!ParsedFeed(<<Line(s2, h2)>>),
              Parsing!ParsedFeed(<<Line(s1, h1), Line(s2, None)>>) }

MCCatalogs == { Cat(h1, None) }

(* A catalog whose second product a later feed rejects.                    *)
MCBothIndexed == { Cat(h1, h1) }

=============================================================================
