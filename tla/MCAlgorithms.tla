---------------------------- MODULE MCAlgorithms ----------------------------
(***************************************************************************)
(* The pure parts of the system over bounded inputs: a behaviour is about  *)
(* one of them, a state is an input of it, a sequence, and a step makes    *)
(* the input one longer.                                                   *)
(***************************************************************************)
EXTENDS Feed, Evidence, Routing, Normalise, Quality, Evaluation, Gate, TLC

CONSTANTS
  Unreadable, NotANumber, Infinite, DefaultCategory,    \* Mapping, Adapters
  MaxRows, MaxProducts, MaxRounds, MaxDigits, MaxWords, MaxCatalogs, MaxPrices, MaxRanking,
  MaxListed, MaxScored, MaxSwept,
  d1, d2, d3, kA, kB

VARIABLES algorithm, input

B == INSTANCE Mapping
D == INSTANCE Adapters

AlgorithmsAssumption == FeedAssumption /\ RetrievalAssumption /\ EvidenceAssumption
                        /\ EvaluationAssumption /\ 1 .. 3 \subseteq DOMAIN Discount
                        /\ GateAssumption /\ {kA, kB} \subseteq Classes
                        /\ RoutingAssumption

-----------------------------------------------------------------------------
(* The inputs.                                                             *)

(* Two SKUs of which one has all the words of the other, and an unrelated  *)
(* one; ab is cited in another case than the catalog's.                    *)
ab == [id |-> "AB-1", fold |-> "ab-1", words |-> {"ab", "1"}]
abLower == [id |-> "ab-1", fold |-> "ab-1", words |-> {"ab", "1"}]
abx == [id |-> "AB-1-X", fold |-> "ab-1-x", words |-> {"ab", "1", "x"}]
cd == [id |-> "CD-2", fold |-> "cd-2", words |-> {"cd", "2"}]
fake == [id |-> "ZZ-9", fold |-> "zz-9", words |-> {"zz", "9"}]

Item(sku, price, rating, brand, in_stock, scored, fit) ==
  [sku |-> sku, price |-> price, rating |-> rating, brand |-> brand,
   category_path |-> {"shoes"}, gender |-> None, in_stock |-> in_stock,
   scored |-> scored, fit |-> fit]

Items == {Item(ab, 4, None, {"nike"}, TRUE, TRUE, 1),
          Item(abx, 2, 3, {"nike", "air"}, TRUE, TRUE, 2),
          Item(cd, None, 5, {}, FALSE, TRUE, 1),
          Item(fake, 4, 5, {"air"}, TRUE, TRUE, 3),
          Item(abLower, 0, 1, {"nike"}, TRUE, FALSE, 2)}

NoFilter == [min_price |-> None, max_price |-> None, brands |-> {}, categories |-> {},
             in_stock_only |-> FALSE, genders |-> {}, min_rating |-> None]

Filters == {NoFilter, [NoFilter EXCEPT !.min_price = 2], [NoFilter EXCEPT !.max_price = 2],
            [NoFilter EXCEPT !.brands = {{"nike"}}, !.in_stock_only = TRUE],
            [NoFilter EXCEPT !.brands = {{"nike", "air"}, {"air"}}],
            [NoFilter EXCEPT !.min_rating = 3, !.categories = {{"shoes"}, {"bags"}}],
            [NoFilter EXCEPT !.genders = {"men"}]}

Requests == [limit : 1..3, filters : Filters, rerank : {TRUE, FALSE, None},
             rerank_default : {TRUE, None}, rerank_enabled : {FALSE}, identifier : BOOLEAN]

(* The catalog of the chat turns.                                          *)
Shop == <<Item(abx, 2, 3, {"nike", "air"}, TRUE, TRUE, 2),
          Item(ab, 4, None, {"nike"}, TRUE, TRUE, 1),
          Item(cd, 0, 5, {}, FALSE, TRUE, 1)>>

(* What the model may fill in, for a catalog without genders.              *)
Arguments ==
  {<<>>, [sort_by |-> "price_desc"], [sort_by |-> "relevance", max_price |-> 0], [brand |-> {}],
   [metric |-> "rating"], [metric |-> "price", max_price |-> 0],
   [metric |-> "rating", in_stock_only |-> TRUE], [gender |-> {"men"}],
   [skus |-> <<abLower>>], [skus |-> <<cd, fake>>]}

Calls ==
  {call \in [tool : DOMAIN ToolProperties(FALSE), args : Arguments] :
     DOMAIN call.args \subseteq ToolProperties(FALSE)[call.tool]}

Answers ==
  [cited : {<<>>} \cup {<<s>> : s \in {ab, abLower, abx, cd, fake}}
             \cup {<<s, t>> : s, t \in {ab, abLower, abx, cd, fake}},
   figures : {{}, {0}, {2}, {3}, {4}, {100}, {2, 4}},
   no_match : BOOLEAN, refuses : {FALSE}]

(* 1 / log2(rank + 1), in thousandths.                                     *)
MCDiscount == <<1000, 631, 500, 431, 387>>

(* The words of queries: a query takes them in this order.                 *)
WordKinds == <<{}, {"identifier", "digit"}, {"caps"}, {"attribute"},
               {"identifier", "digit", "measurement"}, {"exploratory"}, {"need", "context"}>>

(* Cells of a row, good and bad, and what a source may tell about them.    *)
Cells ==
  [sku : {None, "<br>", "a1"}, title : {"<br>", "Kurta"},
   price : {None, [number |-> Unreadable, words |-> {"usd"}], [number |-> 4, words |-> {"rs."}],
            [number |-> NotANumber, words |-> {}], [number |-> Infinite, words |-> {}]},
   currency : {"&nbsp;", "EUR"}, in_stock : {None, "sold out", "???"},
   rating : {None, [value |-> 9, over |-> 10], [value |-> 7, over |-> None],
             [value |-> Infinite, over |-> None], [value |-> Infinite, over |-> Infinite]},
   review_count : {None, 3, 0 - 1, Infinite}, category : {<<>>, <<"Home", ">", "Decor", "/", "Wall">>}]

OptionalColumns == {"currency", "in_stock", "rating", "review_count"}

Mappings ==
  [columns : {{}, {"rating", "review_count"}, OptionalColumns},
   default_currency : {None, "INR"}, rating_scale : {5}, default_in_stock : {TRUE}]

Listed ==
  [title : {None, "t1", "t2"}, jump : {None, "t1"}, asin : {None, "a1"}, sku : {"s1", "s2"},
   rank : {None, "badge"}]

(* A query of the gate and one of the sweep, by number.                    *)
Changes ==
  <<<<None, None>>, <<0, 0>>, <<0, 4>>, <<0, 40>>, <<0, Absent>>, <<4, 0>>, <<4, 4>>, <<4, 40>>,
    <<4, Absent>>, <<40, 0>>, <<40, 4>>, <<40, 40>>, <<40, Absent>>>>

ClassOf(number) == IF number % 2 = 0 THEN kA ELSE kB

Scored(number) ==
  LET change == Changes[number \div 2]
  IN [class |-> ClassOf(number), before |-> change[1], after |-> change[2]]

(* The alphas that find what a query asks for.                             *)
FoundBy == <<{}, {0}, {1}, {2}, {0, 1}, {0, 2}, {1, 2}, {0, 1, 2}>>

SweptScores ==
  [n \in 1 .. 9 |-> IF n = 9 THEN None
                    ELSE [alpha \in Alphas |-> IF alpha \in FoundBy[n] THEN 1 ELSE 0]]

Swept(number) == [class |-> ClassOf(number), scores |-> SweptScores[number \div 2]]

(* The members of 1 .. n from the last one on: the order does not matter.  *)
Onwards(n) == IF input = <<>> THEN 1 .. n ELSE Last(input) .. n

Prices == <<None, 0, 1, 2, 4, 5, 8, 16, 64>>

Inputs ==
  CASE algorithm = "Feed" -> Row
    [] algorithm = "Retrieval" -> Items \ ToSet(input)
    [] algorithm = "Evidence" -> Calls
    [] algorithm = "Normalise" -> {"1", "2"}
    [] algorithm = "Routing" -> Onwards(Len(WordKinds))
    [] algorithm = "Quality" -> IF input = <<>> THEN 0..2 ELSE Last(input) .. 2
    [] algorithm = "Anomalies" -> Onwards(Len(Prices))
    [] algorithm = "Evaluation" -> {d1, d2, d3}
    [] algorithm = "Mapping" -> Cells
    [] algorithm = "Adapters" -> Listed
    [] algorithm = "Gate" -> Onwards(2 * Len(Changes) + 1) \ {1}
    [] algorithm = "Sweep" -> Onwards(2 * Len(SweptScores) + 1) \ {1}

MaxInput ==
  [Feed |-> MaxRows, Retrieval |-> MaxProducts, Evidence |-> MaxRounds, Normalise |-> MaxDigits,
   Routing |-> MaxWords, Quality |-> MaxCatalogs, Anomalies |-> MaxPrices,
   Evaluation |-> MaxRanking, Mapping |-> 1, Adapters |-> MaxListed, Gate |-> MaxScored,
   Sweep |-> MaxSwept]

Init == algorithm \in DOMAIN MaxInput /\ input = <<>>

Next ==
  /\ Len(input) < MaxInput[algorithm]
  /\ \E item \in Inputs : input' = Append(input, item)
  /\ UNCHANGED algorithm

Spec == Init /\ [][Next]_<<algorithm, input>>

-----------------------------------------------------------------------------
(* Feed.                                                                   *)

AcceptedRows(s) == {i \in DOMAIN input : Accepted(input[i]) /\ input[i].sku = s}

(* The product kept for a SKU, and the raw row kept for Mongo, are those   *)
(* of the last row that maps to a product of it, however the rejected rows *)
(* and the other SKUs' rows lie between them; and "combines what           *)
(* adapters.base.deduplicate does": both yield the same errors, the same   *)
(* products in the same order and the same duplicates.                     *)
LastRowWins ==
  algorithm = "Feed" =>
    LET parsed == ParseAndDedupe(input)
        both == Deduplicate(input)
        products == [i \in DOMAIN parsed.order |-> input[parsed.winner[parsed.order[i]]]]
    IN /\ \A sku \in Skus :
            IF AcceptedRows(sku) = {}
            THEN parsed.products[sku] = None /\ parsed.winner[sku] = 0
            ELSE LET last == Max(AcceptedRows(sku))
                 IN parsed.products[sku] = input[last].hash /\ parsed.winner[sku] = last
       /\ both.results = parsed.errors \o products
       /\ both.duplicates = parsed.duplicates

-----------------------------------------------------------------------------
(* Retrieval, of any request over the catalog.                             *)

(* A page of search results is full, without repeats, and what reranking   *)
(* leaves out of it is no better than what it shows.                       *)
PagesAreFull ==
  algorithm = "Retrieval" => \A request \in Requests : PageIsFull(input, request)

(* A superlative answered by search_sorted never beats the exact one of    *)
(* stats and agrees with it when the pool held every match.                *)
SortedAgreesWithStats ==
  algorithm = "Retrieval" =>
    \A filters \in Filters, sort_by \in SortBy, limit \in 1..2 :
      SortAgrees(input, filters, sort_by, limit)

-----------------------------------------------------------------------------
(* Evidence, of any answer to the turn's tool calls.                       *)

(* A product the answer names is shown once and believed, an invented one  *)
(* is reported, and the model is told of every SKU that is not sold,       *)
(* unless looking up a SKU took up its sibling.                            *)
OnlySiblingsMislead ==
  algorithm = "Evidence" =>
    \A answer \in {a \in Answers : a.figures = {}} :
      /\ OnlySiblingsMisleadIn(Shop, input, answer)
      /\ MissingIsReported(Shop, answer.cited)

(* A figure exactly as the price statistics gave it is never reported, one *)
(* that is twice too large always is, and none is reported as unbacked     *)
(* after a call of the statistics tool.                                    *)
FlagsAreFair ==
  algorithm = "Evidence" =>
    \A answer \in Answers : FlagsAreFairIn(Shop, input, answer)

-----------------------------------------------------------------------------
(* What turns a message into one for the stronger model.                   *)
Additions == {<<>>, <<{"comparison"}>>, <<{"join"}>>, <<{"join"}, {"join"}>>}

(* A product code, an intent or the lack of any signal decides the class   *)
(* of a query over its length and shape, and the text of a message the     *)
(* model of its turn, which never falls back to the cheaper one.           *)
CluesDecideTheClass ==
  algorithm = "Routing" =>
    LET words == [i \in DOMAIN input |-> WordKinds[input[i]]]
        Message(all, quoted, question, blank) ==
          [words |-> all, quoted |-> quoted, question |-> question, blank |-> blank]
    IN /\ \A quoted, question, blank \in BOOLEAN :
            (blank => words = <<>> /\ ~quoted /\ ~question)
              => CluesDecide(Message(words, quoted, question, blank))
       /\ \A more \in Additions : TurnsEscalate(Message(words \o more, FALSE, FALSE, FALSE))

Fractions == {<<>>, <<"5">>, <<"5", "0">>, <<"5", "0", "1">>}

(* A price in any of the styles feeds use is read as written, but for the  *)
(* two shapes named in Normalise.                                          *)
PricesSurvive ==
  algorithm = "Normalise" /\ input # <<>> =>
    \A fraction \in Fractions, style \in Styles :
      NothingMisread([whole |-> input, fraction |-> fraction], style)

(* What the quality report points at: Grubbs' test can flag a lone catalog *)
(* of duplicates at every size the table has, and neither where two share  *)
(* the highest rate; far-out prices are a few beyond the fence and never   *)
(* the end of a smooth spread; one category is degenerate, many even ones  *)
(* are not; and the sample to look at is spread over the feed.             *)
SuspectsAreFlagged ==
  /\ algorithm = "Quality" => OutliersOnly(input)
  /\ algorithm = "Anomalies" =>
       LET prices == [i \in DOMAIN input |-> Prices[input[i]]]
       IN /\ \A ratio \in {2, 4} : FarOutIsFair(prices, ratio)
          /\ LET counts == Only(prices, {i \in DOMAIN prices : prices[i] \notin {None, 0}})
             IN BandsAreFair(counts) /\ BandsAreFair(counts \o counts)
          /\ \A n \in 0..10 : SampleIsEven(Len(input), n)

-----------------------------------------------------------------------------
Parts == {<<"a">>, <<"a", "/", "b">>, <<"a", ">", "b">>, <<"a", "|", "b">>}

(* A row is lost for its SKU, its title or a number no field can hold and  *)
(* for nothing else, a cell that cannot be read costs its own column, and  *)
(* ratings, currencies and category paths come out as they were written.   *)
RowsAreMapped ==
  algorithm = "Mapping" =>
    IF input = <<>>
    THEN /\ \A value \in 0..12, over \in {None, 0, 5, 10}, scale \in {5, 10} :
              B!RatingIsHonest([value |-> value, over |-> over], scale)
         /\ \A words \in SUBSET {"rs.", "us$", "$", "euro", "dollars"} :
              B!CurrencyIsTheWords(words)
         /\ \A s \in DOMAIN B!Separators :
              \A parts \in BoundedSeq(Parts, 2) : B!SplitsAsWritten(parts, s)
    ELSE \A mapping \in Mappings :
           B!LostForCause(input[1], mapping) /\ B!CostsItsColumn(input[1], mapping)

(* The adapters and the enrichment agree on what identifies a row of the   *)
(* demo catalogs, and rows collide only as the digest's comment says.      *)
RowsAreIdentified == algorithm = "Adapters" => D!RowsAreIdentified(input)

Judgements == [{d1, d2} -> 0..2] \cup [{d1, d2, d3} -> 0..2]

(* No ranking beats the ideal, by order, by length or by repetition; the   *)
(* gate fails whenever a class collapses and passes what is no worse; and  *)
(* dynamic alpha never measures behind a fixed one.                        *)
RegressionsAreCaught ==
  /\ algorithm = "Evaluation" =>
       \A judgements \in Judgements, k \in 1..3 : IdealIsBest(input, judgements, k)
  /\ algorithm = "Gate" => CollapsesFail([i \in DOMAIN input |-> Scored(input[i])])
  /\ algorithm = "Sweep" => DynamicNeverLoses([i \in DOMAIN input |-> Swept(input[i])])

=============================================================================
