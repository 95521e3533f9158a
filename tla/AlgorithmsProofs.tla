-------------------------- MODULE AlgorithmsProofs --------------------------
(***************************************************************************)
(* Proofs about the pure algorithms of MCAlgorithms, for inputs of any     *)
(* length: the feed, the routing, retrieval, the evidence of a chat turn,  *)
(* what the scripts measure, the prices of a feed and its quality.         *)
(***************************************************************************)
EXTENDS MCAlgorithms, SequenceTheorems, Lemmas

(* Without repeats.                                                        *)
Distinct(s) == \A i, k \in DOMAIN s : s[i] = s[k] => i = k

(* A behaviour of MCAlgorithms is the input of one algorithm growing.      *)
InputsInv ==
  /\ algorithm = "Adapters" => input \in Seq(Listed)
  /\ algorithm = "Routing" => input \in Seq(1 .. Len(WordKinds))
  /\ algorithm = "Feed" => input \in Seq(Row)
  /\ algorithm = "Retrieval" => input \in Seq(Items) /\ Distinct(input)
  /\ algorithm = "Normalise" => input \in Seq({"1", "2"})
  /\ algorithm = "Quality" => input \in Seq(0 .. 2)
  /\ algorithm = "Anomalies" => input \in Seq(1 .. Len(Prices))

LEMMA OnwardsIs ==
  ASSUME NEW n \in Nat, NEW item \in Onwards(n), input \in Seq(1 .. n)
  PROVE  item \in 1 .. n
<1>1. CASE input = <<>>
  BY <1>1 DEF Onwards
<1>2. CASE input # <<>>
  <2>1. item \in Last(input) .. n
    BY <1>2 DEF Onwards
  <2>2. Last(input) \in 1 .. n
    BY <1>2 DEF Last
  <2>3. QED
    BY <2>1, <2>2
<1>3. QED
  BY <1>1, <1>2

LEMMA InputsTyped == Spec => []InputsInv
<1>1. Init => InputsInv
  BY DEF Init, InputsInv, Distinct
<1>2. InputsInv /\ [Next]_<<algorithm, input>> => InputsInv'
  <2> SUFFICES ASSUME InputsInv, [Next]_<<algorithm, input>> PROVE InputsInv'
    OBVIOUS
  <2>1. CASE UNCHANGED <<algorithm, input>>
    BY <2>1 DEF InputsInv
  <2>2. ASSUME NEW item \in Inputs, input' = Append(input, item), UNCHANGED algorithm
        PROVE  InputsInv'
    <3>1. CASE algorithm = "Adapters"
      <4>1. item \in Listed
        BY <2>2, <3>1 DEF Inputs
      <4>2. QED
        BY <2>2, <3>1, <4>1 DEF InputsInv
    <3>2. CASE algorithm = "Feed"
      <4>1. item \in Row
        BY <2>2, <3>2 DEF Inputs
      <4>2. QED
        BY <2>2, <3>2, <4>1 DEF InputsInv
    <3>3. CASE algorithm = "Routing"
      <4> DEFINE n == Len(WordKinds)
      <4>1. n \in Nat
        BY DEF WordKinds
      <4>2. item \in Onwards(n) /\ input \in Seq(1 .. n)
        BY <2>2, <3>3 DEF Inputs, InputsInv
      <4>3. item \in 1 .. n
        <5> HIDE DEF n
        <5>1. QED
          BY <4>1, <4>2, OnwardsIs
      <4>4. QED
        BY <2>2, <3>3, <4>3 DEF InputsInv
    <3>4. CASE algorithm = "Retrieval"
      <4>1. item \in Items /\ item \notin {input[i] : i \in DOMAIN input}
        BY <2>2, <3>4 DEF Inputs, ToSet
      <4>2. input \in Seq(Items) /\ Distinct(input)
        BY <3>4 DEF InputsInv
      <4>3. Distinct(Append(input, item))
        BY <4>1, <4>2 DEF Distinct
      <4>4. QED
        BY <2>2, <3>4, <4>1, <4>2, <4>3 DEF InputsInv
    <3>5. CASE algorithm = "Normalise"
      <4>1. item \in {"1", "2"}
        BY <2>2, <3>5 DEF Inputs
      <4>2. QED
        BY <2>2, <3>5, <4>1 DEF InputsInv
    <3>6. CASE algorithm = "Quality"
      <4>1. item \in (IF input = <<>> THEN 0 .. 2 ELSE Last(input) .. 2) /\ input \in Seq(0 .. 2)
        BY <2>2, <3>6 DEF Inputs, InputsInv
      <4>2. input # <<>> => Last(input) \in 0 .. 2
        BY <4>1 DEF Last
      <4>3. item \in 0 .. 2
        BY <4>1, <4>2
      <4>4. QED
        BY <2>2, <3>6, <4>3 DEF InputsInv
    <3>7. CASE algorithm = "Anomalies"
      <4> DEFINE n == Len(Prices)
      <4>1. n \in Nat
        BY DEF Prices
      <4>2. item \in Onwards(n) /\ input \in Seq(1 .. n)
        BY <2>2, <3>7 DEF Inputs, InputsInv
      <4>3. item \in 1 .. n
        <5> HIDE DEF n
        <5>1. QED
          BY <4>1, <4>2, OnwardsIs
      <4>4. QED
        BY <2>2, <3>7, <4>3 DEF InputsInv
    <3>8. QED
      BY <2>2, <3>1, <3>2, <3>3, <3>4, <3>5, <3>6, <3>7 DEF InputsInv
  <2>3. QED
    BY <2>1, <2>2 DEF Next
<1>3. QED
  BY <1>1, <1>2, PTL DEF Spec

(* The last of a set of numbers.                                           *)
LEMMA LastOf ==
  ASSUME NEW n \in Nat, NEW I \in SUBSET (1 .. n), I # {}
  PROVE  /\ D!Max(I) \in I /\ \A i \in I : i <= D!Max(I)
         /\ D!Min(I) \in I /\ \A i \in I : i >= D!Min(I)
<1>0. I \subseteq Nat
  OBVIOUS
<1>1. PICK i \in I : \A k \in I : i <= k
  BY <1>0, Smallest
<1>2. PICK m \in {n - k : k \in I} : \A k \in {n - q : q \in I} : m <= k
  <2>1. {n - k : k \in I} \subseteq Nat /\ {n - k : k \in I} # {}
    OBVIOUS
  <2>2. QED
    BY <2>1, Smallest
<1>3. PICK j \in I : m = n - j
  OBVIOUS
<1>4. \A k \in I : j >= k
  <2> TAKE k \in I
  <2>1. n - k \in {n - q : q \in I}
    OBVIOUS
  <2>2. n - j <= n - k
    BY <1>2, <1>3, <2>1
  <2>3. j \in Nat /\ k \in Nat
    BY <1>0
  <2>4. QED
    BY <2>2, <2>3
<1>5. D!Max(I) \in I /\ \A k \in I : D!Max(I) >= k
  BY <1>4 DEF D!Max
<1>6. D!Min(I) \in I /\ \A k \in I : D!Min(I) <= k
  BY <1>1 DEF D!Min
<1>7. QED
  BY <1>5, <1>6

-----------------------------------------------------------------------------
(* What identifies a row.                                                  *)
LEMMA Collisions == ASSUME NEW rows PROVE D!CollisionsAreRepeats(rows)
BY DEF D!CollisionsAreRepeats, D!Sku, D!Digest

LEMMA Leaves ==
  ASSUME NEW tenant \in D!Tenants
  PROVE  /\ \A leaf \in D!TaxonomyByTenant[tenant] :
              /\ leaf = <<leaf[1], leaf[2]>>
              /\ {leaf[1], leaf[2]} \subseteq D!PriceBrandFilterProperties(tenant).category
         /\ D!FiltersFindTheirLeaves(tenant)
<1>1. \A leaf \in D!TaxonomyByTenant[tenant] : leaf = <<leaf[1], leaf[2]>>
  BY DEF D!TaxonomyByTenant, D!Tenants, D!UNCATEGORIZED
<1>2. D!PriceBrandFilterProperties(tenant).category
        = UNION {{leaf[1], leaf[2]} : leaf \in D!TaxonomyByTenant[tenant]}
  BY DEF D!PriceBrandFilterProperties, D!CategoryFilterValues
<1>3. \A leaf \in D!TaxonomyByTenant[tenant] : D!ToSet(leaf) = {leaf[1], leaf[2]}
  <2> TAKE leaf \in D!TaxonomyByTenant[tenant]
  <2>1. DOMAIN leaf = 1 .. 2
    BY <1>1
  <2>2. QED
    BY <2>1 DEF D!ToSet
<1>4. \A leaf \in D!TaxonomyByTenant[tenant], other \in D!TaxonomyByTenant[tenant],
        i \in {1, 2} :
        leaf[i] \subseteq other[1] \cup other[2]
            => leaf[i] \subseteq other[1] \/ leaf[i] \subseteq other[2]
  <2>1. CASE tenant = "demo-fashion-in"
    BY <2>1 DEF D!TaxonomyByTenant, D!Tenants, D!UNCATEGORIZED
  <2>2. CASE tenant = "demo-electronics-in"
    BY <2>2 DEF D!TaxonomyByTenant, D!Tenants, D!UNCATEGORIZED
  <2>3. CASE tenant = "demo-home-goods"
    BY <2>3 DEF D!TaxonomyByTenant, D!Tenants, D!UNCATEGORIZED
  <2>4. QED
    BY <2>1, <2>2, <2>3 DEF D!Tenants
<1>5. D!FiltersFindTheirLeaves(tenant)
  <2> SUFFICES ASSUME NEW value \in D!PriceBrandFilterProperties(tenant).category,
                      NEW leaf \in D!TaxonomyByTenant[tenant]
               PROVE  D!ContainsAny(leaf, value)
                      <=> \E name \in D!ToSet(leaf) : value \subseteq name
    BY DEF D!FiltersFindTheirLeaves
  <2>1. PICK other \in D!TaxonomyByTenant[tenant], i \in {1, 2} : value = other[i]
    BY <1>2
  <2>2. D!ContainsAny(leaf, value) <=> value \subseteq leaf[1] \cup leaf[2]
    BY <1>3 DEF D!ContainsAny
  <2>3. (\E name \in D!ToSet(leaf) : value \subseteq name)
          <=> value \subseteq leaf[1] \/ value \subseteq leaf[2]
    BY <1>3
  <2>4. QED
    BY <1>4, <2>1, <2>2, <2>3
<1>6. QED
  BY <1>1, <1>2, <1>5

LEMMA RowsClassified ==
  ASSUME NEW rows, Len(rows) \in Nat, DOMAIN rows = 1 .. Len(rows),
         NEW tenant \in D!Tenants
  PROVE  D!ProductsAreClassified(tenant, rows)
<1> SUFFICES ASSUME NEW sku \in D!SkusOf(tenant, rows)
             PROVE  LET r == D!ProductRow(tenant, rows, sku)
                        key == D!EnrichmentKey(tenant, r)
                    IN /\ key \in D!WorkKeys(tenant, rows)
                       /\ D!Title(tenant, D!WorkItem(tenant, rows, key))
                           = D!Title(tenant, r)
                       /\ \A leaf \in D!TaxonomyByTenant[tenant] :
                            LET shown == D!DisplayCategory(tenant, r,
                                                               [k \in D!WorkKeys(tenant, rows) |-> leaf])
                            IN D!ToSet(shown) \subseteq D!PriceBrandFilterProperties(tenant).category
  BY DEF D!ProductsAreClassified
<1> DEFINE ofSku == {i \in DOMAIN rows : D!Accepted(tenant, rows[i])
                                          /\ D!Sku(tenant, rows[i]) = sku}
           last == D!Max(ofSku)
           r == D!ProductRow(tenant, rows, sku)
           key == D!EnrichmentKey(tenant, r)
           ofKey == {i \in DOMAIN rows : D!RowKey(tenant, rows[i]) = key}
<1>1. ofSku # {} /\ ofSku \in SUBSET (1 .. Len(rows))
  BY DEF D!SkusOf, D!ToSet
<1>2. last \in ofSku /\ r = rows[last]
  BY <1>1, LastOf DEF D!ProductRow
<1>3. r = rows[last] /\ last \in DOMAIN rows /\ D!Accepted(tenant, r)
        /\ D!Sku(tenant, r) = sku
  BY <1>2
<1> HIDE DEF last, r
<1>4. D!RowKey(tenant, r) = key /\ key # None
  BY <1>3 DEF D!RowKey, D!EnrichmentKey, D!Accepted, D!Sku, D!Tenants
<1>5. last \in ofKey /\ ofKey \in SUBSET (1 .. Len(rows))
  BY <1>3, <1>4
<1>6. key \in D!WorkKeys(tenant, rows)
  BY <1>3, <1>4 DEF D!WorkKeys, D!ToSet
<1>7. D!Max(ofKey) \in ofKey /\ D!Min(ofKey) \in ofKey
  BY <1>5, LastOf
<1>8. D!Title(tenant, D!WorkItem(tenant, rows, key)) = D!Title(tenant, r)
  <2>1. CASE tenant = "demo-electronics-in"
    <3>1. ofKey = ofSku
      BY <1>3, <2>1 DEF D!RowKey, D!EnrichmentKey, D!Accepted, D!Sku
    <3>2. D!WorkItem(tenant, rows, key) = rows[D!Max(ofKey)]
      BY <2>1 DEF D!WorkItem
    <3>3. QED
      BY <3>1, <3>2 DEF last, r, D!ProductRow
  <2>2. CASE tenant # "demo-electronics-in"
    <3> DEFINE i == D!Min(ofKey)
    <3>1. D!WorkItem(tenant, rows, key) = rows[i] /\ D!RowKey(tenant, rows[i]) = key
      BY <1>7, <2>2 DEF D!WorkItem
    <3> HIDE DEF i
    <3>2. D!Title(tenant, rows[i]) = key /\ D!Title(tenant, r) = key
      BY <1>4, <2>2, <3>1 DEF D!RowKey
    <3>3. QED
      BY <3>1, <3>2
  <2>3. QED
    BY <2>1, <2>2
<1>9. ASSUME NEW leaf \in D!TaxonomyByTenant[tenant]
      PROVE  LET shown == D!DisplayCategory(tenant, r,
                             [k \in D!WorkKeys(tenant, rows) |-> leaf])
             IN D!ToSet(shown) \subseteq D!PriceBrandFilterProperties(tenant).category
  <2>1. D!DisplayCategory(tenant, r, [k \in D!WorkKeys(tenant, rows) |-> leaf]) = leaf
    BY <1>6 DEF D!DisplayCategory
  <2>2. leaf = <<leaf[1], leaf[2]>>
        /\ {leaf[1], leaf[2]} \subseteq D!PriceBrandFilterProperties(tenant).category
    BY Leaves
  <2>3. DOMAIN leaf = 1 .. 2
    BY <2>2
  <2>4. QED
    BY <2>1, <2>2, <2>3 DEF D!ToSet
<1>10. QED
  BY <1>6, <1>8, <1>9 DEF r

(* The rows of any demo feed are identified alike by the adapters and by   *)
(* the enrichment.                                                         *)
LEMMA RowsIdentified ==
  ASSUME NEW rows, Len(rows) \in Nat, DOMAIN rows = 1 .. Len(rows)
  PROVE  D!RowsAreIdentified(rows)
BY Collisions, Leaves, RowsClassified DEF D!RowsAreIdentified

THEOREM EveryRowIsIdentified == Spec => []RowsAreIdentified
<1>1. InputsInv => RowsAreIdentified
  BY RowsIdentified DEF InputsInv, RowsAreIdentified
<1>2. QED
  BY <1>1, InputsTyped, PTL

-----------------------------------------------------------------------------
(* What the clues in a message decide.                                     *)
(* A message as the code tokenizes it: what looks like a product code has  *)
(* a digit (each branch of _IDENTIFIER_TOKEN asks for one).                *)
Message(query) ==
  /\ Len(query.words) \in Nat /\ DOMAIN query.words = 1 .. Len(query.words)
  /\ query.quoted \in BOOLEAN /\ query.question \in BOOLEAN
  /\ query.blank => query.words = <<>> /\ ~query.quoted /\ ~query.question
  /\ \A i \in DOMAIN query.words : "identifier" \in query.words[i]
      => "digit" \in query.words[i]

LEMMA WordsCounted ==
  ASSUME NEW query, Message(query), NEW pattern
  PROVE  LET k == Cardinality(Words(query, pattern))
         IN  k \in Nat /\ (Has(query, pattern) <=> k > 0)
<1>1. Words(query, pattern) \in SUBSET (1 .. Len(query.words))
  BY DEF Words, Message
<1>2. IsFiniteSet(Words(query, pattern))
  <2>1. 0 \in Int /\ 1 \in Int /\ Len(query.words) \in Int
    BY DEF Message
  <2>2. IsFiniteSet(1 .. Len(query.words))
    BY <2>1, FS_Interval
  <2>3. QED
    BY <1>1, <2>2, FS_Subset
<1>3. QED
  BY <1>2, FS_CardinalityType, FS_EmptySet DEF Has

LEMMA Times ==
  ASSUME NEW n \in Nat, NEW f \in Nat, NEW g \in Nat, f <= g
  PROVE  n * f \in Nat /\ n * f <= n * g
OBVIOUS

(* Each score, from below and from above.                                  *)
LEMMA Scores ==
  ASSUME NEW query, Message(query)
  PROVE  LET n == Size(query)
             Shows(pattern) == Has(query, pattern)
         IN /\ n \in Nat /\ n >= 1 /\ IdentifierScore(query) \in Nat /\ AttributeScore(query) \in Nat
            /\ ExploratoryScore(query) \in Nat
            /\ Shows("identifier") => IdentifierScore(query) >= 25 + 10 * n
            /\ ~Shows("identifier") => IdentifierScore(query) <= 15 * n
            /\ ~Shows("identifier") /\ ~Shows("caps") /\ ~query.quoted =>
                 IdentifierScore(query) = 0
            /\ ~Constrained(query) => AttributeScore(query) <= 5 * n
            /\ Intent(query) => ExploratoryScore(query) >= 20 * n
            /\ ~Intent(query) /\ ~query.question /\ Shows("identifier") =>
                 ExploratoryScore(query) <= 8 * n
            /\ Silent(query) => /\ IdentifierScore(query) = 0 /\ AttributeScore(query) = 0
                               /\ ExploratoryScore(query) = 0
<1> DEFINE m == Len(query.words)
           n == Size(query)
           Shows(pattern) == Has(query, pattern)
           k == Cardinality(Words(query, "identifier"))
           a == AtMostThree(Cardinality(Words(query, "attribute")))
           f == Some(Shows("measurement"), 18) + 7 * a + Some(m > 3 /\ m <= 8, 5)
           e == Some(Shows("exploratory"), 20) + Some(Shows("need"), 20)
                + Some(Shows("context"), 20) + Some(query.question, 8)
                + Some(m > 8, 8) + Some(~Shows("digit") /\ m >= 4, 4)
<1>1. m \in Nat /\ n \in Nat /\ n >= 1 /\ query.quoted \in BOOLEAN /\ query.question \in BOOLEAN
  BY DEF Message, Size
<1>2. k \in Nat /\ (Shows("identifier") <=> k > 0)
  BY WordsCounted
<1>3. a \in 0 .. 3 /\ (~Shows("attribute") => a = 0)
  <2>1. LET j == Cardinality(Words(query, "attribute"))
        IN  j \in Nat /\ (Shows("attribute") <=> j > 0)
    BY WordsCounted
  <2>2. QED
    BY <2>1 DEF AtMostThree
<1>4. Shows("identifier") => Shows("digit")
  BY DEF Has, Words, Message
<1>5. /\ IdentifierScore(query) = Some(Shows("identifier"), 25 * k + 10 * n)
           + Some(query.quoted, 10 * n) + Some(Shows("caps"), 5 * n)
      /\ AttributeScore(query) = n * f
      /\ ExploratoryScore(query) = n * e
  BY DEF IdentifierScore, AttributeScore, ExploratoryScore
<1>6. /\ Constrained(query) <=> Shows("attribute") \/ Shows("measurement")
      /\ Intent(query) <=> Shows("exploratory") \/ Shows("need") \/ Shows("context")
  BY DEF Constrained, Intent
<1>11. Silent(query) => /\ m <= 3 /\ ~query.quoted /\ ~query.question
                       /\ ~Shows("identifier") /\ ~Shows("caps")
                       /\ ~Constrained(query) /\ ~Intent(query)
                       /\ ~Shows("measurement") /\ ~Shows("attribute")
                       /\ ~Shows("exploratory") /\ ~Shows("need") /\ ~Shows("context")
  BY <1>6 DEF Silent, Patterns
<1> HIDE DEF m, n, Shows, k, a
<1>7. /\ f \in Nat /\ e \in Nat
      /\ ~Constrained(query) => f <= 5
      /\ Intent(query) => e >= 20
      /\ ~Intent(query) /\ ~query.question /\ Shows("identifier") => e <= 8
      /\ Silent(query) => f = 0 /\ e = 0
  BY <1>1, <1>3, <1>4, <1>6, <1>11 DEF Some
<1> HIDE DEF f, e
<1>8. n * f \in Nat /\ n * e \in Nat /\ (f <= 5 => n * f <= n * 5)
      /\ (e >= 20 => n * e >= n * 20) /\ (e <= 8 => n * e <= n * 8)
  BY <1>1, <1>7, Times
<1>9. /\ IdentifierScore(query) \in Nat
      /\ Shows("identifier") => IdentifierScore(query) >= 25 + 10 * n
      /\ ~Shows("identifier") => IdentifierScore(query) <= 15 * n
      /\ ~Shows("identifier") /\ ~Shows("caps") /\ ~query.quoted
          => IdentifierScore(query) = 0
  BY <1>1, <1>2, <1>5 DEF Some
<1>12. Silent(query) => /\ IdentifierScore(query) = 0 /\ AttributeScore(query) = 0
                       /\ ExploratoryScore(query) = 0
  BY <1>1, <1>5, <1>7, <1>9, <1>11
<1>10. QED
  BY <1>1, <1>5, <1>7, <1>8, <1>9, <1>12 DEF n, Shows

LEMMA Best ==
  ASSUME NEW e \in Nat, NEW a \in Nat, NEW d \in Nat, NEW w \in 1 .. 3,
         LET scores == <<e, a, d>>
         IN \A k \in 1 .. 3 : scores[k] <= scores[w] /\ (k < w => scores[k] < scores[w])
  PROVE  LET scores == <<e, a, d>>
         IN w = CHOOSE i \in 1 .. 3 :
                  \A k \in 1 .. 3 :
                    scores[k] <= scores[i] /\ (k < i => scores[k] < scores[i])
<1> DEFINE scores == <<e, a, d>>
           Wins(i) == \A k \in 1 .. 3 :
             scores[k] <= scores[i] /\ (k < i => scores[k] < scores[i])
<1>1. \A i \in 1 .. 3 : scores[i] \in Nat
  OBVIOUS
<1>2. Wins(w)
  OBVIOUS
<1>3. \A i \in 1 .. 3 : Wins(i) => i = w
  <2> HIDE DEF scores
  <2>1. QED
    BY <1>1, <1>2
<1>4. w = CHOOSE i \in 1 .. 3 : Wins(i)
  <2> HIDE DEF Wins
  <2>1. QED
    BY <1>2, <1>3
<1>5. QED
  BY <1>4

LEMMA Clues ==
  ASSUME NEW query, Message(query)
  PROVE  CluesDecide(query)
<1> DEFINE n == Size(query)
           e == ExploratoryScore(query)
           a == AttributeScore(query)
           d == IdentifierScore(query)
           scores == <<e, a, d>>
           best == CHOOSE i \in 1 .. 3 :
                     \A k \in 1 .. 3 :
                       scores[k] <= scores[i] /\ (k < i => scores[k] < scores[i])
<1>1. n \in Nat /\ n >= 1 /\ e \in Nat /\ a \in Nat /\ d \in Nat
  BY Scores
<1>2. Classify(query) =
        IF query.blank THEN "exploratory"
        ELSE IF scores[best] = 0 THEN "attribute" ELSE QueryClass[best]
  BY DEF Classify
<1>3. \A pattern : Has(query, pattern) => ~query.blank
  <2>1. \A pattern : Has(query, pattern) => query.words # <<>>
    BY DEF Has, Words
  <2>2. QED
    BY <2>1 DEF Message
<1>4. QueryClass[1] = "exploratory" /\ QueryClass[2] = "attribute"
      /\ QueryClass[3] = "identifier"
  BY DEF QueryClass
<1>5. d > e /\ d > a => best = 3 /\ scores[best] # 0
  <2> SUFFICES ASSUME d > e, d > a PROVE best = 3 /\ scores[best] # 0
    OBVIOUS
  <2> HIDE DEF d, e, a
  <2>1. \A k \in 1 .. 3 : scores[k] <= scores[3] /\ (k < 3 => scores[k] < scores[3])
    BY <1>1
  <2>2. best = 3
    BY <1>1, <2>1, Best
  <2>3. QED
    BY <1>1, <2>2
<1>6. e >= a /\ e >= d /\ e > 0 => best = 1 /\ scores[best] # 0
  <2> SUFFICES ASSUME e >= a, e >= d, e > 0 PROVE best = 1 /\ scores[best] # 0
    OBVIOUS
  <2> HIDE DEF d, e, a
  <2>1. \A k \in 1 .. 3 : scores[k] <= scores[1] /\ (k < 1 => scores[k] < scores[1])
    BY <1>1
  <2>2. best = 1
    BY <1>1, <2>1, Best
  <2>3. QED
    BY <1>1, <2>2
<1>7. d = 0 => best # 3 \/ scores[best] = 0
  BY <1>1
<1>8. ASSUME Has(query, "identifier"), ~Intent(query), ~Constrained(query),
             ~query.question
      PROVE  Classify(query) = "identifier"
  <2>1. d >= 25 + 10 * n /\ a <= 5 * n /\ e <= 8 * n
    BY <1>8, Scores
  <2>2. d > e /\ d > a
    BY <1>1, <2>1
  <2>3. QED
    BY <1>2, <1>3, <1>4, <1>5, <1>8, <2>2
<1>9. ASSUME ~Has(query, "identifier"), ~Has(query, "caps"), ~query.quoted
      PROVE  Classify(query) # "identifier"
  <2>1. d = 0
    BY <1>9, Scores
  <2>2. best \in 1 .. 3
    <3>1. \E w \in 1 .. 3 : \A k \in 1 .. 3 :
            scores[k] <= scores[w] /\ (k < w => scores[k] < scores[w])
      <4> HIDE DEF d, e, a
      <4>1. CASE e >= a /\ e >= d
        BY <1>1, <4>1
      <4>2. CASE a > e /\ a >= d
        BY <1>1, <4>2
      <4>3. CASE d > e /\ d > a
        BY <1>1, <4>3
      <4>4. QED
        BY <1>1, <4>1, <4>2, <4>3
    <3> DEFINE Wins(w) == \A k \in 1 .. 3 :
                 scores[k] <= scores[w] /\ (k < w => scores[k] < scores[w])
    <3>2. \E w \in 1 .. 3 : Wins(w)
      BY <3>1
    <3> HIDE DEF Wins
    <3>3. (CHOOSE w \in 1 .. 3 : Wins(w)) \in 1 .. 3
      BY <3>2
    <3>4. QED
      BY <3>3 DEF Wins
  <2> HIDE DEF best
  <2>3. best = 3 => scores[best] = 0
    BY <2>1
  <2>4. QED
    BY <1>2, <1>4, <2>2, <2>3
<1>10. ASSUME Intent(query), ~Constrained(query), ~Has(query, "identifier")
       PROVE  Classify(query) = "exploratory"
  <2>1. d <= 15 * n /\ a <= 5 * n /\ e >= 20 * n
    BY <1>10, Scores
  <2>2. ~query.blank
    BY <1>3, <1>10 DEF Intent
  <2>3. e >= a /\ e >= d /\ e > 0
    BY <1>1, <2>1
  <2>4. QED
    BY <1>2, <1>4, <1>6, <2>2, <2>3
<1>12. ASSUME Silent(query), ~query.blank PROVE Classify(query) = "attribute"
  <2>1. d = 0 /\ a = 0 /\ e = 0
    BY <1>12, Scores
  <2> HIDE DEF d, e, a
  <2>2. best = 1
    BY <2>1, Best
  <2>3. scores[best] = 0
    BY <2>1, <2>2
  <2>4. QED
    BY <1>2, <1>12, <2>3
<1>11. QED
  BY <1>8, <1>9, <1>10, <1>12 DEF CluesDecide

(* The rounds after which a turn escalates are not fewer than those it     *)
(* has: ESCALATE_AFTER_ROUNDS and MAX_TOOL_CALL_ROUNDS are both two.       *)
LEMMA Escalates ==
  ASSUME RoutingAssumption, MaxToolCallRounds <= EscalateAfterRounds, NEW query
  PROVE  TurnsEscalate(query)
<1> SUFFICES ASSUME NEW forced \in {None, "fast", "reasoning"}
             PROVE  LET requests == TurnRequests(query, forced)
                    IN /\ \A i, k \in DOMAIN requests :
                            i < k => /\ requests[i].model = "reasoning"
                                         => requests[k].model = "reasoning"
                                     /\ requests[k].tools \subseteq requests[i].tools
                       /\ Last(requests).tools = {} /\ requests[1].tools # {}
                       /\ \A i \in DOMAIN requests :
                            forced = None /\ requests[i].tools # {} =>
                              (requests[i].model = "reasoning" <=> ComplexText(query))
  BY DEF TurnsEscalate
<1> DEFINE requests == TurnRequests(query, forced)
           rounds == 1 .. MaxToolCallRounds + 1
           complex == ComplexText(query)
<1>1. MaxToolCallRounds \in Nat \ {0} /\ EscalateAfterRounds \in Nat
  BY DEF RoutingAssumption
<1>2. DOMAIN requests = rounds /\ Len(requests) = MaxToolCallRounds + 1
  BY <1>1 DEF TurnRequests
<1>3. \A i \in rounds :
        /\ requests[i].tools = IF i - 1 >= MaxToolCallRounds THEN {} ELSE Tools
        /\ requests[i].model = IF forced # None THEN forced
                               ELSE IF i - 1 >= EscalateAfterRounds
                                   \/ complex THEN "reasoning"
                               ELSE "fast"
  BY DEF TurnRequests, Request, Tier, ClassifyComplexity
<1>4. Tools # {}
  BY DEF Tools
<1>5. Last(requests) = requests[MaxToolCallRounds + 1]
  BY <1>2 DEF Last
<1> HIDE DEF requests, complex
<1>6. Last(requests).tools = {} /\ requests[1].tools # {}
  BY <1>1, <1>3, <1>4, <1>5
<1>7. \A i, k \in rounds :
        i < k => /\ requests[i].model = "reasoning" => requests[k].model = "reasoning"
                 /\ requests[k].tools \subseteq requests[i].tools
  BY <1>1, <1>3
<1>8. \A i \in rounds :
        forced = None /\ requests[i].tools # {}
            => (requests[i].model = "reasoning" <=> complex)
  BY <1>1, <1>3
<1>9. QED
  BY <1>2, <1>6, <1>7, <1>8 DEF requests, complex

(* The clues in a message of any length decide the class of its query over *)
(* its length and shape, and its text the model of every round that still  *)
(* has its tools.                                                          *)
THEOREM CluesAlwaysDecide ==
  RoutingAssumption /\ MaxToolCallRounds <= EscalateAfterRounds /\ Spec
    => []CluesDecideTheClass
<1> SUFFICES ASSUME RoutingAssumption, MaxToolCallRounds <= EscalateAfterRounds
             PROVE  Spec => []CluesDecideTheClass
  OBVIOUS
<1>1. InputsInv => CluesDecideTheClass
  <2> SUFFICES ASSUME InputsInv, algorithm = "Routing" PROVE CluesDecideTheClass
    BY DEF CluesDecideTheClass
  <2> DEFINE words == [i \in DOMAIN input |-> WordKinds[input[i]]]
             Said(quoted, question, blank) ==
               [words |-> words, quoted |-> quoted, question |-> question, blank |-> blank]
  <2>1. Len(input) \in Nat /\ DOMAIN input = 1 .. Len(input)
        /\ \A i \in DOMAIN input : input[i] \in 1 .. Len(WordKinds)
    BY DEF InputsInv
  <2>2. Len(words) \in Nat /\ DOMAIN words = 1 .. Len(words)
    BY <2>1
  <2>3. \A k \in 1 .. Len(WordKinds) : "identifier" \in WordKinds[k]
          => "digit" \in WordKinds[k]
    BY DEF WordKinds
  <2>4. \A i \in DOMAIN words : "identifier" \in words[i] => "digit" \in words[i]
    BY <2>1, <2>3
  <2>5. ASSUME NEW quoted \in BOOLEAN, NEW question \in BOOLEAN, NEW blank \in BOOLEAN,
               blank => words = <<>> /\ ~quoted /\ ~question
        PROVE  CluesDecide(Said(quoted, question, blank))
    <3> HIDE DEF words
    <3>1. Message(Said(quoted, question, blank))
      BY <2>2, <2>4, <2>5 DEF Message
    <3>2. QED
      BY <3>1, Clues
  <2>6. \A query : TurnsEscalate(query)
    BY Escalates
  <2>7. QED
    BY <2>5, <2>6 DEF CluesDecideTheClass
<1>2. QED
  BY <1>1, InputsTyped, PTL

-----------------------------------------------------------------------------
(* What one pass over a feed keeps.                                        *)
Hashed == [Skus -> Hashes \cup {None}]
Winners == [Skus -> Nat]
Rows == Seq(Row)
Order == Seq(Skus)

Parsed ==
  [products : Hashed, winner : Winners, order : Order, errors : Rows,
   total : Nat, ok : Nat, failed : Nat, duplicates : Nat]

Kept == [Skus -> Row \cup {None}]

Streamed == [seen : Kept, order : Order, duplicates : Nat, out : Rows]

NoneStreamed ==
  [seen |-> [s \in Skus |-> None], order |-> <<>>, duplicates |-> 0, out |-> <<>>]

(* One item more, by fields.                                                *)
LEMMA ParsedRow ==
  ASSUME NEW p \in Parsed, NEW item \in Row
  PROVE  LET q == ParseRow(p, item)
             known == item.sku \in ToSet(p.order)
         IN /\ q \in Parsed /\ q.total = p.total + 1
            /\ ~Accepted(item) =>
                 /\ q.products = p.products /\ q.winner = p.winner /\ q.order = p.order
                 /\ q.duplicates = p.duplicates /\ q.errors = Append(p.errors, item)
            /\ Accepted(item) =>
                 /\ item.sku \in Skus
                 /\ q.products = [p.products EXCEPT ![item.sku] = item.hash]
                 /\ q.winner = [p.winner EXCEPT ![item.sku] = p.total + 1]
                 /\ q.order = IF known THEN p.order ELSE Append(p.order, item.sku)
                 /\ q.duplicates = IF known THEN p.duplicates + 1 ELSE p.duplicates
                 /\ q.errors = p.errors
<1> DEFINE q == ParseRow(p, item)
           counted == [p EXCEPT !.total = @ + 1]
<1>1. counted \in Parsed /\ counted.total = p.total + 1
      /\ counted.order = p.order /\ counted.products = p.products
          /\ counted.winner = p.winner
      /\ counted.errors = p.errors /\ counted.duplicates = p.duplicates
  <2>1. counted \in Parsed
    BY DEF Parsed
  <2>2. QED
    BY <2>1 DEF Parsed
<1>2. CASE ~Accepted(item)
  <2> DEFINE failed == counted.failed + 1
             errors == Append(counted.errors, item)
  <2>1. q = [counted EXCEPT !.failed = failed, !.errors = errors]
    BY <1>2, <1>1 DEF ParseRow, Parsed
  <2> HIDE DEF counted, q
  <2>2. failed \in Nat /\ errors \in Rows
    BY <1>1 DEF Parsed, Rows
  <2>3. errors = Append(p.errors, item)
    BY <1>1
  <2> HIDE DEF failed, errors
  <2>4. q \in Parsed
    BY <1>1, <2>1, <2>2 DEF Parsed
  <2>5. q.total = counted.total /\ q.products = counted.products
          /\ q.winner = counted.winner
        /\ q.order = counted.order /\ q.duplicates = counted.duplicates /\ q.errors = errors
    BY <1>1, <2>1 DEF Parsed
  <2>6. QED
    BY <1>1, <1>2, <2>3, <2>4, <2>5 DEF q
<1>3. CASE Accepted(item)
  <2> DEFINE c == CountOk(counted, item)
  <2>1. item.sku \in Skus /\ item.hash \in Hashes \cup {None}
    BY <1>3 DEF Accepted, Row
  <2>2. q = [c EXCEPT !.products[item.sku] = item.hash, !.winner[item.sku] = c.total]
    BY <1>3 DEF ParseRow, Keep
  <2>3. c = IF item.sku \in ToSet(counted.order)
            THEN [counted EXCEPT !.ok = @ + 1, !.duplicates = @ + 1]
            ELSE [counted EXCEPT !.ok = @ + 1, !.order = Append(@, item.sku)]
    BY DEF CountOk, Seen
  <2> HIDE DEF counted, q, c
  <2>4. /\ c \in Parsed /\ c.total = p.total + 1 /\ c.products = p.products
        /\ c.winner = p.winner /\ c.errors = p.errors
        /\ c.order = IF item.sku \in ToSet(p.order) THEN p.order
                     ELSE Append(p.order, item.sku)
        /\ c.duplicates = IF item.sku \in ToSet(p.order) THEN p.duplicates + 1 ELSE p.duplicates
    <3> DEFINE ok == counted.ok + 1
               duplicates == counted.duplicates + 1
               order == Append(counted.order, item.sku)
    <3>0. ok \in Nat /\ duplicates \in Nat /\ order \in Order
          /\ duplicates = p.duplicates + 1 /\ order = Append(p.order, item.sku)
      BY <1>1, <2>1 DEF Parsed, Order
    <3>1. CASE item.sku \in ToSet(p.order)
      <4>1. c = [counted EXCEPT !.ok = ok, !.duplicates = duplicates]
        BY <1>1, <2>3, <3>1 DEF Parsed
      <4> HIDE DEF ok, duplicates, order
      <4>2. c \in Parsed
        BY <1>1, <3>0, <4>1 DEF Parsed
      <4>3. c.total = counted.total /\ c.products = counted.products
              /\ c.winner = counted.winner
            /\ c.errors = counted.errors /\ c.order = counted.order
                /\ c.duplicates = duplicates
        BY <1>1, <4>1 DEF Parsed
      <4>4. QED
        BY <1>1, <3>0, <3>1, <4>2, <4>3
    <3>2. CASE item.sku \notin ToSet(p.order)
      <4>1. c = [counted EXCEPT !.ok = ok, !.order = order]
        BY <1>1, <2>3, <3>2 DEF Parsed
      <4> HIDE DEF ok, duplicates, order
      <4>2. c \in Parsed
        BY <1>1, <3>0, <4>1 DEF Parsed
      <4>3. c.total = counted.total /\ c.products = counted.products
              /\ c.winner = counted.winner
            /\ c.errors = counted.errors /\ c.order = order
                /\ c.duplicates = counted.duplicates
        BY <1>1, <4>1 DEF Parsed
      <4>4. QED
        BY <1>1, <3>0, <3>2, <4>2, <4>3
    <3>3. QED
      BY <3>1, <3>2
  <2>5. /\ q \in Parsed /\ q.products = [c.products EXCEPT ![item.sku] = item.hash]
        /\ q.winner = [c.winner EXCEPT ![item.sku] = c.total]
        /\ q.order = c.order /\ q.duplicates = c.duplicates /\ q.errors = c.errors
        /\ q.total = c.total
    <3> DEFINE products == [c.products EXCEPT ![item.sku] = item.hash]
               winner == [c.winner EXCEPT ![item.sku] = c.total]
    <3>1. products \in Hashed /\ winner \in Winners
      BY <2>1, <2>4 DEF Parsed, Hashed, Winners
    <3>2. q = [c EXCEPT !.products = products, !.winner = winner]
      BY <2>2, <2>4 DEF Parsed
    <3> HIDE DEF products, winner
    <3>3. q \in Parsed
      BY <2>4, <3>1, <3>2 DEF Parsed
    <3>4. /\ q.products = products /\ q.winner = winner /\ q.order = c.order
          /\ q.duplicates = c.duplicates /\ q.errors = c.errors /\ q.total = c.total
      BY <2>4, <3>2 DEF Parsed
    <3>5. QED
      BY <3>3, <3>4 DEF products, winner
  <2>6. QED
    BY <1>3, <2>1, <2>4, <2>5 DEF q
<1>4. QED
  BY <1>2, <1>3

LEMMA StreamedRow ==
  ASSUME NEW d \in Streamed, NEW item \in Row
  PROVE  LET q == DedupeRow(d, item)
             known == item.sku \in ToSet(d.order)
         IN /\ q \in Streamed
            /\ ~Accepted(item) =>
                 /\ q.seen = d.seen /\ q.order = d.order
                 /\ q.duplicates = d.duplicates /\ q.out = Append(d.out, item)
            /\ Accepted(item) =>
                 /\ q.seen = [d.seen EXCEPT ![item.sku] = item]
                 /\ q.order = IF known THEN d.order ELSE Append(d.order, item.sku)
                 /\ q.duplicates = IF known THEN d.duplicates + 1 ELSE d.duplicates
                 /\ q.out = d.out
<1> DEFINE q == DedupeRow(d, item)
<1>1. CASE ~Accepted(item)
  <2> DEFINE out == Append(d.out, item)
  <2>1. q = [d EXCEPT !.out = out]
    BY <1>1 DEF DedupeRow, Streamed
  <2>2. out \in Rows
    BY DEF Streamed, Rows
  <2> HIDE DEF q, out
  <2>3. q \in Streamed
    BY <2>1, <2>2 DEF Streamed
  <2>4. q.seen = d.seen /\ q.order = d.order /\ q.duplicates = d.duplicates /\ q.out = out
    BY <2>1 DEF Streamed
  <2>5. QED
    BY <1>1, <2>3, <2>4 DEF q, out
<1>2. CASE Accepted(item)
  <2> DEFINE order == IF item.sku \in ToSet(d.order) THEN d.order
                      ELSE Append(d.order, item.sku)
             duplicates == IF item.sku \in ToSet(d.order) THEN d.duplicates + 1 ELSE d.duplicates
             kept == [d.seen EXCEPT ![item.sku] = item]
  <2>1. item.sku \in Skus
    BY <1>2 DEF Accepted, Row
  <2>2. q = [d EXCEPT !.duplicates = duplicates, !.order = order, !.seen = kept]
    BY <1>2 DEF DedupeRow, Seen, OrderByFirst, Streamed
  <2>3. order \in Order /\ duplicates \in Nat /\ kept \in Kept
    BY <2>1 DEF Streamed, Order, Kept
  <2> HIDE DEF q, order, duplicates, kept
  <2>4. q \in Streamed
    BY <2>2, <2>3 DEF Streamed
  <2>5. q.seen = kept /\ q.order = order /\ q.duplicates = duplicates /\ q.out = d.out
    BY <2>2 DEF Streamed
  <2>6. QED
    BY <1>2, <2>4, <2>5 DEF q, order, duplicates, kept
<1>3. QED
  BY <1>1, <1>2

(* A fold over the rows is a walk along them.                              *)
Walk(st, base, n) == DOMAIN st = 0 .. n /\ st[0] = base

LEMMA ParseWalks ==
  ASSUME NEW rows \in Seq(Row)
  PROVE  \E st : /\ Walk(st, NoRows, Len(rows)) /\ ParseAndDedupe(rows) = st[Len(rows)]
                 /\ \A k \in 1 .. Len(rows) : st[k] = ParseRow(st[k - 1], rows[k])
<1> DEFINE n == Len(rows)
           IsFold(g) == g = [s \in SUBSET (1 .. n) |->
                               IF s = {} THEN NoRows
                               ELSE ParseRow(g[s \ {Top(s)}], rows[Top(s)])]
           advance == [x \in Parsed \X (1 .. n) |-> ParseRow(x[1], rows[x[2]])]
<1>1. n \in Nat /\ DOMAIN rows = 1 .. n /\ \A k \in 1 .. n : rows[k] \in Row
  OBVIOUS
<1>2. NoRows \in Parsed
  BY DEF NoRows, Parsed, Hashed, Winners, Order, Rows
<1> HIDE DEF n
<1>3. advance \in [Parsed \X (1 .. n) -> Parsed]
  <2>1. \A x \in Parsed \X (1 .. n) : ParseRow(x[1], rows[x[2]]) \in Parsed
    BY <1>1, ParsedRow
  <2>2. QED
    BY <2>1
<1>4. \E g : IsFold(g)
  <2>1. PICK g \in [SUBSET (1 .. n) -> Parsed] : FoldOf(g, n, NoRows, advance)
    BY <1>1, <1>2, <1>3, FoldExists
  <2>2. ASSUME NEW s \in SUBSET (1 .. n), s # {}
        PROVE  advance[<<g[s \ {Top(s)}], Top(s)>>]
               = ParseRow(g[s \ {Top(s)}], rows[Top(s)])
    <3>1. Top(s) \in 1 .. n
      BY <1>1, <2>2, Largest
    <3>2. g[s \ {Top(s)}] \in Parsed
      OBVIOUS
    <3> DEFINE x == <<g[s \ {Top(s)}], Top(s)>>
    <3>3. x \in Parsed \X (1 .. n) /\ x[1] = g[s \ {Top(s)}] /\ x[2] = Top(s)
      BY <3>1, <3>2
    <3> HIDE DEF x
    <3>4. advance[x] = ParseRow(x[1], rows[x[2]])
      BY <3>3
    <3>5. QED
      BY <3>3, <3>4 DEF x
  <2> HIDE DEF advance
  <2>3. IsFold(g)
    BY <2>1, <2>2 DEF FoldOf
  <2>4. QED
    BY <2>3
<1> DEFINE g == CHOOSE g : IsFold(g)
           st == [k \in 0 .. n |-> g[1 .. k]]
<1>5. ParseAndDedupe(rows) = g[1 .. n]
  BY <1>1 DEF ParseAndDedupe, FoldLeft, MapThenFoldSet, Max, Top
<1>6. IsFold(g)
  <2> HIDE DEF IsFold
  <2>1. QED
    BY <1>4
<1> HIDE DEF g
<1>7. g[1 .. 0] = NoRows
  <2>1. 1 .. 0 = {} /\ {} \in SUBSET (1 .. n)
    OBVIOUS
  <2>2. QED
    BY <1>6, <2>1
<1>8. ASSUME NEW k \in 1 .. n PROVE g[1 .. k] = ParseRow(g[1 .. k - 1], rows[k])
  <2>1. k \in Nat \ {0} /\ 1 .. k \in SUBSET (1 .. n)
    BY <1>1
  <2>2. Top(1 .. k) = k /\ (1 .. k) \ {k} = 1 .. k - 1 /\ 1 .. k # {}
    BY <2>1, TopOfFirst
  <2>3. g[1 .. k] = ParseRow(g[(1 .. k) \ {Top(1 .. k)}], rows[Top(1 .. k)])
    BY <1>6, <2>1, <2>2
  <2>4. QED
    BY <2>2, <2>3
<1>9. Walk(st, NoRows, n) /\ st[n] = g[1 .. n]
      /\ \A k \in 1 .. n : st[k] = ParseRow(st[k - 1], rows[k])
  BY <1>1, <1>7, <1>8 DEF Walk
<1> HIDE DEF st
<1>10. QED
  BY <1>5, <1>9 DEF n

StreamFold(rows) == FoldLeft(DedupeRow, NoneStreamed, rows)

LEMMA StreamWalks ==
  ASSUME NEW rows \in Seq(Row)
  PROVE  \E st : /\ Walk(st, NoneStreamed, Len(rows)) /\ StreamFold(rows) = st[Len(rows)]
                 /\ \A k \in 1 .. Len(rows) : st[k] = DedupeRow(st[k - 1], rows[k])
<1> DEFINE n == Len(rows)
           IsFold(g) == g = [s \in SUBSET (1 .. n) |->
                               IF s = {} THEN NoneStreamed
                               ELSE DedupeRow(g[s \ {Top(s)}], rows[Top(s)])]
           advance == [x \in Streamed \X (1 .. n) |-> DedupeRow(x[1], rows[x[2]])]
<1>1. n \in Nat /\ DOMAIN rows = 1 .. n /\ \A k \in 1 .. n : rows[k] \in Row
  OBVIOUS
<1>2. NoneStreamed \in Streamed
  BY DEF NoneStreamed, Streamed, Kept, Order, Rows
<1> HIDE DEF n
<1>3. advance \in [Streamed \X (1 .. n) -> Streamed]
  <2>1. \A x \in Streamed \X (1 .. n) : DedupeRow(x[1], rows[x[2]]) \in Streamed
    BY <1>1, StreamedRow
  <2>2. QED
    BY <2>1
<1>4. \E g : IsFold(g)
  <2>1. PICK g \in [SUBSET (1 .. n) -> Streamed] : FoldOf(g, n, NoneStreamed, advance)
    BY <1>1, <1>2, <1>3, FoldExists
  <2>2. ASSUME NEW s \in SUBSET (1 .. n), s # {}
        PROVE  advance[<<g[s \ {Top(s)}], Top(s)>>]
               = DedupeRow(g[s \ {Top(s)}], rows[Top(s)])
    <3>1. Top(s) \in 1 .. n
      BY <1>1, <2>2, Largest
    <3>2. g[s \ {Top(s)}] \in Streamed
      OBVIOUS
    <3> DEFINE x == <<g[s \ {Top(s)}], Top(s)>>
    <3>3. x \in Streamed \X (1 .. n) /\ x[1] = g[s \ {Top(s)}] /\ x[2] = Top(s)
      BY <3>1, <3>2
    <3> HIDE DEF x
    <3>4. advance[x] = DedupeRow(x[1], rows[x[2]])
      BY <3>3
    <3>5. QED
      BY <3>3, <3>4 DEF x
  <2> HIDE DEF advance
  <2>3. IsFold(g)
    BY <2>1, <2>2 DEF FoldOf
  <2>4. QED
    BY <2>3
<1> DEFINE g == CHOOSE g : IsFold(g)
           st == [k \in 0 .. n |-> g[1 .. k]]
<1>5. StreamFold(rows) = g[1 .. n]
  BY <1>1 DEF StreamFold, FoldLeft, MapThenFoldSet, Max, Top
<1>6. IsFold(g)
  <2> HIDE DEF IsFold
  <2>1. QED
    BY <1>4
<1> HIDE DEF g
<1>7. g[1 .. 0] = NoneStreamed
  <2>1. 1 .. 0 = {} /\ {} \in SUBSET (1 .. n)
    OBVIOUS
  <2>2. QED
    BY <1>6, <2>1
<1>8. ASSUME NEW k \in 1 .. n PROVE g[1 .. k] = DedupeRow(g[1 .. k - 1], rows[k])
  <2>1. k \in Nat \ {0} /\ 1 .. k \in SUBSET (1 .. n)
    BY <1>1
  <2>2. Top(1 .. k) = k /\ (1 .. k) \ {k} = 1 .. k - 1 /\ 1 .. k # {}
    BY <2>1, TopOfFirst
  <2>3. g[1 .. k] = DedupeRow(g[(1 .. k) \ {Top(1 .. k)}], rows[Top(1 .. k)])
    BY <1>6, <2>1, <2>2
  <2>4. QED
    BY <2>2, <2>3
<1>9. Walk(st, NoneStreamed, n) /\ st[n] = g[1 .. n]
      /\ \A k \in 1 .. n : st[k] = DedupeRow(st[k - 1], rows[k])
  BY <1>1, <1>7, <1>8 DEF Walk
<1> HIDE DEF st
<1>10. QED
  BY <1>5, <1>9 DEF n

(* After k rows, both passes have seen the same and kept the last of each. *)
Mine(rows, k, sku) == {i \in 1 .. k : Accepted(rows[i]) /\ rows[i].sku = sku}

KeptOf(rows, k, sku, p, d) ==
  IF Mine(rows, k, sku) = {}
  THEN sku \notin ToSet(p.order) /\ p.products[sku] = None /\ p.winner[sku] = 0
  ELSE /\ sku \in ToSet(p.order)
       /\ p.winner[sku] \in Mine(rows, k, sku)
       /\ \A i \in Mine(rows, k, sku) : i <= p.winner[sku]
       /\ p.products[sku] = rows[p.winner[sku]].hash
       /\ d.seen[sku] = rows[p.winner[sku]]

Agree(rows, k, p, d) ==
  /\ p \in Parsed /\ d \in Streamed
  /\ p.total = k
  /\ d.order = p.order /\ d.out = p.errors /\ d.duplicates = p.duplicates
  /\ \A sku \in Skus : KeptOf(rows, k, sku, p, d)

LEMMA Appended ==
  \A T, x : \A s \in Seq(T) : ToSet(Append(s, x)) = ToSet(s) \cup {x}
<1> SUFFICES ASSUME NEW T, NEW s \in Seq(T), NEW x
             PROVE  ToSet(Append(s, x)) = ToSet(s) \cup {x}
  OBVIOUS
<1>1. /\ DOMAIN Append(s, x) = DOMAIN s \cup {Len(s) + 1} /\ Len(s) + 1 \notin DOMAIN s
      /\ Append(s, x)[Len(s) + 1] = x /\ \A i \in DOMAIN s : Append(s, x)[i] = s[i]
  OBVIOUS
<1>2. QED
  BY <1>1 DEF ToSet

LEMMA AgreeOnMore ==
  ASSUME NEW rows \in Seq(Row), NEW k \in 0 .. Len(rows) - 1, NEW p, NEW d,
         Agree(rows, k, p, d)
  PROVE  Agree(rows, k + 1, ParseRow(p, rows[k + 1]), DedupeRow(d, rows[k + 1]))
<1> DEFINE item == rows[k + 1]
           q == ParseRow(p, item)
           e == DedupeRow(d, item)
<1>1. item \in Row /\ p \in Parsed /\ d \in Streamed /\ p.total = k /\ k \in Nat
  BY DEF Agree
<1>2. \A sku : Mine(rows, k + 1, sku) = Mine(rows, k, sku)
                 \cup IF Accepted(item) /\ item.sku = sku THEN {k + 1} ELSE {}
  BY DEF Mine
<1>3. d.order = p.order /\ d.out = p.errors /\ d.duplicates = p.duplicates
      /\ \A sku \in Skus : KeptOf(rows, k, sku, p, d)
  BY DEF Agree
<1>4. q \in Parsed /\ e \in Streamed /\ q.total = k + 1
  BY <1>1, ParsedRow, StreamedRow
<1>5. CASE ~Accepted(item)
  <2>1. /\ q.products = p.products /\ q.winner = p.winner /\ q.order = p.order
        /\ q.duplicates = p.duplicates /\ q.errors = Append(p.errors, item)
    BY <1>1, <1>5, ParsedRow
  <2>2. /\ e.seen = d.seen /\ e.order = d.order /\ e.duplicates = d.duplicates
        /\ e.out = Append(d.out, item)
    BY <1>1, <1>5, StreamedRow
  <2> HIDE DEF q, e, item
  <2>3. \A sku \in Skus : KeptOf(rows, k + 1, sku, q, e)
    BY <1>2, <1>3, <1>5, <2>1, <2>2 DEF KeptOf
  <2>4. QED
    BY <1>3, <1>4, <2>1, <2>2, <2>3 DEF Agree, q, e, item
<1>6. CASE Accepted(item)
  <2> DEFINE known == item.sku \in ToSet(p.order)
  <2>1. /\ item.sku \in Skus
        /\ q.products = [p.products EXCEPT ![item.sku] = item.hash]
        /\ q.winner = [p.winner EXCEPT ![item.sku] = k + 1]
        /\ q.order = IF known THEN p.order ELSE Append(p.order, item.sku)
        /\ q.duplicates = IF known THEN p.duplicates + 1 ELSE p.duplicates
        /\ q.errors = p.errors
    <3>1. p.total + 1 = k + 1
      BY <1>1
    <3>2. QED
      BY <1>1, <1>6, <3>1, ParsedRow
  <2>2. /\ e.seen = [d.seen EXCEPT ![item.sku] = item]
        /\ e.order = q.order /\ e.duplicates = q.duplicates /\ e.out = d.out
    <3>1. /\ e.seen = [d.seen EXCEPT ![item.sku] = item]
          /\ e.order = IF item.sku \in ToSet(d.order) THEN d.order
                       ELSE Append(d.order, item.sku)
          /\ e.duplicates = IF item.sku \in ToSet(d.order) THEN d.duplicates + 1 ELSE d.duplicates
          /\ e.out = d.out
      BY <1>1, <1>6, StreamedRow
    <3> HIDE DEF q, e, item
    <3>2. QED
      BY <1>3, <2>1, <3>1
  <2>3. ToSet(q.order) = ToSet(p.order) \cup {item.sku}
    <3>1. p.order \in Seq(Skus)
      BY <1>1 DEF Parsed, Order
    <3>2. QED
      BY <2>1, <3>1, Appended
  <2>4. p.products \in [Skus -> Hashes \cup {None}] /\ p.winner \in [Skus -> Nat]
        /\ d.seen \in [Skus -> Row \cup {None}]
    BY <1>1 DEF Parsed, Streamed, Hashed, Winners, Kept
  <2> HIDE DEF q, e, known
  <2>5. ASSUME NEW sku \in Skus, sku # item.sku PROVE KeptOf(rows, k + 1, sku, q, e)
    <3>1. Mine(rows, k + 1, sku) = Mine(rows, k, sku)
      BY <1>2, <2>5
    <3>2. /\ q.products[sku] = p.products[sku] /\ q.winner[sku] = p.winner[sku]
          /\ e.seen[sku] = d.seen[sku]
             /\ (sku \in ToSet(q.order) <=> sku \in ToSet(p.order))
      BY <2>1, <2>2, <2>3, <2>4, <2>5
    <3>3. QED
      BY <1>3, <3>1, <3>2 DEF KeptOf
  <2>6. KeptOf(rows, k + 1, item.sku, q, e)
    <3>1. Mine(rows, k + 1, item.sku) = Mine(rows, k, item.sku) \cup {k + 1}
      BY <1>2, <1>6
    <3>2. \A i \in Mine(rows, k + 1, item.sku) : i <= k + 1
      BY <1>1 DEF Mine
    <3>3. /\ q.products[item.sku] = item.hash /\ q.winner[item.sku] = k + 1
          /\ e.seen[item.sku] = item /\ item.sku \in ToSet(q.order)
      BY <2>1, <2>2, <2>3, <2>4
    <3>4. QED
      BY <3>1, <3>2, <3>3 DEF KeptOf, item
  <2>7. \A sku \in Skus : KeptOf(rows, k + 1, sku, q, e)
    BY <2>5, <2>6
  <2>8. QED
    BY <1>3, <1>4, <2>1, <2>2, <2>7 DEF Agree, q, e
<1>7. QED
  BY <1>5, <1>6

LEMMA AgreeThroughout ==
  ASSUME NEW rows \in Seq(Row)
  PROVE  \E p, d : /\ Agree(rows, Len(rows), p, d)
                   /\ ParseAndDedupe(rows) = p /\ StreamFold(rows) = d
<1> DEFINE n == Len(rows)
<1>1. PICK st : /\ Walk(st, NoRows, n) /\ ParseAndDedupe(rows) = st[n]
                /\ \A k \in 1 .. n : st[k] = ParseRow(st[k - 1], rows[k])
  BY ParseWalks
<1>2. PICK sd : /\ Walk(sd, NoneStreamed, n) /\ StreamFold(rows) = sd[n]
                /\ \A k \in 1 .. n : sd[k] = DedupeRow(sd[k - 1], rows[k])
  BY StreamWalks
<1> DEFINE T == {k \in Nat : k <= n => Agree(rows, k, st[k], sd[k])}
<1>3. 0 \in T
  <2>1. st[0] = NoRows /\ sd[0] = NoneStreamed
    BY <1>1, <1>2 DEF Walk
  <2>2. NoRows \in Parsed /\ NoneStreamed \in Streamed
    BY DEF NoRows, Parsed, Hashed, Winners, Order, Rows, NoneStreamed, Streamed, Kept
  <2>3. \A sku \in Skus : KeptOf(rows, 0, sku, NoRows, NoneStreamed)
    BY DEF KeptOf, Mine, NoRows, ToSet
  <2>4. NoRows.total = 0 /\ NoneStreamed.order = NoRows.order
        /\ NoneStreamed.out = NoRows.errors
            /\ NoneStreamed.duplicates = NoRows.duplicates
    BY DEF NoRows, NoneStreamed
  <2>5. QED
    BY <2>1, <2>2, <2>3, <2>4 DEF Agree
<1>4. ASSUME NEW k \in Nat, k \in T PROVE k + 1 \in T
  <2> SUFFICES ASSUME k + 1 <= n PROVE Agree(rows, k + 1, st[k + 1], sd[k + 1])
    OBVIOUS
  <2>1. n \in Nat /\ k \in 0 .. n - 1 /\ k + 1 \in 1 .. n /\ (k + 1) - 1 = k
    OBVIOUS
  <2>2. Agree(rows, k, st[k], sd[k])
    BY <1>4, <2>1
  <2>3. st[k + 1] = ParseRow(st[k], rows[k + 1])
          /\ sd[k + 1] = DedupeRow(sd[k], rows[k + 1])
    BY <1>1, <1>2, <2>1
  <2>4. QED
    BY <2>1, <2>2, <2>3, AgreeOnMore
<1>5. n \in T
  <2> HIDE DEF T
  <2>1. n \in Nat
    OBVIOUS
  <2>2. QED
    BY <1>3, <1>4, <2>1, Upward
<1>6. QED
  BY <1>1, <1>2, <1>5

(* Both passes over any feed keep the last row of each SKU.                *)
THEOREM TheLastRowWins == Spec => []LastRowWins
<1>1. InputsInv => LastRowWins
  <2> SUFFICES ASSUME InputsInv, algorithm = "Feed" PROVE LastRowWins
    BY DEF LastRowWins
  <2> DEFINE rows == input
             n == Len(rows)
             p == ParseAndDedupe(rows)
             d == StreamFold(rows)
             both == Deduplicate(rows)
             kept == [i \in DOMAIN d.order |-> d.seen[d.order[i]]]
             products == [i \in DOMAIN p.order |-> rows[p.winner[p.order[i]]]]
  <2>1. rows \in Seq(Row) /\ n \in Nat /\ DOMAIN rows = 1 .. n
    BY DEF InputsInv
  <2>2. Agree(rows, n, p, d)
    BY <2>1, AgreeThroughout
  <2>3. both = [results |-> d.out \o kept, duplicates |-> d.duplicates]
    BY DEF Deduplicate, StreamFold, NoneStreamed
  <2>4. \A sku \in Skus : AcceptedRows(sku) = Mine(rows, n, sku)
    BY <2>1 DEF AcceptedRows, Mine
  <2> HIDE DEF p, d, both
  <2>5. ASSUME NEW sku \in Skus
        PROVE  IF AcceptedRows(sku) = {} THEN p.products[sku] = None /\ p.winner[sku] = 0
               ELSE LET last == Max(AcceptedRows(sku))
                    IN p.products[sku] = rows[last].hash /\ p.winner[sku] = last
    <3>1. KeptOf(rows, n, sku, p, d) /\ AcceptedRows(sku) = Mine(rows, n, sku)
      BY <2>2, <2>4 DEF Agree
    <3>2. CASE Mine(rows, n, sku) # {}
      <4>1. Mine(rows, n, sku) \in SUBSET (1 .. n)
        BY DEF Mine
      <4>2. Top(Mine(rows, n, sku)) \in Mine(rows, n, sku)
            /\ \A i \in Mine(rows, n, sku) : i <= Top(Mine(rows, n, sku))
        BY <2>1, <3>2, <4>1, Largest
      <4>3. p.winner[sku] \in Mine(rows, n, sku)
              /\ p.products[sku] = rows[p.winner[sku]].hash
            /\ \A i \in Mine(rows, n, sku) : i <= p.winner[sku]
        BY <3>1, <3>2 DEF KeptOf
      <4>4. p.winner[sku] = Top(Mine(rows, n, sku))
        BY <2>1, <4>1, <4>2, <4>3
      <4>5. QED
        BY <3>1, <3>2, <4>3, <4>4 DEF Max, Top
    <3>3. QED
      BY <3>1, <3>2 DEF KeptOf
  <2>6. kept = products
    <3>1. d.order = p.order /\ p.order \in Seq(Skus)
      BY <2>2 DEF Agree, Parsed, Order
    <3>2. ASSUME NEW i \in DOMAIN p.order
          PROVE d.seen[p.order[i]] = rows[p.winner[p.order[i]]]
      <4>1. p.order[i] \in Skus /\ p.order[i] \in ToSet(p.order)
        BY <3>1 DEF ToSet
      <4>2. QED
        BY <2>2, <4>1 DEF Agree, KeptOf
    <3> HIDE DEF p, d
    <3>3. QED
      BY <3>1, <3>2
  <2>7. both.results = p.errors \o products /\ both.duplicates = p.duplicates
    BY <2>2, <2>3, <2>6 DEF Agree
  <2>8. QED
    BY <2>5, <2>7 DEF LastRowWins, p, both
<1>2. QED
  BY <1>1, InputsTyped, PTL

-----------------------------------------------------------------------------
(* Retrieval.  What the first of a sequence are.                           *)
LEMMA TakesFirst ==
  ASSUME NEW T, NEW s \in Seq(T), NEW n \in Nat, NEW first, first = FirstOf(s, n)
  PROVE  /\ first \in Seq(T) /\ Len(first) = (IF n <= Len(s) THEN n ELSE Len(s))
         /\ DOMAIN first \subseteq DOMAIN s /\ \A i \in DOMAIN first : first[i] = s[i]
<1>1. Min({n, Len(s)}) = (IF n <= Len(s) THEN n ELSE Len(s))
  BY LeastOf
<1>2. PICK m \in Nat : m = Min({n, Len(s)}) /\ m <= Len(s)
  BY <1>1
<1>3. \A i \in 1 .. m : s[i] \in T
  BY <1>2, ElementOfSeq
<1>4. m - 1 + 1 = m /\ (IF 1 <= m THEN m ELSE 0) = m /\ 1 \in Int /\ m \in Int
  BY <1>2
<1>5. first = SubSeq(s, 1, m)
  BY <1>2 DEF FirstOf
<1>6. /\ first \in Seq(T) /\ Len(first) = (IF 1 <= m THEN m - 1 + 1 ELSE 0)
      /\ \A i \in 1 .. m - 1 + 1 : first[i] = s[1 + i - 1]
  BY ONLY <1>3, <1>4, <1>5, SubSeqProperties
<1>7. first \in Seq(T) /\ Len(first) = m /\ \A i \in 1 .. m : first[i] = s[1 + i - 1]
  BY ONLY <1>4, <1>6
<1>8. \A i \in 1 .. m : first[i] = s[i]
  BY <1>7
<1>9. DOMAIN first = 1 .. m /\ DOMAIN s = 1 .. Len(s)
  BY <1>7
<1>10. 1 .. m \subseteq 1 .. Len(s) /\ m = (IF n <= Len(s) THEN n ELSE Len(s))
  BY <1>1, <1>2
<1>11. QED
  BY ONLY <1>7, <1>8, <1>9, <1>10

-----------------------------------------------------------------------------
(* What a search shows of the products in reach.                           *)
Ware(p) == p.fit \in Int /\ p.price \in Int \cup {None} /\ p.rating \in Int \cup {None}

(* The reranker's order of its pool.                                       *)
BestAhead(sorted, pool, n) ==
  \E from \in PlacesIn(n, 1 .. n) :
    /\ \A k \in 1 .. n : sorted[k] = pool[from[k]]
    /\ \A k, m \in 1 .. n : k < m => pool[from[k]].fit >= pool[from[m]].fit
    /\ \A i \in 1 .. n : \E k \in 1 .. n : from[k] = i

LEMMA BestFirst ==
  ASSUME NEW T, \A p \in T : Ware(p), NEW pool \in Seq(T), NEW n, n = Len(pool),
         NEW sorted, sorted = BestFitFirst(pool)
  PROVE  sorted \in Seq(T) /\ Len(sorted) = n /\ BestAhead(sorted, pool, n)
<1>1. PICK key : key = [i \in DOMAIN pool |-> 0 - pool[i].fit]
  OBVIOUS
<1>2. DOMAIN pool = 1 .. n /\ \A i \in DOMAIN pool : pool[i].fit \in Int
  BY DEF Ware
<1>3. (\A i \in DOMAIN pool : key[i] \in Int) /\ sorted = Sorted(pool, key)
  BY <1>1, <1>2 DEF BestFitFirst
<1>7. sorted \in Seq(T) /\ Len(sorted) = n /\ InOrder(sorted, pool, key, n)
  BY <1>3, SortedPermutes
<1>4. PICK own \in PlacesIn(n, 1 .. n) :
        /\ \A k \in 1 .. n : sorted[k] = pool[own[k]]
        /\ \A k, m \in 1 .. n : k < m => key[own[k]] <= key[own[m]]
        /\ \A i \in 1 .. n : \E k \in 1 .. n : own[k] = i
  BY <1>7 DEF InOrder
<1>5. ASSUME NEW k \in 1 .. n, NEW m \in 1 .. n, k < m
      PROVE  pool[own[k]].fit >= pool[own[m]].fit
  <2>1. own[k] \in 1 .. n /\ own[m] \in 1 .. n
    BY DEF PlacesIn
  <2>2. /\ key[own[k]] = 0 - pool[own[k]].fit /\ key[own[m]] = 0 - pool[own[m]].fit
        /\ pool[own[k]].fit \in Int /\ pool[own[m]].fit \in Int
    BY <1>1, <1>2, <2>1
  <2>3. key[own[k]] <= key[own[m]]
    BY <1>4, <1>5
  <2>4. QED
    BY ONLY <2>2, <2>3
<1>6. QED
  BY <1>4, <1>5, <1>7 DEF BestAhead

(* Each page place shows another product in reach, and what reranking      *)
(* leaves out of its pool is no better.                                    *)
ShownFrom(from, page, reach, request) ==
  /\ \A k \in DOMAIN page : page[k] = reach[from[k]]
  /\ ShouldRerank(request) =>
       \A k \in DOMAIN page, i \in DOMAIN reach :
         i <= RetrieveTopK /\ (\A m \in DOMAIN page : from[m] # i)
           => reach[from[k]].fit >= reach[i].fit

FromReach(page, reach, request) ==
  /\ Len(page) = (IF request.limit <= Len(reach) THEN request.limit ELSE Len(reach))
  /\ \E from \in PlacesIn(Len(page), DOMAIN reach) : ShownFrom(from, page, reach, request)

LEMMA SearchShows ==
  ASSUME RetrievalAssumption, NEW T, \A p \in T : Ware(p), NEW catalog \in Seq(T),
         NEW request, request.limit \in Nat,
         NEW reach, reach = Reach(catalog, request.filters),
         NEW page, page = Search(catalog, request)
  PROVE  reach \in Seq(T) /\ page \in Seq(T) /\ FromReach(page, reach, request)
<1> DEFINE size == Max({RetrieveTopK, request.limit})
           pool == FirstOf(reach, size)
           sorted == BestFitFirst(pool)
           n == Len(pool)
<1>1. reach \in Seq(T)
  <2> DEFINE I == {i \in DOMAIN catalog : Matches(catalog[i], request.filters)
                                          /\ catalog[i].scored}
  <2>1. I \in SUBSET (DOMAIN catalog) /\ reach = Only(catalog, I)
    BY DEF Reach
  <2> HIDE DEF I
  <2>2. QED
    BY <2>1, OnlyKeeps
<1>2. size \in Nat /\ request.limit <= size /\ RetrieveTopK <= size
  <2>1. RetrieveTopK \in Int /\ request.limit \in Int /\ RetrieveTopK \in Nat
    BY DEF RetrievalAssumption
  <2>2. size = (IF RetrieveTopK <= request.limit THEN request.limit ELSE RetrieveTopK)
    BY <2>1, LeastOf
  <2> HIDE DEF size
  <2>3. QED
    BY <2>1, <2>2
<1>3. page = FirstOf(IF ShouldRerank(request) THEN sorted ELSE pool, request.limit)
  BY DEF Search, Pool
<1> HIDE DEF size
<1>4. /\ pool \in Seq(T) /\ n = (IF size <= Len(reach) THEN size ELSE Len(reach))
      /\ DOMAIN pool \subseteq DOMAIN reach /\ \A i \in DOMAIN pool : pool[i] = reach[i]
  BY <1>1, <1>2, TakesFirst
<1> HIDE DEF pool
<1>5. \A i \in DOMAIN pool : pool[i].fit \in Int
  BY <1>4 DEF Ware
<1>6. sorted \in Seq(T) /\ Len(sorted) = n /\ BestAhead(sorted, pool, n)
  <2>1. pool \in Seq(T) /\ n = Len(pool) /\ sorted = BestFitFirst(pool)
    BY <1>4
  <2> HIDE DEF sorted, n
  <2>2. QED
    BY <2>1, BestFirst
<1> HIDE DEF sorted
<1>7. n \in Nat /\ DOMAIN pool = 1 .. n /\ Len(reach) \in Nat /\ DOMAIN reach = 1 .. Len(reach)
  BY <1>1, <1>4
<1>8. CASE ShouldRerank(request)
  <2>1. /\ page \in Seq(T) /\ Len(page) = (IF request.limit <= n THEN request.limit ELSE n)
        /\ DOMAIN page \subseteq 1 .. n /\ \A i \in DOMAIN page : page[i] = sorted[i]
    <3>1. page = FirstOf(sorted, request.limit)
      BY <1>3, <1>8
    <3>2. QED
      BY <1>6, <3>1, TakesFirst
  <2>2. PICK from \in PlacesIn(n, 1 .. n) :
          /\ \A k \in 1 .. n : sorted[k] = pool[from[k]]
          /\ \A k, m \in 1 .. n : k < m => pool[from[k]].fit >= pool[from[m]].fit
          /\ \A i \in 1 .. n : \E k \in 1 .. n : from[k] = i
    BY <1>6 DEF BestAhead
  <2> DEFINE own == [k \in 1 .. Len(page) |-> from[k]]
  <2>3. DOMAIN page = 1 .. Len(page) /\ Len(page) \in Nat
    BY <2>1
  <2>4. own \in PlacesIn(Len(page), DOMAIN reach)
    BY <1>4, <1>7, <2>1, <2>2, <2>3 DEF PlacesIn
  <2>5. \A k \in DOMAIN page : page[k] = reach[own[k]] /\ own[k] \in 1 .. n
    BY <1>4, <1>7, <2>1, <2>2, <2>3 DEF PlacesIn
  <2>6. ASSUME NEW k \in DOMAIN page, NEW i \in DOMAIN reach, i <= RetrieveTopK,
               \A m \in DOMAIN page : own[m] # i
        PROVE  reach[own[k]].fit >= reach[i].fit
    <3>1. i \in 1 .. n
      BY <1>2, <1>4, <1>7, <2>6 DEF RetrievalAssumption
    <3>2. PICK m \in 1 .. n : from[m] = i
      BY <2>2, <3>1
    <3>3. m \notin DOMAIN page
      BY <2>3, <2>6, <3>2
    <3>4. k < m
      BY <2>1, <2>3, <3>3
    <3>5. pool[from[k]].fit >= pool[i].fit
      BY <2>1, <2>2, <3>2, <3>4
    <3>6. /\ from[k] \in 1 .. n /\ from[k] = own[k]
      BY <2>3, <2>5
    <3>8. pool[from[k]] = reach[own[k]] /\ pool[i] = reach[i]
      BY <1>4, <1>7, <3>1, <3>6
    <3>9. QED
      BY <3>5, <3>8
  <2>7. ShownFrom(own, page, reach, request)
    BY <2>5, <2>6 DEF ShownFrom
  <2>8. Len(page) = (IF request.limit <= Len(reach) THEN request.limit ELSE Len(reach))
    BY <1>2, <1>4, <1>7, <2>1
  <2>9. QED
    BY <1>1, <2>1, <2>4, <2>7, <2>8 DEF FromReach
<1>9. CASE ~ ShouldRerank(request)
  <2>1. /\ page \in Seq(T) /\ Len(page) = (IF request.limit <= n THEN request.limit ELSE n)
        /\ DOMAIN page \subseteq 1 .. n /\ \A i \in DOMAIN page : page[i] = pool[i]
    <3>1. page = FirstOf(pool, request.limit)
      BY <1>3, <1>9
    <3>2. QED
      BY <1>4, <1>7, <3>1, TakesFirst
  <2> DEFINE own == [k \in 1 .. Len(page) |-> k]
  <2>2. DOMAIN page = 1 .. Len(page) /\ Len(page) \in Nat
    BY <2>1
  <2>3. own \in PlacesIn(Len(page), DOMAIN reach)
    BY <1>4, <1>7, <2>1, <2>2 DEF PlacesIn
  <2>4. ShownFrom(own, page, reach, request)
    BY <1>4, <1>7, <1>9, <2>1, <2>2 DEF ShownFrom
  <2>5. Len(page) = (IF request.limit <= Len(reach) THEN request.limit ELSE Len(reach))
    BY <1>2, <1>4, <1>7, <2>1
  <2>6. QED
    BY <1>1, <2>1, <2>3, <2>4, <2>5 DEF FromReach
<1>10. QED
  BY <1>8, <1>9

LEMMA ReachDistinct ==
  ASSUME NEW T, NEW catalog \in Seq(T), Distinct(catalog), NEW filters,
         NEW reach, reach = Reach(catalog, filters)
  PROVE  reach \in Seq(T) /\ Distinct(reach)
<1> DEFINE I == {i \in DOMAIN catalog : Matches(catalog[i], filters) /\ catalog[i].scored}
           n == Cardinality(I)
<1>1. I \in SUBSET (DOMAIN catalog) /\ reach = Only(catalog, I)
  BY DEF Reach
<1> HIDE DEF I
<1>2. /\ reach \in Seq(T) /\ Len(reach) = n
      /\ \E from \in PlacesIn(n, I) : \A k \in 1 .. n : reach[k] = catalog[from[k]]
  BY <1>1, OnlyKeeps
<1>3. PICK from \in PlacesIn(n, I) : \A k \in 1 .. n : reach[k] = catalog[from[k]]
  BY <1>2
<1> HIDE DEF n
<1>4. ASSUME NEW i \in 1 .. n, NEW k \in 1 .. n, reach[i] = reach[k] PROVE i = k
  <2>1. from[i] \in DOMAIN catalog /\ from[k] \in DOMAIN catalog
    BY <1>1 DEF PlacesIn
  <2>2. from[i] = from[k]
    BY <1>3, <1>4, <2>1 DEF Distinct
  <2>3. QED
    BY <2>2 DEF PlacesIn
<1>5. DOMAIN reach = 1 .. n
  BY <1>2
<1>6. QED
  BY <1>2, <1>4, <1>5 DEF Distinct

(* A page of a catalog without repeats.                                    *)
LEMMA FullPage ==
  ASSUME RetrievalAssumption, NEW T, \A p \in T : Ware(p), NEW catalog \in Seq(T),
         Distinct(catalog), NEW request, request.limit \in Nat
  PROVE  PageIsFull(catalog, request)
<1>1. PICK reach : reach = Reach(catalog, request.filters)
  OBVIOUS
<1>2. PICK page : page = Search(catalog, request)
  OBVIOUS
<1>3. Distinct(reach)
  BY <1>1, ReachDistinct
<1>12. reach \in Seq(T) /\ page \in Seq(T) /\ FromReach(page, reach, request)
  BY <1>1, <1>2, SearchShows
<1>4. /\ reach \in Seq(T) /\ page \in Seq(T)
      /\ Len(page) = (IF request.limit <= Len(reach) THEN request.limit ELSE Len(reach))
      /\ \E from \in PlacesIn(Len(page), DOMAIN reach) : ShownFrom(from, page, reach, request)
  BY <1>12 DEF FromReach
<1>5. PICK from \in PlacesIn(Len(page), DOMAIN reach) : ShownFrom(from, page, reach, request)
  BY <1>4
<1>6. DOMAIN page = 1 .. Len(page) /\ Len(reach) \in Int /\ request.limit \in Int
  BY <1>4
<1>7. \A k \in DOMAIN page : from[k] \in DOMAIN reach /\ page[k] = reach[from[k]]
  BY <1>5, <1>6 DEF PlacesIn, ShownFrom
<1>8. Len(page) = Min({request.limit, Len(reach)})
  BY <1>4, <1>6, LeastOf
<1>9. IsInjective(page)
  <2> SUFFICES ASSUME NEW i \in DOMAIN page, NEW k \in DOMAIN page, page[i] = page[k]
               PROVE  i = k
    BY DEF IsInjective
  <2>1. from[i] = from[k]
    BY <1>3, <1>7 DEF Distinct
  <2>2. QED
    BY <1>5, <1>6, <2>1 DEF PlacesIn
<1>10. ASSUME ShouldRerank(request),
              NEW i \in DOMAIN reach, reach[i] \in ToSet(page),
              NEW k \in DOMAIN reach, reach[k] \notin ToSet(page), k <= RetrieveTopK
       PROVE  reach[i].fit >= reach[k].fit
  <2>1. ToSet(page) = {page[m] : m \in DOMAIN page}
    BY DEF ToSet
  <2>2. PICK m \in DOMAIN page : reach[i] = page[m]
    BY <1>10, <2>1
  <2>3. from[m] = i
    BY <1>3, <1>7, <2>2 DEF Distinct
  <2>4. \A l \in DOMAIN page : from[l] # k
    BY <1>7, <1>10, <2>1
  <2>5. QED
    BY <1>5, <1>10, <2>3, <2>4 DEF ShownFrom
<1>11. QED
  BY <1>1, <1>2, <1>8, <1>9, <1>10 DEF PageIsFull

(* "Fetching fewer than request.limit would silently truncate a caller's   *)
(* page" (hybrid.py): whatever the catalog and the request, a page is full *)
(* or holds every product in reach, without repeats, and what reranking    *)
(* leaves out of its pool is no better than what it shows.                 *)
THEOREM PagesAreAlwaysFull ==
  RetrievalAssumption /\ Spec => []PagesAreFull
<1> SUFFICES ASSUME RetrievalAssumption PROVE Spec => []PagesAreFull
  OBVIOUS
<1>1. \A p \in Items : Ware(p)
  BY DEF Items, Item, Ware
<1>2. \A request \in Requests : request.limit \in Nat
  BY DEF Requests
<1>3. InputsInv => PagesAreFull
  <2> SUFFICES ASSUME InputsInv, algorithm = "Retrieval", NEW request \in Requests
               PROVE  PageIsFull(input, request)
    BY DEF PagesAreFull
  <2>1. input \in Seq(Items) /\ Distinct(input)
    BY DEF InputsInv
  <2>2. QED
    BY <1>1, <1>2, <2>1, FullPage
<1>4. QED
  BY <1>3, InputsTyped, PTL

-----------------------------------------------------------------------------
(* What a sequence holds, and what its selections hold of it.              *)
LEMMA ToSetIs == \A s : ToSet(s) = {s[i] : i \in DOMAIN s}
BY DEF ToSet

LEMMA OnlyElements ==
  ASSUME NEW T, NEW s \in Seq(T), NEW I \in SUBSET (DOMAIN s), NEW kept, kept = Only(s, I)
  PROVE  /\ kept \in Seq(T) /\ ToSet(kept) = {s[i] : i \in I}
         /\ Len(kept) = Cardinality(I) /\ Len(kept) \in Nat
<1>1. PICK n : n = Cardinality(I)
  OBVIOUS
<1>2. /\ kept \in Seq(T) /\ Len(kept) = n /\ n \in Nat
      /\ \E from \in PlacesIn(n, I) :
           /\ \A k \in 1 .. n : kept[k] = s[from[k]]
           /\ \A i \in I : \E k \in 1 .. n : from[k] = i
  BY <1>1, OnlyKeeps
<1>3. PICK from \in PlacesIn(n, I) :
        /\ \A k \in 1 .. n : kept[k] = s[from[k]]
        /\ \A i \in I : \E k \in 1 .. n : from[k] = i
  BY <1>2
<1>4. DOMAIN kept = 1 .. n /\ \A k \in 1 .. n : from[k] \in I
  BY <1>2 DEF PlacesIn
<1>5. ToSet(kept) = {s[i] : i \in I}
  <2>1. ToSet(kept) = {kept[k] : k \in 1 .. n}
    BY <1>4, ToSetIs
  <2>2. {kept[k] : k \in 1 .. n} \subseteq {s[i] : i \in I}
    BY <1>3, <1>4
  <2>3. ASSUME NEW i \in I PROVE s[i] \in {kept[k] : k \in 1 .. n}
    <3>1. PICK k \in 1 .. n : from[k] = i
      BY <1>3
    <3>2. kept[k] = s[i]
      BY <1>3, <3>1
    <3>3. QED
      BY <3>2
  <2>4. QED
    BY <2>1, <2>2, <2>3
<1>6. QED
  BY <1>1, <1>2, <1>5

LEMMA KeyedIs ==
  ASSUME NEW T, NEW s \in Seq(T), NEW metric, NEW keyed, keyed = Keyed(s, metric)
  PROVE  /\ keyed \in Seq(T)
         /\ ToSet(keyed) = {p \in ToSet(s) : Metric(p, metric) # None}
<1> DEFINE I == {i \in DOMAIN s : Metric(s[i], metric) # None}
<1>1. I \in SUBSET (DOMAIN s) /\ keyed = Only(s, I)
  BY DEF Keyed
<1>2. {s[i] : i \in I} = {p \in ToSet(s) : Metric(p, metric) # None}
  BY ToSetIs
<1> HIDE DEF I
<1>3. QED
  BY <1>1, <1>2, OnlyElements

(* The first of a sorted sequence has the least key.                       *)
LEMMA SortedFirst ==
  ASSUME NEW T, NEW s \in Seq(T), NEW key, \A i \in DOMAIN s : key[i] \in Int,
         NEW sorted, sorted = Sorted(s, key)
  PROVE  /\ sorted \in Seq(T) /\ Len(sorted) = Len(s)
         /\ s # <<>> => \E i \in DOMAIN s : /\ sorted[1] = s[i]
                                            /\ \A k \in DOMAIN s : key[i] <= key[k]
<1>1. PICK n : n = Len(s)
  OBVIOUS
<1>2. sorted \in Seq(T) /\ Len(sorted) = n /\ InOrder(sorted, s, key, n)
  BY <1>1, SortedPermutes
<1>3. DOMAIN s = 1 .. n /\ n \in Nat /\ (s # <<>> => n > 0)
  BY <1>1
<1>4. ASSUME s # <<>>
      PROVE  \E i \in DOMAIN s : sorted[1] = s[i] /\ \A k \in DOMAIN s : key[i] <= key[k]
  <2>1. PICK from \in PlacesIn(n, 1 .. n) :
          /\ \A k \in 1 .. n : sorted[k] = s[from[k]]
          /\ \A k, m \in 1 .. n : k < m => key[from[k]] <= key[from[m]]
          /\ \A i \in 1 .. n : \E k \in 1 .. n : from[k] = i
    BY <1>2 DEF InOrder
  <2>2. 1 \in 1 .. n
    BY <1>3, <1>4
  <2>3. from[1] \in 1 .. n /\ key[from[1]] \in Int
    BY <1>3, <2>2 DEF PlacesIn
  <2>4. ASSUME NEW k \in 1 .. n PROVE key[from[1]] <= key[k]
    <3>1. PICK m \in 1 .. n : from[m] = k
      BY <2>1
    <3>2. CASE m = 1
      BY <2>3, <3>1, <3>2
    <3>3. CASE m # 1
      <4>1. 1 < m
        BY <3>3
      <4>2. QED
        BY <2>1, <2>2, <3>1, <4>1
    <3>4. QED
      BY <3>2, <3>3
  <2>5. QED
    BY <1>3, <2>1, <2>2, <2>3, <2>4
<1>5. QED
  BY <1>1, <1>2, <1>4

-----------------------------------------------------------------------------
(* What the pool of search_sorted holds of the matches.                    *)
LEMMA ReachOfMatches ==
  ASSUME NEW T, NEW catalog \in Seq(T), NEW filters,
         NEW reach, reach = Reach(catalog, filters),
         NEW matches, matches = Matching(catalog, filters)
  PROVE  /\ reach \in Seq(T) /\ matches \in Seq(T) /\ Len(reach) <= Len(matches)
         /\ ToSet(reach) = {p \in ToSet(matches) : p.scored}
<1> DEFINE I == {i \in DOMAIN catalog : Matches(catalog[i], filters) /\ catalog[i].scored}
           J == {i \in DOMAIN catalog : Matches(catalog[i], filters)}
<1>1. I \in SUBSET (DOMAIN catalog) /\ reach = Only(catalog, I)
  BY DEF Reach
<1>2. J \in SUBSET (DOMAIN catalog) /\ matches = Only(catalog, J)
  BY DEF Matching
<1>3. /\ I \in SUBSET J
      /\ {catalog[i] : i \in I} = {p \in {catalog[i] : i \in J} : p.scored}
  OBVIOUS
<1> HIDE DEF I, J
<1>4. /\ reach \in Seq(T) /\ ToSet(reach) = {catalog[i] : i \in I}
      /\ Len(reach) = Cardinality(I)
  BY <1>1, OnlyElements
<1>5. /\ matches \in Seq(T) /\ ToSet(matches) = {catalog[i] : i \in J}
      /\ Len(matches) = Cardinality(J)
  BY <1>2, OnlyElements
<1>6. Cardinality(I) <= Cardinality(J)
  <2>1. IsFiniteSet(DOMAIN catalog)
    BY FS_Interval
  <2>2. IsFiniteSet(J)
    BY <1>2, <2>1, FS_Subset
  <2>3. QED
    BY <1>3, <2>2, FS_Subset
<1>7. QED
  BY <1>3, <1>4, <1>5, <1>6

(* The lesser of two numbers is the one that is at most the other.         *)
LEMMA LeastOfBoth ==
  \A r, l \in Nat : r <= l => (IF l <= r THEN l ELSE r) = r
  OBVIOUS

LEMMA HitsOfReach ==
  ASSUME NEW T, NEW reach \in Seq(T), NEW page \in Seq(T), NEW request,
         request.limit \in Nat, FromReach(page, reach, request)
  PROVE  /\ ToSet(page) \subseteq ToSet(reach)
         /\ Len(reach) <= request.limit => ToSet(page) = ToSet(reach)
<1>1. PICK from \in PlacesIn(Len(page), DOMAIN reach) : ShownFrom(from, page, reach, request)
  BY DEF FromReach
<1>2. DOMAIN page = 1 .. Len(page) /\ Len(page) \in Nat
      /\ DOMAIN reach = 1 .. Len(reach) /\ Len(reach) \in Nat
  OBVIOUS
<1>3. \A k \in DOMAIN page : from[k] \in DOMAIN reach /\ page[k] = reach[from[k]]
  BY <1>1, <1>2 DEF PlacesIn, ShownFrom
<1>4. ASSUME Len(reach) <= request.limit, NEW i \in DOMAIN reach
      PROVE  \E k \in DOMAIN page : reach[i] = page[k]
  <2>7. Len(page) = (IF request.limit <= Len(reach) THEN request.limit ELSE Len(reach))
    BY DEF FromReach
  <2>8. Len(page) = Len(reach)
    BY <1>2, <1>4, <2>7, LeastOfBoth, Zenon
  <2>1. PICK n \in Nat : n = Len(page) /\ n = Len(reach)
    BY <1>2, <2>8
  <2>2. from \in Injection(1 .. n, 1 .. n)
    BY <1>2, <2>1 DEF PlacesIn, Injection, IsInjective
  <2>3. IsFiniteSet(1 .. n) /\ Cardinality(1 .. n) = Cardinality(1 .. n)
    BY FS_Interval
  <2>4. from \in Surjection(1 .. n, 1 .. n)
    BY <2>2, <2>3, FS_Injection
  <2>5. PICK k \in 1 .. n : from[k] = i
    BY <1>2, <2>1, <2>4 DEF Surjection
  <2>6. QED
    BY <1>2, <1>3, <2>1, <2>5
<1>5. /\ ToSet(page) = {page[k] : k \in DOMAIN page}
      /\ ToSet(reach) = {reach[i] : i \in DOMAIN reach}
  BY ToSetIs
<1>6. ToSet(page) \subseteq ToSet(reach)
  BY <1>3, <1>5
<1>7. ASSUME Len(reach) <= request.limit PROVE ToSet(reach) \subseteq ToSet(page)
  BY <1>4, <1>5, <1>7
<1>8. QED
  BY <1>6, <1>7

-----------------------------------------------------------------------------
(* The products of a set that have the key of a superlative.               *)
Sortable(s, sort_by) == {p \in ToSet(s) : Metric(p, KeyField(sort_by)) # None}
Value(p, sort_by) == Metric(p, KeyField(sort_by))

LEMMA ValuesAreInts ==
  ASSUME NEW T, \A p \in T : Ware(p), NEW s \in Seq(T), NEW sort_by \in SortBy
  PROVE  /\ Sortable(s, sort_by) \subseteq T
         /\ \A p \in Sortable(s, sort_by) : Value(p, sort_by) \in Int
<1>1. ToSet(s) \subseteq T
  BY ToSetIs
<1>2. \A p \in T : Value(p, sort_by) \in Int \cup {None}
  BY DEF Value, Ware, Metric, KeyField
<1>3. QED
  BY <1>1, <1>2 DEF Sortable, Value

(* The first of what search_sorted sorted has the key of the superlative,  *)
(* and none in the pool has a better one.                                  *)
Leads(p, offers, sort_by) ==
  /\ p \in offers
  /\ \A q \in offers : IF sort_by = "price_asc"
                       THEN Value(p, sort_by) <= Value(q, sort_by)
                       ELSE Value(p, sort_by) >= Value(q, sort_by)

LedBy(sorted, offers, sort_by) ==
  /\ sorted = <<>> <=> offers = {}
  /\ offers # {} => Leads(sorted[1], offers, sort_by)

LEMMA FirstLeads ==
  ASSUME NEW T, \A p \in T : Ware(p), NEW pool \in Seq(T), NEW sort_by \in SortBy,
         NEW sorted, sorted = SortedBy(pool, sort_by),
         NEW offers, offers = Sortable(pool, sort_by)
  PROVE  sorted \in Seq(T) /\ LedBy(sorted, offers, sort_by)
<1>1. PICK keyed : keyed = Keyed(pool, KeyField(sort_by))
  OBVIOUS
<1>2. PICK key : key = [i \in DOMAIN keyed |-> SortKey(keyed[i], sort_by)]
  OBVIOUS
<1>3. sorted = Sorted(keyed, key)
  BY <1>1, <1>2 DEF SortedBy
<1>4. keyed \in Seq(T) /\ ToSet(keyed) = offers
  BY <1>1, KeyedIs DEF Sortable
<1>5. \A i \in DOMAIN keyed : keyed[i] \in offers
  BY <1>4, ToSetIs
<1>6. \A p \in offers : \E i \in DOMAIN keyed : p = keyed[i]
  BY <1>4, ToSetIs
<1>7. \A p \in offers : Value(p, sort_by) \in Int
  BY ValuesAreInts
<1>8. \A i \in DOMAIN keyed :
        key[i] = IF sort_by = "price_asc" THEN Value(keyed[i], sort_by)
                 ELSE 0 - Value(keyed[i], sort_by)
  BY <1>2 DEF SortKey, Value
<1>9. \A i \in DOMAIN keyed : key[i] \in Int
  BY <1>5, <1>7, <1>8
<1>10. /\ sorted \in Seq(T) /\ Len(sorted) = Len(keyed)
       /\ keyed # <<>> => \E i \in DOMAIN keyed : /\ sorted[1] = keyed[i]
                                                  /\ \A k \in DOMAIN keyed : key[i] <= key[k]
  BY <1>3, <1>4, <1>9, SortedFirst
<1>11. keyed = <<>> <=> offers = {}
  BY <1>4, <1>5, <1>6
<1>12. sorted = <<>> <=> keyed = <<>>
  BY <1>4, <1>10
<1>13. ASSUME offers # {} PROVE Leads(sorted[1], offers, sort_by)
  <2>1. PICK i \in DOMAIN keyed : sorted[1] = keyed[i] /\ \A k \in DOMAIN keyed : key[i] <= key[k]
    BY <1>10, <1>11, <1>13
  <2>2. ASSUME NEW q \in offers
        PROVE  IF sort_by = "price_asc" THEN Value(keyed[i], sort_by) <= Value(q, sort_by)
               ELSE Value(keyed[i], sort_by) >= Value(q, sort_by)
    <3>1. PICK k \in DOMAIN keyed : q = keyed[k]
      BY <1>6
    <3>2. key[i] <= key[k] /\ Value(keyed[i], sort_by) \in Int /\ Value(q, sort_by) \in Int
      BY <1>5, <1>7, <2>1
    <3>3. key[k] = IF sort_by = "price_asc" THEN Value(q, sort_by)
                   ELSE 0 - Value(q, sort_by)
      BY <1>8, <3>1
    <3>4. key[i] = IF sort_by = "price_asc" THEN Value(keyed[i], sort_by)
                   ELSE 0 - Value(keyed[i], sort_by)
      BY <1>8
    <3>5. QED
      BY ONLY <3>2, <3>3, <3>4
  <2>3. QED
    BY <1>5, <2>1, <2>2 DEF Leads
<1>14. QED
  BY <1>10, <1>11, <1>12, <1>13 DEF LedBy

(* Some place of a sequence has the least key and some place the greatest.  *)
LEMMA Leaders ==
  ASSUME NEW T, NEW s \in Seq(T), NEW key, \A i \in DOMAIN s : key[i] \in Int,
         s # <<>>
  PROVE  /\ \E i \in DOMAIN s : \A k \in DOMAIN s : key[i] <= key[k]
         /\ \E i \in DOMAIN s : \A k \in DOMAIN s : key[i] >= key[k]
<1>1. \E i \in DOMAIN s : \A k \in DOMAIN s : key[i] <= key[k]
  <2>1. PICK sorted : sorted = Sorted(s, key)
    OBVIOUS
  <2>2. QED
    BY <2>1, SortedFirst
<1>2. \E i \in DOMAIN s : \A k \in DOMAIN s : key[i] >= key[k]
  <2>1. PICK minus : minus = [i \in DOMAIN s |-> 0 - key[i]]
    OBVIOUS
  <2>2. PICK sorted : sorted = Sorted(s, minus)
    OBVIOUS
  <2>3. \A i \in DOMAIN s : minus[i] \in Int /\ minus[i] = 0 - key[i]
    BY <2>1
  <2>4. PICK i \in DOMAIN s : \A k \in DOMAIN s : minus[i] <= minus[k]
    BY <2>2, <2>3, SortedFirst
  <2>5. \A k \in DOMAIN s : key[i] >= key[k]
    BY <2>3, <2>4
  <2>6. QED
    BY <2>5
<1>3. QED
  BY <1>1, <1>2

(* The bounds that stats gives.                                            *)
Bounds(low, high, offers, sort_by) ==
  /\ low \in Int /\ \E p \in offers : low = Value(p, sort_by)
  /\ high \in Int /\ \E p \in offers : high = Value(p, sort_by)
  /\ \A p \in offers : low <= Value(p, sort_by) /\ Value(p, sort_by) <= high

LEMMA StatsBound ==
  ASSUME NEW T, \A p \in T : Ware(p), NEW catalog \in Seq(T), NEW filters,
         NEW matches \in Seq(T), matches = Matching(catalog, filters),
         NEW sort_by \in SortBy, NEW offers, offers = Sortable(matches, sort_by),
         NEW stats, stats = Stats(catalog, filters, KeyField(sort_by))
  PROVE  /\ offers = {} => stats.minimum = None /\ stats.maximum = None
         /\ offers # {} => \E low, high : /\ Bounds(low, high, offers, sort_by)
                                          /\ stats.minimum = <<low, 1>>
                                          /\ stats.maximum = <<high, 1>>
<1>1. PICK keyed : keyed = Keyed(matches, KeyField(sort_by))
  OBVIOUS
<1>2. PICK values : values = [i \in DOMAIN keyed |-> Metric(keyed[i], KeyField(sort_by))]
  OBVIOUS
<1>3. /\ stats.minimum = IF keyed = <<>> THEN None ELSE <<Min(ToSet(values)), 1>>
      /\ stats.maximum = IF keyed = <<>> THEN None ELSE <<Max(ToSet(values)), 1>>
  BY <1>1, <1>2 DEF Stats
<1>4. keyed \in Seq(T) /\ ToSet(keyed) = offers
  BY <1>1, KeyedIs DEF Sortable
<1>5. \A i \in DOMAIN keyed : keyed[i] \in offers
  BY <1>4, ToSetIs
<1>6. \A p \in offers : \E i \in DOMAIN keyed : p = keyed[i]
  BY <1>4, ToSetIs
<1>7. \A p \in offers : Value(p, sort_by) \in Int
  BY ValuesAreInts
<1>8. \A i \in DOMAIN keyed : values[i] = Value(keyed[i], sort_by) /\ values[i] \in Int
  BY <1>2, <1>5, <1>7 DEF Value
<1>9. keyed = <<>> <=> offers = {}
  BY <1>4, <1>5, <1>6
<1>10. ToSet(values) = {values[i] : i \in DOMAIN keyed}
  BY <1>2, ToSetIs
<1>11. ASSUME offers # {}
       PROVE  \E low, high : /\ Bounds(low, high, offers, sort_by)
                             /\ stats.minimum = <<low, 1>>
                             /\ stats.maximum = <<high, 1>>
  <2>1. PICK V : V = ToSet(values)
    OBVIOUS
  <2>2. PICK low : low = Min(V)
    OBVIOUS
  <2>3. PICK high : high = Max(V)
    OBVIOUS
  <2>4. keyed # <<>> /\ \A i \in DOMAIN keyed : values[i] \in Int
    BY <1>8, <1>9, <1>11
  <2>5. /\ \E i \in DOMAIN keyed : \A k \in DOMAIN keyed : values[i] <= values[k]
        /\ \E i \in DOMAIN keyed : \A k \in DOMAIN keyed : values[i] >= values[k]
    BY <1>4, <2>4, Leaders
  <2>6. /\ \E x \in V : \A y \in V : x <= y
        /\ \E x \in V : \A y \in V : x >= y
    <3>1. V = {values[i] : i \in DOMAIN keyed}
      BY <1>10, <2>1
    <3>2. PICK i \in DOMAIN keyed : \A k \in DOMAIN keyed : values[i] <= values[k]
      BY <2>5
    <3>3. PICK j \in DOMAIN keyed : \A k \in DOMAIN keyed : values[j] >= values[k]
      BY <2>5
    <3>4. values[i] \in V /\ \A y \in V : values[i] <= y
      BY <3>1, <3>2
    <3>5. values[j] \in V /\ \A y \in V : values[j] >= y
      BY <3>1, <3>3
    <3>6. QED
      BY ONLY <3>4, <3>5
  <2>7. low \in V /\ \A y \in V : low <= y
    BY <2>2, <2>6 DEF Min
  <2>8. high \in V /\ \A y \in V : high >= y
    BY <2>3, <2>6 DEF Max
  <2>9. \A y \in V : y \in Int /\ \E p \in offers : y = Value(p, sort_by)
    BY <1>5, <1>8, <1>10, <2>1
  <2>10. \A p \in offers : Value(p, sort_by) \in V
    BY <1>6, <1>8, <1>10, <2>1
  <2>11. Bounds(low, high, offers, sort_by)
    BY <2>7, <2>8, <2>9, <2>10 DEF Bounds
  <2>12. stats.minimum = <<low, 1>> /\ stats.maximum = <<high, 1>>
    BY <1>3, <2>1, <2>2, <2>3, <2>4
  <2>13. QED
    BY <2>11, <2>12
<1>12. QED
  BY <1>3, <1>9, <1>11

(* A superlative of any catalog.                                           *)
LEMMA Superlative ==
  ASSUME RetrievalAssumption, NEW T, \A p \in T : Ware(p), NEW catalog \in Seq(T),
         NEW filters, NEW sort_by \in SortBy, NEW limit \in Nat \ {0}
  PROVE  SortAgrees(catalog, filters, sort_by, limit)
<1>1. PICK request : request = SortedRequest(filters)
  OBVIOUS
<1>2. PICK matches : matches = Matching(catalog, filters)
  OBVIOUS
<1>3. PICK reach : reach = Reach(catalog, filters)
  OBVIOUS
<1>4. PICK hits : hits = Search(catalog, request)
  OBVIOUS
<1>5. PICK sorted : sorted = SortedBy(hits, sort_by)
  OBVIOUS
<1>6. PICK best : best = SearchSorted(catalog, filters, sort_by, limit)
  OBVIOUS
<1>7. PICK stats : stats = Stats(catalog, filters, KeyField(sort_by))
  OBVIOUS
<1>8. PICK offers : offers = Sortable(matches, sort_by)
  OBVIOUS
<1>9. PICK found : found = Sortable(hits, sort_by)
  OBVIOUS
<1>10. request.limit = SortPoolSize /\ request.limit \in Nat /\ request.filters = filters
  BY <1>1 DEF SortedRequest, RetrievalAssumption
<1>11. reach \in Seq(T) /\ hits \in Seq(T) /\ FromReach(hits, reach, request)
  <2>1. reach = Reach(catalog, request.filters)
    BY <1>3, <1>10
  <2>2. QED
    BY <1>4, <1>10, <2>1, SearchShows
<1>12. /\ matches \in Seq(T) /\ Len(reach) <= Len(matches)
       /\ ToSet(reach) = {p \in ToSet(matches) : p.scored}
  BY <1>2, <1>3, ReachOfMatches
<1>13. /\ ToSet(hits) \subseteq ToSet(reach)
       /\ Len(reach) <= request.limit => ToSet(hits) = ToSet(reach)
  BY <1>10, <1>11, HitsOfReach
<1>14. found \subseteq offers
  BY <1>8, <1>9, <1>12, <1>13 DEF Sortable
<1>15. Len(matches) <= SortPoolSize /\ (\A p \in ToSet(matches) : p.scored)
         => found = offers
  <2> SUFFICES ASSUME Len(matches) <= SortPoolSize, \A p \in ToSet(matches) : p.scored
               PROVE  found = offers
    OBVIOUS
  <2>1. Len(matches) \in Int /\ Len(reach) \in Int /\ request.limit \in Int
    BY <1>10, <1>11, <1>12
  <2>2. Len(reach) <= request.limit
    BY <1>10, <1>12, <2>1
  <2>3. ToSet(hits) = ToSet(matches)
    BY <1>12, <1>13, <2>2
  <2>4. QED
    BY <1>8, <1>9, <2>3 DEF Sortable
<1>16. sorted \in Seq(T) /\ LedBy(sorted, found, sort_by)
  BY <1>5, <1>9, <1>11, FirstLeads
<1>17. /\ best = <<>> <=> sorted = <<>>
       /\ best # <<>> => best[1] = sorted[1]
  <2>1. best = FirstOf(sorted, limit)
    BY <1>1, <1>4, <1>5, <1>6 DEF SearchSorted
  <2>2. /\ best \in Seq(T) /\ Len(best) = (IF limit <= Len(sorted) THEN limit ELSE Len(sorted))
        /\ \A i \in DOMAIN best : best[i] = sorted[i]
    BY <1>16, <2>1, TakesFirst
  <2>3. Len(best) = 0 <=> Len(sorted) = 0
    BY <1>16, <2>2
  <2>4. best = <<>> <=> sorted = <<>>
    BY <1>16, <2>2, <2>3
  <2>5. best # <<>> => 1 \in DOMAIN best
    BY <2>2
  <2>6. QED
    BY <2>2, <2>4, <2>5
<1>18. /\ offers = {} => stats.minimum = None /\ stats.maximum = None
       /\ offers # {} => \E low, high : /\ Bounds(low, high, offers, sort_by)
                                        /\ stats.minimum = <<low, 1>>
                                        /\ stats.maximum = <<high, 1>>
  BY <1>2, <1>7, <1>8, <1>12, StatsBound
<1> DEFINE asc == sort_by = "price_asc"
           bound == IF asc THEN stats.minimum ELSE stats.maximum
           extreme == IF bound = None THEN None ELSE bound[1]
           value == Value(best[1], sort_by)
           complete == /\ Len(matches) <= SortPoolSize
                       /\ \A p \in ToSet(matches) : p.scored
<1>19. CASE offers = {}
  <2>1. extreme = None /\ best = <<>>
    BY <1>14, <1>16, <1>17, <1>18, <1>19 DEF LedBy
  <2>2. /\ best # <<>> => extreme # None /\ (IF asc THEN value >= extreme ELSE value <= extreme)
        /\ complete => IF extreme = None THEN best = <<>> ELSE best # <<>> /\ value = extreme
    BY <2>1
  <2> HIDE DEF extreme, bound, value
  <2>3. QED
    BY <1>2, <1>6, <1>7, <2>2 DEF SortAgrees, extreme, bound, value, Value
<1>20. CASE offers # {}
  <2>1. PICK low, high : /\ Bounds(low, high, offers, sort_by)
                         /\ stats.minimum = <<low, 1>> /\ stats.maximum = <<high, 1>>
    BY <1>18, <1>20
  <2>2. /\ low \in Int /\ high \in Int
        /\ \A p \in offers : low <= Value(p, sort_by) /\ Value(p, sort_by) <= high
        /\ \E p \in offers : low = Value(p, sort_by)
        /\ \E p \in offers : high = Value(p, sort_by)
    BY <2>1 DEF Bounds
  <2>3. stats.minimum # None /\ stats.maximum # None
    BY <2>1, <2>2 DEF RetrievalAssumption
  <2>4. extreme = IF asc THEN low ELSE high
    BY <2>1, <2>3
  <2>5. extreme \in Int /\ extreme # None
    BY <2>2, <2>4 DEF RetrievalAssumption
  <2>6. best # <<>> => Leads(best[1], found, sort_by)
    BY <1>16, <1>17 DEF LedBy
  <2>7. \A p \in offers : Value(p, sort_by) \in Int
    BY <1>8, <1>12, ValuesAreInts
  <2> HIDE DEF extreme, bound
  <2>8. best # <<>> => /\ value \in Int /\ best[1] \in found /\ best[1] \in offers
                       /\ IF asc THEN value >= extreme ELSE value <= extreme
    <3> SUFFICES ASSUME best # <<>>
                 PROVE  /\ value \in Int /\ best[1] \in found /\ best[1] \in offers
                        /\ IF asc THEN value >= extreme ELSE value <= extreme
      OBVIOUS
    <3>1. best[1] \in found /\ best[1] \in offers
      BY <1>14, <2>6 DEF Leads
    <3>2. value \in Int /\ low <= value /\ value <= high
      BY <2>2, <2>7, <3>1
    <3> HIDE DEF value
    <3>3. QED
      BY <2>2, <2>4, <3>1, <3>2
  <2>9. ASSUME complete PROVE best # <<>> /\ value = extreme
    <3>1. found = offers
      BY <1>15, <2>9
    <3>2. best # <<>>
      BY <1>16, <1>17, <1>20, <3>1 DEF LedBy
    <3>3. /\ asc => \A q \in offers : value <= Value(q, sort_by)
          /\ ~asc => \A q \in offers : value >= Value(q, sort_by)
      BY <2>6, <3>1, <3>2 DEF Leads
    <3>4. PICK p \in offers : extreme = Value(p, sort_by)
      BY <2>2, <2>4
    <3>5. value \in Int /\ (IF asc THEN value >= extreme ELSE value <= extreme)
      BY <2>8, <3>2
    <3>6. IF asc THEN value <= extreme ELSE value >= extreme
      BY <3>3, <3>4
    <3> HIDE DEF value, asc
    <3>7. QED
      BY <2>5, <3>2, <3>5, <3>6
  <2>10. /\ best # <<>> => extreme # None /\ (IF asc THEN value >= extreme ELSE value <= extreme)
         /\ complete => IF extreme = None THEN best = <<>> ELSE best # <<>> /\ value = extreme
    BY <2>5, <2>8, <2>9
  <2> HIDE DEF value
  <2>11. QED
    BY <1>2, <1>6, <1>7, <2>10 DEF SortAgrees, extreme, bound, value, Value
<1>21. QED
  BY <1>19, <1>20

(* "Still a sort over a *candidate pool*, not an exhaustive catalog scan"  *)
(* (hybrid.py): a superlative by search_sorted never beats the exact one   *)
(* of stats, and is the exact one when the pool it sorted held every match.*)
THEOREM SortingAlwaysAgrees ==
  RetrievalAssumption /\ Spec => []SortedAgreesWithStats
<1> SUFFICES ASSUME RetrievalAssumption PROVE Spec => []SortedAgreesWithStats
  OBVIOUS
<1>1. \A p \in Items : Ware(p)
  BY DEF Items, Item, Ware
<1>2. InputsInv => SortedAgreesWithStats
  <2> SUFFICES ASSUME InputsInv, algorithm = "Retrieval", NEW filters \in Filters,
                      NEW sort_by \in SortBy, NEW limit \in 1 .. 2
               PROVE  SortAgrees(input, filters, sort_by, limit)
    BY DEF SortedAgreesWithStats
  <2>1. input \in Seq(Items) /\ limit \in Nat \ {0}
    BY DEF InputsInv
  <2>2. QED
    BY <1>1, <2>1, Superlative
<1>3. QED
  BY <1>2, InputsTyped, PTL


-----------------------------------------------------------------------------
(* The evidence of a chat turn.  What the tools return of a catalog that   *)
(* lists every SKU once.                                                   *)
OnePerFold(s) == \A i, k \in DOMAIN s : s[i].sku.fold = s[k].sku.fold => i = k

Takes(t, s) ==
  \E from \in PlacesIn(Len(t), DOMAIN s) : \A k \in DOMAIN t : t[k] = s[from[k]]

LEMMA StillOnePerFold ==
  ASSUME NEW T, NEW s \in Seq(T), NEW t \in Seq(T), Takes(t, s), OnePerFold(s)
  PROVE  OnePerFold(t)
<1>1. PICK from \in PlacesIn(Len(t), DOMAIN s) : \A k \in DOMAIN t : t[k] = s[from[k]]
  BY DEF Takes
<1>2. DOMAIN t = 1 .. Len(t)
  OBVIOUS
<1>3. \A k \in DOMAIN t : from[k] \in DOMAIN s
  BY <1>2 DEF PlacesIn
<1>4. ASSUME NEW i \in DOMAIN t, NEW k \in DOMAIN t, t[i].sku.fold = t[k].sku.fold
      PROVE  i = k
  <2>1. from[i] = from[k]
    BY <1>1, <1>3, <1>4 DEF OnePerFold
  <2>2. QED
    BY <1>2, <2>1 DEF PlacesIn
<1>5. QED
  BY <1>4 DEF OnePerFold

LEMMA OnlyTakes ==
  ASSUME NEW T, NEW s \in Seq(T), NEW I \in SUBSET (DOMAIN s), NEW kept, kept = Only(s, I)
  PROVE  kept \in Seq(T) /\ Takes(kept, s)
<1>1. PICK n : n = Cardinality(I)
  OBVIOUS
<1>2. /\ kept \in Seq(T) /\ Len(kept) = n /\ n \in Nat
      /\ \E from \in PlacesIn(n, I) :
           /\ \A k \in 1 .. n : kept[k] = s[from[k]]
           /\ \A i \in I : \E k \in 1 .. n : from[k] = i
  BY <1>1, OnlyKeeps
<1>3. PICK from \in PlacesIn(n, I) : \A k \in 1 .. n : kept[k] = s[from[k]]
  BY <1>2
<1>4. DOMAIN kept = 1 .. n /\ Len(kept) = n
  BY <1>2
<1>5. from \in PlacesIn(Len(kept), DOMAIN s)
  BY <1>4 DEF PlacesIn
<1>6. QED
  BY <1>2, <1>3, <1>4, <1>5 DEF Takes

LEMMA FirstTakes ==
  ASSUME NEW T, NEW s \in Seq(T), NEW n \in Nat, NEW first, first = FirstOf(s, n)
  PROVE  first \in Seq(T) /\ Takes(first, s) /\ Len(first) <= n
         /\ (Len(s) <= n => ToSet(first) = ToSet(s))
<1>1. /\ first \in Seq(T) /\ Len(first) = (IF n <= Len(s) THEN n ELSE Len(s))
      /\ DOMAIN first \subseteq DOMAIN s /\ \A i \in DOMAIN first : first[i] = s[i]
  BY TakesFirst
<1>2. DOMAIN first = 1 .. Len(first) /\ DOMAIN s = 1 .. Len(s)
      /\ Len(s) \in Nat /\ Len(first) \in Nat
  BY <1>1
<1>3. PICK from : from = [k \in 1 .. Len(first) |-> k]
  OBVIOUS
<1>4. from \in PlacesIn(Len(first), DOMAIN s) /\ \A k \in DOMAIN first : first[k] = s[from[k]]
  BY <1>1, <1>2, <1>3 DEF PlacesIn
<1>5. ASSUME Len(s) <= n PROVE ToSet(first) = ToSet(s)
  <2>1. Len(first) = Len(s)
    <3>1. n \in Nat /\ Len(s) \in Nat /\ Len(first) \in Nat
      BY <1>2
    <3>2. QED
      BY ONLY <1>1, <1>5, <3>1
  <2>2. DOMAIN first = DOMAIN s
    BY <1>2, <2>1
  <2>3. QED
    BY <1>1, <2>2, ToSetIs
<1>6. Len(first) <= n
  BY <1>1, <1>2
<1>7. QED
  BY <1>1, <1>4, <1>5, <1>6 DEF Takes

LEMMA SortedTakes ==
  ASSUME NEW T, \A p \in T : Ware(p), NEW pool \in Seq(T), NEW sort_by \in SortBy,
         NEW sorted, sorted = SortedBy(pool, sort_by), OnePerFold(pool)
  PROVE  sorted \in Seq(T) /\ OnePerFold(sorted)
<1>1. PICK keyed : keyed = Keyed(pool, KeyField(sort_by))
  OBVIOUS
<1>2. PICK key : key = [i \in DOMAIN keyed |-> SortKey(keyed[i], sort_by)]
  OBVIOUS
<1>3. sorted = Sorted(keyed, key)
  BY <1>1, <1>2 DEF SortedBy
<1>4. keyed \in Seq(T) /\ ToSet(keyed) = Sortable(pool, sort_by)
  BY <1>1, KeyedIs DEF Sortable
<1>5. OnePerFold(keyed)
  <2> DEFINE I == {i \in DOMAIN pool : Metric(pool[i], KeyField(sort_by)) # None}
  <2>1. I \in SUBSET (DOMAIN pool) /\ keyed = Only(pool, I)
    BY <1>1 DEF Keyed
  <2> HIDE DEF I
  <2>2. Takes(keyed, pool)
    BY <2>1, OnlyTakes
  <2>3. QED
    BY <1>4, <2>2, StillOnePerFold
<1>6. \A i \in DOMAIN keyed : Value(keyed[i], sort_by) \in Int
  <2>1. \A i \in DOMAIN keyed : keyed[i] \in Sortable(pool, sort_by)
    BY <1>4, ToSetIs
  <2>2. QED
    BY <2>1, ValuesAreInts
<1>7. \A i \in DOMAIN keyed : key[i] \in Int
  BY <1>2, <1>6 DEF SortKey, Value
<1>8. PICK n : n = Len(keyed)
  OBVIOUS
<1>9. sorted \in Seq(T) /\ Len(sorted) = n /\ InOrder(sorted, keyed, key, n)
  BY <1>3, <1>4, <1>7, <1>8, SortedPermutes
<1>10. PICK from \in PlacesIn(n, 1 .. n) : \A k \in 1 .. n : sorted[k] = keyed[from[k]]
  BY <1>9 DEF InOrder
<1>11. DOMAIN sorted = 1 .. n /\ DOMAIN keyed = 1 .. n
  BY <1>4, <1>8, <1>9
<1>12. Takes(sorted, keyed)
  BY <1>9, <1>10, <1>11 DEF Takes
<1>13. QED
  BY <1>4, <1>5, <1>9, <1>12, StillOnePerFold

LEMMA SearchTakes ==
  ASSUME RetrievalAssumption, NEW T, \A p \in T : Ware(p), NEW catalog \in Seq(T),
         OnePerFold(catalog), NEW request, request.limit \in Nat,
         NEW page, page = Search(catalog, request)
  PROVE  page \in Seq(T) /\ OnePerFold(page)
<1>1. PICK reach : reach = Reach(catalog, request.filters)
  OBVIOUS
<1>2. reach \in Seq(T) /\ page \in Seq(T) /\ FromReach(page, reach, request)
  BY <1>1, SearchShows
<1>3. OnePerFold(reach)
  <2> DEFINE I == {i \in DOMAIN catalog : Matches(catalog[i], request.filters)
                                          /\ catalog[i].scored}
  <2>1. I \in SUBSET (DOMAIN catalog) /\ reach = Only(catalog, I)
    BY <1>1 DEF Reach
  <2> HIDE DEF I
  <2>2. Takes(reach, catalog)
    BY <2>1, OnlyTakes
  <2>3. QED
    BY <1>2, <2>2, StillOnePerFold
<1>4. Takes(page, reach)
  <2>1. PICK from \in PlacesIn(Len(page), DOMAIN reach) : ShownFrom(from, page, reach, request)
    BY <1>2 DEF FromReach
  <2>2. QED
    BY <2>1 DEF ShownFrom, Takes
<1>5. QED
  BY <1>2, <1>3, <1>4, StillOnePerFold

(* A lookup finds every product that has all the words of a SKU asked for  *)
(* when none of these is the sibling of a SKU asked for.                   *)
Unmisled(catalog, skus) ==
  \A p \in ToSet(catalog), s \in ToSet(skus) : ~Sibling(s, p.sku)

NamedBy(p, skus) == \E s \in ToSet(skus) : s.words \subseteq p.sku.words

LEMMA LooksUp ==
  ASSUME NEW T, NEW catalog \in Seq(T), OnePerFold(catalog), NEW W, NEW skus \in Seq(W),
         NEW hits, hits = GetBySkus(catalog, skus)
  PROVE  /\ hits \in Seq(T) /\ OnePerFold(hits)
         /\ ToSet(hits) \subseteq {p \in ToSet(catalog) : NamedBy(p, skus)}
         /\ Unmisled(catalog, skus) =>
              ToSet(hits) = {p \in ToSet(catalog) : NamedBy(p, skus)}
<1> DEFINE named == {i \in DOMAIN catalog : NamedBy(catalog[i], skus)}
<1>1. PICK all : all = Only(catalog, named)
  OBVIOUS
<1>2. hits = FirstOf(all, Len(skus))
  BY <1>1 DEF GetBySkus, NamedBy
<1>3. {catalog[i] : i \in named} = {p \in ToSet(catalog) : NamedBy(p, skus)}
  BY ToSetIs
<1>4. named \in SUBSET (DOMAIN catalog) /\ \A i \in named : NamedBy(catalog[i], skus)
  OBVIOUS
<1>5. Len(skus) \in Nat /\ DOMAIN skus = 1 .. Len(skus)
  OBVIOUS
<1> HIDE DEF named
<1>6. /\ all \in Seq(T) /\ ToSet(all) = {catalog[i] : i \in named}
      /\ Len(all) = Cardinality(named) /\ Len(all) \in Nat
  BY <1>1, <1>4, OnlyElements
<1>7. Takes(all, catalog)
  BY <1>1, <1>4, OnlyTakes
<1>8. OnePerFold(all)
  BY <1>6, <1>7, StillOnePerFold
<1>9. /\ hits \in Seq(T) /\ Takes(hits, all) /\ Len(hits) <= Len(skus)
      /\ (Len(all) <= Len(skus) => ToSet(hits) = ToSet(all))
  BY <1>2, <1>5, <1>6, FirstTakes
<1>10. OnePerFold(hits)
  BY <1>6, <1>8, <1>9, StillOnePerFold
<1>11. ToSet(hits) \subseteq ToSet(all)
  <2>1. PICK from \in PlacesIn(Len(hits), DOMAIN all) : \A k \in DOMAIN hits : hits[k] = all[from[k]]
    BY <1>9 DEF Takes
  <2>2. DOMAIN hits = 1 .. Len(hits)
    BY <1>9
  <2>3. \A k \in DOMAIN hits : from[k] \in DOMAIN all
    BY <2>2 DEF PlacesIn
  <2>4. QED
    BY <2>1, <2>3, ToSetIs
<1>12. ASSUME Unmisled(catalog, skus) PROVE Len(all) <= Len(skus)
  <2>1. \A i \in named : \E j \in DOMAIN skus : skus[j].words \subseteq catalog[i].sku.words
    BY <1>4, ToSetIs DEF NamedBy
  <2>2. PICK wanted : wanted = [i \in named |-> CHOOSE j \in DOMAIN skus :
                                   skus[j].words \subseteq catalog[i].sku.words]
    OBVIOUS
  <2>3. \A i \in named : /\ wanted[i] \in DOMAIN skus
                         /\ skus[wanted[i]].words \subseteq catalog[i].sku.words
    BY <2>1, <2>2
  <2>4. \A i \in named : catalog[i].sku.fold = skus[wanted[i]].fold
    <3> TAKE i \in named
    <3>1. skus[wanted[i]] \in ToSet(skus) /\ catalog[i] \in ToSet(catalog)
      BY <1>4, <2>3, ToSetIs
    <3>2. QED
      BY <1>12, <2>3, <3>1 DEF Unmisled, Sibling
  <2>5. \A i, k \in named : wanted[i] = wanted[k] => i = k
    BY <1>4, <2>4 DEF OnePerFold
  <2>6. wanted \in [named -> DOMAIN skus]
    BY <2>2, <2>3
  <2>7. wanted \in Injection(named, DOMAIN skus)
    BY <2>5, <2>6 DEF Injection, IsInjective
  <2>8. IsFiniteSet(DOMAIN skus) /\ Cardinality(DOMAIN skus) = Len(skus)
    <3>1. PICK m \in Nat : m = Len(skus)
      BY <1>5
    <3>2. IsFiniteSet(1 .. m) /\ Cardinality(1 .. m) = (IF 1 > m THEN 0 ELSE m - 1 + 1)
      BY FS_Interval
    <3>3. Cardinality(1 .. m) = m
      BY <3>2
    <3>4. QED
      BY <1>5, <3>1, <3>2, <3>3
  <2>9. Cardinality(named) <= Cardinality(DOMAIN skus)
    BY <2>7, <2>8, FS_Injection
  <2>10. QED
    BY <1>6, <2>8, <2>9
<1>13. QED
  BY <1>3, <1>6, <1>9, <1>10, <1>11, <1>12



-----------------------------------------------------------------------------
(* What the tools return: products of the catalog, none twice, and the     *)
(* statistics, whose figures are fractions.                                *)
InWhole(p) == p.price \in Nat \cup {None} /\ p.rating \in Nat \cup {None}

Figure == {None} \cup (Nat \X (Nat \ {0}))

ProductsOf(T) == {[kind |-> "product", sku |-> p.sku] : p \in T}

StatsRecords ==
  [kind : {"stats"}, metric : {"price", "rating"}, count : Nat,
   minimum : Figure, maximum : Figure, mean : Figure]

Findings(T) == ProductsOf(T) \cup StatsRecords

Single(s) == \A i, k \in DOMAIN s : IsProduct(s[i]) /\ s[i] = s[k] => i = k

LEMMA FindingsAre ==
  ASSUME NEW T
  PROVE  /\ \A e \in Findings(T) : (IsProduct(e) <=> ~IsStats(e))
         /\ \A e \in Findings(T) : IsStats(e) => e \in StatsRecords
         /\ \A e \in Findings(T) : IsProduct(e) => \E p \in T : e.sku = p.sku
         /\ \A e, f \in Findings(T) : IsProduct(e) /\ IsProduct(f) /\ e.sku = f.sku
                                        => e = f
<1>1. \A e \in ProductsOf(T) :
        /\ e.kind = "product" /\ e = [kind |-> "product", sku |-> e.sku]
        /\ \E p \in T : e.sku = p.sku
  BY DEF ProductsOf
<1>2. \A e \in StatsRecords : e.kind = "stats"
  BY DEF StatsRecords
<1>3. \A e \in Findings(T) : e \in ProductsOf(T) \/ e \in StatsRecords
  BY DEF Findings
<1>4. /\ \A e \in Findings(T) : (IsProduct(e) <=> ~IsStats(e))
      /\ \A e \in Findings(T) : IsStats(e) => e \in StatsRecords
      /\ \A e \in Findings(T) : IsProduct(e) => e \in ProductsOf(T)
  BY <1>1, <1>2, <1>3 DEF IsProduct, IsStats
<1>5. \A e, f \in ProductsOf(T) : e.sku = f.sku => e = f
  BY <1>1
<1>6. QED
  BY <1>1, <1>4, <1>5

LEMMA HitsAreFindings ==
  ASSUME NEW T, NEW hits \in Seq(T), OnePerFold(hits),
         NEW found, found = ProductEvidence(hits)
  PROVE  /\ found \in Seq(Findings(T)) /\ Single(found)
         /\ \A i \in DOMAIN found : IsProduct(found[i])
         /\ Folds(found) = {p.sku.fold : p \in ToSet(hits)}
<1>1. found = [i \in DOMAIN hits |-> [kind |-> "product", sku |-> hits[i].sku]]
  BY DEF ProductEvidence
<1>2. DOMAIN hits = 1 .. Len(hits) /\ Len(hits) \in Nat /\ \A i \in DOMAIN hits : hits[i] \in T
  OBVIOUS
<1>3. DOMAIN found = DOMAIN hits
      /\ \A i \in DOMAIN found : found[i].kind = "product" /\ found[i].sku = hits[i].sku
  BY <1>1
<1>4. \A i \in DOMAIN found : found[i] \in ProductsOf(T)
  BY <1>1, <1>2 DEF ProductsOf
<1>5. found \in Seq(Findings(T))
  <2>1. \A i \in 1 .. Len(hits) :
          [kind |-> "product", sku |-> hits[i].sku] \in Findings(T)
    BY <1>1, <1>2, <1>4 DEF Findings
  <2>2. found \in [1 .. Len(hits) -> Findings(T)]
    BY <1>1, <1>2, <2>1
  <2>3. QED
    BY <1>2, <2>2
<1>6. Single(found)
  BY <1>3 DEF Single, OnePerFold
<1>7. Folds(found) = {p.sku.fold : p \in ToSet(hits)}
  <2>1. ToSet(found) = {found[i] : i \in DOMAIN hits}
        /\ ToSet(hits) = {hits[i] : i \in DOMAIN hits}
    BY <1>3, ToSetIs
  <2>2. Folds(found) = {found[i].sku.fold : i \in DOMAIN hits}
    BY <2>1 DEF Folds
  <2>3. {p.sku.fold : p \in ToSet(hits)} = {hits[i].sku.fold : i \in DOMAIN hits}
    BY <2>1
  <2>4. \A i \in DOMAIN hits : found[i].sku.fold = hits[i].sku.fold
    BY <1>3
  <2>5. QED
    BY ONLY <2>2, <2>3, <2>4
<1>8. QED
  BY <1>3, <1>5, <1>6, <1>7 DEF IsProduct

LEMMA StatsIs ==
  ASSUME NEW catalog, NEW filters, NEW metric
  PROVE  LET matches == Matching(catalog, filters)
             keyed == Keyed(matches, metric)
             values == [i \in DOMAIN keyed |-> Metric(keyed[i], metric)]
             stats == Stats(catalog, filters, metric)
         IN stats = [kind |-> "stats", metric |-> metric, count |-> Len(matches),
                     minimum |-> stats.minimum, maximum |-> stats.maximum,
                     mean |-> IF keyed = <<>> THEN None
                              ELSE <<SumOver(values, DOMAIN values), Len(keyed)>>]
<1> DEFINE matches == Matching(catalog, filters)
           keyed == Keyed(matches, metric)
           values == [i \in DOMAIN keyed |-> Metric(keyed[i], metric)]
           sum == MapThenSumSet(LAMBDA i : values[i], DOMAIN values)
<1>1. Stats(catalog, filters, metric) =
        [kind |-> "stats", metric |-> metric, count |-> Len(matches),
         minimum |-> IF keyed = <<>> THEN None ELSE <<Min(ToSet(values)), 1>>,
         maximum |-> IF keyed = <<>> THEN None ELSE <<Max(ToSet(values)), 1>>,
         mean |-> IF keyed = <<>> THEN None ELSE <<sum, Len(keyed)>>]
  BY DEF Stats
<1>2. sum = SumOver(values, DOMAIN values)
  <2> HIDE DEF values
  <2>1. QED
    BY DEF SumOver
<1> HIDE DEF sum
<1>3. QED
  BY <1>1, <1>2

LEMMA StatsTyped ==
  ASSUME RetrievalAssumption, NEW T, \A p \in T : Ware(p) /\ InWhole(p),
         NEW catalog \in Seq(T), NEW filters, NEW metric \in {"price", "rating"}
  PROVE  Stats(catalog, filters, metric) \in StatsRecords
<1>1. PICK stats : stats = Stats(catalog, filters, metric)
  OBVIOUS
<1>2. PICK matches : matches = Matching(catalog, filters)
  OBVIOUS
<1>3. PICK keyed : keyed = Keyed(matches, metric)
  OBVIOUS
<1>4. PICK values : values = [i \in DOMAIN keyed |-> Metric(keyed[i], metric)]
  OBVIOUS
<1>5. matches \in Seq(T)
  BY <1>2, ReachOfMatches
<1>6. keyed \in Seq(T)
      /\ ToSet(keyed) = {p \in ToSet(matches) : Metric(p, metric) # None}
  BY <1>3, <1>5, KeyedIs
<1>7. DOMAIN keyed = 1 .. Len(keyed) /\ Len(keyed) \in Nat
      /\ (keyed # <<>> => Len(keyed) \in Nat \ {0})
  BY <1>6
<1>8. \A i \in DOMAIN keyed : values[i] \in Nat
  <2> TAKE i \in DOMAIN keyed
  <2>1. keyed[i] \in T /\ Metric(keyed[i], metric) # None
    BY <1>6, ToSetIs
  <2>2. QED
    BY <1>4, <2>1 DEF Metric, InWhole
<1>9. SumOver(values, DOMAIN keyed) \in Nat
  <2>1. IsFiniteSet(DOMAIN keyed)
    BY <1>7, FS_Interval
  <2>2. QED
    BY <1>8, <2>1, SumNat
<1>10. stats = [kind |-> "stats", metric |-> metric, count |-> Len(matches),
                minimum |-> stats.minimum, maximum |-> stats.maximum,
                mean |-> IF keyed = <<>> THEN None
                         ELSE <<SumOver(values, DOMAIN keyed), Len(keyed)>>]
  <2>1. DOMAIN values = DOMAIN keyed
    BY <1>4
  <2>2. QED
    BY <1>1, <1>2, <1>3, <1>4, <2>1, StatsIs
<1>11. stats.minimum \in Figure /\ stats.maximum \in Figure
  <2>1. PICK sort_by \in SortBy : KeyField(sort_by) = metric
    <3>1. "price_asc" \in SortBy /\ "rating_desc" \in SortBy
      BY DEF SortBy
    <3>2. KeyField("price_asc") = "price" /\ KeyField("rating_desc") = "rating"
      BY DEF KeyField
    <3>3. QED
      BY <3>1, <3>2
  <2>2. PICK offers : offers = Sortable(matches, sort_by)
    OBVIOUS
  <2>3. \A p \in offers : Value(p, sort_by) \in Nat
    <3>1. \A p \in offers : p \in ToSet(matches) /\ Metric(p, metric) # None
      BY <2>1, <2>2 DEF Sortable
    <3>2. \A p \in offers : p \in T
      BY <1>5, <3>1, ToSetIs
    <3>3. QED
      BY <2>1, <3>1, <3>2 DEF Value, Metric, InWhole
  <2>4. /\ offers = {} => stats.minimum = None /\ stats.maximum = None
        /\ offers # {} => \E low, high : /\ Bounds(low, high, offers, sort_by)
                                         /\ stats.minimum = <<low, 1>>
                                         /\ stats.maximum = <<high, 1>>
    BY <1>1, <1>2, <1>5, <2>1, <2>2, StatsBound
  <2>5. CASE offers = {}
    BY <2>4, <2>5 DEF Figure
  <2>6. CASE offers # {}
    <3>1. PICK low, high : /\ Bounds(low, high, offers, sort_by)
                           /\ stats.minimum = <<low, 1>> /\ stats.maximum = <<high, 1>>
      BY <2>4, <2>6
    <3>2. low \in Nat /\ high \in Nat
      BY <2>3, <3>1 DEF Bounds
    <3>3. QED
      BY <3>1, <3>2 DEF Figure
  <2>7. QED
    BY <2>5, <2>6
<1>12. (IF keyed = <<>> THEN None ELSE <<SumOver(values, DOMAIN keyed), Len(keyed)>>) \in Figure
  BY <1>7, <1>9 DEF Figure
<1>13. Len(matches) \in Nat
  BY <1>5
<1>14. QED
  BY <1>1, <1>10, <1>11, <1>12, <1>13 DEF StatsRecords

(* A call whose arguments the schemas of the tools allow.                  *)
Asked(call, W) ==
  /\ call.tool \in {"search_catalog", "get_catalog_stats", "get_product_detail"}
  /\ Get(call.args, "sort_by", "relevance") \in SortBy \cup {"relevance"}
  /\ Get(call.args, "metric", "price") \in {"price", "rating"}
  /\ Get(call.args, "skus", <<>>) \in Seq(W)

LEMMA Returns ==
  ASSUME RetrievalAssumption, EvidenceAssumption,
         NEW T, \A p \in T : Ware(p) /\ InWhole(p), NEW catalog \in Seq(T),
         OnePerFold(catalog), NEW W, NEW call, Asked(call, W),
         NEW found, found = CallTool(catalog, call)
  PROVE  /\ found \in Seq(Findings(T)) /\ Single(found)
         /\ call.tool = "get_catalog_stats" => \E i \in DOMAIN found : IsStats(found[i])
<1>1. CASE call.tool = "search_catalog"
  <2>1. PICK filters : filters = FiltersFromToolInput(call.args)
    OBVIOUS
  <2>2. PICK sort_by : sort_by = Get(call.args, "sort_by", "relevance")
    OBVIOUS
  <2>3. PICK hits : hits = IF sort_by = "relevance"
                           THEN Search(catalog, [SortedRequest(filters) EXCEPT
                                                       !.limit = SearchLimit, !.rerank = None])
                           ELSE SearchSorted(catalog, filters, sort_by, SearchLimit)
    OBVIOUS
  <2>4. found = ProductEvidence(hits)
    BY <1>1, <2>1, <2>2, <2>3 DEF CallTool, SearchCatalog
  <2>5. SearchLimit \in Nat /\ SortPoolSize \in Nat
    BY DEF EvidenceAssumption, RetrievalAssumption
  <2>6. CASE sort_by = "relevance"
    <3>1. PICK request : request = [SortedRequest(filters) EXCEPT
                                      !.limit = SearchLimit, !.rerank = None]
      OBVIOUS
    <3>2. request.limit \in Nat
      BY <2>5, <3>1 DEF SortedRequest
    <3>3. hits = Search(catalog, request)
      BY <2>3, <2>6, <3>1
    <3>4. hits \in Seq(T) /\ OnePerFold(hits)
      BY <3>2, <3>3, SearchTakes
    <3>5. QED
      BY <1>1, <2>4, <3>4, HitsAreFindings
  <2>7. CASE sort_by # "relevance"
    <3>1. PICK request : request = SortedRequest(filters)
      OBVIOUS
    <3>2. request.limit \in Nat
      BY <2>5, <3>1 DEF SortedRequest
    <3>3. PICK pool : pool = Search(catalog, request)
      OBVIOUS
    <3>4. pool \in Seq(T) /\ OnePerFold(pool)
      BY <3>2, <3>3, SearchTakes
    <3>5. PICK sorted : sorted = SortedBy(pool, sort_by)
      OBVIOUS
    <3>6. sort_by \in SortBy
      BY <2>2, <2>7 DEF Asked
    <3>7. sorted \in Seq(T) /\ OnePerFold(sorted)
      BY <3>4, <3>5, <3>6, SortedTakes
    <3>8. hits = FirstOf(sorted, SearchLimit)
      BY <2>3, <2>7, <3>1, <3>3, <3>5 DEF SearchSorted
    <3>9. hits \in Seq(T) /\ Takes(hits, sorted)
      BY <2>5, <3>7, <3>8, FirstTakes
    <3>10. OnePerFold(hits)
      BY <3>7, <3>9, StillOnePerFold
    <3>11. QED
      BY <1>1, <2>4, <3>9, <3>10, HitsAreFindings
  <2>8. QED
    BY <2>6, <2>7
<1>2. CASE call.tool = "get_catalog_stats"
  <2>1. PICK stats : stats = Stats(catalog, FiltersFromToolInput(call.args),
                                       Get(call.args, "metric", "price"))
    OBVIOUS
  <2>2. stats \in StatsRecords
    BY <2>1, StatsTyped DEF Asked
  <2>3. found = <<stats>>
    BY <1>2, <2>1 DEF CallTool
  <2>4. stats \in Findings(T) /\ IsStats(stats)
    BY <2>2 DEF Findings, StatsRecords, IsStats
  <2>5. DOMAIN found = {1} /\ found[1] = stats /\ found \in Seq(Findings(T))
    BY <2>3, <2>4
  <2>6. Single(found)
    BY <2>5 DEF Single
  <2>7. QED
    BY <2>4, <2>5, <2>6
<1>3. CASE call.tool = "get_product_detail"
  <2>1. PICK skus : skus = Get(call.args, "skus", <<>>)
    OBVIOUS
  <2>2. skus \in Seq(W)
    BY <2>1 DEF Asked
  <2>3. PICK hits : hits = GetBySkus(catalog, skus)
    OBVIOUS
  <2>4. hits \in Seq(T) /\ OnePerFold(hits)
    BY <2>2, <2>3, LooksUp
  <2>5. found = ProductEvidence(hits)
    BY <1>3, <2>1, <2>3 DEF CallTool
  <2>6. QED
    BY <1>3, <2>4, <2>5, HitsAreFindings
<1>4. QED
  BY <1>1, <1>2, <1>3 DEF Asked



-----------------------------------------------------------------------------
(* What the rounds of a turn gather is all that their turn returned.      *)
Gathers(T) == {s \in Seq(Findings(T)) : Single(s)}

LEMMA JoinHolds ==
  ASSUME NEW T, NEW a \in Seq(T), NEW b \in Seq(T), NEW c, c = a \o b
  PROVE  /\ c \in Seq(T) /\ DOMAIN c = 1 .. Len(a) + Len(b)
         /\ Len(a) \in Nat /\ Len(b) \in Nat
         /\ \A i \in DOMAIN a : i \in DOMAIN c /\ c[i] = a[i]
         /\ \A i \in DOMAIN b : Len(a) + i \in DOMAIN c /\ c[Len(a) + i] = b[i]
         /\ \A i \in DOMAIN c : i \in DOMAIN a \/ (i - Len(a) \in DOMAIN b /\ i > Len(a))
<1>1. c \in Seq(T) /\ DOMAIN c = 1 .. Len(a) + Len(b)
      /\ Len(a) \in Nat /\ Len(b) \in Nat
  OBVIOUS
<1>2. DOMAIN a = 1 .. Len(a) /\ DOMAIN b = 1 .. Len(b)
  OBVIOUS
<1>3. /\ \A i \in DOMAIN a : i \in DOMAIN c /\ c[i] = a[i]
      /\ \A i \in DOMAIN b : Len(a) + i \in DOMAIN c /\ c[Len(a) + i] = b[i]
  BY <1>1, <1>2
<1>4. \A i \in DOMAIN c : i \in DOMAIN a \/ (i - Len(a) \in DOMAIN b /\ i > Len(a))
  BY <1>1, <1>2
<1>5. QED
  BY <1>1, <1>3, <1>4

LEMMA JoinSet ==
  ASSUME NEW T, NEW a \in Seq(T), NEW b \in Seq(T)
  PROVE  ToSet(a \o b) = ToSet(a) \cup ToSet(b)
<1>1. PICK c : c = a \o b
  OBVIOUS
<1>2. PICK n \in Nat : n = Len(a)
  OBVIOUS
<1>3. /\ DOMAIN c \subseteq Int
      /\ \A i \in DOMAIN a : i \in DOMAIN c /\ c[i] = a[i]
      /\ \A i \in DOMAIN b : n + i \in DOMAIN c /\ c[n + i] = b[i]
      /\ \A i \in DOMAIN c : i \in DOMAIN a \/ i - n \in DOMAIN b
  BY <1>1, <1>2, JoinHolds
<1>4. \A i \in DOMAIN c : i - n \in DOMAIN b => c[i] = b[i - n]
  <2> TAKE i \in DOMAIN c
  <2>1. n + (i - n) = i
    BY <1>3
  <2>2. QED
    BY <1>3, <2>1
<1>5. ToSet(c) \subseteq ToSet(a) \cup ToSet(b)
  BY <1>3, <1>4, ToSetIs
<1>6. ToSet(a) \cup ToSet(b) \subseteq ToSet(c)
  BY <1>3, ToSetIs
<1>7. QED
  BY <1>1, <1>5, <1>6

LEMMA StillSingle ==
  ASSUME NEW T, NEW s \in Seq(T), NEW t \in Seq(T), Takes(t, s), Single(s)
  PROVE  Single(t)
<1>1. PICK from \in PlacesIn(Len(t), DOMAIN s) : \A k \in DOMAIN t : t[k] = s[from[k]]
  BY DEF Takes
<1>2. DOMAIN t = 1 .. Len(t)
  OBVIOUS
<1>3. \A k \in DOMAIN t : from[k] \in DOMAIN s
  BY <1>2 DEF PlacesIn
<1>4. ASSUME NEW i \in DOMAIN t, NEW k \in DOMAIN t, IsProduct(t[i]), t[i] = t[k]
      PROVE  i = k
  <2>1. from[i] = from[k]
    BY <1>1, <1>3, <1>4 DEF Single
  <2>2. QED
    BY <1>2, <2>1 DEF PlacesIn
<1>5. QED
  BY <1>4 DEF Single

(* Two parts without repeats and without a product in common.              *)
LEMMA SingleJoin ==
  ASSUME NEW T, NEW a \in Seq(T), NEW b \in Seq(T), Single(a), Single(b),
         \A i \in DOMAIN a, k \in DOMAIN b : IsProduct(a[i]) => a[i] # b[k]
  PROVE  Single(a \o b)
<1>1. PICK c : c = a \o b
  OBVIOUS
<1>2. PICK n \in Nat : n = Len(a)
  OBVIOUS
<1>3. /\ DOMAIN c \subseteq Int
      /\ \A i \in DOMAIN a : c[i] = a[i]
      /\ \A i \in DOMAIN b : c[n + i] = b[i]
      /\ \A i \in DOMAIN c : i \in DOMAIN a \/ i - n \in DOMAIN b
  BY <1>1, <1>2, JoinHolds
<1>4. \A i \in DOMAIN c : i - n \in DOMAIN b => c[i] = b[i - n]
  <2> TAKE i \in DOMAIN c
  <2>1. n + (i - n) = i
    BY <1>3
  <2>2. QED
    BY <1>3, <2>1
<1>5. ASSUME NEW i \in DOMAIN c, NEW k \in DOMAIN c, IsProduct(c[i]), c[i] = c[k]
      PROVE  i = k
  <2>1. CASE i \in DOMAIN a /\ k \in DOMAIN a
    BY <1>3, <1>5, <2>1 DEF Single
  <2>2. CASE i - n \in DOMAIN b /\ k - n \in DOMAIN b
    <3>1. i - n = k - n
      BY <1>4, <1>5, <2>2 DEF Single
    <3>2. QED
      BY <1>3, <3>1
  <2>3. CASE i \in DOMAIN a /\ k - n \in DOMAIN b
    BY <1>3, <1>4, <1>5, <2>3
  <2>4. CASE i - n \in DOMAIN b /\ k \in DOMAIN a
    BY <1>3, <1>4, <1>5, <2>4
  <2>5. QED
    BY <1>3, <2>1, <2>2, <2>3, <2>4
<1>6. QED
  BY <1>1, <1>5 DEF Single

LEMMA Accumulates ==
  ASSUME NEW T, NEW a \in Gathers(T), NEW b \in Gathers(T),
         NEW c, c = Accumulate(a, b)
  PROVE  c \in Gathers(T) /\ ToSet(c) = ToSet(a) \cup ToSet(b)
<1> DEFINE before == {e.sku : e \in {d \in ToSet(a) : IsProduct(d)}}
           fresh == {i \in DOMAIN b : IsProduct(b[i]) => b[i].sku \notin before}
<1>1. PICK kept : kept = Only(b, fresh)
  OBVIOUS
<1>2. c = a \o kept
  BY <1>1 DEF Accumulate
<1>3. a \in Seq(Findings(T)) /\ b \in Seq(Findings(T)) /\ Single(a) /\ Single(b)
  BY DEF Gathers
<1>4. /\ \A i \in DOMAIN a : IsProduct(a[i]) => a[i].sku \in before
      /\ \A x \in before : \E i \in DOMAIN a : IsProduct(a[i]) /\ a[i].sku = x
  BY ToSetIs
<1> HIDE DEF before
<1>5. /\ fresh \in SUBSET (DOMAIN b)
      /\ \A i \in fresh : IsProduct(b[i]) => b[i].sku \notin before
      /\ \A i \in DOMAIN b : i \notin fresh => IsProduct(b[i]) /\ b[i].sku \in before
  OBVIOUS
<1> HIDE DEF fresh
<1>6. /\ kept \in Seq(Findings(T)) /\ Takes(kept, b)
      /\ ToSet(kept) = {b[i] : i \in fresh}
  BY <1>1, <1>3, <1>5, OnlyElements, OnlyTakes
<1>7. Single(kept)
  BY <1>3, <1>6, StillSingle
<1>8. c \in Seq(Findings(T)) /\ ToSet(c) = ToSet(a) \cup ToSet(kept)
  <2> DEFINE F == Findings(T)
  <2>1. a \in Seq(F) /\ kept \in Seq(F)
    BY <1>3, <1>6
  <2> HIDE DEF F
  <2>2. c \in Seq(F)
    BY <1>2, <2>1
  <2>3. ToSet(c) = ToSet(a) \cup ToSet(kept)
    BY <1>2, <2>1, JoinSet
  <2>4. QED
    BY <2>2, <2>3 DEF F
<1>9. \A i \in DOMAIN a, k \in DOMAIN kept : IsProduct(a[i]) => a[i] # kept[k]
  <2> SUFFICES ASSUME NEW i \in DOMAIN a, NEW k \in DOMAIN kept, IsProduct(a[i]),
                      a[i] = kept[k]
               PROVE  FALSE
    OBVIOUS
  <2>1. PICK m \in fresh : kept[k] = b[m]
    BY <1>6, ToSetIs
  <2>2. QED
    BY <1>4, <1>5, <2>1
<1>10. Single(c)
  BY <1>2, <1>3, <1>6, <1>7, <1>9, SingleJoin
<1>11. ToSet(kept) \subseteq ToSet(b)
  BY <1>5, <1>6, ToSetIs
<1>12. \A i \in DOMAIN b : b[i] \in ToSet(a) \cup ToSet(kept)
  <2> TAKE i \in DOMAIN b
  <2>1. CASE i \in fresh
    BY <1>6, <2>1
  <2>2. CASE i \notin fresh
    <3>1. IsProduct(b[i]) /\ b[i].sku \in before
      BY <1>5, <2>2
    <3>2. PICK k \in DOMAIN a : IsProduct(a[k]) /\ a[k].sku = b[i].sku
      BY <1>4, <3>1
    <3>3. a[k] \in Findings(T) /\ b[i] \in Findings(T)
      BY <1>3
    <3>4. a[k] = b[i]
      BY <3>1, <3>2, <3>3, FindingsAre
    <3>5. QED
      BY <3>4, ToSetIs
  <2>3. QED
    BY <2>1, <2>2
<1>13. ToSet(b) \subseteq ToSet(a) \cup ToSet(kept)
  BY <1>12, ToSetIs
<1>14. QED
  BY <1>8, <1>10, <1>11, <1>13 DEF Gathers

(* A turn is a walk along its turn.                                       *)
Round(catalog, turn, k, gathered) ==
  Accumulate(gathered, CallTool(catalog, turn[k]))

LEMMA TurnWalks ==
  ASSUME NEW T, NEW catalog, NEW K, NEW turn \in Seq(K),
         \A k \in DOMAIN turn : CallTool(catalog, turn[k]) \in Gathers(T)
  PROVE  \E st : /\ Walk(st, <<>>, Len(turn))
                 /\ Gathered(catalog, turn) = st[Len(turn)]
                 /\ \A k \in 1 .. Len(turn) : st[k] = Round(catalog, turn, k, st[k - 1])
<1> DEFINE n == Len(turn)
           IsFold(g) == g = [s \in SUBSET (1 .. n) |->
                               IF s = {} THEN <<>>
                               ELSE Round(catalog, turn, Top(s), g[s \ {Top(s)}])]
           advance == [x \in Gathers(T) \X (1 .. n) |-> Round(catalog, turn, x[2], x[1])]
<1>1. n \in Nat /\ DOMAIN turn = 1 .. n
  OBVIOUS
<1>2. <<>> \in Gathers(T)
  BY DEF Gathers, Single
<1> HIDE DEF n
<1>3. advance \in [Gathers(T) \X (1 .. n) -> Gathers(T)]
  <2>1. \A x \in Gathers(T) \X (1 .. n) : Round(catalog, turn, x[2], x[1]) \in Gathers(T)
    <3> TAKE x \in Gathers(T) \X (1 .. n)
    <3>1. x[1] \in Gathers(T) /\ CallTool(catalog, turn[x[2]]) \in Gathers(T)
      BY <1>1
    <3>2. QED
      BY <3>1, Accumulates DEF Round
  <2>2. QED
    BY <2>1
<1>4. \E g : IsFold(g)
  <2>1. PICK g \in [SUBSET (1 .. n) -> Gathers(T)] : FoldOf(g, n, <<>>, advance)
    BY <1>1, <1>2, <1>3, FoldExists
  <2>2. ASSUME NEW s \in SUBSET (1 .. n), s # {}
        PROVE  advance[<<g[s \ {Top(s)}], Top(s)>>]
               = Round(catalog, turn, Top(s), g[s \ {Top(s)}])
    <3>1. Top(s) \in 1 .. n
      BY <1>1, <2>2, Largest
    <3>2. g[s \ {Top(s)}] \in Gathers(T)
      OBVIOUS
    <3> DEFINE x == <<g[s \ {Top(s)}], Top(s)>>
    <3>3. x \in Gathers(T) \X (1 .. n) /\ x[1] = g[s \ {Top(s)}] /\ x[2] = Top(s)
      BY <3>1, <3>2
    <3> HIDE DEF x
    <3>4. advance[x] = Round(catalog, turn, x[2], x[1])
      BY <3>3
    <3>5. QED
      BY <3>3, <3>4 DEF x
  <2> HIDE DEF advance
  <2>3. IsFold(g)
    BY <2>1, <2>2 DEF FoldOf
  <2>4. QED
    BY <2>3
<1> DEFINE g == CHOOSE g : IsFold(g)
           st == [k \in 0 .. n |-> g[1 .. k]]
<1>5. Gathered(catalog, turn) = g[1 .. n]
  BY <1>1 DEF Gathered, FoldLeft, MapThenFoldSet, Max, Top, Round
<1>6. IsFold(g)
  <2> HIDE DEF IsFold
  <2>1. QED
    BY <1>4
<1> HIDE DEF g
<1>7. g[1 .. 0] = <<>>
  <2>1. 1 .. 0 = {} /\ {} \in SUBSET (1 .. n)
    OBVIOUS
  <2>2. QED
    BY <1>6, <2>1
<1>8. ASSUME NEW k \in 1 .. n PROVE g[1 .. k] = Round(catalog, turn, k, g[1 .. k - 1])
  <2>1. k \in Nat \ {0} /\ 1 .. k \in SUBSET (1 .. n)
    BY <1>1
  <2>2. Top(1 .. k) = k /\ (1 .. k) \ {k} = 1 .. k - 1 /\ 1 .. k # {}
    BY <2>1, TopOfFirst
  <2>3. g[1 .. k] = Round(catalog, turn, Top(1 .. k), g[(1 .. k) \ {Top(1 .. k)}])
    BY <1>6, <2>1, <2>2
  <2>4. QED
    BY <2>2, <2>3
<1>9. Walk(st, <<>>, n) /\ st[n] = g[1 .. n]
      /\ \A k \in 1 .. n : st[k] = Round(catalog, turn, k, st[k - 1])
  BY <1>1, <1>7, <1>8 DEF Walk
<1> HIDE DEF st
<1>10. QED
  BY <1>5, <1>9 DEF n

Returned(catalog, turn, k) ==
  UNION {ToSet(CallTool(catalog, turn[i])) : i \in 1 .. k}

LEMMA GathersAll ==
  ASSUME NEW T, NEW catalog, NEW K, NEW turn \in Seq(K),
         \A k \in DOMAIN turn : CallTool(catalog, turn[k]) \in Gathers(T),
         NEW gathered, gathered = Gathered(catalog, turn)
  PROVE  /\ gathered \in Gathers(T)
         /\ ToSet(gathered) = Returned(catalog, turn, Len(turn))
<1>1. PICK n \in Nat : n = Len(turn) /\ DOMAIN turn = 1 .. n
  OBVIOUS
<1>7. \E st : /\ Walk(st, <<>>, Len(turn))
              /\ Gathered(catalog, turn) = st[Len(turn)]
              /\ \A k \in 1 .. Len(turn) : st[k] = Round(catalog, turn, k, st[k - 1])
  BY TurnWalks
<1>2. PICK st : /\ Walk(st, <<>>, n) /\ gathered = st[n]
                /\ \A k \in 1 .. n : st[k] = Round(catalog, turn, k, st[k - 1])
  BY <1>1, <1>7
<1> DEFINE Good(k) == st[k] \in Gathers(T) /\ ToSet(st[k]) = Returned(catalog, turn, k)
           U == {k \in Nat : k <= n => Good(k)}
<1>3. 0 \in U
  <2>1. st[0] = <<>>
    BY <1>2 DEF Walk
  <2>2. <<>> \in Gathers(T) /\ ToSet(<<>>) = {}
    BY ToSetIs DEF Gathers, Single
  <2>3. 1 .. 0 = {}
    OBVIOUS
  <2>4. Returned(catalog, turn, 0) = {}
    BY <2>3 DEF Returned
  <2>5. Good(0)
    BY <2>1, <2>2, <2>4
  <2>6. QED
    BY <2>5
<1>4. ASSUME NEW k \in Nat, k \in U PROVE k + 1 \in U
  <2> SUFFICES ASSUME k + 1 <= n PROVE Good(k + 1)
    OBVIOUS
  <2>1. Good(k)
    BY <1>4
  <2>2. k + 1 \in 1 .. n /\ (k + 1) - 1 = k
    OBVIOUS
  <2>3. PICK found : found = CallTool(catalog, turn[k + 1]) /\ found \in Gathers(T)
    BY <1>1, <2>2
  <2>4. st[k + 1] = Accumulate(st[k], found)
    BY <1>2, <2>2, <2>3 DEF Round
  <2>5. st[k + 1] \in Gathers(T)
        /\ ToSet(st[k + 1]) = ToSet(st[k]) \cup ToSet(found)
    BY <2>1, <2>3, <2>4, Accumulates
  <2>6. 1 .. k + 1 = (1 .. k) \cup {k + 1}
    OBVIOUS
  <2>7. Returned(catalog, turn, k + 1) = Returned(catalog, turn, k) \cup ToSet(found)
    BY <2>3, <2>6 DEF Returned
  <2>8. QED
    BY <2>1, <2>5, <2>7
<1>5. n \in U
  <2> HIDE DEF U
  <2>1. QED
    BY <1>1, <1>3, <1>4, Upward
<1>6. QED
  BY <1>1, <1>2, <1>5



-----------------------------------------------------------------------------
(* What the flags of an answer say of its figures.                         *)
LEMMA ExactIsWithin ==
  ASSUME NEW f \in Nat \ {0}, NEW k \in Nat \X (Nat \ {0}), f * k[2] = k[1]
  PROVE  WithinTolerance(f, k)
<1>1. PICK n \in Nat : n = k[1]
  OBVIOUS
<1>2. PICK d \in Nat \ {0} : d = k[2]
  OBVIOUS
<1>3. PICK x : x = f * d
  OBVIOUS
<1>4. x = n
  BY <1>1, <1>2, <1>3
<1>5. n # 0
  BY <1>2, <1>3, <1>4
<1>6. WithinTolerance(f, k) <=>
        n # 0 /\ 50 * (IF x > n THEN x - n ELSE n - x) <= n
  BY <1>1, <1>2, <1>3 DEF WithinTolerance
<1>7. QED
  BY ONLY <1>4, <1>5, <1>6, n \in Nat

LEMMA FarIsNotWithin ==
  ASSUME NEW f \in Nat, NEW k \in Nat \X (Nat \ {0}),
         2 * f * k[2] <= k[1] \/ f * k[2] >= 2 * k[1]
  PROVE  ~WithinTolerance(f, k)
<1>1. PICK n \in Nat : n = k[1]
  OBVIOUS
<1>2. PICK d \in Nat \ {0} : d = k[2]
  OBVIOUS
<1>3. PICK x : x = f * d
  OBVIOUS
<1>4. x \in Nat /\ 2 * f * d = 2 * x
  BY <1>3
<1>5. WithinTolerance(f, k) <=>
        n # 0 /\ 50 * (IF x > n THEN x - n ELSE n - x) <= n
  BY <1>1, <1>2, <1>3 DEF WithinTolerance
<1>6. 2 * x <= n \/ x >= 2 * n
  BY <1>1, <1>2, <1>3, <1>4
<1>7. QED
  BY ONLY <1>4, <1>5, <1>6, n \in Nat

PriceStats(found) == {e \in ToSet(found) : IsStats(e) /\ e.metric = "price"}

OffAll(f, e) == \A k \in KnownFigures(e) : ~WithinTolerance(f, k)

(* A verdict is about the only price statistics there are.                 *)
ReadFrom(verdict, figures, found) ==
  \/ verdict = None
  \/ /\ figures # {}
     /\ \E e : /\ PriceStats(found) = {e} /\ KnownFigures(e) # {}
               /\ verdict = TRUE => \E f \in figures : OffAll(f, e)
               /\ verdict = FALSE => ~\E f \in figures : OffAll(f, e)

LEMMA MismatchIs ==
  ASSUME EvidenceAssumption, NEW T, NEW found \in Seq(Findings(T)), NEW figures,
         NEW verdict, verdict = StatMismatch(figures, Statistics(found))
  PROVE  ReadFrom(verdict, figures, found)
<1> DEFINE I == {i \in DOMAIN found : IsStats(found[i])}
<1>1. PICK stats : stats = Statistics(found)
  OBVIOUS
<1>2. I \in SUBSET (DOMAIN found) /\ stats = Only(found, I)
  BY <1>1 DEF Statistics
<1>3. {found[i] : i \in I} = {e \in ToSet(found) : IsStats(e)}
  BY ToSetIs
<1> HIDE DEF I
<1>4. stats \in Seq(Findings(T))
      /\ ToSet(stats) = {e \in ToSet(found) : IsStats(e)}
  BY <1>2, <1>3, OnlyElements
<1> DEFINE J == {i \in DOMAIN stats : stats[i].metric = "price"}
<1>5. PICK prices : prices = Only(stats, J)
  OBVIOUS
<1>6. {stats[i] : i \in J} = {e \in ToSet(stats) : e.metric = "price"}
  BY ToSetIs
<1>7. J \in SUBSET (DOMAIN stats)
  OBVIOUS
<1>8. verdict = IF figures = {} \/ Len(prices) # 1 \/ KnownFigures(prices[1]) = {}
                THEN None ELSE \E f \in figures : OffAll(f, prices[1])
  BY <1>1, <1>5 DEF StatMismatch, OffAll
<1> HIDE DEF J
<1>9. prices \in Seq(Findings(T)) /\ ToSet(prices) = PriceStats(found)
  BY <1>4, <1>5, <1>6, <1>7, OnlyElements DEF PriceStats
<1>10. Len(prices) = 1 => PriceStats(found) = {prices[1]}
  <2> SUFFICES ASSUME Len(prices) = 1 PROVE PriceStats(found) = {prices[1]}
    OBVIOUS
  <2>1. DOMAIN prices = {1}
    BY <1>9
  <2>2. ToSet(prices) = {prices[1]}
    BY <2>1, ToSetIs
  <2>3. QED
    BY <1>9, <2>2
<1>11. QED
  BY <1>8, <1>10 DEF ReadFrom

LEMMA KnownAreFractions ==
  ASSUME NEW T, NEW found \in Seq(Findings(T)), NEW e \in PriceStats(found)
  PROVE  /\ \A k \in KnownFigures(e) : k \in Nat \X (Nat \ {0})
         /\ \A field \in {"minimum", "maximum", "mean"} :
              e[field] # None => e[field] \in KnownFigures(e)
<1>1. e \in StatsRecords
  <2>1. e \in Findings(T) /\ IsStats(e)
    BY ToSetIs DEF PriceStats
  <2>2. QED
    BY <2>1, FindingsAre
<1>2. e.minimum \in Figure /\ e.maximum \in Figure /\ e.mean \in Figure
  BY <1>1 DEF StatsRecords
<1>3. QED
  BY <1>2 DEF Figure, KnownFigures

(* A turn whose calls return what the tools do.                            *)
Delivers(catalog, turn, T) ==
  \A k \in DOMAIN turn :
    /\ CallTool(catalog, turn[k]) \in Gathers(T)
    /\ turn[k].tool = "get_catalog_stats"
         => \E e \in ToSet(CallTool(catalog, turn[k])) : IsStats(e)

LEMMA FlagsFair ==
  ASSUME EvidenceAssumption, NEW T, NEW catalog, NEW K, NEW turn \in Seq(K),
         Delivers(catalog, turn, T), NEW answer, answer.figures \in SUBSET Nat
  PROVE  FlagsAreFairIn(catalog, turn, answer)
<1>1. PICK found : found = Gathered(catalog, turn)
  OBVIOUS
<1>2. found \in Seq(Findings(T))
      /\ ToSet(found) = Returned(catalog, turn, Len(turn))
  <2>1. \A k \in DOMAIN turn : CallTool(catalog, turn[k]) \in Gathers(T)
    BY DEF Delivers
  <2>2. QED
    BY <1>1, <2>1, GathersAll DEF Gathers
<1>3. PICK verdict : verdict = Validate(catalog, found, answer)
  OBVIOUS
<1>4. /\ verdict.stat_mismatch = StatMismatch(answer.figures, Statistics(found))
      /\ verdict.unverified = UnverifiedRefusal(answer.figures, Statistics(found))
  BY <1>3 DEF Validate
<1> DEFINE prices == PriceStats(found)
           repeats(f) == \E e \in prices, k \in {"minimum", "maximum", "mean"} :
                           e[k] # None /\ f * e[k][2] = e[k][1]
<1>11. PICK mismatch : mismatch = verdict.stat_mismatch
  OBVIOUS
<1>13. PICK figures : figures = answer.figures
  OBVIOUS
<1>12. mismatch = StatMismatch(figures, Statistics(found))
  BY <1>4, <1>11, <1>13
<1>14. ReadFrom(mismatch, figures, found)
  BY ONLY <1>2, <1>12, <1>13, EvidenceAssumption, MismatchIs
<1>5. \/ verdict.stat_mismatch = None
      \/ /\ answer.figures # {}
         /\ \E e : /\ PriceStats(found) = {e} /\ KnownFigures(e) # {}
                   /\ verdict.stat_mismatch = TRUE
                        => \E f \in answer.figures : OffAll(f, e)
                   /\ verdict.stat_mismatch = FALSE
                        => ~\E f \in answer.figures : OffAll(f, e)
  BY <1>11, <1>13, <1>14 DEF ReadFrom
<1>6. None # TRUE /\ None # FALSE
  BY DEF EvidenceAssumption
<1>7. ASSUME verdict.stat_mismatch = TRUE
      PROVE  \E f \in answer.figures : f = 0 \/ ~repeats(f)
  <2>1. PICK e : PriceStats(found) = {e} /\ \E f \in answer.figures : OffAll(f, e)
    BY <1>5, <1>6, <1>7
  <2>2. PICK f \in answer.figures : OffAll(f, e)
    BY <2>1
  <2>3. SUFFICES ASSUME f # 0, repeats(f) PROVE FALSE
    OBVIOUS
  <2>4. PICK k \in {"minimum", "maximum", "mean"} : e[k] # None /\ f * e[k][2] = e[k][1]
    BY <2>1, <2>3
  <2>5. e[k] \in KnownFigures(e) /\ e[k] \in Nat \X (Nat \ {0})
    BY <1>2, <2>1, <2>4, KnownAreFractions
  <2>6. f \in Nat \ {0}
    BY <2>3
  <2>7. WithinTolerance(f, e[k])
    BY <2>4, <2>5, <2>6, ExactIsWithin
  <2>8. QED
    BY <2>2, <2>5, <2>7 DEF OffAll
<1>8. ASSUME verdict.unverified, NEW c \in ToSet(turn), c.tool = "get_catalog_stats"
      PROVE  FALSE
  <2>1. PICK k \in DOMAIN turn : c = turn[k]
    BY ToSetIs
  <2>2. PICK e \in ToSet(CallTool(catalog, turn[k])) : IsStats(e)
    BY <1>8, <2>1 DEF Delivers
  <2>3. k \in 1 .. Len(turn)
    OBVIOUS
  <2>4. e \in ToSet(found)
    BY <1>2, <2>2, <2>3 DEF Returned
  <2>5. PICK i \in DOMAIN found : e = found[i]
    BY <2>4, ToSetIs
  <2> DEFINE I == {j \in DOMAIN found : IsStats(found[j])}
  <2>6. I \in SUBSET (DOMAIN found) /\ Statistics(found) = Only(found, I) /\ i \in I
    BY <2>2, <2>5 DEF Statistics
  <2> HIDE DEF I
  <2>7. ToSet(Statistics(found)) = {found[j] : j \in I}
    BY <1>2, <2>6, OnlyElements
  <2>8. Statistics(found) # <<>>
    <3>1. ToSet(<<>>) = {}
      BY ToSetIs
    <3>2. found[i] \in ToSet(Statistics(found))
      BY <2>6, <2>7
    <3>3. QED
      BY <3>1, <3>2
  <2>9. QED
    BY <1>4, <1>8, <2>8 DEF UnverifiedRefusal
<1>9. ASSUME \A f \in answer.figures : \A e \in prices : \A k \in KnownFigures(e) :
               2 * f * k[2] <= k[1] \/ f * k[2] >= 2 * k[1]
      PROVE  verdict.stat_mismatch # FALSE
  <2>1. SUFFICES ASSUME answer.figures # {},
                        NEW e, PriceStats(found) = {e},
                        ~\E f \in answer.figures : OffAll(f, e)
                 PROVE  FALSE
    BY <1>5, <1>6
  <2>2. PICK f \in answer.figures : TRUE
    BY <2>1
  <2>3. \A k \in KnownFigures(e) : ~WithinTolerance(f, k)
    <3> TAKE k \in KnownFigures(e)
    <3>1. 2 * f * k[2] <= k[1] \/ f * k[2] >= 2 * k[1]
      BY <1>9, <2>1
    <3>2. k \in Nat \X (Nat \ {0}) /\ f \in Nat
      BY <1>2, <2>1, KnownAreFractions
    <3>3. QED
      BY <3>1, <3>2, FarIsNotWithin
  <2>4. QED
    BY <2>1, <2>2, <2>3 DEF OffAll
<1>10. QED
  BY <1>1, <1>3, <1>7, <1>8, <1>9 DEF FlagsAreFairIn, PriceStats



-----------------------------------------------------------------------------
(* What an answer shows and is reproached for.                             *)
LEMMA ProductsHeld ==
  ASSUME NEW T, NEW found \in Gathers(T), NEW held, held = Products(found)
  PROVE  /\ held \in Gathers(T)
         /\ ToSet(held) = {e \in ToSet(found) : IsProduct(e)}
<1> DEFINE I == {i \in DOMAIN found : IsProduct(found[i])}
<1>1. I \in SUBSET (DOMAIN found) /\ held = Only(found, I)
  BY DEF Products
<1>2. {found[i] : i \in I} = {e \in ToSet(found) : IsProduct(e)}
  BY ToSetIs
<1>3. found \in Seq(Findings(T)) /\ Single(found)
  BY DEF Gathers
<1> HIDE DEF I
<1>4. held \in Seq(Findings(T)) /\ ToSet(held) = {found[i] : i \in I} /\ Takes(held, found)
  BY <1>1, <1>3, OnlyElements, OnlyTakes
<1>5. Single(held)
  BY <1>3, <1>4, StillSingle
<1>6. QED
  BY <1>2, <1>4, <1>5 DEF Gathers

ReturnedFolds(catalog, turn) ==
  UNION {Folds(Products(CallTool(catalog, c))) : c \in ToSet(turn)}

LEMMA FoldsGathered ==
  ASSUME NEW T, NEW catalog, NEW K, NEW turn \in Seq(K), Delivers(catalog, turn, T),
         NEW held, held = Products(Gathered(catalog, turn))
  PROVE  held \in Gathers(T) /\ Folds(held) = ReturnedFolds(catalog, turn)
         /\ \A i \in DOMAIN held : IsProduct(held[i])
<1>1. PICK found : found = Gathered(catalog, turn)
  OBVIOUS
<1>2. \A k \in DOMAIN turn : CallTool(catalog, turn[k]) \in Gathers(T)
  BY DEF Delivers
<1>3. found \in Gathers(T) /\ ToSet(found) = Returned(catalog, turn, Len(turn))
  BY <1>1, <1>2, GathersAll
<1>4. held \in Gathers(T) /\ ToSet(held) = {e \in ToSet(found) : IsProduct(e)}
  BY <1>1, <1>3, ProductsHeld
<1>5. DOMAIN turn = 1 .. Len(turn)
  OBVIOUS
<1>6. \A e : e \in ToSet(held)
        <=> \E k \in DOMAIN turn : e \in ToSet(CallTool(catalog, turn[k]))
                                   /\ IsProduct(e)
  BY <1>3, <1>4, <1>5 DEF Returned
<1>7. \A k \in DOMAIN turn :
        ToSet(Products(CallTool(catalog, turn[k])))
          = {e \in ToSet(CallTool(catalog, turn[k])) : IsProduct(e)}
  BY <1>2, ProductsHeld
<1>8. \A e : e \in ToSet(held)
        <=> \E k \in DOMAIN turn :
              e \in ToSet(Products(CallTool(catalog, turn[k])))
  BY <1>6, <1>7
<1>9. ToSet(turn) = {turn[k] : k \in DOMAIN turn}
  BY ToSetIs
<1>10. Folds(held) = ReturnedFolds(catalog, turn)
  BY <1>8, <1>9 DEF Folds, ReturnedFolds
<1>11. \A i \in DOMAIN held : IsProduct(held[i])
  BY <1>4, ToSetIs
<1>12. QED
  BY <1>4, <1>10, <1>11

(* The SKUs of a set W are spelt as those of the catalog: the same SKU has *)
(* the same words.                                                         *)
Spelt(W, T) == \A s \in W, p \in T : s.fold = p.sku.fold => s.words = p.sku.words

Looked(catalog, turn, cited) ==
  {s \in ToSet(cited) : s.fold \notin ReturnedFolds(catalog, turn)}

Misled(catalog, turn, cited) ==
  \E p \in ToSet(catalog), s \in Looked(catalog, turn, cited) : Sibling(s, p.sku)

(* The products an answer may show.                                        *)
Offered(products, catalog, turn, cited, T) ==
  /\ products \in Seq(Findings(T))
  /\ \A i \in DOMAIN products : IsProduct(products[i])
  /\ ReturnedFolds(catalog, turn) \subseteq Folds(products)
  /\ \A s \in ToSet(cited) : s.fold \in Folds(products) => Sold(catalog, s)
  /\ ~Misled(catalog, turn, cited) =>
       /\ Single(products)
       /\ \A s \in ToSet(cited) : Sold(catalog, s) => s.fold \in Folds(products)

LEMMA Offers ==
  ASSUME NEW T, NEW catalog \in Seq(T), T = ToSet(catalog), OnePerFold(catalog), NEW K,
         NEW turn \in Seq(K), Delivers(catalog, turn, T),
         NEW W, Spelt(W, T), NEW cited \in Seq(W),
         NEW products,
         products = Backfilled(catalog, Products(Gathered(catalog, turn)), cited)
  PROVE  Offered(products, catalog, turn, cited, T)
<1>1. T = ToSet(catalog)
  OBVIOUS
<1>2. PICK held : held = Products(Gathered(catalog, turn))
  OBVIOUS
<1>3. held \in Gathers(T) /\ Folds(held) = ReturnedFolds(catalog, turn)
      /\ \A i \in DOMAIN held : IsProduct(held[i])
  BY <1>1, <1>2, FoldsGathered
<1> DEFINE I == {i \in DOMAIN cited : cited[i].fold \notin Folds(held)}
<1>4. PICK missing : missing = Only(cited, I)
  OBVIOUS
<1>5. I \in SUBSET (DOMAIN cited)
      /\ {cited[i] : i \in I} = Looked(catalog, turn, cited)
  BY <1>3, ToSetIs DEF Looked
<1>6. PICK hits : hits = GetBySkus(catalog, missing)
  OBVIOUS
<1>7. PICK extra : extra = ProductEvidence(hits)
  OBVIOUS
<1>8. products = held \o extra
  BY <1>2, <1>4, <1>6, <1>7 DEF Backfilled
<1> HIDE DEF I
<1>9. missing \in Seq(W) /\ ToSet(missing) = Looked(catalog, turn, cited)
  <2>1. missing \in Seq(W) /\ ToSet(missing) = {cited[i] : i \in I}
    BY <1>4, <1>5, OnlyElements
  <2>2. QED
    BY <1>5, <2>1
<1>10. Unmisled(catalog, missing) <=> ~Misled(catalog, turn, cited)
  BY <1>9 DEF Unmisled, Misled
<1>11. /\ hits \in Seq(T) /\ OnePerFold(hits)
       /\ ToSet(hits) \subseteq {p \in T : NamedBy(p, missing)}
       /\ Unmisled(catalog, missing) => ToSet(hits) = {p \in T : NamedBy(p, missing)}
  BY <1>1, <1>6, <1>9, LooksUp
<1>12. /\ extra \in Seq(Findings(T)) /\ Single(extra)
       /\ \A i \in DOMAIN extra : IsProduct(extra[i])
       /\ Folds(extra) = {p.sku.fold : p \in ToSet(hits)}
  BY <1>7, <1>11, HitsAreFindings
<1>13. held \in Seq(Findings(T)) /\ Single(held)
  BY <1>3 DEF Gathers
<1>14. products \in Seq(Findings(T))
  BY <1>8, <1>12, <1>13
<1>15. ToSet(products) = ToSet(held) \cup ToSet(extra)
  BY <1>8, <1>12, <1>13, JoinSet
<1>16. Folds(products) = Folds(held) \cup Folds(extra)
  BY <1>15 DEF Folds
<1>17. \A i \in DOMAIN products : IsProduct(products[i])
  <2>1. \A e \in ToSet(held) : IsProduct(e)
    BY <1>3, ToSetIs
  <2>2. \A e \in ToSet(extra) : IsProduct(e)
    BY <1>12, ToSetIs
  <2>3. \A e \in ToSet(products) : IsProduct(e)
    BY <1>15, <2>1, <2>2
  <2>4. QED
    BY <2>3, ToSetIs
<1>18. \A x \in Folds(products) : \E p \in T : p.sku.fold = x
  <2> SUFFICES ASSUME NEW e \in ToSet(products)
               PROVE  \E p \in T : p.sku.fold = e.sku.fold
    BY DEF Folds
  <2>1. e \in Findings(T) /\ IsProduct(e)
    BY <1>14, <1>17, ToSetIs
  <2>2. PICK p \in T : e.sku = p.sku
    BY <2>1, FindingsAre
  <2>3. QED
    BY <2>2
<1>19. ASSUME ~Misled(catalog, turn, cited) PROVE Single(products)
  <2>1. \A x \in Folds(extra) : x \notin Folds(held)
    <3> TAKE x \in Folds(extra)
    <3>1. PICK p \in ToSet(hits) : x = p.sku.fold
      BY <1>12
    <3>2. p \in T /\ NamedBy(p, missing)
      BY <1>11
    <3>3. PICK s \in ToSet(missing) : s.words \subseteq p.sku.words
      BY <3>2 DEF NamedBy
    <3>4. s.fold = p.sku.fold
      BY <1>1, <1>10, <1>19, <3>2, <3>3 DEF Unmisled, Sibling
    <3>5. s.fold \notin Folds(held)
      BY <1>3, <1>9 DEF Looked
    <3>6. QED
      BY <3>1, <3>4, <3>5
  <2>2. \A i \in DOMAIN held, k \in DOMAIN extra : held[i] # extra[k]
    <3> TAKE i \in DOMAIN held, k \in DOMAIN extra
    <3>1. held[i].sku.fold \in Folds(held)
      BY ToSetIs DEF Folds
    <3>2. extra[k].sku.fold \in Folds(extra)
      BY ToSetIs DEF Folds
    <3>3. QED
      BY <2>1, <3>1, <3>2
  <2>3. QED
    BY <1>8, <1>12, <1>13, <2>2, SingleJoin
<1>20. ASSUME ~Misled(catalog, turn, cited), NEW s \in ToSet(cited), Sold(catalog, s)
       PROVE  s.fold \in Folds(products)
  <2>1. CASE s.fold \in ReturnedFolds(catalog, turn)
    BY <1>3, <1>16, <2>1
  <2>2. CASE s.fold \notin ReturnedFolds(catalog, turn)
    <3>1. s \in ToSet(missing)
      BY <1>9, <2>2 DEF Looked
    <3>2. PICK p \in T : p.sku.fold = s.fold
      BY <1>1, <1>20 DEF Sold
    <3>3. s \in W
      BY ToSetIs
    <3>4. s.words = p.sku.words
      BY <1>1, <3>2, <3>3 DEF Spelt
    <3>5. NamedBy(p, missing)
      BY <3>1, <3>4 DEF NamedBy
    <3>6. p \in ToSet(hits)
      BY <1>10, <1>11, <1>20, <3>5
    <3>7. QED
      BY <1>12, <1>16, <3>2, <3>6
  <2>3. QED
    BY <2>1, <2>2
<1>21. \A s \in ToSet(cited) : s.fold \in Folds(products) => Sold(catalog, s)
  BY <1>1, <1>18 DEF Sold
<1>22. QED
  BY <1>1, <1>3, <1>14, <1>16, <1>17, <1>19, <1>20, <1>21 DEF Offered

LEMMA Vindicated ==
  ASSUME NEW T, NEW catalog \in Seq(T), T = ToSet(catalog), OnePerFold(catalog), NEW K,
         NEW turn \in Seq(K), Delivers(catalog, turn, T),
         NEW W, Spelt(W, T), NEW answer, answer.cited \in Seq(W)
  PROVE  OnlySiblingsMisleadIn(catalog, turn, answer)
<1>1. PICK cited \in Seq(W) : cited = answer.cited
  OBVIOUS
<1>2. T = ToSet(catalog)
  OBVIOUS
<1>3. PICK found : found = Gathered(catalog, turn)
  OBVIOUS
<1>4. PICK products : products = Backfilled(catalog, Products(found), cited)
  OBVIOUS
<1>5. Offered(products, catalog, turn, cited, T)
  BY ONLY <1>2, <1>3, <1>4, catalog \in Seq(T), OnePerFold(catalog), turn \in Seq(K),
     Delivers(catalog, turn, T), Spelt(W, T), cited \in Seq(W), Offers
<1>6. /\ products \in Seq(Findings(T))
      /\ \A i \in DOMAIN products : IsProduct(products[i])
      /\ ReturnedFolds(catalog, turn) \subseteq Folds(products)
      /\ \A s \in ToSet(cited) : s.fold \in Folds(products) => Sold(catalog, s)
      /\ ~Misled(catalog, turn, cited) =>
           /\ Single(products)
           /\ \A s \in ToSet(cited) : Sold(catalog, s) => s.fold \in Folds(products)
  BY <1>5 DEF Offered
<1>7. PICK verdict : verdict = Validate(catalog, found, answer)
  OBVIOUS
<1> DEFINE named == {s.fold : s \in ToSet(cited)}
           J == {i \in DOMAIN cited : /\ cited[i].fold \notin Folds(products)
                                      /\ \A h \in 1 .. i - 1 : cited[h].fold # cited[i].fold}
           DD == {i \in DOMAIN products : products[i].sku.fold \in named}
<1>8. /\ verdict.hallucinated = Only(cited, J)
      /\ verdict.displayed = IF answer.no_match \/ answer.refuses THEN <<>>
                             ELSE Only(products, DD)
  BY <1>1, <1>4, <1>7 DEF Validate, Hallucinated
<1>9. /\ J \in SUBSET (DOMAIN cited) /\ DD \in SUBSET (DOMAIN products)
      /\ \A i \in J : cited[i].fold \notin Folds(products)
      /\ \A i \in DOMAIN products : products[i].sku.fold \in named => i \in DD
      /\ \A i \in DOMAIN cited : cited[i].fold \notin Folds(products)
           /\ (\A h \in 1 .. i - 1 : cited[h].fold # cited[i].fold) => i \in J
  OBVIOUS
<1>10. \A s \in ToSet(cited) : s.fold \in named
  OBVIOUS
<1> HIDE DEF J, DD, named
<1>11. ToSet(verdict.hallucinated) = {cited[i] : i \in J}
  BY <1>8, <1>9, OnlyElements
<1>12. ASSUME NEW s \in ToSet(cited), ~Sold(catalog, s)
       PROVE  \E t \in ToSet(verdict.hallucinated) : t.fold = s.fold
  <2> DEFINE U == {i \in DOMAIN cited : cited[i].fold = s.fold}
  <2>1. U # {} /\ U \subseteq Nat
    BY ToSetIs
  <2>2. PICK i \in U : \A k \in U : i <= k
    <3> HIDE DEF U
    <3>1. QED
      BY <2>1, Smallest
  <2>3. DOMAIN cited = 1 .. Len(cited) /\ Len(cited) \in Nat
    OBVIOUS
  <2>4. \A h \in 1 .. i - 1 : h \in DOMAIN cited /\ h \in Int /\ h < i
    BY <2>2, <2>3
  <2>5. \A h \in 1 .. i - 1 : cited[h].fold # cited[i].fold
    <3> SUFFICES ASSUME NEW h \in 1 .. i - 1, cited[h].fold = cited[i].fold PROVE FALSE
      OBVIOUS
    <3>1. h \in U
      BY <2>2, <2>4
    <3>2. i <= h /\ h < i /\ i \in Int /\ h \in Int
      BY <2>1, <2>2, <2>4, <3>1
    <3>3. QED
      BY <3>2
  <2>6. cited[i].fold = s.fold /\ i \in DOMAIN cited
    BY <2>2
  <2>7. cited[i].fold \notin Folds(products)
    BY <1>6, <1>12, <2>6
  <2>8. i \in J
    BY <1>9, <2>5, <2>6, <2>7
  <2>9. QED
    BY <1>11, <2>6, <2>8
<1>13. \A t \in ToSet(verdict.hallucinated) : t.fold \notin Folds(products)
  BY <1>9, <1>11
<1>14. ASSUME NEW s \in ToSet(cited), s.fold \in Folds(products),
              ~(answer.no_match \/ answer.refuses)
       PROVE  s.fold \in Folds(verdict.displayed)
  <2>1. PICK i \in DOMAIN products : products[i].sku.fold = s.fold
    BY <1>14, ToSetIs DEF Folds
  <2>2. i \in DD
    BY <1>9, <1>10, <2>1
  <2>3. ToSet(verdict.displayed) = {products[k] : k \in DD}
    BY <1>6, <1>8, <1>9, <1>14, OnlyElements
  <2>4. QED
    BY <2>1, <2>2, <2>3 DEF Folds
<1>15. ASSUME ~Misled(catalog, turn, cited) PROVE IsInjective(verdict.displayed)
  <2>1. CASE answer.no_match \/ answer.refuses
    <3>1. verdict.displayed = <<>> /\ DOMAIN <<>> = {}
      BY <1>8, <2>1
    <3>2. QED
      BY <3>1 DEF IsInjective
  <2>2. CASE ~(answer.no_match \/ answer.refuses)
    <3>1. PICK shown : shown = Only(products, DD)
      OBVIOUS
    <3>2. shown \in Seq(Findings(T)) /\ Takes(shown, products)
          /\ ToSet(shown) = {products[k] : k \in DD}
      BY <1>6, <1>9, <3>1, OnlyElements, OnlyTakes
    <3>3. Single(shown)
      BY <1>6, <1>15, <3>2, StillSingle
    <3>4. \A i \in DOMAIN shown : IsProduct(shown[i])
      BY <1>6, <1>9, <3>2, ToSetIs
    <3>5. IsInjective(shown)
      BY <3>3, <3>4 DEF Single, IsInjective
    <3>6. QED
      BY <1>8, <2>2, <3>1, <3>5
  <2>3. QED
    BY <2>1, <2>2
<1>16. ASSUME NEW s \in ToSet(cited), Sold(catalog, s),
              s.fold \in ReturnedFolds(catalog, turn) \/ ~Misled(catalog, turn, cited)
       PROVE  /\ s.fold \notin {t.fold : t \in ToSet(verdict.hallucinated)}
              /\ answer.no_match \/ answer.refuses \/ s.fold \in Folds(verdict.displayed)
  <2>1. s.fold \in Folds(products)
    BY <1>6, <1>16
  <2>2. QED
    BY <1>13, <1>14, <2>1
<1>17. QED
  BY <1>1, <1>3, <1>7, <1>12, <1>15, <1>16
  DEF OnlySiblingsMisleadIn, Misled, Looked, ReturnedFolds



LEMMA MissingReported ==
  ASSUME NEW T, NEW catalog \in Seq(T), T = ToSet(catalog), OnePerFold(catalog),
         NEW W, Spelt(W, T), \A s \in W, p \in T : s.id = p.sku.id => s.fold = p.sku.fold,
         NEW requested \in Seq(W)
  PROVE  MissingIsReported(catalog, requested)
<1>1. PICK hits : hits = GetBySkus(catalog, requested)
  OBVIOUS
<1>2. /\ hits \in Seq(T)
      /\ ToSet(hits) \subseteq {p \in T : NamedBy(p, requested)}
      /\ Unmisled(catalog, requested) => ToSet(hits) = {p \in T : NamedBy(p, requested)}
  BY <1>1, LooksUp
<1> DEFINE known == {p.sku.id : p \in ToSet(hits)}
           I == {i \in DOMAIN requested : requested[i].id \notin known}
<1>3. I \in SUBSET (DOMAIN requested)
      /\ NotFound(catalog, requested) = Only(requested, I)
  BY <1>1 DEF NotFound
<1>4. {requested[i] : i \in I} = {s \in ToSet(requested) : s.id \notin known}
  BY ToSetIs
<1> HIDE DEF I
<1>5. ToSet(NotFound(catalog, requested)) = {requested[i] : i \in I}
  BY <1>3, OnlyElements
<1>6. \A s \in ToSet(requested) :
        s.id \in {m.id : m \in ToSet(NotFound(catalog, requested))}
          <=> s.id \notin known
  BY <1>4, <1>5
<1>7. ASSUME NEW s \in ToSet(requested), NEW p \in T, p.sku.id = s.id,
             Unmisled(catalog, requested)
      PROVE  s.id \in known
  <2>1. s \in W
    BY ToSetIs
  <2>2. s.words = p.sku.words
    BY <1>7, <2>1 DEF Spelt
  <2>3. NamedBy(p, requested)
    BY <2>2 DEF NamedBy
  <2>4. p \in ToSet(hits)
    BY <1>2, <1>7, <2>3
  <2>5. QED
    BY <1>7, <2>4
<1>8. ASSUME NEW s \in ToSet(requested), s.id \in known
      PROVE  \E p \in T : p.sku.id = s.id
  BY <1>2, <1>8
<1> HIDE DEF known
<1>9. Unmisled(catalog, requested)
        <=> ~\E p \in ToSet(catalog), t \in ToSet(requested) : Sibling(t, p.sku)
  BY DEF Unmisled
<1>10. QED
  BY <1>6, <1>7, <1>8, <1>9 DEF MissingIsReported

-----------------------------------------------------------------------------
(* The shop of the chat turns, the calls made of it and the answers.       *)
SomeSkus == {ab, abLower, abx, cd, fake}

LEMMA ShopIs ==
  ASSUME NEW T, T = ToSet(Shop)
  PROVE  /\ Shop \in Seq(T) /\ OnePerFold(Shop)
         /\ \A p \in T : Ware(p) /\ InWhole(p)
         /\ Spelt(SomeSkus, T)
         /\ \A s \in SomeSkus, p \in T : s.id = p.sku.id => s.fold = p.sku.fold
<1>1. Shop = <<Shop[1], Shop[2], Shop[3]>>
      /\ Shop[1].sku = abx /\ Shop[2].sku = ab /\ Shop[3].sku = cd
  BY DEF Shop, Item
<1>2. \A i \in 1 .. 3 : Ware(Shop[i]) /\ InWhole(Shop[i])
  BY DEF Shop, Item, Ware, InWhole
<1>3. DOMAIN Shop = 1 .. 3 /\ T = {Shop[1], Shop[2], Shop[3]}
  <2>1. DOMAIN Shop = 1 .. 3
    BY <1>1
  <2>2. QED
    BY <2>1, ToSetIs
<1>4. Shop \in Seq(T)
  <2>1. PICK x, y, z \in T : Shop = <<x, y, z>>
    BY <1>1, <1>3
  <2>2. <<x, y, z>> \in Seq(T)
    OBVIOUS
  <2>3. QED
    BY <2>1, <2>2
<1>5. OnePerFold(Shop)
  BY <1>1, <1>3 DEF OnePerFold, abx, ab, cd
<1>6. \A s \in SomeSkus, p \in T :
        /\ s.fold = p.sku.fold => s.words = p.sku.words
        /\ s.id = p.sku.id => s.fold = p.sku.fold
  <2>1. \A p \in T : p.sku \in {abx, ab, cd}
    BY <1>1, <1>3
  <2>2. \A s \in SomeSkus, t \in {abx, ab, cd} :
          /\ s.fold = t.fold => s.words = t.words
          /\ s.id = t.id => s.fold = t.fold
    BY DEF SomeSkus, abx, ab, cd, abLower, fake
  <2>3. QED
    BY <2>1, <2>2
<1>7. QED
  BY <1>2, <1>3, <1>4, <1>5, <1>6 DEF Spelt

LEMMA CallsAsked ==
  ASSUME NEW call \in Calls
  PROVE  Asked(call, SomeSkus)
<1>1. call.tool \in DOMAIN ToolProperties(FALSE) /\ call.args \in Arguments
  BY DEF Calls
<1>2. DOMAIN ToolProperties(FALSE)
        = {"search_catalog", "get_catalog_stats", "get_product_detail"}
  BY DEF ToolProperties
<1> DEFINE args == call.args
<1>3. /\ "sort_by" \in DOMAIN args => args["sort_by"] \in {"price_desc", "relevance"}
      /\ "metric" \in DOMAIN args => args["metric"] \in {"price", "rating"}
      /\ "skus" \in DOMAIN args => args["skus"] \in {<<abLower>>, <<cd, fake>>}
  BY <1>1 DEF Arguments
<1>4. <<abLower>> \in Seq(SomeSkus) /\ <<cd, fake>> \in Seq(SomeSkus)
      /\ <<>> \in Seq(SomeSkus)
  <2>1. abLower \in SomeSkus /\ cd \in SomeSkus /\ fake \in SomeSkus
    BY DEF SomeSkus
  <2>2. QED
    BY <2>1
<1>5. "price_desc" \in SortBy
  BY DEF SortBy
<1> HIDE DEF args
<1>6. QED
  BY <1>1, <1>2, <1>3, <1>4, <1>5 DEF Asked, Get, args

LEMMA TurnAnswers ==
  ASSUME RetrievalAssumption, EvidenceAssumption, NEW turn \in Seq(Calls)
  PROVE  Delivers(Shop, turn, ToSet(Shop))
<1>1. PICK T : T = ToSet(Shop)
  OBVIOUS
<1>2. Shop \in Seq(T) /\ OnePerFold(Shop) /\ \A p \in T : Ware(p) /\ InWhole(p)
  BY <1>1, ShopIs
<1>3. ASSUME NEW k \in DOMAIN turn
      PROVE  /\ CallTool(Shop, turn[k]) \in Gathers(T)
             /\ turn[k].tool = "get_catalog_stats"
                  => \E e \in ToSet(CallTool(Shop, turn[k])) : IsStats(e)
  <2>1. PICK call \in Calls : call = turn[k]
    OBVIOUS
  <2>2. Asked(call, SomeSkus)
    BY CallsAsked
  <2>3. PICK found : found = CallTool(Shop, call)
    OBVIOUS
  <2>4. /\ found \in Seq(Findings(T)) /\ Single(found)
        /\ call.tool = "get_catalog_stats" => \E i \in DOMAIN found : IsStats(found[i])
    BY <1>2, <2>2, <2>3, Returns
  <2>5. QED
    BY <2>1, <2>3, <2>4, ToSetIs DEF Gathers
<1>4. QED
  BY <1>1, <1>3 DEF Delivers

LEMMA AnswersAre ==
  ASSUME NEW answer \in Answers
  PROVE  answer.cited \in Seq(SomeSkus) /\ answer.figures \in SUBSET Nat
<1>1. answer.figures \in SUBSET Nat
  BY DEF Answers
<1>2. answer.cited \in {<<>>} \cup {<<s>> : s \in SomeSkus} \cup {<<s, t>> : s, t \in SomeSkus}
  BY DEF Answers, SomeSkus
<1>3. <<>> \in Seq(SomeSkus) /\ (\A s \in SomeSkus : <<s>> \in Seq(SomeSkus))
      /\ \A s, t \in SomeSkus : <<s, t>> \in Seq(SomeSkus)
  OBVIOUS
<1>4. answer.cited \in Seq(SomeSkus)
  <2> DEFINE F == Seq(SomeSkus)
  <2>1. /\ <<>> \in F /\ (\A s \in SomeSkus : <<s>> \in F)
        /\ \A s, t \in SomeSkus : <<s, t>> \in F
    BY <1>3
  <2> HIDE DEF F
  <2>2. answer.cited \in F
    BY <1>2, <2>1
  <2>3. QED
    BY <2>2 DEF F
<1>5. QED
  BY <1>1, <1>4

TurnInv == algorithm = "Evidence" => input \in Seq(Calls)

LEMMA TurnsTyped == Spec => []TurnInv
<1>1. Init => TurnInv
  BY DEF Init, TurnInv
<1>2. TurnInv /\ [Next]_<<algorithm, input>> => TurnInv'
  <2> SUFFICES ASSUME TurnInv, [Next]_<<algorithm, input>> PROVE TurnInv'
    OBVIOUS
  <2>1. CASE UNCHANGED <<algorithm, input>>
    BY <2>1 DEF TurnInv
  <2>2. ASSUME NEW item \in Inputs, input' = Append(input, item), UNCHANGED algorithm
        PROVE  TurnInv'
    <3>1. algorithm = "Evidence" => item \in Calls
      BY DEF Inputs
    <3>2. QED
      BY <2>2, <3>1 DEF TurnInv
  <2>3. QED
    BY <2>1, <2>2 DEF Next
<1>3. QED
  BY <1>1, <1>2, PTL DEF Spec

(* A figure exactly as the price statistics gave it is never reported, one *)
(* that is twice too large or too small always is, and none is reported as *)
(* unbacked after a call of the statistics tool (claims.py), however many  *)
(* tool calls the turn made and in whatever order.                         *)
THEOREM FlagsAreAlwaysFair ==
  RetrievalAssumption /\ EvidenceAssumption /\ Spec => []FlagsAreFair
<1> SUFFICES ASSUME RetrievalAssumption, EvidenceAssumption
             PROVE  Spec => []FlagsAreFair
  OBVIOUS
<1>1. TurnInv => FlagsAreFair
  <2> SUFFICES ASSUME TurnInv, algorithm = "Evidence", NEW answer \in Answers
               PROVE  FlagsAreFairIn(Shop, input, answer)
    BY DEF FlagsAreFair
  <2>1. input \in Seq(Calls)
    BY DEF TurnInv
  <2>2. Delivers(Shop, input, ToSet(Shop))
    BY <2>1, TurnAnswers
  <2>3. answer.figures \in SUBSET Nat
    BY AnswersAre
  <2>4. QED
    BY <2>1, <2>2, <2>3, FlagsFair
<1>2. QED
  BY <1>1, TurnsTyped, PTL

(* A product the answer names is shown once and believed, whichever round  *)
(* found it, an invented one is reported, and the model is told of every   *)
(* SKU that is not sold, unless looking up a SKU took up its sibling       *)
(* ("every one of those correct citations got flagged as hallucinated",    *)
(* app/llm/graph.py), however many tool calls the turn made.               *)
THEOREM OnlySiblingsEverMislead ==
  RetrievalAssumption /\ EvidenceAssumption /\ Spec => []OnlySiblingsMislead
<1> SUFFICES ASSUME RetrievalAssumption, EvidenceAssumption
             PROVE  Spec => []OnlySiblingsMislead
  OBVIOUS
<1>1. TurnInv => OnlySiblingsMislead
  <2> SUFFICES ASSUME TurnInv, algorithm = "Evidence", NEW answer \in Answers
               PROVE  /\ OnlySiblingsMisleadIn(Shop, input, answer)
                      /\ MissingIsReported(Shop, answer.cited)
    BY DEF OnlySiblingsMislead
  <2>1. input \in Seq(Calls)
    BY DEF TurnInv
  <2>2. PICK T : T = ToSet(Shop)
    OBVIOUS
  <2>3. Delivers(Shop, input, T)
    BY <2>1, <2>2, TurnAnswers
  <2>4. /\ Shop \in Seq(T) /\ OnePerFold(Shop) /\ Spelt(SomeSkus, T)
        /\ \A s \in SomeSkus, p \in T : s.id = p.sku.id => s.fold = p.sku.fold
    BY <2>2, ShopIs
  <2>5. answer.cited \in Seq(SomeSkus)
    BY AnswersAre
  <2>6. OnlySiblingsMisleadIn(Shop, input, answer)
    BY <2>1, <2>2, <2>3, <2>4, <2>5, Vindicated
  <2>7. MissingIsReported(Shop, answer.cited)
    BY <2>2, <2>4, <2>5, MissingReported
  <2>8. QED
    BY <2>6, <2>7
<1>2. QED
  BY <1>1, TurnsTyped, PTL


-----------------------------------------------------------------------------
(* The gate: what a query of a run may score before and after a change.    *)
Compared(q) ==
  /\ q.class \in Classes
  /\ \/ q.before = None /\ q.after = None
     \/ q.before \in Int /\ (q.after \in Int \/ q.after = Absent)

LEMMA MeanIs ==
  ASSUME NEW score, NEW defined, defined = {i \in DOMAIN score : score[i] # None}
  PROVE  Mean(score) = IF defined = {} THEN None
                           ELSE <<SumOver(score, defined), Cardinality(defined)>>
BY DEF Mean, SumOver

(* Where a key's queries have a score, and what they scored.               *)
ScoredOf(queries, side, key) ==
  {i \in DOMAIN queries : /\ queries[i][side] \notin {None, Absent}
                          /\ key = "overall" \/ queries[i].class = key}
Score(queries, side) == [i \in DOMAIN queries |-> queries[i][side]]

LEMMA ReportIs ==
  ASSUME GateAssumption, NEW queries, NEW n \in Nat, DOMAIN queries = 1 .. n,
         \A i \in 1 .. n : Compared(queries[i]), NEW side \in {"before", "after"}
  PROVE  LET report == Report(queries, side)
         IN  /\ report # None
             /\ DOMAIN report = {"overall"} \cup {queries[i].class : i \in Ran(queries, side)}
             /\ \A key \in DOMAIN report :
                  report[key] =
                    IF ScoredOf(queries, side, key) = {} THEN None
                    ELSE <<SumOver(Score(queries, side), ScoredOf(queries, side, key)),
                           Cardinality(ScoredOf(queries, side, key))>>
<1> DEFINE report == Report(queries, side)
           keys == {"overall"} \cup {queries[i].class : i \in Ran(queries, side)}
           of(key) == {i \in Ran(queries, side) : key = "overall" \/ queries[i].class = key}
           DD(key) == ScoredOf(queries, side, key)
           f == Score(queries, side)
<1>0. \A i \in 1 .. n : queries[i][side] \in Int \cup {None, Absent}
  BY DEF Compared
<1>1. report = [key \in keys |-> Mean([i \in of(key) |-> queries[i][side]])]
  BY DEF Report
<1>2. ASSUME NEW key \in keys
      PROVE  /\ Mean([i \in of(key) |-> queries[i][side]])
                = IF DD(key) = {} THEN None ELSE <<SumOver(f, DD(key)), Cardinality(DD(key))>>
             /\ IsFiniteSet(DD(key)) /\ \A i \in DD(key) : f[i] \in Int
  <2> DEFINE score == [i \in of(key) |-> queries[i][side]]
  <2>1. DD(key) = {i \in DOMAIN score : score[i] # None}
    BY DEF ScoredOf, Ran
  <2>2. Mean(score) = IF DD(key) = {} THEN None
                          ELSE <<SumOver(score, DD(key)), Cardinality(DD(key))>>
    BY <2>1, MeanIs
  <2>3. IsFiniteSet(DD(key))
    <3>1. DD(key) \in SUBSET (1 .. n)
      BY DEF ScoredOf
    <3>2. IsFiniteSet(1 .. n)
      BY FS_Interval
    <3> HIDE DEF DD
    <3> QED BY <3>1, <3>2, FS_Subset
  <2>4. \A i \in DD(key) : score[i] = f[i] /\ score[i] \in Int
    <3> TAKE i \in DD(key)
    <3>1. i \in of(key) /\ i \in 1 .. n /\ queries[i][side] \notin {None, Absent}
      BY DEF ScoredOf, Ran
    <3> QED BY <1>0, <3>1 DEF Score
  <2>5. SumOver(score, DD(key)) = SumOver(f, DD(key))
    <3> HIDE DEF score, DD, f
    <3> QED BY <2>3, <2>4, SumEqual
  <2> QED BY <2>2, <2>3, <2>4, <2>5
<1>3. report \in [keys -> {None} \cup Int \X Nat]
  <2> SUFFICES ASSUME NEW key \in keys
               PROVE  Mean([i \in of(key) |-> queries[i][side]]) \in {None} \cup Int \X Nat
    BY <1>1
  <2>1. IsFiniteSet(DD(key)) /\ \A i \in DD(key) : f[i] \in Int
    BY <1>2
  <2>2. SumOver(f, DD(key)) \in Int /\ Cardinality(DD(key)) \in Nat
    <3> HIDE DEF DD, f
    <3> QED BY <2>1, SumRemove, FS_CardinalityType
  <2> DEFINE sum == SumOver(f, DD(key))
             many == Cardinality(DD(key))
             mean == Mean([i \in of(key) |-> queries[i][side]])
  <2>3. mean = IF DD(key) = {} THEN None ELSE <<sum, many>>
    BY <1>2
  <2> HIDE DEF mean
  <2>4. mean \in {None} \cup Int \X Nat
    <3> HIDE DEF sum, many, DD
    <3> QED BY <2>2, <2>3 DEF sum, many
  <2> QED BY <2>4 DEF mean
<1>4. keys \in SUBSET (Classes \cup {"overall"})
  BY DEF Compared, Ran
<1>5. report # None
  <2> HIDE DEF keys, report
  <2> QED BY <1>3, <1>4 DEF GateAssumption
<1>6. \A key \in keys : report[key] =
        IF DD(key) = {} THEN None ELSE <<SumOver(f, DD(key)), Cardinality(DD(key))>>
  BY <1>1, <1>2
<1>7. DOMAIN report = keys
  BY <1>1
<1> HIDE DEF report
<1> QED BY <1>5, <1>6, <1>7 DEF report

(* Of two means over the same places: the drop of one to the other.        *)
LEMMA FarDropped ==
  ASSUME NEW DD, IsFiniteSet(DD), DD # {}, NEW f, NEW g,
         \A i \in DD : f[i] \in Int /\ g[i] \in Int /\ g[i] + 4 <= f[i],
         NEW before, before = <<SumOver(f, DD), Cardinality(DD)>>,
         NEW after, after = <<SumOver(g, DD), Cardinality(DD)>>
  PROVE  Dropped(before, after)
<1> DEFINE a == SumOver(g, DD)
           b == SumOver(f, DD)
           n == Cardinality(DD)
<1>1. a \in Int /\ b \in Int /\ a + 4 * n <= b
  <2>1. 4 \in Int /\ \A i \in DD : g[i] \in Int /\ f[i] \in Int /\ g[i] + 4 <= f[i]
    OBVIOUS
  <2> QED BY <2>1, SumBelow
<1>2. n \in Nat \ {0}
  BY FS_CardinalityType, FS_EmptySet
<1>3. Dropped(before, after) <=> b * n - a * n > 3 * (n * n)
  BY DEF Dropped, Drop, REGRESSION_TOLERANCE
<1> HIDE DEF a, b, n
<1> QED BY <1>1, <1>2, <1>3, FarBelow

LEMMA NotDropped ==
  ASSUME NEW DD, IsFiniteSet(DD), DD # {}, NEW f, NEW g,
         \A i \in DD : f[i] \in Int /\ g[i] \in Int /\ f[i] <= g[i],
         NEW before, before = <<SumOver(f, DD), Cardinality(DD)>>,
         NEW after, after = <<SumOver(g, DD), Cardinality(DD)>>
  PROVE  ~Dropped(before, after)
<1> DEFINE a == SumOver(g, DD)
           b == SumOver(f, DD)
           n == Cardinality(DD)
<1>1. a \in Int /\ b \in Int /\ b + 0 * n <= a
  <2>1. 0 \in Int /\ \A i \in DD : f[i] \in Int /\ g[i] \in Int /\ f[i] + 0 <= g[i]
    OBVIOUS
  <2> QED BY <2>1, SumBelow
<1>2. n \in Nat \ {0}
  BY FS_CardinalityType, FS_EmptySet
<1>3. Dropped(before, after) <=> b * n - a * n > 3 * (n * n)
  BY DEF Dropped, Drop, REGRESSION_TOLERANCE
<1> HIDE DEF a, b, n
<1>4. b * n <= a * n /\ b * n \in Int /\ a * n \in Int
  BY <1>1, <1>2, Scaled
<1>5. n * n > 0 /\ n * n \in Int
  BY <1>2
<1> QED BY <1>3, <1>4, <1>5

LEMMA CollapsesAlwaysFail ==
  ASSUME GateAssumption, NEW queries, NEW n \in Nat, DOMAIN queries = 1 .. n,
         \A i \in 1 .. n : Compared(queries[i])
  PROVE  CollapsesFail(queries)
<1> DEFINE before == Report(queries, "before")
           after == Report(queries, "after")
           verdict == Verdict(before, after)
           scored == {i \in DOMAIN queries : queries[i].before # None}
           of(class) == {i \in scored : queries[i].class = class}
           kept == {i \in scored : queries[i].after # Absent}
           worse == {i \in kept : queries[i].after < queries[i].before - 3}
           better == {i \in kept : queries[i].after >= queries[i].before}
           BB(key) == ScoredOf(queries, "before", key)
           Z(key) == ScoredOf(queries, "after", key)
           f == Score(queries, "before")
           g == Score(queries, "after")
<1>0. None \notin Int /\ Absent \notin Int /\ None # Absent /\ "overall" \notin Classes
  BY DEF GateAssumption
<1>1. /\ before # None
      /\ DOMAIN before = {"overall"} \cup {queries[i].class : i \in Ran(queries, "before")}
      /\ \A key \in DOMAIN before : before[key] =
           IF BB(key) = {} THEN None ELSE <<SumOver(f, BB(key)), Cardinality(BB(key))>>
  BY ReportIs
<1>2. /\ after # None
      /\ DOMAIN after = {"overall"} \cup {queries[i].class : i \in Ran(queries, "after")}
      /\ \A key \in DOMAIN after : after[key] =
           IF Z(key) = {} THEN None ELSE <<SumOver(g, Z(key)), Cardinality(Z(key))>>
  BY ReportIs
<1>3. \A i \in 1 .. n :
        /\ f[i] = queries[i].before /\ g[i] = queries[i].after
        /\ \A key : i \in BB(key) <=> /\ queries[i].before \notin {None, Absent}
                                      /\ key = "overall" \/ queries[i].class = key
        /\ \A key : i \in Z(key) <=> /\ queries[i].after \notin {None, Absent}
                                     /\ key = "overall" \/ queries[i].class = key
  BY DEF Score, ScoredOf
<1>4. \A key : /\ BB(key) \in SUBSET (1 .. n) /\ IsFiniteSet(BB(key))
              /\ Z(key) \in SUBSET (1 .. n) /\ IsFiniteSet(Z(key))
  <2>1. IsFiniteSet(1 .. n)
    BY FS_Interval
  <2>2. \A key : BB(key) \in SUBSET (1 .. n) /\ Z(key) \in SUBSET (1 .. n)
    BY DEF ScoredOf
  <2> HIDE DEF BB, Z
  <2> QED BY <2>1, <2>2, FS_Subset
<1> HIDE DEF before, after, BB, Z, f, g
<1>5. verdict = IF \E r \in {before, after} : \E key \in DOMAIN r : r[key] = None THEN "crashed"
                ELSE IF \E key \in DOMAIN before \cap DOMAIN after :
                          Dropped(before[key], after[key])
                THEN "failed" ELSE "passed"
  BY <1>1 DEF Verdict
<1>6. ASSUME scored = better PROVE verdict \in {"passed", "crashed"}
  <2> SUFFICES ASSUME \A r \in {before, after} : \A key \in DOMAIN r : r[key] # None,
                      NEW key \in DOMAIN before \cap DOMAIN after
               PROVE  ~Dropped(before[key], after[key])
    BY <1>5
  <2>1. BB(key) = Z(key)
    <3>1. \A i \in 1 .. n : i \in BB(key) <=> i \in Z(key)
      BY <1>0, <1>3, <1>6 DEF Compared
    <3> QED BY <1>4, <3>1
  <2>2. \A i \in BB(key) : f[i] \in Int /\ g[i] \in Int /\ f[i] <= g[i]
    BY <1>0, <1>3, <1>4, <1>6 DEF Compared
  <2>3. BB(key) # {}
    BY <1>1
  <2>4. /\ before[key] = <<SumOver(f, BB(key)), Cardinality(BB(key))>>
        /\ after[key] = <<SumOver(g, BB(key)), Cardinality(BB(key))>>
    BY <1>1, <1>2, <2>1, <2>3
  <2> QED BY <1>4, <2>2, <2>3, <2>4, NotDropped
<1>7. ASSUME NEW class \in Classes, of(class) # {}, of(class) \subseteq worse
      PROVE  verdict \in {"failed", "crashed"}
  <2> SUFFICES class \in DOMAIN before \cap DOMAIN after
               /\ (before[class] # None => Dropped(before[class], after[class]))
    BY <1>5
  <2>1. PICK i \in 1 .. n : i \in of(class)
    BY <1>7
  <2>2. class \in DOMAIN before \cap DOMAIN after
    <3>1. i \in Ran(queries, "before") /\ i \in Ran(queries, "after")
      BY <1>0, <1>7, <2>1 DEF Ran, Compared
    <3> QED BY <1>1, <1>2, <2>1, <3>1
  <2>3. class # "overall"
    BY <1>0
  <2>4. BB(class) = Z(class)
    <3>1. \A j \in 1 .. n : j \in BB(class) <=> j \in Z(class)
      BY <1>0, <1>3, <1>7, <2>3 DEF Compared
    <3> QED BY <1>4, <3>1
  <2>5. \A j \in BB(class) : f[j] \in Int /\ g[j] \in Int /\ g[j] + 4 <= f[j]
    <3> TAKE j \in BB(class)
    <3>1. j \in 1 .. n /\ j \in worse
      BY <1>0, <1>3, <1>4, <1>7, <2>3 DEF Compared
    <3>2. queries[j].before \in Int /\ queries[j].after \in Int
      BY <1>0, <3>1 DEF Compared
    <3>3. queries[j].after + 4 <= queries[j].before
      BY <3>1, <3>2
    <3> QED BY <1>3, <3>1, <3>2, <3>3
  <2>6. i \in BB(class)
    BY <1>0, <1>3, <2>1 DEF Compared
  <2>7. /\ before[class] = <<SumOver(f, BB(class)), Cardinality(BB(class))>>
        /\ after[class] = <<SumOver(g, BB(class)), Cardinality(BB(class))>>
    BY <1>1, <1>2, <2>2, <2>4, <2>6
  <2>8. Dropped(before[class], after[class])
    BY <1>4, <2>5, <2>6, <2>7, FarDropped
  <2> QED BY <2>2, <2>8
<1> HIDE DEF verdict
<1>8. /\ scored = better => verdict \in {"passed", "crashed"}
      /\ (\E class \in Classes : of(class) # {} /\ of(class) \subseteq worse)
           => verdict \in {"failed", "crashed"}
  BY <1>6, <1>7
<1> QED BY <1>8 DEF CollapsesFail, REGRESSION_TOLERANCE, verdict, before, after

(* The sweep: a query has a score for each alpha, or for none.             *)
Tried(q) == q.class \in Classes /\ (q.scores = None \/ q.scores \in [Alphas -> Int])

LEMMA MacroIs ==
  ASSUME NEW grid, NEW choice
  PROVE  Macro(grid, choice)
         = Total([class \in Classes |-> grid[class][choice[class]]], Classes)
BY DEF Macro, FoldSet, MapThenFoldSet, PlusFraction,
       Total, FoldSet, MapThenFoldSet, Plus

LEMMA LessIs == \A a, b : Less(a, b) <=> LowerThan(a, b)
BY DEF Less, LowerThan

LEMMA GridIs ==
  ASSUME GateAssumption, NEW queries, NEW n \in Nat, DOMAIN queries = 1 .. n,
         \A i \in 1 .. n : Tried(queries[i])
  PROVE  Grid(queries) \in [Classes -> [Alphas -> Ratios]]
<1> SUFFICES ASSUME NEW class \in Classes, NEW alpha \in Alphas
             PROVE  ClassMean(queries, class, alpha) \in Ratios
  BY DEF Grid
<1> DEFINE mine == {i \in DOMAIN queries : queries[i].class = class}
           score == [i \in mine |-> IF queries[i].scores = None THEN None
                                    ELSE queries[i].scores[alpha]]
           DD == {i \in DOMAIN score : score[i] # None}
           mean == Mean(score)
<1>1. IsFiniteSet(DD)
  <2>1. IsFiniteSet(1 .. n)
    BY FS_Interval
  <2>2. DD \in SUBSET (1 .. n)
    OBVIOUS
  <2> QED BY <2>1, <2>2, FS_Subset
<1>2. \A i \in DD : score[i] \in Int
  BY DEF Tried
<1>3. mean = IF DD = {} THEN None ELSE <<SumOver(score, DD), Cardinality(DD)>>
  BY MeanIs
<1>4. DD # {} => SumOver(score, DD) \in Int /\ Cardinality(DD) \in Nat \ {0}
  <2> HIDE DEF DD, score
  <2> QED BY <1>1, <1>2, SumRemove, FS_CardinalityType, FS_EmptySet
<1>5. ClassMean(queries, class, alpha) = IF mean = None THEN <<0, 1>> ELSE mean
  BY DEF ClassMean
<1>6. <<0, 1>> \in Ratios
  BY DEF Ratios
<1> HIDE DEF mean, DD, score
<1> QED BY <1>3, <1>4, <1>5, <1>6 DEF Ratios

LEMMA DynamicNeverBehind ==
  ASSUME GateAssumption, NEW queries, NEW n \in Nat, DOMAIN queries = 1 .. n,
         \A i \in 1 .. n : Tried(queries[i])
  PROVE  DynamicNeverLoses(queries)
<1> DEFINE grid == Grid(queries)
           choice == BestAlphaPerClass(grid)
           a == BestFixedAlpha(grid)
           totals == [b \in Alphas |-> Total([c \in Classes |-> grid[c][b]], Classes)]
           best == Total([c \in Classes |-> grid[c][choice[c]]], Classes)
<1>1. /\ Alphas \in SUBSET Nat /\ Alphas # {} /\ IsFiniteSet(Alphas) /\ IsFiniteSet(Classes)
  BY DEF GateAssumption, IsFiniteSet
<1>2. grid \in [Classes -> [Alphas -> Ratios]]
  BY GridIs
<1> HIDE DEF grid
<1>3. \A c \in Classes : choice[c] \in Alphas /\ FirstBest(Alphas, grid[c], choice[c])
  <2> TAKE c \in Classes
  <2>1. choice[c] = CHOOSE b \in Alphas : FirstBest(Alphas, grid[c], b)
    BY LessIs DEF BestAlphaPerClass, FirstBest
  <2>2. \E b \in Alphas : FirstBest(Alphas, grid[c], b)
    BY <1>1, <1>2, SomeFirstBest
  <2> QED BY <2>1, <2>2
<1>4. choice \in [Classes -> Alphas]
  BY <1>3 DEF BestAlphaPerClass
<1>5. ASSUME NEW b \in Alphas PROVE Macro(grid, Everywhere(b)) = totals[b]
  <2>1. Macro(grid, Everywhere(b))
        = Total([c \in Classes |-> grid[c][Everywhere(b)[c]]], Classes)
    BY MacroIs
  <2>2. \A c \in Classes : Everywhere(b)[c] = b
    BY DEF Everywhere
  <2>3. [c \in Classes |-> grid[c][Everywhere(b)[c]]] = [c \in Classes |-> grid[c][b]]
    BY <2>2
  <2> QED BY <2>1, <2>3
<1>6. a \in Alphas /\ FirstBest(Alphas, totals, a)
  <2>1. totals \in [Alphas -> Ratios]
    <3> SUFFICES ASSUME NEW b \in Alphas
                 PROVE  Total([c \in Classes |-> grid[c][b]], Classes) \in Ratios
      OBVIOUS
    <3> DEFINE v == [c \in Classes |-> grid[c][b]]
    <3>1. v \in [Classes -> Ratios]
      BY <1>2
    <3>2. \A c \in Classes : ~LowerThan(v[c], v[c])
      BY <3>1, BelowPasses
    <3> HIDE DEF v
    <3>3. Total(v, Classes) \in Ratios
      BY <1>1, <3>1, <3>2, TotalKeeps
    <3> QED BY <3>3 DEF v
  <2> HIDE DEF totals
  <2>2. \A b \in Alphas : FirstBest(Alphas, totals, b) <=>
          \A d \in Alphas :
            /\ ~Less(Macro(grid, Everywhere(b)), Macro(grid, Everywhere(d)))
            /\ d < b => Less(Macro(grid, Everywhere(d)),
                                 Macro(grid, Everywhere(b)))
    BY <1>5, LessIs DEF FirstBest
  <2>3. \E b \in Alphas : FirstBest(Alphas, totals, b)
    BY <1>1, <2>1, SomeFirstBest
  <2> QED BY <2>2, <2>3 DEF BestFixedAlpha
<1>7. Macro(grid, choice) = best
  BY MacroIs
<1> HIDE DEF choice, a
<1>8. /\ ~LowerThan(best, totals[a])
      /\ LowerThan(totals[a], best) <=>
           \A b \in Alphas : \E c \in Classes :
             ~(\A d \in Alphas : ~LowerThan(grid[c][b], grid[c][d]))
  <2>1. \A c \in Classes : FirstBest(Alphas, grid[c], choice[c])
    BY <1>3
  <2>2. SweepOf(grid, Classes, Alphas, choice, totals, a, best)
    BY <1>1, <1>2, <1>4, <1>6, <2>1 DEF SweepOf
  <2> HIDE DEF totals, best
  <2> QED BY <2>2, EachItsBest
<1>9. Macro(grid, Everywhere(a)) = totals[a]
  BY <1>5, <1>6
<1> HIDE DEF totals, best
<1>10. \A b \in Alphas, c \in Classes :
         b \notin {e \in Alphas : \A d \in Alphas : ~Less(grid[c][e], grid[c][d])}
         <=> ~(\A d \in Alphas : ~LowerThan(grid[c][b], grid[c][d]))
  BY LessIs
<1> QED BY <1>7, <1>8, <1>9, <1>10, LessIs DEF DynamicNeverLoses, grid, choice, a

(* The metrics: a query's judgements are of finitely many documents.       *)
Judged(j) == IsFiniteSet(DOMAIN j) /\ \A d \in DOMAIN j : j[d] \in 0 .. 2

LEMMA Gains ==
  /\ \A r \in 0 .. 2 : Gain(r) \in Nat
  /\ \A r \in 0 .. 2 : Gain(r) = 0 <=> r = 0
  /\ \A r, s \in 0 .. 2 : r >= s => Gain(r) >= Gain(s)
  /\ \A r, s \in 0 .. 2 : Gain(r) = Gain(s) => r = s
<1>1. Gain(0) = 0 /\ Gain(1) = 1 /\ Gain(2) = 3
  BY DEF Gain
<1>2. \A r \in 0 .. 2 : r = 0 \/ r = 1 \/ r = 2
  OBVIOUS
<1> QED BY <1>1, <1>2

LEMMA RanksIn ==
  ASSUME NEW n \in Nat, NEW r, DOMAIN r = 1 .. n
  PROVE  LET F == Dedupe(r)
         IN  /\ F \in SUBSET (1 .. n) /\ F \in SUBSET Nat /\ IsFiniteSet(F)
             /\ \A i \in 1 .. n : Rank(r, i) = Place(F, i)
             /\ \A i \in F : Rank(r, i) \in 1 .. Cardinality(F)
             /\ \A i, h \in F : Rank(r, i) = Rank(r, h) => i = h
             /\ \A i, h \in F : r[i] = r[h] => i = h
             /\ \A i \in 1 .. n : \E h \in F : r[h] = r[i]
             /\ Cardinality(F) \in Nat /\ Cardinality(F) <= n
<1> DEFINE F == Dedupe(r)
<1>1. F = {i \in 1 .. n : \A h \in 1 .. i - 1 : r[h] # r[i]}
  BY DEF Dedupe
<1>2. F \in SUBSET (1 .. n) /\ F \in SUBSET Nat
  BY <1>1
<1>3. IsFiniteSet(F) /\ Cardinality(F) \in Nat /\ Cardinality(F) <= n
  <2>1. IsFiniteSet(1 .. n) /\ Cardinality(1 .. n) = n
    BY FS_Interval
  <2> HIDE DEF F
  <2>2. IsFiniteSet(F) /\ Cardinality(F) <= Cardinality(1 .. n)
    BY <1>2, <2>1, FS_Subset
  <2> QED BY <2>1, <2>2, FS_CardinalityType
<1>4. \A i : Rank(r, i) = Place(F, i)
  BY DEF Rank, Place
<1>5. ASSUME NEW i \in F, NEW h \in F, r[i] = r[h] PROVE i = h
  <2>1. i \in Nat /\ h \in Nat /\ i \in 1 .. n /\ h \in 1 .. n
    BY <1>2
  <2>2. (i < h => i \in 1 .. h - 1) /\ (h < i => h \in 1 .. i - 1)
    BY <2>1
  <2>3. ~(i < h) /\ ~(h < i)
    BY <1>1, <1>5, <2>2
  <2> QED BY <2>1, <2>3
<1>6. ASSUME NEW i \in 1 .. n PROVE \E h \in F : r[h] = r[i]
  <2> DEFINE I == {h \in 1 .. n : r[h] = r[i]}
  <2>1. I \subseteq Nat /\ I # {}
    OBVIOUS
  <2>2. PICK h \in I : \A m \in I : h <= m
    <3> HIDE DEF I
    <3> QED BY <2>1, Smallest
  <2>3. ASSUME NEW m \in 1 .. h - 1 PROVE r[m] # r[h]
    <3>1. m \in 1 .. n /\ ~(h <= m)
      BY <2>2
    <3> QED BY <2>2, <3>1
  <2> QED BY <1>1, <2>2, <2>3
<1> HIDE DEF F
<1>7. /\ \A i \in F : Place(F, i) \in 1 .. Cardinality(F)
      /\ \A i, h \in F : Place(F, i) = Place(F, h) => i = h
  BY <1>2, <1>3, PlaceIn
<1> QED BY <1>2, <1>3, <1>4, <1>5, <1>6, <1>7 DEF F

LEMMA IdealIs ==
  ASSUME NEW j, Judged(j)
  PROVE  LET U == Relevant(j)
             best == Ideal(j)
             M == Cardinality(U)
         IN  /\ U \in SUBSET (DOMAIN j) /\ IsFiniteSet(U) /\ M \in Nat /\ (M = 0 <=> U = {})
             /\ \A d \in U : j[d] \in 1 .. 2
             /\ Falling(best, U, j) /\ DOMAIN best = 1 .. M
             /\ Dedupe(best) = 1 .. M
             /\ \A h \in 1 .. M : Rank(best, h) = h
             /\ \A h \in 1 .. M : best[h] \in U /\ Grade(j, best[h]) = j[best[h]]
<1> DEFINE U == Relevant(j)
           best == Ideal(j)
           M == Cardinality(U)
<1>1. U \in SUBSET (DOMAIN j) /\ \A d \in U : j[d] \in 1 .. 2 /\ j[d] \in Nat
  BY DEF Relevant, Judged
<1>2. IsFiniteSet(U) /\ M \in Nat /\ (M = 0 <=> U = {})
  <2> HIDE DEF U
  <2>1. IsFiniteSet(U)
    BY <1>1, FS_Subset DEF Judged
  <2> QED BY <2>1, FS_CardinalityType, FS_EmptySet
<1>3. best = CHOOSE b \in [1 .. M -> U] :
               \A i, h \in DOMAIN b : i < h => b[i] # b[h] /\ j[b[i]] >= j[b[h]]
  BY DEF Ideal
<1> HIDE DEF U, best
<1>4. Falling(best, U, j)
  <2>1. \E b : Falling(b, U, j)
    BY <1>1, <1>2, SomeFalling
  <2>2. \E b \in [1 .. M -> U] :
          \A i, h \in DOMAIN b : i < h => b[i] # b[h] /\ j[b[i]] >= j[b[h]]
    BY <2>1 DEF Falling
  <2> QED BY <1>3, <2>2 DEF Falling
<1> HIDE DEF M
<1>5. best \in [1 .. M -> U] /\ DOMAIN best = 1 .. M
  BY <1>4 DEF Falling, M
<1>6. Dedupe(best) = 1 .. M
  <2>1. ASSUME NEW i \in 1 .. M, NEW h \in 1 .. i - 1 PROVE best[h] # best[i]
    <3>1. h \in 1 .. M /\ h < i
      BY <1>2
    <3> QED BY <1>4, <1>5, <3>1 DEF Falling
  <2> QED BY <1>5, <2>1 DEF Dedupe
<1>7. ASSUME NEW h \in 1 .. M PROVE Rank(best, h) = h
  <2>1. {m \in 1 .. M : m <= h} = 1 .. h
    BY <1>2
  <2>2. Cardinality(1 .. h) = h
    BY FS_Interval
  <2> QED BY <1>6, <2>1, <2>2 DEF Rank
<1>8. \A h \in 1 .. M : best[h] \in U /\ Grade(j, best[h]) = j[best[h]]
  BY <1>1, <1>5 DEF Grade
<1> QED BY <1>1, <1>2, <1>4, <1>5, <1>6, <1>7, <1>8 DEF U, best, M

LEMMA DcgIs ==
  ASSUME NEW r, NEW j, NEW k, NEW got,
         got = [i \in FirstK(r, k) |->
                  Gain(Grade(j, r[i])) * Discount[Rank(r, i)]]
  PROVE  Dcg(r, j, k) = SumOver(got, FirstK(r, k))
<1> DEFINE F == FirstK(r, k)
           gained == [i \in FirstK(r, k) |->
                        Gain(Grade(j, r[i])) * Discount[Rank(r, i)]]
<1>1. Dcg(r, j, k) = MapThenSumSet(LAMBDA i : gained[i], F)
  BY DEF Dcg
<1>2. gained = got
  OBVIOUS
<1> HIDE DEF gained, F
<1>3. MapThenSumSet(LAMBDA i : gained[i], F) = SumOver(gained, F)
  BY DEF SumOver
<1> QED BY <1>1, <1>2, <1>3 DEF F

(* What a ranking gains at a cutoff, and what the ideal one does.          *)
LEMMA DcgAtMostIdeal ==
  ASSUME EvaluationAssumption, NEW k \in Nat, 1 .. k \subseteq DOMAIN Discount,
         NEW n \in Nat, NEW r, DOMAIN r = 1 .. n, NEW j, Judged(j)
  PROVE  /\ Dcg(r, j, k) \in Nat /\ Idcg(j, k) \in Nat
         /\ Dcg(r, j, k) <= Idcg(j, k)
         /\ Dcg(r, j, k) = Idcg(j, k) <=>
              \A h \in FirstK(Ideal(j), k) : \E i \in FirstK(r, k) :
                /\ Rank(r, i) = Rank(Ideal(j), h)
                /\ Grade(j, r[i]) = j[Ideal(j)[h]]
<1> DEFINE F == FirstK(r, k)
           rank == [i \in F |-> Rank(r, i)]
           grade == [i \in F |-> Grade(j, r[i])]
           gain == [i \in F |-> Gain(grade[i])]
           got == [i \in F |-> gain[i] * Discount[rank[i]]]
           U == Relevant(j)
           best == Ideal(j)
           M == Cardinality(U)
           c == [h \in 1 .. M |-> Gain(j[best[h]])]
           seat == [i \in F |-> CHOOSE h \in 1 .. M : best[h] = r[i]]
           R == {h \in 1 .. M : h <= k}
           most == [h \in R |-> c[h] * Discount[h]]
<1>1. /\ F = {i \in Dedupe(r) : Rank(r, i) <= k}
      /\ F \in SUBSET Dedupe(r) /\ IsFiniteSet(F) /\ F \subseteq 1 .. n
  <2>1. F = {i \in Dedupe(r) : Rank(r, i) <= k}
    BY DEF FirstK
  <2>2. IsFiniteSet(Dedupe(r)) /\ Dedupe(r) \subseteq 1 .. n
    BY RanksIn
  <2>3. F \in SUBSET Dedupe(r)
    BY <2>1
  <2> HIDE DEF F
  <2> QED BY <2>1, <2>2, <2>3, FS_Subset
<1>2. /\ U \in SUBSET (DOMAIN j) /\ IsFiniteSet(U) /\ M \in Nat
      /\ \A d \in U : j[d] \in 1 .. 2
      /\ Falling(best, U, j) /\ DOMAIN best = 1 .. M
      /\ Dedupe(best) = 1 .. M
      /\ \A h \in 1 .. M : Rank(best, h) = h
      /\ \A h \in 1 .. M : best[h] \in U /\ Grade(j, best[h]) = j[best[h]]
  BY IdealIs
<1>3. Dcg(r, j, k) = SumOver(got, F)
  <2>1. got = [i \in F |-> Gain(Grade(j, r[i])) * Discount[Rank(r, i)]]
    OBVIOUS
  <2> HIDE DEF got
  <2> QED BY <2>1, DcgIs
<1>4. FirstK(best, k) = R
  BY <1>2 DEF FirstK
<1>5. Idcg(j, k) = SumOver(most, R)
  <2>1. most = [h \in R |-> Gain(Grade(j, best[h])) * Discount[Rank(best, h)]]
    <3>1. \A h \in R : /\ Gain(Grade(j, best[h])) = c[h]
                       /\ Rank(best, h) = h
      BY <1>2
    <3> HIDE DEF R, c, best
    <3> QED BY <3>1
  <2> HIDE DEF most, R, best
  <2>2. Dcg(best, j, k) = SumOver(most, R)
    BY <1>4, <2>1, DcgIs
  <2> QED BY <2>2 DEF Idcg, best
<1>6. \A i \in F : /\ grade[i] \in 0 .. 2 /\ gain[i] \in Nat /\ rank[i] \in 1 .. k
                   /\ gain[i] # 0 => r[i] \in U /\ grade[i] = j[r[i]]
  <2> TAKE i \in F
  <2>1. rank[i] \in 1 .. k
    <3>1. Rank(r, i) \in 1 .. Cardinality(Dedupe(r)) /\ Rank(r, i) <= k
      BY <1>1, RanksIn
    <3> QED BY <3>1
  <2>2. grade[i] \in 0 .. 2
    BY DEF Grade, Judged
  <2>3. gain[i] \in Nat /\ (gain[i] # 0 => grade[i] # 0)
    BY <2>2, Gains
  <2>4. grade[i] # 0 => r[i] \in U /\ grade[i] = j[r[i]]
    BY <2>2 DEF Grade, Relevant
  <2> QED BY <2>1, <2>2, <2>3, <2>4
<1>7. \A i \in F : r[i] \in U => seat[i] \in 1 .. M /\ best[seat[i]] = r[i]
  <2>1. \A d \in U : \E h \in 1 .. M : best[h] = d
    <3> HIDE DEF U, best
    <3>1. \A d \in U : \E h \in DOMAIN best : best[h] = d
      BY <1>2, FallingHasAll
    <3> QED BY <1>2, <3>1
  <2> QED BY <2>1
<1>8. c \in [1 .. M -> Nat \ {0}] /\ \A h \in 1 .. M : j[best[h]] \in 0 .. 2
  <2> SUFFICES ASSUME NEW h \in 1 .. M
               PROVE  Gain(j[best[h]]) \in Nat \ {0} /\ j[best[h]] \in 0 .. 2
    OBVIOUS
  <2>1. j[best[h]] \in 1 .. 2
    BY <1>2
  <2>2. j[best[h]] \in 0 .. 2 /\ j[best[h]] # 0
    BY <2>1
  <2> QED BY <2>2, Gains
<1> HIDE DEF F, U, best, M
<1>9. Ranking(k, Discount, F, rank, gain, M, c, seat)
  <2>1. /\ \A m \in 1 .. k : Discount[m] \in Nat \ {0}
        /\ \A m, p \in 1 .. k : m < p => Discount[m] > Discount[p]
    BY DEF EvaluationAssumption
  <2>2. \A i, h \in F : rank[i] = rank[h] => i = h
    BY <1>1, RanksIn
  <2>3. \A m, p \in 1 .. M : m < p => c[m] >= c[p]
    <3> TAKE m, p \in 1 .. M
    <3>1. m < p => j[best[m]] >= j[best[p]]
      BY <1>2 DEF Falling
    <3> QED BY <1>8, <3>1, Gains
  <2>4. \A i \in F : gain[i] # 0 => seat[i] \in 1 .. M /\ gain[i] = c[seat[i]]
    <3> TAKE i \in F
    <3> HAVE gain[i] # 0
    <3>1. r[i] \in U /\ grade[i] = j[r[i]]
      BY <1>6
    <3>2. seat[i] \in 1 .. M /\ best[seat[i]] = r[i]
      BY <1>7, <3>1
    <3> QED BY <3>1, <3>2
  <2>5. \A i, h \in F : gain[i] # 0 /\ gain[h] # 0 /\ seat[i] = seat[h] => i = h
    <3> TAKE i, h \in F
    <3> HAVE gain[i] # 0 /\ gain[h] # 0 /\ seat[i] = seat[h]
    <3>1. r[i] = r[h]
      BY <1>6, <1>7
    <3> QED BY <1>1, <3>1, RanksIn
  <2>6. \A i \in F : rank[i] \in 1 .. k /\ gain[i] \in Nat
    BY <1>6
  <2> HIDE DEF rank, gain, c, seat
  <2> QED BY <1>1, <1>2, <1>8, <2>1, <2>2, <2>3, <2>4, <2>5, <2>6 DEF Ranking
<1>10. /\ SumOver(got, F) <= SumOver(most, R)
       /\ SumOver(got, F) \in Nat /\ SumOver(most, R) \in Nat
       /\ SumOver(got, F) = SumOver(most, R) <=>
            \A h \in R : \E i \in F : rank[i] = h /\ gain[i] = c[h]
  <2> HIDE DEF rank, gain, c, seat
  <2>1. got = [i \in F |-> gain[i] * Discount[rank[i]]] /\ R = {h \in 1 .. M : h <= k}
        /\ most = [h \in R |-> c[h] * Discount[h]]
    OBVIOUS
  <2> HIDE DEF got, R, most
  <2>2. GainsAtMost(got, F, most, R, rank, gain, c)
    BY <1>9, <2>1, IdealGains
  <2> QED BY <2>2 DEF GainsAtMost
<1>11. \A h \in R : \A i \in F :
         rank[i] = h /\ gain[i] = c[h] <=>
           Rank(r, i) = Rank(best, h) /\ Grade(j, r[i]) = j[best[h]]
  <2> TAKE h \in R
  <2> TAKE i \in F
  <2>1. grade[i] \in 0 .. 2 /\ j[best[h]] \in 0 .. 2 /\ Rank(best, h) = h
    BY <1>2, <1>6, <1>8
  <2>2. gain[i] = c[h] <=> grade[i] = j[best[h]]
    BY <2>1, Gains
  <2> QED BY <2>1, <2>2
<1> HIDE DEF rank, gain, c, got, most, R
<1>12. (\A h \in R : \E i \in F : rank[i] = h /\ gain[i] = c[h]) <=>
         \A h \in FirstK(best, k) : \E i \in F :
           Rank(r, i) = Rank(best, h) /\ Grade(j, r[i]) = j[best[h]]
  BY <1>4, <1>11
<1> QED BY <1>3, <1>5, <1>10, <1>12 DEF F, best

(* What a cutoff keeps is no more than the cutoff, nor what is relevant.   *)
LEMMA HitsIn ==
  ASSUME NEW k \in Nat, NEW n \in Nat, NEW r, DOMAIN r = 1 .. n, NEW j, Judged(j)
  PROVE  LET H == Retrieved(r, k) \cap Relevant(j)
         IN  /\ IsFiniteSet(H) /\ Cardinality(H) \in Nat
             /\ Cardinality(H) <= k
             /\ Cardinality(H) <= Cardinality(Relevant(j))
             /\ Cardinality(H) = 0 <=> H = {}
<1> DEFINE F == FirstK(r, k)
           U == Relevant(j)
           H == Retrieved(r, k) \cap U
           first == [d \in H |-> Rank(r, CHOOSE i \in F : r[i] = d)]
<1>1. \A d \in H : \E i \in F : r[i] = d
  BY DEF Retrieved
<1>2. \A i \in F : Rank(r, i) \in 1 .. k
  <2> TAKE i \in F
  <2>1. i \in Dedupe(r) /\ Rank(r, i) <= k
    BY DEF FirstK
  <2>2. Rank(r, i) \in 1 .. Cardinality(Dedupe(r))
    BY <2>1, RanksIn
  <2> QED BY <2>1, <2>2
<1>3. \A i, h \in F : Rank(r, i) = Rank(r, h) => i = h
  <2>1. F \subseteq Dedupe(r)
    BY DEF FirstK
  <2> HIDE DEF F
  <2> QED BY <2>1, RanksIn
<1>4. IsFiniteSet(U) /\ IsFiniteSet(1 .. k) /\ Cardinality(1 .. k) = k
  <2>1. IsFiniteSet(U)
    BY IdealIs
  <2> QED BY <2>1, FS_Interval
<1> HIDE DEF F, U
<1>5. first \in Injection(H, 1 .. k)
  <2>1. \A d \in H : first[d] \in 1 .. k
    BY <1>1, <1>2
  <2>2. \A d, e \in H : first[d] = first[e] => d = e
    <3> TAKE d, e \in H
    <3>1. PICK i \in F : r[i] = d /\ first[d] = Rank(r, i)
      BY <1>1
    <3>2. PICK h \in F : r[h] = e /\ first[e] = Rank(r, h)
      BY <1>1
    <3> QED BY <1>3, <3>1, <3>2
  <2>3. first \in [H -> 1 .. k]
    BY <2>1
  <2> HIDE DEF first, H
  <2> QED BY <2>2, <2>3 DEF Injection, IsInjective
<1>6. H \in SUBSET U
  OBVIOUS
<1> HIDE DEF H, first
<1>7. IsFiniteSet(H) /\ Cardinality(H) <= Cardinality(U)
  BY <1>4, <1>6, FS_Subset
<1>8. Cardinality(H) <= k
  BY <1>4, <1>5, FS_Injection
<1>9. Cardinality(H) \in Nat /\ (Cardinality(H) = 0 <=> H = {})
  BY <1>7, FS_CardinalityType, FS_EmptySet
<1> QED BY <1>7, <1>8, <1>9 DEF H, U

(* The rank of the first relevant document.                                *)
LEMMA ReciprocalIs ==
  ASSUME NEW n \in Nat, NEW r, DOMAIN r = 1 .. n, NEW j, Relevant(j) # {}
  PROVE  LET hits == {i \in Dedupe(r) : r[i] \in Relevant(j)}
             rr == ReciprocalRank(r, j)
         IN  /\ hits = {} => rr = <<0, 1>>
             /\ hits # {} => \E m \in Nat \ {0} : rr = <<1, m>>
             /\ hits = {} <=> Retrieved(r, n) \cap Relevant(j) = {}
<1> DEFINE F == Dedupe(r)
           U == Relevant(j)
           hits == {i \in F : r[i] \in U}
           rr == ReciprocalRank(r, j)
<1>1. rr = IF hits = {} THEN <<0, 1>> ELSE <<1, Rank(r, Min(hits))>>
  BY DEF ReciprocalRank
<1>2. F \in SUBSET Nat /\ \A i \in F : Rank(r, i) \in Nat \ {0} /\ Rank(r, i) <= n
  <2>1. /\ \A i \in F : Rank(r, i) \in 1 .. Cardinality(F)
        /\ Cardinality(F) \in Nat /\ Cardinality(F) <= n /\ F \in SUBSET Nat
    BY RanksIn
  <2> HIDE DEF F
  <2> QED BY <2>1
<1>3. hits # {} => Min(hits) \in F
  <2> SUFFICES ASSUME hits # {} PROVE Min(hits) \in hits
    OBVIOUS
  <2>1. \E x \in hits : \A y \in hits : x <= y
    <3>1. hits \subseteq Nat
      BY <1>2
    <3> HIDE DEF hits
    <3> QED BY <3>1, Smallest
  <2> HIDE DEF hits
  <2> QED BY <2>1 DEF Min
<1>4. FirstK(r, n) = F
  BY <1>2 DEF FirstK
<1>5. hits = {} <=> Retrieved(r, n) \cap U = {}
  BY <1>4 DEF Retrieved
<1> HIDE DEF hits, rr, F, U
<1>6. hits # {} => \E m \in Nat \ {0} : rr = <<1, m>>
  BY <1>1, <1>2, <1>3
<1> QED BY <1>1, <1>5, <1>6 DEF hits, rr, F, U

(* A ranking with its first document once more, at i.                      *)
Again(r, n, again, i, h) ==
  /\ n \in Nat /\ DOMAIN r = 1 .. n /\ DOMAIN again = 1 .. n + 1 /\ i \in 2 .. n
  /\ h = [x \in 1 .. n |-> IF x < i THEN x ELSE x + 1]
  /\ \A x \in 1 .. n : again[h[x]] = r[x]
  /\ again[i] = r[1]

LEMMA FirstAgain ==
  ASSUME NEW r, NEW n, NEW again, NEW i, NEW h, Again(r, n, again, i, h)
  PROVE  /\ \A x \in 1 .. n : h[x] \in 1 .. n + 1
         /\ \A x, y \in 1 .. n : x < y => h[x] < h[y]
         /\ \A y \in 1 .. n + 1 : y = i \/ \E x \in 1 .. n : y = h[x]
         /\ \A x \in 1 .. n : i < h[x] => i <= x
         /\ Dedupe(again) = {h[x] : x \in Dedupe(r)}
<1> USE DEF Again
<1>0. n \in Nat /\ i \in 2 .. n
  OBVIOUS
<1>1. \A x \in 1 .. n : h[x] \in 1 .. n + 1 /\ (i < h[x] => i <= x)
  OBVIOUS
<1>2. \A x, y \in 1 .. n : x < y => h[x] < h[y]
  OBVIOUS
<1>3. ASSUME NEW y \in 1 .. n + 1, y # i PROVE \E x \in 1 .. n : y = h[x]
  <2>1. CASE y < i
    <3>1. y \in 1 .. n /\ h[y] = y
      BY <2>1
    <3> QED BY <3>1
  <2>2. CASE ~(y < i)
    <3>1. y - 1 \in 1 .. n /\ ~(y - 1 < i)
      BY <1>3, <2>2
    <3>2. h[y - 1] = y
      BY <3>1
    <3> QED BY <3>1, <3>2
  <2> QED BY <2>1, <2>2
<1>4. \A x \in Dedupe(r) : x \in 1 .. n /\ \A w \in 1 .. x - 1 : r[w] # r[x]
  BY DEF Dedupe
<1>5. ASSUME NEW x \in Dedupe(r) PROVE h[x] \in Dedupe(again)
  <2>1. x \in 1 .. n /\ h[x] \in 1 .. n + 1 /\ again[h[x]] = r[x]
    BY <1>1, <1>4
  <2>2. ASSUME NEW z \in 1 .. h[x] - 1 PROVE again[z] # again[h[x]]
    <3>1. z \in 1 .. n + 1 /\ z < h[x]
      BY <2>1
    <3>2. CASE z = i
      <4>1. 1 \in 1 .. x - 1
        <5>1. i <= x
          BY <1>1, <2>1, <3>1, <3>2
        <5> QED BY <1>0, <2>1, <5>1
      <4>2. r[1] # r[x]
        BY <1>4, <4>1
      <4> QED BY <2>1, <3>2, <4>2
    <3>3. CASE z # i
      <4>1. PICK w \in 1 .. n : z = h[w]
        BY <1>3, <3>1, <3>3
      <4>2. w \in 1 .. x - 1
        <5>1. ~(w = x) /\ ~(x < w)
          BY <1>2, <2>1, <3>1, <4>1
        <5> QED BY <2>1, <5>1
      <4>3. again[z] = r[w] /\ r[w] # r[x]
        BY <1>4, <4>1, <4>2
      <4> QED BY <2>1, <4>3
    <3> QED BY <3>2, <3>3
  <2> QED BY <2>1, <2>2 DEF Dedupe
<1>6. ASSUME NEW y \in Dedupe(again) PROVE \E x \in Dedupe(r) : y = h[x]
  <2>1. y \in 1 .. n + 1 /\ \A z \in 1 .. y - 1 : again[z] # again[y]
    BY DEF Dedupe
  <2>2. y # i
    <3>1. 1 \in 1 .. n /\ h[1] = 1
      BY <1>0
    <3>2. again[1] = again[i] /\ 1 \in 1 .. i - 1
      BY <1>0, <3>1
    <3> QED BY <2>1, <3>2
  <2>3. PICK x \in 1 .. n : y = h[x]
    BY <1>3, <2>1, <2>2
  <2>4. ASSUME NEW w \in 1 .. x - 1 PROVE r[w] # r[x]
    <3>1. w \in 1 .. n /\ w < x
      BY <2>3
    <3>2. h[w] \in 1 .. y - 1
      <4>1. h[w] < h[x] /\ h[w] \in 1 .. n + 1 /\ h[x] \in 1 .. n + 1
        BY <1>1, <1>2, <3>1
      <4> QED BY <2>3, <4>1
    <3> QED BY <2>1, <2>3, <3>1, <3>2
  <2> QED BY <2>3, <2>4 DEF Dedupe
<1>7. Dedupe(again) = {h[x] : x \in Dedupe(r)}
  BY <1>5, <1>6
<1>8. \A y \in 1 .. n + 1 : y = i \/ \E x \in 1 .. n : y = h[x]
  BY <1>3
<1> HIDE DEF Again
<1> QED BY <1>1, <1>2, <1>7, <1>8

(* It scores as before.                                                    *)
LEMMA DcgAgain ==
  ASSUME NEW r, NEW n, NEW again, NEW i, NEW h, Again(r, n, again, i, h),
         EvaluationAssumption, NEW k \in Nat, 1 .. k \subseteq DOMAIN Discount,
         NEW j, Judged(j)
  PROVE  Dcg(again, j, k) = Dcg(r, j, k)
<1> DEFINE DD == Dedupe(r)
           Z == Dedupe(again)
           F == FirstK(r, k)
           G == FirstK(again, k)
           s == [x \in DD |-> h[x]]
           got == [x \in F |-> Gain(Grade(j, r[x])) * Discount[Rank(r, x)]]
           more == [y \in G |-> Gain(Grade(j, again[y])) * Discount[Rank(again, y)]]
<1>0. /\ n \in Nat /\ DOMAIN r = 1 .. n /\ DOMAIN again = 1 .. n + 1 /\ n + 1 \in Nat
      /\ \A x \in 1 .. n : again[h[x]] = r[x]
  BY DEF Again
<1>1. /\ \A x \in 1 .. n : h[x] \in 1 .. n + 1
      /\ \A x, y \in 1 .. n : x < y => h[x] < h[y]
      /\ Z = {h[x] : x \in DD}
  BY FirstAgain
<1>2. /\ DD \in SUBSET (1 .. n) /\ DD \in SUBSET Nat /\ IsFiniteSet(DD)
      /\ \A x \in DD : Rank(r, x) = Place(DD, x)
      /\ \A x \in DD : Rank(r, x) \in Nat \ {0}
  <2>1. /\ DD \in SUBSET (1 .. n) /\ DD \in SUBSET Nat /\ IsFiniteSet(DD)
        /\ \A x \in 1 .. n : Rank(r, x) = Place(DD, x)
        /\ \A x \in DD : Rank(r, x) \in 1 .. Cardinality(DD)
    BY <1>0, RanksIn
  <2> HIDE DEF DD
  <2> QED BY <2>1
<1>3. Z \in SUBSET (1 .. n + 1) /\ Z \in SUBSET Nat
      /\ \A y \in Z : Rank(again, y) = Place(Z, y)
  <2>1. /\ Z \in SUBSET (1 .. n + 1) /\ Z \in SUBSET Nat
        /\ \A y \in 1 .. n + 1 : Rank(again, y) = Place(Z, y)
    BY <1>0, RanksIn
  <2> HIDE DEF Z
  <2> QED BY <2>1
<1>4. F = {x \in DD : Rank(r, x) <= k} /\ G = {y \in Z : Rank(again, y) <= k}
  BY DEF FirstK
<1>5. Dcg(r, j, k) = SumOver(got, F) /\ Dcg(again, j, k) = SumOver(more, G)
  BY DcgIs
<1> HIDE DEF DD, Z
<1>6. /\ s \in [DD -> Z] /\ \A y \in Z : \E x \in DD : y = s[x]
      /\ \A x, y \in DD : x < y => s[x] < s[y]
      /\ \A x \in DD : s[x] = h[x]
  BY <1>1, <1>2
<1> HIDE DEF s
<1>7. \A x \in DD : Place(Z, s[x]) = Place(DD, x)
  BY <1>2, <1>3, <1>6, PlacesKept
<1>8. \A x \in DD : Rank(again, s[x]) = Rank(r, x)
  BY <1>2, <1>3, <1>6, <1>7
<1>9. /\ \A x \in F : s[x] \in G
      /\ \A y \in G : \E x \in F : y = s[x]
      /\ \A x, y \in F : s[x] = s[y] => x = y
  <2>1. /\ \A x \in F : s[x] \in G
        /\ \A y \in G : \E x \in F : y = s[x]
    BY <1>4, <1>6, <1>8
  <2>2. \A x, y \in DD : s[x] = s[y] => x = y
    <3> TAKE x, y \in DD
    <3>1. x \in Nat /\ y \in Nat /\ s[x] \in Nat /\ s[y] \in Nat
      BY <1>2, <1>3, <1>6
    <3>2. (x < y => s[x] < s[y]) /\ (y < x => s[y] < s[x])
      BY <1>6
    <3> QED BY <3>1, <3>2
  <2> QED BY <1>4, <2>1, <2>2
<1>10. \A x \in F : got[x] = more[s[x]] /\ got[x] \in Int
  <2> TAKE x \in F
  <2>1. x \in DD /\ s[x] \in G /\ s[x] = h[x] /\ again[s[x]] = r[x]
    BY <1>0, <1>2, <1>4, <1>6, <1>9
  <2>2. Rank(r, x) \in 1 .. k
    BY <1>2, <1>4, <2>1
  <2>3. Discount[Rank(r, x)] \in Nat
    BY <2>2 DEF EvaluationAssumption
  <2>4. Grade(j, r[x]) \in 0 .. 2
    BY DEF Grade, Judged
  <2>5. Gain(Grade(j, r[x])) \in Nat
    BY <2>4, Gains
  <2>6. got[x] \in Int
    BY <2>3, <2>5
  <2>7. got[x] = more[s[x]]
    BY <1>8, <2>1
  <2> QED BY <2>6, <2>7
<1>11. IsFiniteSet(F)
  <2>1. F \in SUBSET DD
    BY <1>4
  <2> HIDE DEF F
  <2> QED BY <1>2, <2>1, FS_Subset
<1> HIDE DEF F, G, got, more
<1>12. Renames(s, F, got, G, more)
  BY <1>9, <1>10 DEF Renames
<1>13. SumOver(more, G) = SumOver(got, F)
  BY <1>11, <1>12, SumImage
<1> QED BY <1>5, <1>13

LEMMA Joined ==
  ASSUME NEW DD, NEW s \in Seq(DD), NEW t \in Seq(DD), NEW a, Len(s) = a, NEW m, m = a + Len(t)
  PROVE  /\ s \o t \in Seq(DD) /\ Len(s \o t) = m
         /\ \A x \in 1 .. m : (s \o t)[x] = IF x <= a THEN s[x] ELSE t[x - a]
BY ConcatProperties

LEMMA AgainIs ==
  ASSUME NEW DD, NEW r \in Seq(DD), NEW i \in 2 .. Len(r),
         NEW h, h = [x \in 1 .. Len(r) |-> IF x < i THEN x ELSE x + 1]
  PROVE  Again(r, Len(r), InsertAt(r, i, r[1]), i, h)
<1> DEFINE n == Len(r)
           head == SubSeq(r, 1, i - 1)
           tail == SubSeq(r, i, n)
           one == <<r[1]>>
           again == InsertAt(r, i, r[1])
<1>1. n \in Nat /\ DOMAIN r = 1 .. n /\ \A x \in 1 .. n : r[x] \in DD
  OBVIOUS
<1>2. again = (head \o one) \o tail
  BY DEF InsertAt
<1>3. head \in Seq(DD) /\ Len(head) = i - 1 /\ \A x \in 1 .. i - 1 : head[x] = r[x]
  <2>1. \A x \in 1 .. i - 1 : r[x] \in DD
    BY <1>1
  <2>2. 1 \in Int /\ i - 1 \in Int /\ 1 <= i - 1 /\ (i - 1) - 1 + 1 = i - 1
    BY <1>1
  <2>3. /\ head \in Seq(DD) /\ Len(head) = IF 1 <= i - 1 THEN (i - 1) - 1 + 1 ELSE 0
        /\ \A x \in 1 .. (i - 1) - 1 + 1 : head[x] = r[1 + x - 1]
    BY ONLY <2>1, <2>2, SubSeqProperties
  <2>4. \A x \in 1 .. i - 1 : 1 + x - 1 = x
    OBVIOUS
  <2> QED BY <2>2, <2>3, <2>4
<1>4. /\ tail \in Seq(DD) /\ Len(tail) = n - i + 1
      /\ \A x \in 1 .. n - i + 1 : tail[x] = r[i + x - 1]
  <2>1. \A x \in i .. n : r[x] \in DD
    BY <1>1
  <2>2. i \in Int /\ n \in Int /\ i <= n
    BY <1>1
  <2> QED BY <2>1, <2>2, SubSeqProperties
<1>5. one \in Seq(DD) /\ Len(one) = 1 /\ one[1] = r[1]
  BY <1>1
<1> HIDE DEF head, tail, one
<1>6. /\ head \o one \in Seq(DD) /\ Len(head \o one) = i
      /\ \A x \in 1 .. i : (head \o one)[x] = IF x <= i - 1 THEN head[x] ELSE one[x - (i - 1)]
  <2> DEFINE a == i - 1
  <2>1. i = a + Len(one)
    BY <1>1, <1>5
  <2>2. head \in Seq(DD) /\ one \in Seq(DD) /\ Len(head) = a
    BY <1>3, <1>5
  <2> HIDE DEF a
  <2>3. /\ head \o one \in Seq(DD) /\ Len(head \o one) = i
        /\ \A x \in 1 .. i : (head \o one)[x] = IF x <= a THEN head[x] ELSE one[x - a]
    BY ONLY <2>1, <2>2, Joined
  <2> QED BY <2>3 DEF a
<1>7. /\ again \in Seq(DD) /\ Len(again) = n + 1
      /\ \A x \in 1 .. n + 1 : again[x] = IF x <= i THEN (head \o one)[x] ELSE tail[x - i]
  <2>1. n + 1 = i + Len(tail)
    BY <1>1, <1>4
  <2> DEFINE both == head \o one
  <2>2. /\ both \o tail \in Seq(DD) /\ Len(both \o tail) = n + 1
        /\ \A x \in 1 .. n + 1 : (both \o tail)[x] = IF x <= i THEN both[x] ELSE tail[x - i]
    <3>1. both \in Seq(DD) /\ Len(both) = i /\ tail \in Seq(DD)
      BY <1>4, <1>6
    <3> HIDE DEF both, n
    <3> QED BY ONLY <2>1, <3>1, Joined
  <2> HIDE DEF again, n
  <2> QED BY <1>2, <2>2
<1> HIDE DEF again
<1>8. again[i] = r[1]
  <2>1. i \in 1 .. n + 1 /\ i \in 1 .. i /\ i <= i /\ ~(i <= i - 1) /\ i - (i - 1) = 1
    BY <1>1
  <2> QED BY <1>5, <1>6, <1>7, <2>1
<1>9. ASSUME NEW x \in 1 .. n PROVE again[h[x]] = r[x]
  <2>1. CASE x < i
    <3>1. h[x] = x /\ x \in 1 .. n + 1 /\ x <= i /\ x \in 1 .. i /\ x <= i - 1 /\ x \in 1 .. i - 1
      BY <1>1, <2>1
    <3> QED BY <1>3, <1>6, <1>7, <3>1
  <2>2. CASE ~(x < i)
    <3>1. /\ h[x] = x + 1 /\ x + 1 \in 1 .. n + 1 /\ ~(x + 1 <= i)
          /\ x + 1 - i \in 1 .. n - i + 1 /\ i + (x + 1 - i) - 1 = x
      BY <1>1, <2>2
    <3>2. again[x + 1] = tail[x + 1 - i] /\ tail[x + 1 - i] = r[i + (x + 1 - i) - 1]
      BY <1>4, <1>7, <3>1
    <3> QED BY <3>1, <3>2
  <2> QED BY <2>1, <2>2
<1>10. DOMAIN again = 1 .. n + 1 /\ i \in 2 .. n
  BY <1>7
<1> QED BY <1>1, <1>8, <1>9, <1>10 DEF Again, again

LEMMA IdealAlwaysBest ==
  ASSUME EvaluationAssumption, NEW DD, NEW r \in Seq(DD), NEW j, Judged(j),
         NEW k \in Nat \ {0}, 1 .. k \subseteq DOMAIN Discount
  PROVE  IdealIsBest(r, j, k)
<1> DEFINE n == Len(r)
           U == Relevant(j)
           H == Retrieved(r, k) \cap U
           ndcg == Ndcg(r, j, k)
           recall == Recall(r, j, k)
           precision == Precision(r, j, k)
           rr == ReciprocalRank(r, j)
           hitRate == HitRate(r, j, k)
           dcg == Dcg(r, j, k)
           idcg == Idcg(j, k)
           hits == Cardinality(H)
           relevant == Cardinality(U)
           best == Ideal(j)
           level == \A h \in FirstK(best, k) : \E i \in FirstK(r, k) :
                      /\ Rank(r, i) = Rank(best, h)
                      /\ Grade(j, r[i]) = j[best[h]]
           again(i) == Ndcg(InsertAt(r, i, r[1]), j, k)
           all == {ndcg, recall, precision, rr, hitRate}
<1>0. n \in Nat /\ DOMAIN r = 1 .. n
  OBVIOUS
<1>1. CASE U = {}
  <2>1. ndcg = None /\ recall = None /\ precision = None /\ rr = None /\ hitRate = None
    BY <1>1 DEF Ndcg, Recall, Precision, ReciprocalRank, HitRate
  <2>2. all = {None}
    BY <2>1
  <2> HIDE DEF ndcg, recall, precision, rr, hitRate
  <2>3. /\ None \in {ndcg, recall, precision, rr, hitRate}
        /\ {ndcg, recall, precision, rr, hitRate} = {None}
    BY <2>2
  <2> QED BY <2>3 DEF IdealIsBest, ndcg, recall, precision, rr, hitRate
<1>2. CASE U # {}
  <2>1. /\ dcg \in Nat /\ idcg \in Nat /\ dcg <= idcg /\ (dcg = idcg <=> level)
    <3> HIDE DEF n
    <3> QED BY <1>0, DcgAtMostIdeal
  <2>2. /\ hits \in Nat /\ hits <= k /\ hits <= relevant /\ relevant \in Nat
        /\ hits = 0 <=> H = {}
    <3>1. relevant \in Nat
      BY IdealIs
    <3> HIDE DEF n
    <3> QED BY <1>0, <3>1, HitsIn
  <2>3. /\ ndcg = <<dcg, idcg>> /\ recall = <<hits, relevant>> /\ precision = <<hits, k>>
        /\ hitRate = IF H # {} THEN <<1, 1>> ELSE <<0, 1>>
    BY <1>2 DEF Ndcg, Recall, Precision, HitRate
  <2>4. \E m \in Nat \ {0} : rr = <<0, 1>> \/ rr = <<1, m>>
    <3>1. \/ rr = <<0, 1>>
          \/ \E m \in Nat \ {0} : rr = <<1, m>>
      <4> HIDE DEF n, rr
      <4> QED BY <1>0, <1>2, ReciprocalIs DEF rr
    <3> QED BY <3>1
  <2>5. rr[1] = 0 <=> Recall(r, j, n)[1] = 0
    <3> DEFINE kept == Retrieved(r, n) \cap U
               found == {i \in Dedupe(r) : r[i] \in U}
    <3>1. Recall(r, j, n) = <<Cardinality(kept), relevant>>
      BY <1>2 DEF Recall
    <3>2. Cardinality(kept) = 0 <=> kept = {}
      <4> HIDE DEF n
      <4> QED BY <1>0, HitsIn
    <3>3. /\ found = {} => rr = <<0, 1>>
          /\ found # {} => \E m \in Nat \ {0} : rr = <<1, m>>
          /\ found = {} <=> kept = {}
      <4> HIDE DEF n
      <4> QED BY <1>0, <1>2, ReciprocalIs
    <3> HIDE DEF kept, found, rr
    <3>4. rr[1] = 0 <=> found = {}
      BY <3>3
    <3> QED BY <3>1, <3>2, <3>3, <3>4
  <2>6. ASSUME NEW i \in 2 .. n PROVE again(i) = ndcg
    <3> DEFINE h == [x \in 1 .. n |-> IF x < i THEN x ELSE x + 1]
               more == InsertAt(r, i, r[1])
    <3>1. Again(r, n, more, i, h)
      BY AgainIs
    <3>2. Dcg(more, j, k) = dcg
      <4> HIDE DEF h, more, n
      <4> QED BY <3>1, DcgAgain
    <3> QED BY <3>2 DEF Ndcg
  <2> HIDE DEF n, H, ndcg, recall, precision, rr, hitRate, dcg, idcg, hits, relevant, best,
               level, again
  <2>7. \A rate \in all : rate \in Nat \X Nat /\ rate[1] <= rate[2]
    <3>1. ndcg \in Nat \X Nat /\ ndcg[1] <= ndcg[2]
      BY <2>1, <2>3
    <3>2. recall \in Nat \X Nat /\ recall[1] <= recall[2]
      BY <2>2, <2>3
    <3>3. precision \in Nat \X Nat /\ precision[1] <= precision[2]
      BY <2>2, <2>3
    <3>4. hitRate \in Nat \X Nat /\ hitRate[1] <= hitRate[2]
      BY <2>3
    <3>5. rr \in Nat \X Nat /\ rr[1] <= rr[2]
      <4>1. PICK m \in Nat \ {0} : rr = <<0, 1>> \/ rr = <<1, m>>
        BY <2>4
      <4> QED BY <4>1
    <3> QED BY <3>1, <3>2, <3>3, <3>4, <3>5
  <2>8. None \notin all /\ all # {None}
    <3>1. None \notin all
      BY <2>7 DEF EvaluationAssumption
    <3> QED BY <3>1
  <2>9. ndcg[1] = ndcg[2] <=> level
    BY <2>1, <2>3
  <2>10. \A i \in 2 .. n : AtMostRate(again(i), ndcg)
    <3> TAKE i \in 2 .. n
    <3>1. ndcg[1] * ndcg[2] \in Nat
      BY <2>1, <2>3
    <3>2. again(i) = ndcg
      BY <2>6
    <3> QED BY <3>1, <3>2 DEF AtMostRate
  <2> HIDE DEF all
  <2>11. /\ None \in all <=> all = {None}
         /\ None \notin all =>
              /\ \A rate \in all : rate[1] <= rate[2]
              /\ ndcg[1] = ndcg[2] <=> level
              /\ (rr[1] = 0 <=> Recall(r, j, n)[1] = 0)
              /\ \A i \in 2 .. n : AtMostRate(again(i), ndcg)
    BY <2>5, <2>7, <2>8, <2>9, <2>10
  <2> QED BY <2>11 DEF IdealIsBest, n, ndcg, recall, precision, rr, hitRate, best, level,
                       again, all
<1> QED BY <1>1, <1>2

(* The inputs of the gate, of the sweep and of the metrics.                *)
MeasuredInv ==
  /\ algorithm = "Gate" => input \in Seq(2 .. 27)
  /\ algorithm = "Sweep" => input \in Seq(2 .. 19)
  /\ algorithm = "Evaluation" => input \in Seq({d1, d2, d3})

LEMMA Measured == Spec => []MeasuredInv
<1>1. Init => MeasuredInv
  BY DEF Init, MeasuredInv
<1>2. MeasuredInv /\ [Next]_<<algorithm, input>> => MeasuredInv'
  <2> SUFFICES ASSUME MeasuredInv, [Next]_<<algorithm, input>> PROVE MeasuredInv'
    OBVIOUS
  <2>1. CASE UNCHANGED <<algorithm, input>>
    BY <2>1 DEF MeasuredInv
  <2>2. ASSUME NEW last \in Nat \ {0}, NEW item \in Onwards(last) \ {1},
               input \in Seq(2 .. last)
        PROVE  item \in 2 .. last
    <3>1. CASE input = <<>>
      BY <2>2, <3>1 DEF Onwards
    <3>2. CASE input # <<>>
      <4>1. item \in Last(input) .. last
        BY <2>2, <3>2 DEF Onwards
      <4>2. Last(input) \in 2 .. last
        BY <2>2, <3>2 DEF Last
      <4> QED BY <4>1, <4>2
    <3> QED BY <3>1, <3>2
  <2>3. ASSUME NEW item \in Inputs, input' = Append(input, item), UNCHANGED algorithm
        PROVE  MeasuredInv'
    <3>1. CASE algorithm = "Gate"
      <4>1. item \in Onwards(2 * Len(Changes) + 1) \ {1}
        BY <2>3, <3>1 DEF Inputs
      <4>2. 2 * Len(Changes) + 1 = 27
        BY DEF Changes
      <4>3. item \in Onwards(27) \ {1} /\ 27 \in Nat \ {0} /\ input \in Seq(2 .. 27)
        BY <3>1, <4>1, <4>2 DEF MeasuredInv
      <4>4. item \in 2 .. 27
        BY <2>2, <4>3
      <4> QED BY <2>3, <3>1, <4>3, <4>4 DEF MeasuredInv
    <3>2. CASE algorithm = "Sweep"
      <4>1. item \in Onwards(2 * Len(SweptScores) + 1) \ {1}
        BY <2>3, <3>2 DEF Inputs
      <4>2. Len(SweptScores) = 9
        BY DEF SweptScores
      <4>3. item \in Onwards(19) \ {1} /\ 19 \in Nat \ {0} /\ input \in Seq(2 .. 19)
        BY <3>2, <4>1, <4>2 DEF MeasuredInv
      <4>4. item \in 2 .. 19
        BY <2>2, <4>3
      <4> QED BY <2>3, <3>2, <4>3, <4>4 DEF MeasuredInv
    <3>3. CASE algorithm = "Evaluation"
      <4>1. item \in {d1, d2, d3}
        BY <2>3, <3>3 DEF Inputs
      <4> QED BY <2>3, <3>3, <4>1 DEF MeasuredInv
    <3> QED BY <2>3, <3>1, <3>2, <3>3 DEF MeasuredInv
  <2> QED BY <2>1, <2>3 DEF Next
<1> QED BY <1>1, <1>2, PTL DEF Spec

LEMMA AsScored ==
  ASSUME AlgorithmsAssumption, NEW m \in 2 .. 27
  PROVE  Compared(Scored(m))
<1> DEFINE n == m \div 2
           q == Scored(m)
<1>1. n \in 1 .. 13
  OBVIOUS
<1>2. ClassOf(m) \in Classes
  BY DEF ClassOf, AlgorithmsAssumption
<1>3. q = [class |-> ClassOf(m), before |-> Changes[n][1], after |-> Changes[n][2]]
  BY DEF Scored
<1>4. /\ q.class = ClassOf(m)
      /\ q.before = Changes[n][1] /\ q.after = Changes[n][2]
  BY <1>3
<1> HIDE DEF q, n
<1>5. \/ Changes[n][1] = None /\ Changes[n][2] = None
      \/ Changes[n][1] \in Int /\ (Changes[n][2] \in Int \/ Changes[n][2] = Absent)
  <2>1. \/ n = 1 \/ n = 2 \/ n = 3 \/ n = 4 \/ n = 5 \/ n = 6 \/ n = 7 \/ n = 8 \/ n = 9
        \/ n = 10 \/ n = 11 \/ n = 12 \/ n = 13
    BY <1>1
  <2> QED BY <2>1 DEF Changes
<1> QED BY <1>2, <1>4, <1>5 DEF Compared, q

LEMMA AsSwept ==
  ASSUME AlgorithmsAssumption, NEW m \in 2 .. 19
  PROVE  Tried(Swept(m))
<1> DEFINE n == m \div 2
<1>1. n \in 1 .. 9
  OBVIOUS
<1>2. ClassOf(m) \in Classes
  BY DEF ClassOf, AlgorithmsAssumption
<1> HIDE DEF n
<1>3. SweptScores[n] = None \/ SweptScores[n] \in [Alphas -> Int]
  <2>1. CASE n = 9
    BY <2>1 DEF SweptScores
  <2>2. CASE n # 9
    <3>1. SweptScores[n] = [alpha \in Alphas |-> IF alpha \in FoundBy[n] THEN 1 ELSE 0]
      BY <1>1, <2>2 DEF SweptScores
    <3> QED BY <3>1
  <2> QED BY <2>1, <2>2
<1> QED BY <1>2, <1>3 DEF Tried, Swept, n

(* Whatever the judgements, no ranking beats the ideal one, only one that  *)
(* grades the same at every rank of the cutoff draws level, and repeating  *)
(* a document gains nothing; however many queries a run has, the gate      *)
(* fails when all of a class dropped and passes what is no worse; and the  *)
(* sweep never measures the best alpha per class behind a fixed one.       *)
THEOREM RegressionsAreAlwaysCaught ==
  AlgorithmsAssumption /\ Spec => []RegressionsAreCaught
<1> SUFFICES ASSUME AlgorithmsAssumption PROVE Spec => []RegressionsAreCaught
  OBVIOUS
<1>0. GateAssumption /\ EvaluationAssumption /\ 1 .. 3 \subseteq DOMAIN Discount
  BY DEF AlgorithmsAssumption
<1>1. MeasuredInv => RegressionsAreCaught
  <2> SUFFICES ASSUME MeasuredInv PROVE RegressionsAreCaught
    BY DEF RegressionsAreCaught
  <2>1. ASSUME algorithm = "Evaluation", NEW judgements \in Judgements, NEW k \in 1 .. 3
        PROVE  IdealIsBest(input, judgements, k)
    <3>1. input \in Seq({d1, d2, d3})
      BY <2>1 DEF MeasuredInv
    <3>2. Judged(judgements)
      <4>1. DOMAIN judgements \in {{d1, d2}, {d1, d2, d3}}
            /\ \A d \in DOMAIN judgements : judgements[d] \in 0 .. 2
        BY <2>1 DEF Judgements
      <4>2. IsFiniteSet({d1, d2}) /\ IsFiniteSet({d1, d2, d3})
        <5>1. IsFiniteSet({}) /\ {d1, d2} = ({} \cup {d1}) \cup {d2}
              /\ {d1, d2, d3} = {d1, d2} \cup {d3}
          BY FS_EmptySet
        <5>2. IsFiniteSet({} \cup {d1})
          BY <5>1, FS_AddElement
        <5>3. IsFiniteSet({d1, d2})
          BY <5>1, <5>2, FS_AddElement
        <5>4. IsFiniteSet({d1, d2, d3})
          BY <5>1, <5>3, FS_AddElement
        <5> QED BY <5>3, <5>4
      <4> QED BY <4>1, <4>2 DEF Judged
    <3>3. k \in Nat \ {0} /\ 1 .. k \subseteq DOMAIN Discount
      BY <1>0
    <3> QED BY <1>0, <3>1, <3>2, <3>3, IdealAlwaysBest
  <2>2. ASSUME algorithm = "Gate"
        PROVE  CollapsesFail([i \in DOMAIN input |-> Scored(input[i])])
    <3> DEFINE queries == [i \in DOMAIN input |-> Scored(input[i])]
    <3>1. /\ Len(input) \in Nat /\ DOMAIN queries = 1 .. Len(input)
          /\ \A i \in 1 .. Len(input) : Compared(queries[i])
      <4>1. input \in Seq(2 .. 27)
        BY <2>2 DEF MeasuredInv
      <4>2. ASSUME NEW i \in 1 .. Len(input) PROVE Compared(Scored(input[i]))
        <5> DEFINE Numbers == 2 .. 27
        <5>1. input[i] \in Numbers
          <6>1. input \in Seq(Numbers)
            BY <4>1
          <6> HIDE DEF Numbers
          <6> QED BY <6>1
        <5> QED BY <5>1, AsScored
      <4> QED BY <4>1, <4>2
    <3> HIDE DEF queries
    <3>2. CollapsesFail(queries)
      BY <1>0, <3>1, CollapsesAlwaysFail
    <3> QED BY <3>2 DEF queries
  <2>3. ASSUME algorithm = "Sweep"
        PROVE  DynamicNeverLoses([i \in DOMAIN input |-> Swept(input[i])])
    <3> DEFINE queries == [i \in DOMAIN input |-> Swept(input[i])]
    <3>1. /\ Len(input) \in Nat /\ DOMAIN queries = 1 .. Len(input)
          /\ \A i \in 1 .. Len(input) : Tried(queries[i])
      <4>1. input \in Seq(2 .. 19)
        BY <2>3 DEF MeasuredInv
      <4>2. ASSUME NEW i \in 1 .. Len(input) PROVE Tried(Swept(input[i]))
        <5> DEFINE Numbers == 2 .. 19
        <5>1. input[i] \in Numbers
          <6>1. input \in Seq(Numbers)
            BY <4>1
          <6> HIDE DEF Numbers
          <6> QED BY <6>1
        <5> QED BY <5>1, AsSwept
      <4> QED BY <4>1, <4>2
    <3> HIDE DEF queries
    <3>2. DynamicNeverLoses(queries)
      BY <1>0, <3>1, DynamicNeverBehind
    <3> QED BY <3>2 DEF queries
  <2> QED BY <2>1, <2>2, <2>3 DEF RegressionsAreCaught
<1> QED BY <1>1, Measured, PTL

-----------------------------------------------------------------------------

(* A price in any of the styles feeds use is read as written, but for the  *)
(* two shapes named in Normalise, however many digits it has:              *)
(* _normalise_number_text and parse_price of app/ingestion/normalize.py.   *)
THEOREM PricesAlwaysSurvive == Spec => []PricesSurvive
<1>1. InputsInv => PricesSurvive
  <2> SUFFICES ASSUME InputsInv, algorithm = "Normalise", input # <<>>,
                      NEW fraction \in Fractions, NEW style \in Styles
               PROVE  NothingMisread([whole |-> input, fraction |-> fraction], style)
    BY DEF PricesSurvive
  <2>1. input \in Seq({"1", "2"})
    BY DEF InputsInv
  <2>2. fraction \in Seq({"0", "1", "5"})
    <3>1. /\ <<>> \in Seq({"0", "1", "5"}) /\ <<"5">> \in Seq({"0", "1", "5"})
          /\ <<"5", "0">> \in Seq({"0", "1", "5"}) /\ <<"5", "0", "1">> \in Seq({"0", "1", "5"})
      OBVIOUS
    <3>2. QED
      BY <3>1 DEF Fractions
  <2>3. QED
    BY <2>1, <2>2, NeverMisread
<1>2. QED
  BY <1>1, InputsTyped, PTL

-----------------------------------------------------------------------------
(* The counts the bands are checked with are numbers.                      *)
LEMMA CountsAre ==
  ASSUME NEW prices \in Seq(Nat \cup {None}),
         NEW counts, counts = Only(prices, {i \in DOMAIN prices : prices[i] \notin {None, 0}})
  PROVE  counts \in Seq(Nat)
<1> DEFINE I == {i \in DOMAIN prices : prices[i] \notin {None, 0}}  n == Cardinality(I)
<1>1. \A i \in I : prices[i] \in Nat
  BY Element
<1>2. I \in SUBSET (DOMAIN prices) /\ counts = Only(prices, I)
  OBVIOUS
<1> HIDE DEF I
<1>3. /\ counts \in Seq(Nat \cup {None}) /\ Len(counts) = n
      /\ \E from \in PlacesIn(n, I) :
           /\ \A k \in 1 .. n : counts[k] = prices[from[k]]
           /\ \A i \in I : \E k \in 1 .. n : from[k] = i
  BY ONLY prices \in Seq(Nat \cup {None}), <1>2, OnlyKeeps
<1> HIDE DEF n
<1>4. PICK from \in PlacesIn(n, I) : \A k \in 1 .. n : counts[k] = prices[from[k]]
  BY <1>3
<1>5. \A k \in 1 .. n : counts[k] \in Nat
  BY <1>1, <1>4 DEF PlacesIn
<1>6. QED
  BY <1>3, <1>5

(* What the quality report flags, of any number of catalogs and prices: no *)
(* rate is flagged that two share, no far-out price is the end of a smooth *)
(* spread or one of a cluster, the bands find one category and spare many  *)
(* even ones, and a sample skips evenly: duplicate_rate_flags,             *)
(* detect_anomalies and even_sample of app/ingestion/quality.py.           *)
THEOREM SuspectsAreAlwaysFlagged ==
  AlgorithmsAssumption /\ Spec => []SuspectsAreFlagged
<1> SUFFICES ASSUME AlgorithmsAssumption PROVE Spec => []SuspectsAreFlagged
  OBVIOUS
<1>1. None \notin Int
  BY DEF AlgorithmsAssumption, RetrievalAssumption
<1>2. InputsInv => SuspectsAreFlagged
  <2> SUFFICES ASSUME InputsInv PROVE SuspectsAreFlagged
    OBVIOUS
  <2>1. ASSUME algorithm = "Quality" PROVE OutliersOnly(input)
    <3>1. input \in Seq(0 .. 2)
      BY <2>1 DEF InputsInv
    <3>2. input \in Seq(Nat)
      BY <3>1
    <3>3. QED
      BY <3>2, OnlyOutliers
  <2>2. ASSUME algorithm = "Anomalies",
               NEW prices, prices = [i \in DOMAIN input |-> Prices[input[i]]],
               NEW counts, counts = Only(prices, {i \in DOMAIN prices : prices[i] \notin {None, 0}})
        PROVE  /\ \A ratio \in {2, 4} : FarOutIsFair(prices, ratio)
               /\ BandsAreFair(counts) /\ BandsAreFair(counts \o counts)
               /\ \A n \in 0 .. 10 : SampleIsEven(Len(input), n)
    <3>1. input \in Seq(1 .. Len(Prices))
      BY <2>2 DEF InputsInv
    <3>2. \A k \in 1 .. Len(Prices) : Prices[k] \in Nat \cup {None}
      BY DEF Prices
    <3>3. prices \in Seq(Nat \cup {None})
      BY <2>2, <3>1, <3>2
    <3>4. \A ratio \in {2, 4} : FarOutIsFair(prices, ratio)
      BY <1>1, <3>3, FarOutFair
    <3>5. counts \in Seq(Nat)
      BY <2>2, <3>3, CountsAre
    <3>6. counts \o counts \in Seq(Nat)
      BY <3>5
    <3>7. BandsAreFair(counts) /\ BandsAreFair(counts \o counts)
      BY <3>5, <3>6, BandsFair
    <3>8. Len(input) \in Nat
      BY <3>1
    <3>9. \A n \in 0 .. 10 : SampleIsEven(Len(input), n)
      BY <3>8, SampleEven
    <3>10. QED
      BY <3>4, <3>7, <3>9
  <2>3. QED
    BY <2>1, <2>2 DEF SuspectsAreFlagged
<1>3. QED
  BY <1>2, InputsTyped, PTL

=============================================================================
