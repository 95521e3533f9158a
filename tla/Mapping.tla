------------------------------ MODULE Mapping -------------------------------
(***************************************************************************)
(* How a row of a feed becomes a product: FeedAdapter._map and ParseStats  *)
(* of app/ingestion/adapters/base.py over the field parsers of             *)
(* app/ingestion/normalize.py and the constraints of app/models/product.py.*)
(*                                                                         *)
(* A text cell is a word, markup without text, or None; a price is the     *)
(* number found in it and the currency words it is written with; a rating  *)
(* is what stands before and after its slash; a category path is the       *)
(* sequence of its parts and separators.  A rating is counted in           *)
(* thousandths.  A number of a JSON feed, and a rating even as text, may   *)
(* not be finite.  original_price goes the way of price.                   *)
(***************************************************************************)
EXTENDS Python, Integers, FiniteSetsExt, SequencesExt

CONSTANTS
  Unreadable,  \* text no parser makes anything of
  NotANumber,
  Infinite

(* clean_text: markup alone leaves nothing.                                *)
Markup == {"<br>", "&nbsp;"}
CleanText(cell) == IF cell \in Markup \cup {None} THEN "" ELSE cell
OrNone(text) == IF text = "" THEN None ELSE text

-----------------------------------------------------------------------------
(* _CURRENCY_TOKENS, the signs by name, with their lengths.                *)
CurrencyTokens ==
  <<[token |-> "rupee", size |-> 1, code |-> "INR"], [token |-> "rs.", size |-> 3, code |-> "INR"],
    [token |-> "rs", size |-> 2, code |-> "INR"], [token |-> "inr", size |-> 3, code |-> "INR"],
    [token |-> "us$", size |-> 3, code |-> "USD"], [token |-> "usd", size |-> 3, code |-> "USD"],
    [token |-> "$", size |-> 1, code |-> "USD"], [token |-> "pound", size |-> 1, code |-> "GBP"],
    [token |-> "gbp", size |-> 3, code |-> "GBP"], [token |-> "euro", size |-> 1, code |-> "EUR"],
    [token |-> "eur", size |-> 3, code |-> "EUR"], [token |-> "yen", size |-> 1, code |-> "JPY"],
    [token |-> "jpy", size |-> 3, code |-> "JPY"], [token |-> "aed", size |-> 3, code |-> "AED"]>>

(* The tokens inside a word of a price: a token is found within any word.  *)
Inside(word) ==
  CASE word = "rs." -> {"rs.", "rs"}
    [] word = "us$" -> {"us$", "$"}
    [] word = "dollars" -> {"rs"}
    [] OTHER -> {word}

Longer(a, b) == a.size > b.size

DetectCurrency(words) ==
  LET found == SelectSeq(CurrencyTokens, LAMBDA t : \E w \in words : t.token \in Inside(w))
      first == CHOOSE i \in DOMAIN found :
                 \A k \in DOMAIN found : Longer(found[i], found[k])
                                         \/ (~Longer(found[k], found[i]) /\ i <= k)
  IN IF found = <<>> THEN None ELSE found[first].code

-----------------------------------------------------------------------------
ParsePrice(cell) ==
  IF cell # None /\ cell.number \in Nat \cup {Infinite} THEN cell.number ELSE None

(* The comparison with zero, outside the try.                              *)
PriceRaises(cell) == cell # None /\ cell.number = NotANumber

(* parse_int: a sign is kept.                                              *)
ParseInt(cell) == IF cell \in Int THEN cell ELSE None

(* int() of an infinity, outside the try.                                  *)
IntRaises(cell) == cell = Infinite

(* Mutant: above five, it must have been out of ten.                       *)
ScaleGuessed(cell, source_scale) == IF cell.value > 5 THEN 10 ELSE source_scale

(* The scale is the one written after the slash, or the source's.          *)
Scale(cell, source_scale) ==
  IF cell.over \in (Nat \ {0}) \cup {Infinite} THEN cell.over ELSE source_scale

(* parse_rating: a scale of zero leaves the slash in the text; an infinite *)
(* one divides all to nothing, but for the infinite.                       *)
ParseRating(cell, source_scale) ==
  IF cell = None \/ cell.value \in {Unreadable, NotANumber} \/ cell.over \in {0, NotANumber}
  THEN None
  ELSE LET scale == Scale(cell, source_scale)
       IN IF scale = Infinite THEN IF cell.value = Infinite THEN NotANumber ELSE 0
          ELSE IF cell.value = Infinite THEN 5000
          ELSE (Max({0, Min({cell.value, scale})}) * 5000) \div scale

ParseBool(cell, default) ==
  LET text == CleanText(cell)
  IN IF text \in {"yes", "in stock"} THEN TRUE
     ELSE IF text \in {"no", "sold out"} THEN FALSE ELSE default

-----------------------------------------------------------------------------
(* _CATEGORY_SEPARATORS, in the order in which they are tried.             *)
Separators == <<">>", "->", "guillemet", ">", "|", "/", "backslash">>

SplitAt(text, separator) ==
  LET parts == FoldLeft(LAMBDA out, token :
                          IF token = separator THEN Append(out, <<>>)
                          ELSE Append(Front(out), Append(Last(out), token)),
                        <<(<<>>)>>, text)
  IN SelectSeq(parts, LAMBDA part : part # <<>>)

(* split_categories: at the first of the separators that occurs, alone.    *)
SplitCategories(text) ==
  LET held == {i \in DOMAIN Separators : Separators[i] \in ToSet(text)}
  IN IF held # {} THEN SplitAt(text, Separators[Min(held)])
     ELSE IF text = <<>> THEN <<>> ELSE <<text>>

-----------------------------------------------------------------------------
(* ColumnMapping: the columns a source has no name for read as None.       *)
Column(row, mapping, field) == IF field \in mapping.columns THEN row[field] ELSE None

Rejected(reason) == [error |-> reason]
IsRejected(result) == "error" \in DOMAIN result

(* An explicit column, what is known of the source, and the price's words. *)
CurrencyOf(row, mapping) ==
  LET written == OrNone(CleanText(Column(row, mapping, "currency")))
  IN IF written # None THEN written
     ELSE IF mapping.default_currency # None THEN mapping.default_currency
     ELSE IF row.price # None THEN DetectCurrency(row.price.words) ELSE None

(* Product's own constraints, of what _map builds.                         *)
Valid(product) ==
  /\ product.price # Infinite
  /\ product.rating # None => product.rating \in 0 .. 5000
  /\ product.review_count # None => product.review_count >= 0

Map(row, mapping) ==
  LET sku == OrNone(CleanText(row.sku))
      title == CleanText(row.title)
      product ==
        [sku |-> sku, title |-> title,
         category_path |-> SplitCategories(row.category),
         price |-> ParsePrice(row.price), currency |-> CurrencyOf(row, mapping),
         in_stock |-> IF "in_stock" \in mapping.columns
                      THEN ParseBool(row.in_stock, mapping.default_in_stock)
                      ELSE mapping.default_in_stock,
         rating |-> ParseRating(Column(row, mapping, "rating"), mapping.rating_scale),
         review_count |-> ParseInt(Column(row, mapping, "review_count"))]
  IN IF sku = None THEN Rejected("missing or empty SKU")
     ELSE IF title = "" THEN Rejected("missing or empty title")
     ELSE IF PriceRaises(row.price) THEN Rejected("InvalidOperation")
     ELSE IF IntRaises(Column(row, mapping, "review_count")) THEN Rejected("OverflowError")
     ELSE IF ~Valid(product) THEN Rejected("ValidationError")
     ELSE product

-----------------------------------------------------------------------------
(* What no field can hold: a price or a count that is not finite, a count  *)
(* below zero, one infinity over another.                                  *)
Unfit(row, mapping) ==
  LET count == Column(row, mapping, "review_count")
      rating == Column(row, mapping, "rating")
  IN \/ row.price # None /\ row.price.number \in {NotANumber, Infinite}
     \/ count = Infinite
     \/ ParseInt(count) # None /\ count < 0
     \/ rating # None /\ rating.value = Infinite /\ rating.over = Infinite

(* "One malformed row must never abort": a row is lost for want of a SKU   *)
(* or a title, or for an unfit number, and for nothing else.               *)
LostForCause(row, mapping) ==
  IsRejected(Map(row, mapping)) <=>
    CleanText(row.sku) = "" \/ CleanText(row.title) = "" \/ Unfit(row, mapping)

(* What cannot be read but is not unfit costs its own column only: the     *)
(* others of the row are as they would be beside a readable one.           *)
Ruined ==
  [rating |-> {None, [value |-> NotANumber, over |-> None], [value |-> 9, over |-> NotANumber]},
   review_count |-> {None, Unreadable, NotANumber},
   in_stock |-> {"???"}, category |-> {<<>>}]

CostsItsColumn(row, mapping) ==
  LET product == Map(row, mapping)
  IN ~IsRejected(product) =>
       \A field \in DOMAIN Ruined : \A cell \in Ruined[field] :
         LET other == Map([row EXCEPT ![field] = cell], mapping)
             own == IF field = "category" THEN "category_path" ELSE field
         IN /\ ~IsRejected(other)
            /\ \A f \in DOMAIN product \ {own} : other[f] = product[f]

(* A rating is never above five, never made up by a guess of its scale,    *)
(* and never overtakes a better one of the same source.                    *)
RatingIsHonest(cell, scale) ==
  LET rating == ParseRating(cell, scale)
  IN rating # None =>
       /\ rating \in 0 .. 5000
       /\ cell.over = None /\ cell.value >= scale => rating = 5000
       /\ LET better == ParseRating([cell EXCEPT !.value = @ + 1], scale) IN better >= rating

(* Words of one currency are read as that; "dollars" is what holds "rs".   *)
CurrencyIsTheWords(words) ==
  LET codes == {t.code : t \in {t \in ToSet(CurrencyTokens) : t.token \in words}}
  IN "dollars" \notin words /\ Cardinality(codes) <= 1 =>
       DetectCurrency(words) = IF codes = {} THEN None ELSE CHOOSE code \in codes : TRUE

(* A path comes back as it was written unless a part of it holds its own   *)
(* separator, or one that is tried before it.                              *)
Written(parts, separator) ==
  FlattenSeq([i \in DOMAIN parts |-> IF i = 1 THEN parts[i] ELSE <<separator>> \o parts[i]])

SplitsAsWritten(parts, s) ==
  SplitCategories(Written(parts, Separators[s])) = parts <=>
    \A part \in ToSet(parts), k \in DOMAIN Separators :
      Separators[k] \in ToSet(part) => Len(parts) > 1 /\ k > s

=============================================================================
