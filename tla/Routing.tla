------------------------------ MODULE Routing -------------------------------
(***************************************************************************)
(* The two lexical routers: classify of app/retrieval/alpha_router.py,     *)
(* which chooses the hybrid alpha of a query, and classify_complexity of   *)
(* app/llm/model_router.py with the request agent of app/llm/graph.py      *)
(* builds from it, which choose the model of each round of a chat turn.    *)
(*                                                                         *)
(* A query is the sequence of its words, each the set of the patterns it   *)
(* matches, and whether a part of it is quoted, it is a question, or it is *)
(* blank: punctuation alone makes no word.  A score is counted in tenths   *)
(* of the code's and, because an identifier's weight is a share of the     *)
(* words, multiplied by the number of words.                               *)
(***************************************************************************)
EXTENDS Python, Naturals, FiniteSets, SequencesExt

CONSTANTS
  LongMessageTokens,    \* _LONG_MESSAGE_TOKENS
  EscalateAfterRounds,  \* ESCALATE_AFTER_ROUNDS
  MaxToolCallRounds     \* MAX_TOOL_CALL_ROUNDS

RoutingAssumption ==
  LongMessageTokens \in Nat /\ EscalateAfterRounds \in Nat /\ MaxToolCallRounds \in Nat \ {0}

Patterns == {"identifier", "caps", "digit", "measurement", "attribute",
             "exploratory", "need", "context", "comparison", "join"}

(* In the order in which max meets them.                                   *)
QueryClass == <<"exploratory", "attribute", "identifier">>

Words(query, pattern) == {i \in DOMAIN query.words : pattern \in query.words[i]}
Has(query, pattern) == Words(query, pattern) # {}
Some(holds, points) == IF holds THEN points ELSE 0
Size(query) == IF query.words = <<>> THEN 1 ELSE Len(query.words)
AtMostThree(n) == IF n > 3 THEN 3 ELSE n

HasIdentifierShapedToken(query) == Has(query, "identifier")

(* Mutant: a short query with no intent language leans to identifier, the  *)
(* rule that buried the refrigerators.                                     *)
IdentifierScoreOfShort(query) ==
  LET n == Size(query)
  IN Some(Has(query, "identifier"), 25 * Cardinality(Words(query, "identifier")) + 10 * n)
     + Some(query.quoted, 10 * n) + Some(Has(query, "caps"), 5 * n)
     + Some(n <= 3 /\ ~Has(query, "exploratory"), 10 * n)

IdentifierScore(query) ==
  LET n == Size(query)
  IN Some(Has(query, "identifier"), 25 * Cardinality(Words(query, "identifier")) + 10 * n)
     + Some(query.quoted, 10 * n) + Some(Has(query, "caps"), 5 * n)

AttributeScore(query) ==
  LET n == Len(query.words)
  IN Size(query) * (Some(Has(query, "measurement"), 18)
                    + 7 * AtMostThree(Cardinality(Words(query, "attribute")))
                    + Some(n > 3 /\ n <= 8, 5))

ExploratoryScore(query) ==
  LET n == Len(query.words)
  IN Size(query) * (Some(Has(query, "exploratory"), 20) + Some(Has(query, "need"), 20)
                    + Some(Has(query, "context"), 20) + Some(query.question, 8)
                    + Some(n > 8, 8) + Some(~Has(query, "digit") /\ n >= 4, 4))

Classify(query) ==
  LET scores == <<ExploratoryScore(query), AttributeScore(query), IdentifierScore(query)>>
      best == CHOOSE i \in 1..3 : \A k \in 1..3 : scores[k] <= scores[i] /\ (k < i => scores[k] < scores[i])
  IN IF query.blank THEN "exploratory"
     ELSE IF scores[best] = 0 THEN "attribute"
     ELSE QueryClass[best]

-----------------------------------------------------------------------------
(* classify_complexity.                                                    *)
ComplexText(query) ==
  \/ Has(query, "comparison")
  \/ Cardinality(Words(query, "join")) >= 2
  \/ Len(query.words) >= LongMessageTokens

ClassifyComplexity(query, rounds) ==
  IF rounds >= EscalateAfterRounds \/ ComplexText(query) THEN "reasoning" ELSE "fast"

(* agent: the eval's override, None in production, wins over the router.   *)
Tier(query, rounds, forced) ==
  IF forced # None THEN forced ELSE ClassifyComplexity(query, rounds)

Tools == {"search_catalog", "get_catalog_stats", "get_product_detail"}

(* The tools are left out, not discouraged, once the rounds are spent.     *)
Request(query, rounds, forced) ==
  LET tier == Tier(query, rounds, forced)
      spent == rounds >= MaxToolCallRounds
  IN [model |-> tier,
      effort |-> IF tier = "reasoning" THEN "high" ELSE None,
      nudged |-> spent,
      tools |-> IF spent THEN {} ELSE Tools]

(* What the rounds of a turn ask for, each with one tool call before it.   *)
TurnRequests(query, forced) ==
  [n \in 1 .. MaxToolCallRounds + 1 |-> Request(query, n - 1, forced)]

(* A turn never goes back to the cheaper model or gets its tools back, its *)
(* last request has none, and what the text says decides every request     *)
(* that has any: going round after round alone escalates too late to       *)
(* search again.                                                           *)
TurnsEscalate(query) ==
  \A forced \in {None, "fast", "reasoning"} :
    LET requests == TurnRequests(query, forced)
    IN /\ \A i, k \in DOMAIN requests :
            i < k => /\ requests[i].model = "reasoning" => requests[k].model = "reasoning"
                     /\ requests[k].tools \subseteq requests[i].tools
       /\ Last(requests).tools = {} /\ requests[1].tools # {}
       /\ \A i \in DOMAIN requests :
            forced = None /\ requests[i].tools # {} =>
              (requests[i].model = "reasoning" <=> ComplexText(query))

-----------------------------------------------------------------------------
Intent(query) == \E p \in {"exploratory", "need", "context"} : Has(query, p)
Constrained(query) == Has(query, "attribute") \/ Has(query, "measurement")

(* Nothing of it is a signal, and there is too little of it to be one.     *)
Silent(query) ==
  /\ Len(query.words) <= 3 /\ ~query.quoted /\ ~query.question
  /\ \A p \in Patterns \ {"digit", "comparison", "join"} : ~Has(query, p)

(* A product code decides the class when nothing else speaks, however many *)
(* words surround it; without a code, capitals or quotes the class is      *)
(* never identifier, however short the query (the docstrings that say      *)
(* otherwise are older than the rule's removal); intent decides over the   *)
(* mere shape of a query; and where nothing speaks, as in punctuation, the *)
(* class is the safe middle.                                               *)
CluesDecide(query) ==
  /\ Has(query, "identifier") /\ ~Intent(query) /\ ~Constrained(query) /\ ~query.question
       => Classify(query) = "identifier"
  /\ ~Has(query, "identifier") /\ ~Has(query, "caps") /\ ~query.quoted
       => Classify(query) # "identifier"
  /\ Intent(query) /\ ~Constrained(query) /\ ~Has(query, "identifier")
       => Classify(query) = "exploratory"
  /\ Silent(query) /\ ~query.blank => Classify(query) = "attribute"

=============================================================================
