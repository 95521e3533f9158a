---------------------------- MODULE AnswerCache ----------------------------
(***************************************************************************)
(* What the semantic cache promises its shoppers, apart from how it keeps  *)
(* its answers: a shopper is served an answer the cache has learnt for     *)
(* that tenant and a question near enough, answers may be forgotten at any *)
(* time, and a change of the catalog is settled only when every answer     *)
(* learnt before is forgotten.  Stated in app/llm/semantic_cache.py's      *)
(* docstrings and at the end of ingest in app/ingestion/pipeline.py.       *)
(***************************************************************************)
CONSTANTS
  Tenants, Questions,
  Near,       \* the pairs of questions near enough to share an answer
  Answers,    \* records with the question they answer
  None

VARIABLES
  answers,    \* the answers known for each tenant
  unsettled,  \* tenants whose catalog changed after their answers were learnt
  served      \* what a shopper is being served from the cache

vars == <<answers, unsettled, served>>

Init ==
  /\ answers = [t \in Tenants |-> {}]
  /\ unsettled = {}
  /\ served = None

Serve(t) ==
  /\ \E q \in Questions, a \in answers[t] :
       <<q, a.question>> \in Near /\ served' = [tenant |-> t, question |-> q, answer |-> a]
  /\ UNCHANGED <<answers, unsettled>>

Learn(t) ==
  /\ \E a \in Answers : answers' = [answers EXCEPT ![t] = @ \cup {a}]
  /\ UNCHANGED unsettled /\ served' = None

Forget ==
  /\ answers' \in [Tenants -> SUBSET Answers]
  /\ \A t \in Tenants : answers'[t] \subseteq answers[t]
  /\ UNCHANGED unsettled /\ served' = None

Change(t) ==
  /\ unsettled' = unsettled \cup {t}
  /\ UNCHANGED answers /\ served' = None

Settle(t) ==
  /\ answers' = [answers EXCEPT ![t] = {}]
  /\ unsettled' = unsettled \ {t}
  /\ served' = None

Next ==
  \/ \E t \in Tenants : Serve(t) \/ Learn(t) \/ Change(t) \/ Settle(t)
  \/ Forget

Spec == Init /\ [][Next]_vars

=============================================================================
