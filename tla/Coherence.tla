----------------------------- MODULE Coherence -----------------------------
(***************************************************************************)
(* The semantic cache between ingestion and chat: lookup, store and        *)
(* invalidate of app/llm/semantic_cache.py over one Redis list per tenant, *)
(* the chat turns of app/llm/graph.py that read the list, read the catalog *)
(* and store much later, and the jobs of app/ingestion/pipeline.py, here   *)
(* reduced to what module Ingestion shows of them: a job changes the       *)
(* catalog in steps and, if it completes, deletes the list at its end.     *)
(*                                                                         *)
(* The catalog is abstracted to a version, an answer to the question it is *)
(* for and the oldest version it is built from.  A conversation has one    *)
(* turn at a time; module ChatTurn has the overlapping ones.               *)
(***************************************************************************)
EXTENDS Integers, FiniteSets, Sequences, SequencesExt

CONSTANTS
  Tenants, Conversations, Jobs, Questions, None,
  TenantOf,     \* the tenant each conversation belongs to
  Asks,         \* the questions each conversation may ask
  Similarity,   \* of two questions' embeddings
  Threshold,    \* semantic_cache_threshold
  Capacity,     \* MAX_ENTRIES_PER_TENANT
  TTL,          \* TTL_SECONDS, in ticks
  MaxRounds,    \* MAX_TOOL_CALL_ROUNDS
  MaxChanges,   \* bound on the versions of a catalog
  MaxFaults     \* bound on failing calls and dropped turns

Versions == 0 .. MaxChanges

ASSUME CoherenceAssumption ==
  /\ IsFiniteSet(Conversations)
  /\ None \notin Questions \cup Versions
  /\ TenantOf \in [Conversations -> Tenants]
  /\ Asks \in [Conversations -> SUBSET Questions]
  /\ Similarity \in [Questions \X Questions -> Nat]
  /\ Threshold \in Nat
  /\ Capacity \in Nat \ {0} /\ TTL \in Nat \ {0} /\ MaxRounds \in Nat \ {0}
  /\ MaxChanges \in Nat /\ MaxFaults \in Nat

VARIABLES
  catalog,  \* Weaviate: the version of each tenant's catalog
  jobs,     \* the tenant each running job writes, None before and after
  done,     \* the jobs that ended
  owes,     \* jobs that changed a tenant's catalog since its last invalidation
  list,     \* Redis: the entries of each tenant's list, newest first
  ttl,      \* Redis: the ticks until each list expires, 0 if it never does
  pc,       \* the stage of each conversation's turn
  turn,     \* what the turn holds
  memory,   \* the versions each conversation's message history quotes
  served,   \* history: what the last step served from the cache
  cut,      \* history: tenants with a store that stopped before its expire
  faults

ingestion == <<catalog, jobs, done, owes>>
redis == <<list, ttl>>
vars == <<ingestion, redis, pc, turn, memory, served, cut, faults>>

(* outdated: an invalidation came between the read the answer is built     *)
(* from and its store, or that read was an earlier turn's.                 *)
Entry == [question : Questions, version : Versions \cup {None}, outdated : BOOLEAN]

Stage == {"idle", "lookup", "agent", "push", "trim", "expire"}

Turn == [question : Questions \cup {None}, version : Versions \cup {None},
         outdated : BOOLEAN, stats : BOOLEAN, rounds : 0 .. MaxRounds]

Blank == [question |-> None, version |-> None, outdated |-> FALSE,
          stats |-> FALSE, rounds |-> 0]

Goto(c, stage) == pc' = [pc EXCEPT ![c] = stage]

End(c) == Goto(c, "idle") /\ turn' = [turn EXCEPT ![c] = Blank]

(* Every turn of the tenant that read the catalog and has not stored yet.  *)
Overtaken(t) ==
  {c \in Conversations : /\ TenantOf[c] = t /\ pc[c] \in {"agent", "push"}
                         /\ turn[c].version # None}

-----------------------------------------------------------------------------
(* Ingestion, as far as the cache is concerned.                            *)

Write(j, t) ==
  /\ jobs[j] = t \/ (jobs[j] = None /\ j \notin done)
  /\ catalog[t] < MaxChanges
  /\ catalog' = [catalog EXCEPT ![t] = @ + 1]
  /\ jobs' = [jobs EXCEPT ![j] = t]
  /\ owes' = [owes EXCEPT ![t] = @ \cup {j}]
  /\ served' = None
  /\ UNCHANGED <<done, redis, pc, turn, memory, cut, faults>>

EndJob(j) == jobs' = [jobs EXCEPT ![j] = None] /\ done' = done \cup {j}

(* Mutant: the key of another tenant is deleted.                           *)
DeletedElsewhere(t) == [u \in Tenants |-> IF u = t THEN list[u] ELSE <<>>]

Deleted(t) == [list EXCEPT ![t] = <<>>]

(* A completed job that changed anything drops its tenant's list.          *)
Invalidate(j) ==
  /\ jobs[j] # None
  /\ list' = Deleted(jobs[j])
  /\ ttl' = [ttl EXCEPT ![jobs[j]] = 0]
  /\ owes' = [owes EXCEPT ![jobs[j]] = {}]
  /\ turn' = [c \in Conversations |->
                IF c \in Overtaken(jobs[j]) THEN [turn[c] EXCEPT !.outdated = TRUE]
                ELSE turn[c]]
  /\ cut' = cut \ {jobs[j]}
  /\ EndJob(j)
  /\ served' = None
  /\ UNCHANGED <<catalog, pc, memory, faults>>

(* A job that fails after a write skips the invalidation.                  *)
JobFails(j) ==
  /\ jobs[j] # None
  /\ EndJob(j)
  /\ served' = None
  /\ UNCHANGED <<catalog, owes, redis, pc, turn, memory, cut, faults>>

-----------------------------------------------------------------------------
(* A chat turn.                                                            *)

Begin(c, q) ==
  /\ pc[c] = "idle"
  /\ turn' = [turn EXCEPT ![c] = [Blank EXCEPT !.question = q]]
  /\ served' = None
  /\ Goto(c, "lookup")
  /\ UNCHANGED <<ingestion, redis, memory, cut, faults>>

(* Mutant: the best match, however far.                                    *)
NearestOfAll(q, entries) == DOMAIN entries

NearEnough(q, entries) ==
  {i \in DOMAIN entries : Similarity[q, entries[i].question] >= Threshold}

(* The most similar entry, the newest of equally similar ones.             *)
IsBest(i, q, entries) ==
  /\ i \in NearEnough(q, entries)
  /\ \A k \in NearEnough(q, entries) :
       LET si == Similarity[q, entries[i].question]
           sk == Similarity[q, entries[k].question]
       IN si > sk \/ (si = sk /\ i <= k)

(* A hit ends the turn; its answer is not added to the messages.           *)
Hit(c) ==
  LET entries == list[TenantOf[c]]
      q == turn[c].question
  IN /\ pc[c] = "lookup"
     /\ \E i \in DOMAIN entries :
          /\ IsBest(i, q, entries)
          /\ served' = [tenant |-> TenantOf[c], question |-> q, answer |-> entries[i]]
     /\ End(c)
     /\ UNCHANGED <<ingestion, redis, memory, cut, faults>>

Miss(c) ==
  /\ pc[c] = "lookup" /\ NearEnough(turn[c].question, list[TenantOf[c]]) = {}
  /\ Goto(c, "agent")
  /\ served' = None
  /\ UNCHANGED <<ingestion, redis, turn, memory, cut, faults>>

MayCall(c) == turn[c].rounds < MaxRounds

(* The oldest version a turn has read stays with it.                       *)
HavingRead(h, version, stats) ==
  [h EXCEPT !.rounds = @ + 1,
            !.stats = @ \/ stats,
            !.version = IF @ = None THEN version ELSE @]

(* A tool call reads the catalog as it is now; get_catalog_stats leaves    *)
(* statistics evidence behind.                                             *)
ToolCall(c) ==
  /\ pc[c] = "agent" /\ MayCall(c)
  /\ \E stats \in BOOLEAN :
       turn' = [turn EXCEPT ![c] = HavingRead(@, catalog[TenantOf[c]], stats)]
  /\ memory' = [memory EXCEPT ![c] = @ \cup {catalog[TenantOf[c]]}]
  /\ served' = None
  /\ UNCHANGED <<ingestion, redis, pc, cut, faults>>

(* What the answer is built from: this turn's reads, or anything the       *)
(* conversation still quotes, or nothing of the catalog at all.            *)
Grounds(c) ==
  {[turn[c] EXCEPT !.version = v, !.outdated = TRUE] : v \in memory[c]}
    \cup {turn[c]}

(* validate_and_store, to cache_written.                                   *)
Answer(c) ==
  /\ pc[c] = "agent"
  /\ \/ /\ turn[c].stats /\ End(c)
     \/ /\ ~ turn[c].stats /\ Goto(c, "push")
        /\ \E grounded \in Grounds(c) : turn' = [turn EXCEPT ![c] = grounded]
  /\ served' = None
  /\ UNCHANGED <<ingestion, redis, memory, cut, faults>>

-----------------------------------------------------------------------------
(* store: three calls, each with an effect of its own.                     *)

EntryOf(c) == [question |-> turn[c].question, version |-> turn[c].version,
               outdated |-> turn[c].outdated]

Pushed(c) == [list EXCEPT ![TenantOf[c]] = <<EntryOf(c)>> \o @]

Push(c) ==
  /\ pc[c] = "push"
  /\ list' = Pushed(c)
  /\ turn' = [turn EXCEPT ![c] = Blank]
  /\ Goto(c, "trim")
  /\ served' = None
  /\ UNCHANGED <<ingestion, ttl, memory, cut, faults>>

(* Mutant: LTRIM -MAX_ENTRIES_PER_TENANT -1, the other end of the list.    *)
LastEntries(entries) ==
  IF Len(entries) > Capacity
  THEN SubSeq(entries, Len(entries) - Capacity + 1, Len(entries)) ELSE entries

(* LTRIM 0 MAX_ENTRIES_PER_TENANT - 1.                                     *)
FirstEntries(entries) ==
  IF Len(entries) > Capacity THEN SubSeq(entries, 1, Capacity) ELSE entries

Trim(c) ==
  /\ pc[c] = "trim"
  /\ list' = [list EXCEPT ![TenantOf[c]] = FirstEntries(@)]
  /\ Goto(c, "expire")
  /\ served' = None
  /\ UNCHANGED <<ingestion, ttl, turn, memory, cut, faults>>

(* Mutant: EXPIRE with XX, for keys that have an expiry already.           *)
ExpiryRenewed(t) == IF ttl[t] = 0 THEN 0 ELSE TTL

(* EXPIRE sets the expiry of the whole list; a key that is not there has   *)
(* none.                                                                   *)
Expiry(t) == IF list[t] = <<>> THEN 0 ELSE TTL

Expire(c) ==
  /\ pc[c] = "expire"
  /\ ttl' = [ttl EXCEPT ![TenantOf[c]] = Expiry(TenantOf[c])]
  /\ cut' = cut \ {TenantOf[c]}
  /\ End(c)
  /\ served' = None
  /\ UNCHANGED <<ingestion, list, memory, faults>>

(* The turn ends in an error or without its client; a call that took       *)
(* effect all the same leaves what the next stage would find.              *)
Break(c) ==
  /\ pc[c] # "idle" /\ faults < MaxFaults /\ faults' = faults + 1
  /\ cut' = IF pc[c] \in {"trim", "expire"} THEN cut \cup {TenantOf[c]} ELSE cut
  /\ End(c)
  /\ served' = None
  /\ UNCHANGED <<ingestion, redis, memory>>

(* Time passes; Redis drops the lists whose time has come.                 *)
Tick ==
  /\ \E t \in Tenants : ttl[t] > 0
  /\ ttl' = [t \in Tenants |-> IF ttl[t] > 0 THEN ttl[t] - 1 ELSE 0]
  /\ list' = [t \in Tenants |-> IF ttl[t] = 1 THEN <<>> ELSE list[t]]
  /\ served' = None
  /\ UNCHANGED <<ingestion, pc, turn, memory, cut, faults>>

-----------------------------------------------------------------------------
Init ==
  /\ catalog = [t \in Tenants |-> 0]
  /\ jobs = [j \in Jobs |-> None]
  /\ done = {}
  /\ owes = [t \in Tenants |-> {}]
  /\ list = [t \in Tenants |-> <<>>]
  /\ ttl = [t \in Tenants |-> 0]
  /\ pc = [c \in Conversations |-> "idle"]
  /\ turn = [c \in Conversations |-> Blank]
  /\ memory = [c \in Conversations |-> {}]
  /\ served = None
  /\ cut = {}
  /\ faults = 0

Proceed(c) ==
  \/ Hit(c) \/ Miss(c) \/ Answer(c) \/ Push(c) \/ Trim(c) \/ Expire(c)

Next ==
  \/ \E j \in Jobs : Invalidate(j) \/ JobFails(j) \/ \E t \in Tenants : Write(j, t)
  \/ \E c \in Conversations :
       \/ Proceed(c) \/ ToolCall(c) \/ Break(c)
       \/ \E q \in Asks[c] : Begin(c, q)
  \/ Tick

Spec == Init /\ [][Next]_vars

(* Turns that have begun run on, and time passes.  No shopper has to ask,  *)
(* no job has to write or to complete.                                     *)
FairSpec ==
  /\ Spec
  /\ \A c \in Conversations : WF_vars(Proceed(c))
  /\ WF_vars(Tick)

-----------------------------------------------------------------------------
(* Every variable has its type.                                            *)
TypeOK ==
  /\ catalog \in [Tenants -> Versions]
  /\ jobs \in [Jobs -> Tenants \cup {None}]
  /\ done \in SUBSET Jobs
  /\ owes \in [Tenants -> SUBSET Jobs]
  /\ list \in [Tenants -> Seq(Entry)]
  /\ ttl \in [Tenants -> 0 .. TTL]
  /\ pc \in [Conversations -> Stage]
  /\ turn \in [Conversations -> Turn]
  /\ memory \in [Conversations -> SUBSET Versions]
  /\ served \in [tenant : Tenants, question : Questions, answer : Entry] \cup {None}
  /\ cut \in SUBSET Tenants
  /\ faults \in 0 .. MaxFaults

Stale(t, e) == e.version # None /\ e.version # catalog[t]

(* When no job owes an invalidation, a cached answer of an earlier catalog *)
(* is there for one of two reasons only: its turn read the catalog before  *)
(* the invalidation and stored after it, or its model recalled what an     *)
(* earlier turn of the conversation had read.                              *)
StaleNeedsOverlapOrRecall ==
  \A t \in Tenants : \A e \in ToSet(list[t]) :
    Stale(t, e) => owes[t] # {} \/ e.outdated

Storing(t, stages) == {c \in Conversations : TenantOf[c] = t /\ pc[c] \in stages}

(* "A fixed-size ring buffer": a list is longer than its capacity only by  *)
(* the stores that have not trimmed it yet or never will.                  *)
ListBounded ==
  \A t \in Tenants : Len(list[t]) <= Capacity + Cardinality(Storing(t, {"trim"})) + faults

(* A list that would live for ever is one a store is still working on, or  *)
(* one whose store was cut short.                                          *)
ListsExpire ==
  \A t \in Tenants : list[t] # <<>> /\ ttl[t] = 0 =>
    Storing(t, {"trim", "expire"}) # {} \/ t \in cut

(* A stale answer does not stay by itself: the lists expire if no more     *)
(* answers are stored, and push it out if they are.  It stays as long as   *)
(* turns that read or recall the old catalog store it anew, or if a store  *)
(* was cut short.                                                          *)
StaleAnswersGo ==
  \A t \in Tenants, v \in 0 .. MaxChanges - 1 :
    (\E e \in ToSet(list[t]) : e.version = v /\ v < catalog[t])
      ~> \/ t \in cut
         \/ \A e \in ToSet(list[t]) : e.version # v
         \/ \E c \in Storing(t, {"push"}) : turn[c].version = v

(* What the cache promises, with the list as a set of answers.             *)
Promise ==
  INSTANCE AnswerCache
    WITH answers <- [t \in Tenants |-> ToSet(list[t])],
         unsettled <- {t \in Tenants : owes[t] # {}},
         Near <- {p \in Questions \X Questions : Similarity[p] >= Threshold},
         Answers <- Entry

(* Whatever is pushed, trimmed, expired or cut short: shoppers are served  *)
(* what the cache learnt for their tenant and question, and a change is    *)
(* settled only by forgetting every answer.                                *)
KeepsPromise == Promise!Spec

(* ingest: a re-ingest that changed something "must not leave the chat     *)
(* semantic cache serving a shopper an answer built from the old catalog   *)
(* state".                                                                 *)
NoStaleAnswers ==
  \A t \in Tenants : owes[t] = {} => \A e \in ToSet(list[t]) : ~ Stale(t, e)

=============================================================================
