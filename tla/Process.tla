------------------------------ MODULE Process -------------------------------
(***************************************************************************)
(* What one process keeps for all of its requests, from its start to its   *)
(* end: the lifespan of app/main.py, the models of app/ingestion/embed.py  *)
(* and app/retrieval/rerank.py with the semaphore before the second, the   *)
(* shared Weaviate client and the cached clients of Postgres, Mongo, Redis *)
(* and Bedrock.                                                            *)
(*                                                                         *)
(* The event loop runs one task at a time and switches at every await;     *)
(* asyncio.to_thread hands work to a thread, which goes on when the task   *)
(* that awaits it is cancelled.  A script has no lifespan: it searches at  *)
(* once, many queries together (eval/sweep_alpha.py).                      *)
(***************************************************************************)
EXTENDS Naturals, FiniteSets, SequencesExt

CONSTANTS
  Requests,    \* searches and chat turns, each of them once
  None,
  Environments,  \* of the API process: "local" clears the answer caches
  MaxFaults    \* bound on calls that fail and streams that break off

SharedModels == {"embedder", "reranker"}

(* What a thread may be at: looking for a model, loading it, using it.     *)
Threads == {"get_embedder", "load_embedder", "embedder",
            "get_reranker", "load_reranker", "reranker"}

WarmUps == {"warm_embedder", "warm_reranker"}
Warms(t) == IF t = "warm_embedder" THEN "embedder" ELSE "reranker"

ProcessAssumption ==
  /\ None \notin Requests \cup Threads
  /\ Requests \cap WarmUps = {}
  /\ MaxFaults \in Nat

(* The clients in the order in which the lifespan disposes of them.        *)
Disposal == <<"engine", "mongo", "redis", "weaviate", "bedrock">>

VARIABLES
  role,      \* an environment, or "script"
  phase,     \* of the lifespan
  cached,    \* the models lru_cache has
  loads,     \* history: how often each was loaded
  work,      \* what the thread of each task is at
  step,      \* where each task is
  lock,      \* who holds _shared_client_lock
  permit,    \* who holds _rerank_semaphore
  client,    \* _shared_client: who connected it
  open,      \* the other clients the process holds open
  connections,  \* who connected a Weaviate client that is still open
  left,      \* the clients the lifespan has yet to dispose of
  raised,    \* history: the lifespan raised
  broken,    \* history: a stream broke off while its thread was reranking
  faults

models == <<cached, loads>>
shared == <<lock, permit, client>>
clients == <<open, connections>>
vars == <<role, phase, models, work, step, shared, clients, left, raised, broken, faults>>

Tasks == Requests \cup WarmUps

Goto(t, stage) == step' = [step EXCEPT ![t] = stage]
Works(t, stage) == work' = [work EXCEPT ![t] = stage]
MayFail == faults < MaxFaults /\ faults' = faults + 1

-----------------------------------------------------------------------------
(* The threads.  get_model: a thread that finds no model loads one, and so *)
(* does another that looks before the first is done.                       *)
Get(m) == IF m = "embedder" THEN "get_embedder" ELSE "get_reranker"
Load(m) == IF m = "embedder" THEN "load_embedder" ELSE "load_reranker"

GetModel(t, m) ==
  /\ work[t] = Get(m)
  /\ IF m \in cached THEN Works(t, m) /\ UNCHANGED loads
     ELSE Works(t, Load(m)) /\ loads' = [loads EXCEPT ![m] = @ + 1]
  /\ UNCHANGED <<role, phase, cached, step, shared, clients, left, raised, broken, faults>>

Loaded(t, m) ==
  /\ work[t] = Load(m)
  /\ cached' = cached \cup {m}
  /\ Works(t, m)
  /\ UNCHANGED <<role, phase, loads, step, shared, clients, left, raised, broken, faults>>

(* encode and predict; whoever still awaits the thread goes on.            *)
Encoded(t) ==
  /\ work[t] = "embedder" /\ Works(t, None)
  /\ Goto(t, IF step[t] = "embedding" THEN "client" ELSE step[t])
  /\ UNCHANGED <<role, phase, models, shared, clients, left, raised, broken, faults>>

Predicted(t) ==
  /\ work[t] = "reranker" /\ Works(t, None)
  /\ IF step[t] = "ranking" THEN Goto(t, "done") /\ permit' = None ELSE UNCHANGED <<step, permit>>
  /\ UNCHANGED <<role, phase, models, lock, client, clients, left, raised, broken, faults>>

-----------------------------------------------------------------------------
(* lifespan: both warm-ups together; the first that fails ends the start.  *)
Warm ==
  /\ phase = "warming" /\ \A t \in WarmUps : work[t] = None
  /\ phase' = IF role = "local" THEN "clearing" ELSE "serving"
  /\ UNCHANGED <<role, models, work, step, shared, clients, left, raised, broken, faults>>

WarmUpFails ==
  /\ phase = "warming" /\ MayFail
  /\ phase' = "stopped" /\ raised' = TRUE
  /\ UNCHANGED <<role, models, work, step, shared, clients, left, broken>>

(* invalidate_all: what follows the yield alone disposes of Redis.         *)
Clear ==
  /\ phase = "clearing"
  /\ open' = open \cup {"redis"}
  /\ \/ phase' = "serving" /\ UNCHANGED <<raised, faults>>
     \/ MayFail /\ phase' = "stopped" /\ raised' = TRUE
  /\ UNCHANGED <<role, models, work, step, shared, connections, left, broken>>

Ended(r) == step[r] \in {"new", "done", "failed", "broken"}

(* The server has waited for its requests; their threads may go on.        *)
Shutdown ==
  /\ phase = "serving" /\ role # "script" /\ \A r \in Requests : Ended(r)
  /\ phase' = "closing"
  /\ UNCHANGED <<role, models, work, step, shared, clients, left, raised, broken, faults>>

Holds(name) == IF name = "weaviate" THEN client # None ELSE name \in open

(* The disposers in turn, each of what was ever opened; one that raises    *)
(* leaves the rest undone.                                                 *)
Dispose ==
  /\ phase = "closing" /\ left # <<>>
  /\ left' = Tail(left)
  /\ open' = open \ {Head(left)}
  /\ IF Head(left) = "weaviate" THEN client' = None /\ connections' = connections \ {client}
     ELSE UNCHANGED <<client, connections>>
  /\ UNCHANGED <<role, phase, models, work, step, lock, permit, raised, broken, faults>>

DisposeFails ==
  /\ phase = "closing" /\ left # <<>> /\ Holds(Head(left)) /\ MayFail
  /\ phase' = "stopped" /\ raised' = TRUE
  /\ UNCHANGED <<role, models, work, step, shared, clients, left, broken>>

Stopped ==
  /\ phase = "closing" /\ left = <<>>
  /\ phase' = "stopped"
  /\ UNCHANGED <<role, models, work, step, shared, clients, left, raised, broken, faults>>

-----------------------------------------------------------------------------
(* A request opens the other clients it needs, embeds its query, ...       *)
Arrive(r) ==
  /\ phase = "serving" /\ step[r] = "new"
  /\ Goto(r, "embedding") /\ Works(r, Get("embedder"))
  /\ open' = IF role = "script" THEN open ELSE open \cup {"engine", "redis", "bedrock"}
  /\ UNCHANGED <<role, phase, models, shared, connections, left, raised, broken, faults>>

(* ... gets the shared client, without the lock if there is one, ...       *)
GetShared(r) ==
  /\ step[r] = "client"
  /\ Goto(r, IF client # None THEN "search" ELSE "wait")
  /\ UNCHANGED <<role, phase, models, work, shared, clients, left, raised, broken, faults>>

(* Mutant: who was made to wait connects, whatever happened meanwhile.     *)
StillMissingAlways == TRUE

StillMissing == client = None

Lock(r) ==
  /\ step[r] = "wait" /\ lock = None
  /\ IF StillMissing THEN lock' = r /\ Goto(r, "connect") ELSE Goto(r, "search") /\ UNCHANGED lock
  /\ UNCHANGED <<role, phase, models, work, permit, client, clients, left, raised, broken, faults>>

Connect(r) ==
  /\ step[r] = "connect"
  /\ client' = r /\ connections' = connections \cup {r}
  /\ lock' = None /\ Goto(r, "search")
  /\ UNCHANGED <<role, phase, models, work, permit, open, left, raised, broken, faults>>

ConnectFails(r) ==
  /\ step[r] = "connect" /\ MayFail
  /\ lock' = None /\ Goto(r, "failed")
  /\ UNCHANGED <<role, phase, models, work, permit, client, clients, left, raised, broken>>

(* ... and reranks what it found, or does not; "done" also stands for a     *)
(* search that failed.                                                     *)
Found(r) ==
  /\ step[r] = "search"
  /\ \E stage \in {"permit", "done"} : Goto(r, stage)
  /\ UNCHANGED <<role, phase, models, work, shared, clients, left, raised, broken, faults>>

(* arerank: one at a time, in a thread.                                    *)
Rerank(r) ==
  /\ step[r] = "permit" /\ permit = None
  /\ permit' = r /\ Goto(r, "ranking") /\ Works(r, Get("reranker"))
  /\ UNCHANGED <<role, phase, models, lock, client, clients, left, raised, broken, faults>>

(* The shopper goes away and the stream's task is cancelled where it is:   *)
(* the lock and the permit are given back, a thread is not stopped.        *)
BreakOff(r) ==
  /\ ~Ended(r) /\ role # "script" /\ MayFail
  /\ Goto(r, "broken")
  /\ lock' = IF lock = r THEN None ELSE lock
  /\ permit' = IF permit = r THEN None ELSE permit
  /\ broken' = (broken \/ step[r] = "ranking")
  /\ UNCHANGED <<role, phase, models, work, client, clients, left, raised>>

Init ==
  /\ role \in Environments \cup {"script"}
  /\ phase = IF role = "script" THEN "serving" ELSE "warming"
  /\ cached = {} /\ loads = [m \in SharedModels |-> 0]
  /\ work = [t \in Tasks |-> IF role = "script" \/ t \in Requests THEN None
                             ELSE Get(Warms(t))]
  /\ step = [t \in Tasks |-> IF t \in Requests THEN "new" ELSE "warm"]
  /\ lock = None /\ permit = None /\ client = None
  /\ open = {} /\ connections = {} /\ left = Disposal
  /\ raised = FALSE /\ broken = FALSE /\ faults = 0

Next ==
  \/ \E t \in Tasks : \/ \E m \in SharedModels : GetModel(t, m) \/ Loaded(t, m)
                      \/ Encoded(t) \/ Predicted(t)
  \/ Warm \/ WarmUpFails \/ Clear
  \/ Shutdown \/ Dispose \/ DisposeFails \/ Stopped
  \/ \E r \in Requests : \/ Arrive(r) \/ GetShared(r) \/ Lock(r) \/ Connect(r)
                         \/ ConnectFails(r) \/ Found(r) \/ Rerank(r) \/ BreakOff(r)

Spec == Init /\ [][Next]_vars

-----------------------------------------------------------------------------
(* "The lock only guards the first concurrent request from opening two     *)
(* connections": there is never a second one, the one there is serves all, *)
(* and who holds the lock is connecting.                                   *)
OneConnection ==
  /\ Cardinality(connections) <= 1
  /\ phase = "serving" => connections = (IF client = None THEN {} ELSE {client})
  /\ lock # None => step[lock] = "connect"

(* "Load the embedding model once per process": once the lifespan has      *)
(* warmed both up.  Nothing keeps the queries of a script from loading it  *)
(* several times at once.                                                  *)
LoadedOnce == role # "script" => \A m \in SharedModels : loads[m] <= 1

(* "How many rerank() calls may run at once, in this one process": one,    *)
(* until a stream that breaks off leaves its thread behind.                *)
Reranking == {t \in Requests : work[t] \in {Get("reranker"), Load("reranker"), "reranker"}}
OneRerank == Cardinality(Reranking) <= 1 \/ broken

(* A process whose disposers all succeeded leaves nothing open.            *)
NothingLeftOpen == phase = "stopped" /\ ~raised => open = {} /\ connections = {}

(* What requests share is there once, and gone with the process.           *)
OneOfEach == OneConnection /\ LoadedOnce /\ OneRerank /\ NothingLeftOpen

=============================================================================
