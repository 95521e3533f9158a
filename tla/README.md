# CatalogMind: TLA+ specifications and proofs

CatalogMind answers shoppers' questions about a merchant's catalog. It is one
asyncio process (FastAPI) over four stores: Postgres keeps the control plane
(merchants, API keys, ingestion jobs, the cost ledger), Weaviate one search
shard per merchant, MongoDB a raw copy of every feed row, Redis the rate-limit
counters and the semantic cache of chat answers. No two of them share a
transaction, every call may fail before or after it took effect, and handlers,
background tasks and chat streams interleave at every `await`. That is what
these modules are about. Paths below are relative to `src/`.

## 1. Inventory

| Component | State | Operations | What makes it correct | Modules |
|---|---|---|---|---|
| Ingestion pipeline (`app/routers/ingestion.py`, `app/ingestion/pipeline.py`, `app/retry.py`) | job row, task locals, the process-wide semaphore, the tenant's index and raw rows | upload, start, read hashes, upsert batches, delete stale, store raw rows, invalidate, resolve | a completed job did what its feed says; nothing is deleted by accident; the report adds up; the cache is invalidated; the permit comes back; the job ends | `Ingestion` |
| Feed parsing (`parse_and_dedupe`, `app/ingestion/adapters/base.py`) | pure | map, reject, deduplicate, count | last accepted row wins; every row counted once; a row is lost for cause | `Feed`, `Mapping` |
| Merchants and keys (`app/routers/merchants.py`, `app/deps.py`, `app/database.py`) | merchant and key rows, Weaviate tenants, one transaction per request | create_merchant, create_key, revoke_key, authenticate | no merchant without a shard; one merchant per tenant; only one's own keys; no lockout | `Access` |
| Semantic cache (`app/llm/semantic_cache.py`) | one Redis list per tenant | lookup, store, invalidate, invalidate_all | bounded, expires, no answer of a replaced catalog, nobody else's answer | `AnswerCache`, `Coherence` |
| Rate limiter (`app/rate_limit.py`) | one Redis counter per tenant and endpoint | check | a window ends; the limit holds within it | `RateLimit` |
| Chat turn (`app/llm/graph.py`, `app/routers/chat.py`) | checkpointed messages per conversation, per-turn scratch state | cache lookup, agent call, tool call, validation and store | every turn answers or reports an error; the history stays acceptable to the model; no answer is streamed twice | `ChatTurn` |
| Tools, evidence and answer validation (`app/llm/prompting.py`, `claims.py`, `citations.py`, `markers.py`) | the evidence of a turn | call a tool, look up recalled SKUs, check citations, figures, refusals | flags exactly the unsupported claims | `Evidence` |
| Routers (`app/retrieval/alpha_router.py`, `app/llm/model_router.py`) | tuned weights cached by mtime | classify, reload, choose a model per round | clues beat shape; a turn never falls back; changed weights are picked up | `Routing`, `FileReload` |
| Cost ledger (`app/llm/cost_tracking.py`, `pricing.py`, `app/routers/usage.py`) | one row per model call, a shared connection pool | record, aggregate | no paid call is charged twice or elsewhere; streams end on a full pool | `Ledger` |
| Retrieval (`app/retrieval/hybrid.py`, `rerank.py`) | none of its own | search, search_sorted, stats, facts about SKUs | full pages, nothing better left out, superlatives agree with statistics | `Retrieval` |
| Weaviate client (`app/retrieval/weaviate_client.py`) | the collection's schema, one client per process | ensure_schema, get the shared client | provisioning twice or on two releases settles on one schema | `Schema`, `Process` |
| Process lifecycle (`app/main.py`, `app/ingestion/embed.py`, cached clients) | loaded models, clients, a lock and a permit | warm up, open on first use, rerank, dispose | one of each, and gone with the process | `Process` |
| Normalisation, quality, taxonomy, adapters (`app/ingestion/`) | enrichment map cached by mtime | parse prices, map cells, flag outliers, identify rows | nothing misread, nothing flagged unfairly, two programs agree on a row | `Normalise`, `Mapping`, `Quality`, `Adapters`, `FileReload` |
| Evaluation (`eval/`) | pure | metrics, gate verdict, alpha sweep | a regression fails the gate; the best alpha is found | `Evaluation`, `Gate` |
| Scripts (`scripts/`, `eval/ci_quality_gate.py`) | a file of paid results; demo, fixture and scratch tenants | enrich, seed, gate, bench | nothing is paid for twice; running again heals | `Enrichment`, `Provisioning` |
| Health, metrics, logging, front end, infrastructure | counters, none that is shared | - | left aside, section 7 | - |

How they interact: an upload's handler commits a PENDING row and hands its rows
to a background task. The task reads and writes Weaviate, then Mongo, then
deletes the tenant's semantic cache. A chat turn reads the cache, calls the
model, searches Weaviate through the tools, and stores its answer in the same
cache, so the cache joins ingestion and chat. Every handler authenticates
through a key row that `revoke_key` may be revoking, and sits in the transaction
of its request, which commits after the response was sent. All of them share one
connection pool, one Redis and one Weaviate client.

What is hard: a job interleaved with another job of its tenant; a retry after
a lost answer; an exception between two stores; the process dying between any
two awaits; check-then-act across an await (`revoke_key`, `create_merchant`,
the hash snapshot); an answer stored after the invalidation it should have
missed; a tool call checkpointed whose result never was; a stream that waits
for a second connection while it keeps the first; a file replaced between its
reading and its stat; a schema migrated by two releases at once; numbers
written in the styles of several countries. `PROJECT.json` lists each with its
line.

## 2. Modules

| Module | Models | State |
|---|---|---|
| `Ingestion` | uploads and background jobs | `row`, `upload`, `pc`, `mem`, `permits`, `index`, `raw`; history `owes`, `solo`; bounds `faults`, `crashes` |
| `Feed` | what a pass over the rows yields | operators only |
| `Access` | merchants, keys, request transactions | `owner`, `merchants`, `revoked`, `shards`, `req`, `pc`, `answer`; history `crossed`; bound `faults` |
| `ChatTurn` | the turns of conversations | `checkpoint`, `conversation`, `pc`, `state`, `tokens`; history `dangling`, `overlapped`, `restarts`; bound `faults` |
| `AnswerCache` | the abstract promise of the semantic cache | `answers`, `unsettled`, `served` |
| `Coherence` | the cache's list between jobs and chat turns; implements `AnswerCache` | `catalog`, `jobs`, `done`, `list`, `ttl`, `pc`, `turn`, `memory`, `served`; history `owes`, `cut`; bound `faults` |
| `RateLimit` | one counter and its callers | `counter`, `ttl`, `pc`, `count`; history `admitted`, `promised`, `orphaned`; bound `failures` |
| `Ledger` | streams that record their calls on one pool | `phase`, `calls`, `unpaid`, `ledger`, `now`; history `lost`, `billed`; bound `faults` |
| `FileReload` | the two mtime caches and their writer | `file`, `mtime`, `clock`, `step`, `stat`, `seen`, `holds`; history `checked`, `gap`, `shared`; bound `writes` |
| `Process` | what a process opens, shares and disposes of | `role`, `phase`, `cached`, `work`, `step`, `lock`, `permit`, `client`, `open`, `connections`, `left`; history `loads`, `raised`, `broken`; bound `faults` |
| `Schema` | `ensure_schema` by overlapping callers of two releases | `collection`, `step`, `todo`; history `created`, `met`, `hit`; bound `faults` |
| `Provisioning` | seed, gate and bench scripts that overlap, die and run again | `script`, `row`, `shard`, `place`, `fate`, `changes`; history `measured`, `alongside`, `died`, `stranded` |
| `Enrichment` | the paid classification and its re-runs | `file`, `torn`, `running`, `batches`, `calling`, `writing`; history `paid`, `wasted`, `retried`; bound `stops` |
| `Retrieval`, `Evidence`, `Routing`, `Normalise`, `Mapping`, `Quality`, `Adapters`, `Evaluation`, `Gate` | the pure parts | operators only |
| `IngestionProofs`, `ChatTurnProofs`, `CoherenceProofs`, `AccessProofs` | theorems about the module they are named for | - |
| `ServicesProofs` | theorems about `RateLimit`, `FileReload`, `Ledger`, `Process` | - |
| `ScriptsProofs` | theorems about `Schema`, `Provisioning`, `Enrichment` | - |
| `AlgorithmsProofs` | theorems about `Feed` and all of the pure parts but `Mapping` | - |
| `Lemmas` | what those cite: sums, sorting, folds, ratios, written numbers, quartiles and outliers | - |
| `Python` | `None`, `sorted`, filtering comprehensions, for the modules that use them | operators only |
| `MCIngestion`, `MCAccess`, `MCCoherence` | small instances for TLC | - |
| `MCAlgorithms` | bounded inputs of `Feed` and of the pure parts, whose modules it extends | `algorithm`, `input` |
| `MCServices` | extends `MCAlgorithms` to one run for the parts that share no state: which of them a behaviour is about is its initial `subject` | the union of theirs |

### Ingestion

A catalog maps a SKU to its product's content hash (`None`: not there). A feed
is what `parse_and_dedupe` makes of an upload; `MCIngestion` has TLC check that
the feeds it uses are `Feed`'s results for concrete rows. Correspondence:

| Action | Code |
|---|---|
| `Submit` | `ingest_catalog`, to the `add_task` after its commit |
| `Start`, `StartFails` | `run_ingestion_job` to the commit of RUNNING (outside its `try`) |
| `Acquire` | `async with _ingestion_semaphore` |
| `Fetch`, `FetchFails` | `existing_content_hashes` and `partition_by_delta` |
| `UpsertBatch`, `UpsertFails` | one round of `_embed_and_upsert`, with `with_retry` and the per-object error check |
| `Upserted` | the end of the loop and the `full_sync` test |
| `DeleteStale`, `DeletePartly`, `DeleteFails` | `delete_products_by_sku` under `with_retry`: it deletes all, some without raising, or raises |
| `StoreRaw`, `StoreRawFails` | one `bulk_write` of `_store_raw_rows` |
| `Release` | the end of the semaphore's block and `if to_upsert or deleted` |
| `Invalidate`, `InvalidateFails` | `semantic_cache.invalidate` (not retried) |
| `Resolve`, `ResolveFails` | the commit of SUCCEEDED, PARTIAL or FAILED |
| `Crash` | the process dies; tasks and semaphore are in memory, and nothing resumes unfinished rows |

A failing call applies any part of its effect. `RetryOrRaise` retries while
`with_retry`'s attempts last, or raises (a non-transient error, or the last
attempt's); `Raise` leaves through the semaphore into the handler that writes
FAILED. `owes[t]` is the set of jobs that changed `t`'s index since the last
invalidation. `solo[j]` says that no other job wrote `j`'s tenant since `j`
read the hashes; it is what separates the promise a job can keep on its own
from the races two jobs of a tenant can have. `mem[j].spared` are the products that
Weaviate reported as not deleted: `delete_products_by_sku` returns
`result.successful` and drops the rest of the answer, so the job goes on and
completes with them in the index (finding 6). A delete that raises is the other
way to fail, and the only one that is retried.

Abstractions: the read of the hashes is one step although the code pages
through the shard; which products form a batch is any subset of the right size
rather than a slice in feed order; embedding is part of the upsert step and
fails with it; a call that timed out takes effect before its exception or not
at all, never later; job rows are never deleted. Raw rows in Mongo are only ever added or
replaced: `full_sync` leaves them, as the code does. Without `full_sync` the
feed's absent SKUs stay.

### Feed

A row is the SKU it names and the hash of the product it maps to, either of
which may be missing. `ParseAndDedupe` is a fold of `ParseRow`, `Deduplicate`
a fold of `DedupeRow`; `LastRowWins` compares the two and a declarative
statement of the winner on every feed of up to four rows. How a row comes to
its product is `Mapping`, below.

### Access

Each request is a process with the stages of its handler and one transaction:
nothing is visible before `Commit`, which comes after the response (`Accept`).
`Flush` waits while another transaction holds the same tenant in the unique
index, then conflicts or goes on, as Postgres does. `Provision` folds
`ensure_schema`, `tenant_exists` and `create_tenant` into one idempotent call
that may fail after its effect. `Authenticate` is `get_current_merchant` and
`tenant_from_path`. `SeenActive` models the session's identity map: the key the
caller authenticated with is not reloaded. A new key is named by the request
that minted it, a merchant by its initial key. Not modelled: `last_used_at`
(written at most every five minutes; it can roll back with its request), the
read-only endpoints, the wrong admin token.

### ChatTurn

One process per turn (a request to `/chat`), which walks the graph of
`get_chat_graph`. `state[t]` is the turn's own copy of `ChatState`, and
`checkpoint[c]` what the checkpointer holds for the conversation's `thread_id`.

| Action | Code |
|---|---|
| `Begin` | `_stream` to `graph.astream`: `turn_input` resets everything but the messages |
| `CacheHit`, `CacheMiss`, `CacheFails` | `maybe_serve_from_cache` and `_route_after_cache` |
| `AgentReplies` | `agent` from the call's last attempt to its return, and `_route_after_agent` |
| `AgentFails` | an attempt that raises: retried by `with_retry`, or an error |
| `AgentRefused` | a bad request, which `ANTHROPIC_TRANSIENT_ERRORS` does not have |
| `ToolAnswers`, `ToolFails` | `tool_node`, whose handler may raise |
| `ValidateAndStore`, `ValidateFails` | `validate_and_store` |
| `Disconnect` | `EventSourceResponse` cancels the generator; `except Exception` does not catch it |
| `Crash` | the process dies with its `InMemorySaver` |

A message is its kind and the turn that appended it. Three things are taken
from outside `src/`, as the code relies on them: LangGraph starts a turn from
the latest checkpoint of its thread, keeps the state of a run to itself, and
saves all of it after the input and after every node, so the last writer wins;
the model refuses a history with a `tool_use` that no `tool_result` follows at
once, with an error that is not transient; and it calls no tool in a request
that declares none. Parallel tool calls are switched off by the code, so a
reply has at most one. Not modelled: the rate limit before the turn, what tools
return, the claims `validate_and_store` checks (it only logs them), the ledger,
whose errors are swallowed, and the connections a turn holds.

### AnswerCache and Coherence

`AnswerCache` says what the cache is for and nothing of how: it learns answers
for a tenant and a question, serves one it has learnt for that tenant and a
question near enough, may forget any at any time, and settles a change of the
catalog only by forgetting all it had learnt of that tenant. `Coherence` keeps
the Redis list: `Push`, `Trim` and `Expire` are the three calls of `store`, any
of which may be the last; `Hit` and `Miss` are `lookup`, which scans the list
for the entry nearest to the question; `Invalidate` deletes the list; `Tick`
lets the TTL run. `KeepsPromise` is the refinement, with the list as the set of
its members.

A catalog is abstracted to a version. A turn's `version` is the oldest it read
or recalled (`None`: an answer without evidence), `memory[c]` the versions
quoted in the conversation's history; statistics turns are not cached, as in
the code. `outdated` marks an answer stored over an invalidation that came
after its read, or one recalled from an earlier turn. A job is what module
`Ingestion` shows of it: it writes a tenant's catalog in steps and, if it
completes, deletes the list; a failed one does not. A hit adds nothing to the
conversation's messages, as the code's early return has it.

### RateLimit

`Incr`, then `Expire` for the caller that counted one, then `Allow` or
`Refuse`, over a key whose TTL `Tick` counts down. Any call may raise, having
taken effect or not; `orphaned` records a counter whose EXPIRE never came.
`promised` is the shortest wait left of those the counter's refusals told.

### Ledger

A stream keeps the connection of its authentication until its last event was
sent; a row of the ledger takes a second one from the same pool, or gives up
when the pool's timeout fires, and every error of it is swallowed. `lost` has
each call that was paid and not recorded, with its cause; `BillsAddUp` says that
a call of a merchant is either in one row of that merchant or in `lost`, and
that consecutive windows of `get_usage` add up to the whole.

### FileReload

A writer outside the process truncates and writes a file with an mtime of a
coarse clock. `AlphaRouter` reads it, then stats it; `load_enrichment_map` stats
first and then reads. `StaleNeedsABadMoment` names the two moments that leave
a reader with an old version for good.

### Process

Start-up loads the two models in threads, then serves; `get_model` is an
`lru_cache`, so two threads that race load twice, which the lifespan's warm-up
prevents for the API and nothing prevents for a script. The shared Weaviate
client is opened under a lock by the first request that finds none; reranking
holds a permit; a stream that breaks off gives lock and permit back, its thread
goes on. `Dispose` is the `finally` of the lifespan, in its order, whose first
failure skips the rest.

### Schema and Provisioning

`Schema` interleaves `exists`, `create`, `config` and one `add_property` per
missing property, as callers of the current and of an older release make them.
`Provisioning` has the steps of `seed.py`, `_provision_fixture_tenant` with
`_run_queries`, and `bench_weaviate` as sequences a run walks, may die in, and
may be started again after.

### Enrichment

`Begin` plans the batches of what the file lacks, or of a pilot; a wave of
batches is called at once; what returns is appended by a thread, as one line. A
batch's answer need not have all of its items; those it lacks are Uncategorized.

| Action | Code |
|---|---|
| `CallReturns` | the call, `_extract_result`, and the submission of `_append` |
| `CallRetried` | an attempt that fails, having been billed or not, and is tried again |
| `RunFails` | a call raises: for want of attempts, at once, or after it was billed, over an answer without a tool call, without parts or with a model without a price; or an append raises. `gather` passes the error on, the run ends, its other calls are cancelled, and so are the appends no thread has begun |
| `Kill` | the process dies, its threads with it |
| `Write`, `WriteFails` | `_append`; after a failed run its threads go on, and may fail unseen |

An append that fails may leave a part of its line (`torn = "cut"`), which no
re-run can read. A line appended to that by another thread joins it and is lost
too (`"spoilt"`). A line cut short of nothing but its line feed, which would be
read when nothing follows it, is not told apart from one cut earlier.
`PaidForOnce` accounts for every classification that was billed: it is in one
line, about to be, or `wasted`, and what may be wasted is a batch for each
attempt that was `retried` and a wave for each run that failed or was killed.

### The pure parts

Each is a module of operators over small data and the properties they should
have, checked on every input up to a bound by `MCAlgorithms`.

| Module | Operators | Property |
|---|---|---|
| `Retrieval` | `_build_filters`, `search` with its pool and rerank decision, `search_sorted`, `stats`, `get_by_skus` | `PagesAreFull`, `SortedAgreesWithStats` |
| `Evidence` | the tools' arguments, filters and results, the turn's evidence, the checks of citations, figures and refusals | `OnlySiblingsMislead`, `FlagsAreFair` |
| `Routing` | `classify`, `classify_complexity`, the request of each round | `CluesDecideTheClass` |
| `Normalise` | `parse_price` on digits, separators and signs | `PricesSurvive` |
| `Mapping` | `_map`, the field parsers, `detect_currency`, `split_categories` | `RowsAreMapped` |
| `Quality` | `detect_anomalies`, `duplicate_rate_flags` with Grubbs' table, the even sample | `SuspectsAreFlagged` |
| `Adapters` | the identity, title and category of a demo row; the keys of the enrichment; the filter values of the taxonomies | `RowsAreIdentified` |
| `Evaluation`, `Gate` | NDCG, recall, precision, MRR, hit rate; `aggregate`, the gate's verdict, the alpha sweep | `RegressionsAreCaught` |

`Classify` tells a blank message, which is exploratory, from one without words
(punctuation, an emoji), which goes through the scores like any other and ends
as an attribute query unless it is quoted or asks. A cell that holds a number
may hold one that is none or is infinite (`NotANumber`, `Infinite`): the code
compares or converts it outside its `try`, or builds a product the schema
refuses, and the row is lost (section 4). `RowsAreMapped` says for which causes
a row is lost (no SKU, no title, such a number, a negative count) and that any
other bad cell costs its own column only.

Text is abstracted to what the code tests of it: a query is the pattern sets of
its words, a text property the set of its tokens (the index tokenises SKU,
brand and category by word), an answer what its markers declare, a cell a word
or a number with the signs around it. Numbers are scaled to integers (rates to
steps of fifteen hundredths, discounts to thousandths) and fractions compared
by products.

Python's `sorted` is `Arranged` of module `Python`: place `n` of the result takes
the one position that exactly `n - 1` others precede, by key and among equal
keys by position, which is what a stable sort does; a comprehension's filter
keeps the positions that pass it, in their order (`Only`). Sums are folds over
sets of positions. So written, without recursive operators, all of them can be
proved about.

## 3. Runs

| Run | Instance | Shows |
|---|---|---|
| `ingestion_overlap` | 2 jobs, 2 tenants, 2 SKUs, 2 hashes, 2 permits, batches of 1, 2 attempts, 2 failures | safety of overlapping jobs, of the same tenant and of two |
| `ingestion_queue` | 2 jobs, 1 tenant, 1 permit, batches of 2, 2 failures, 1 crash | that jobs end |
| `access` | 3 requests, 2 tenants, 1 provisioned, 1 failure or crash | provisioning, key isolation, lockout only by overlap, no endless wait |
| `chat_turn` | 2 turns, 1 conversation, 2 tool rounds, 2 attempts, 2 failures | what may spoil a history, answers of validated turns, tokens of one attempt, nothing forgotten, every turn ends |
| `coherence` | 2 conversations of a tenant, 2 questions, 1 job, a list of 1, a TTL of 2, 1 tool round, 1 failure | how a stale answer gets into the cache, that it goes, that lists expire, and the refinement of `AnswerCache` |
| `services` | one of eight subjects, below | the parts that share no state |
| `ingestion_cache_missed` | 1 job, 1 Mongo failure | finding 1 |
| `ingestion_full_sync` | 1 job, no failure | finding 2 |
| `access_lockout` | 3 requests, no failure | finding 3 |
| `chat_poisoned` | 2 turns, 1 failure | finding 4 |
| `coherence_stale` | as `coherence`, no failure | finding 5 |
| `ingestion_stale_left` | 1 job, 1 Weaviate failure | finding 6 |

The subjects of `services`:

| Subject | Instance | Properties |
|---|---|---|
| RateLimit | 3 callers, limit 1, window 2, 1 failure | `TwiceTheLimitAtMost`, `WindowsEnd` |
| Ledger | 3 streams of 2 merchants, a pool of 3, 1 priced and 1 unpriced model, 1 call each, 1 failure | `BillsAddUp`, `StreamsEnd` |
| FileReload | 1 router, 1 enrichment map, 2 writes in 2 ticks | `StaleNeedsABadMoment` |
| Enrichment | a feed of 7 rows and 5 keys, batches and waves of 2, 2 attempts, 2 failed or killed runs, a pilot of 4 or none; a taxonomy of its fallback alone, since no property asks what a key was classified as | `PaidForOnce` |
| Schema | 3 callers, 1 of an older release, 1 failure, every collection an earlier release may have left | `SchemaSettles` |
| Process | 3 requests of a local, a production process or a script, 1 failure | `OneOfEach` |
| Provisioning | 3 runs of one script, 2 wares and a stale one, 1 death | `ReRunsHeal` |
| Algorithms | feeds of 4 rows; catalogs of 4 products; 2 tool calls; 7 digits; 9 words; 16 catalogs; 6 prices; rankings of 4; 1 mapped row; 2 demo rows; 3 gated and 4 swept queries | the properties of the pure parts, and `LastRowWins` |

Why the bounds are enough. Two jobs of a tenant show every pairwise race, and
two tenants that a job leaves the other tenant alone; a third job adds only
more of the same since jobs interact through the tenant's stores and the
semaphore alone. Two SKUs with two hashes give new, updated, unchanged,
absent and rejected products in one feed; batches of one make two batches of
them, batches of two make the short last batch. Two failures exhaust the two
attempts of a call, or fail one call after another was retried. (The code
attempts three times; the theorems hold for any number.) Two jobs on one
permit queue. Three requests overlap two revocations with the creation of the
second key, or race two provisionings while a third uses a key. Two turns follow each other, one
resuming what the other left, or overlap at every node; conversations share
nothing but the process, so one is enough; tool rounds and attempts are the
code's own two, and two faults exhaust the attempts, or spoil both turns, or
kill the process and then the turn after it. In `coherence` the two
conversations overlap each other's three-step store as well as the job, a list
of one makes every second store trim, and the TTL can end between any two
calls. Three callers of the limiter put one more than twice the limit at a
window's boundary; a pool of three that three streams enter is full when the
first of them wants its second connection. Seven digits make
prices with two thousands separators in Western and Indian groups; sixteen
catalogs pass the end of Grubbs' table; a pilot of four is a wave of two batches,
after which the re-run has the fifth key to do; four ranked documents of three hold a
repetition. The theorems of section 5 lift the bounds of every module with
steps, and those of every pure part but the mapping of a row's cells: feeds,
queries, catalogs, tool calls, prices, rankings and reports of any length.

Every property has a mutant, a plausible slip in the code that violates it
under the same bounds (an update not seen as a change, a release outside
`finally`, a query without `merchant_id`, `<= 0` for `<= 1`, the first row that
wins, a client looked for only before the lock, a schema taken as it is, a
short query taken for an identifier); the mutated definitions stand beside the
originals in the modules. Deadlock is not checked: when all jobs, requests or
turns are done the system rests.

**Fairness.** Always weak, and only of steps that need nobody's decision, since
the event loop runs every task that can run and every call returns or raises:
in `Ingestion` the steps a task takes by itself, in `Access` those of handlers,
in `ChatTurn` those of turns, whose model calls end because the gap between two
chunks has a timeout; in `Coherence` those of turns that have begun and the
passing of time; in `RateLimit` the calls that return and the passing of time;
in `Ledger` connections, the pool's timeout and commits. Uploads, requests,
questions, tool calls, failures and crashes are never forced. Waiting for the
semaphore needs no strong fairness in these instances: once a permit is free it
is taken by a waiter, and there are finitely many jobs. `JobsEnd` leaves out
what the code leaves out: a job whose process died, or whose row's commit
raised. `StaleAnswersGo` leaves out a list whose store was cut before its
EXPIRE, and turns that keep storing what they recall.

## 4. Findings

1. **A failed job does not invalidate the cache** (`ResolvedJobInvalidated`).
   A job upserts, Mongo then fails for good, the job ends FAILED: the new
   products are live, cached answers about the old ones stay. Uploading the
   feed again finds nothing changed and does not invalidate either. The
   comment in `ingest` says a re-ingest that changed something "must not leave
   the chat semantic cache serving a shopper an answer built from the old
   catalog state".
2. **`full_sync` deletes products the feed mentions** (`FullSyncKeepsMentioned`).
   A row the parser rejects counts as absent, so its live product is deleted;
   the docstring and the endpoint's description speak of SKUs "absent from this
   feed".
3. **A merchant can lock itself out** (`NeverLockedOut`). Two overlapping
   revocations of its two keys both see two active keys. `revoke_key` promises
   a 409 because it "would lock this merchant out permanently".
   `LockoutNeedsOverlap` shows that overlap is the only way.
4. **A failing tool poisons its conversation** (`ToolCallsAnswered`). The
   agent's `tool_use` is checkpointed before `tool_node` runs. A handler that
   raises, or a client that disconnects there, leaves it without a
   `tool_result`, and every later turn of the conversation is refused.
   `tool_node` says that "This call's pending tool_use is answered above
   regardless". `HistoryAcceptable` shows that this and overlapping turns are
   the only ways.

5. **A turn stores an answer of the replaced catalog** (`NoStaleAnswers`).
   A turn that searched before a re-ingest stores after its invalidation, and
   a later turn may quote what the history of its conversation says of the old
   catalog; nothing compares the two. The comment of finding 1 promises
   otherwise. `StaleNeedsOverlapOrRecall` shows that these are the only ways
   once the invalidations have been made, `StaleAnswersGo` what it takes for
   such an answer to stay.
6. **A full_sync may leave what it should delete** (`FullSyncLeavesNoStale`).
   `delete_many` answers with what it deleted and what it could not, and
   `delete_products_by_sku` returns the first number. The job completes with
   stale products in the index; its docstring says such a SKU "is removed from
   the index, not just left stale forever". `SoloJobIndexesItsFeed` shows that
   for a job on its own these are the only ones left.

Smaller ones met on the way, which no run is about:

- A delete whose answer was lost is retried, removes nothing and reports
  `deleted = 0`; a full_sync that only deleted then does not invalidate the
  cache (the exception in `CompletedJobInvalidated`).
- `session_scope` commits after the 201 was sent (`app/database.py:66`), so a
  key that was handed out may not exist.
- The prompt has the model wrap counts in STAT markers, but `KnownFigures`
  leaves the counts out: a correct count is flagged as a mismatch.
- `get_by_skus` and the brand and category filters are documented as exact
  (`app/retrieval/hybrid.py:95`, `:99`, `:368`), but the properties are
  tokenised by word: a SKU brings siblings that contain its words, "Bags" brings
  all of "Bags & Luggage", "Jewelry" brings "Jewelry, Sunglasses & Eyewear".
- `get_product_detail` looks SKUs up case-folded and reports what is missing by
  exact spelling: one asked for in another case is returned and reported not
  found. An empty `search_catalog` query raises inside `tool_node` (finding 4).
- `duplicate_rate_flags` takes the population's deviation with Grubbs' sample
  table, and its last critical value for more than 15 catalogs is less
  conservative, not more, as the docstring has it (`app/ingestion/quality.py:220`).
- The cache's key is the turn's last text alone; each store renews the TTL of
  the whole list, so an answer may outlive its own.
- `ESCALATE_AFTER_ROUNDS` equals the cap on tool rounds, so going round after
  round only ever moves the last, tool-less call to the stronger model.
- "1,234,567", "1,23,456" and "1.234.567" become texts with two points that
  `Decimal` refuses, so the price is lost, although the comment on `_NUMBER`
  (`app/ingestion/normalize.py:57`) has "optional thousands separators". With
  decimals they are read. `PricesSurvive` says that this and the ambiguous "1.234"
  are the only shapes misread.
- `parse_price` compares a price that is not a number with zero, and `parse_int`
  converts an infinite count, both outside a `try`
  (`app/ingestion/normalize.py:122`, `:130`, `:305`), so they raise and the row is
  lost with its cell; the module's docstring (`:10`) says that "Every function here
  is total". An infinite price is lost with its row too, to `Product`'s validation.
  `RowsAreMapped` says that these, a negative count and a rating of one infinity
  over another are the only cells besides the SKU and the title that cost a row.
- A torn last line of the enrichment file makes each re-run raise; a kill, or one
  failing call, loses up to a wave of batches, not "the in-flight batch".
- `has_identifier_shaped_token`'s docstring (`app/retrieval/alpha_router.py:156`)
  and a test's (`tests/unit/test_alpha_router.py:254`) say that a short query like
  "hiking boots" may be classed as an identifier; `classify` no longer has the
  rule that did so, and `CluesDecideTheClass` says that such a query never is.
- `seed.py` commits the merchant before its Weaviate tenant exists: a run
  killed between leaves one whose key was never shown, which no later run
  repairs, though it calls itself idempotent. Overlapping gate runs delete each
  other's tenant.
- The models are loaded several times when threads race without a warm-up
  (`sweep_alpha`), contrary to `app/ingestion/embed.py:44`; a stream cancelled
  while it reranks leaves a thread beside the next one's, contrary to
  `RERANK_CONCURRENCY_LIMIT`; a disposer that raises skips the rest.
- `ensure_schema` compares properties by name, so changed settings never reach
  an existing collection, and two overlapping calls can make one raise.
- A file that is replaced twice within one tick of its mtime, or between
  `AlphaRouter`'s read and its stat, is never loaded.
- `detect_currency` finds "rs" in "dollars"; "2.5k reviews" are two.
- The alpha sweep groups queries by their golden label while the service goes by
  its classifier; the gate skips a class that either side lacks.

## 5. Theorems

Proved with TLAPS for every value of the constants that satisfies the module's
assumption, and for the property the runs check:

- `IngestionAssumption`: finite sets of jobs and SKUs, positive limit, batch
  sizes and attempts, feeds whose counts add up, which `MCFeedsAreParsed` has
  TLC check of `Feed`'s results;
- `ChatTurnAssumption`: positive caps; `None` is no conversation; the sets of
  turns and conversations may be infinite;
- `CoherenceAssumption`: finitely many conversations, positive capacity, TTL and
  rounds;
- `RateLimitAssumption`: a positive limit and window; `LedgerAssumption`: prices
  and usages are natural numbers, a pool of at least one;
- `EnrichmentAssumption`: positive batch, wave and attempts;
- `RoutingAssumption`: at least one tool round. `CluesAlwaysDecide` also takes
  `MaxToolCallRounds <= EscalateAfterRounds`, which is so in the code, where both
  are 2 (`app/llm/graph.py:90`, `app/llm/model_router.py:39`); with more rounds
  a turn would escalate while it still has tools, whatever its clues;
- `RetrievalAssumption`: positive pool sizes, and `None` is no number;
- `EvidenceAssumption`: a positive limit on results, and `None` is no truth value;
- `EvaluationAssumption`: discounts that are positive and fall with the rank, and
  `None` is no rate;
- `GateAssumption`: finitely many classes and alphas, at least one of each, and
  values told apart;
- `AlgorithmsAssumption`: those of the pure parts together, which TLC evaluates
  within `ServicesAssumption`; where a theorem needs it, it says so;
- `AccessAssumption`, `FileReloadAssumption`, `ProcessAssumption`,
  `ProvisioningAssumption`: names and values told apart. The theorem about
  `Schema` needs none.

| Theorem | States |
|---|---|
| `IngestionProofs!TypeCorrect` | `Spec => []TypeOK` |
| `SemaphoreSafe` | `Spec => []PermitsConserved` |
| `SoloJobsIndexTheirFeed` | `Spec => []SoloJobIndexesItsFeed` |
| `ReportsAddUp` | `Spec => []ReportAddsUp` |
| `CompletedJobsInvalidate` | `Spec => []CompletedJobInvalidated` |
| `OnlyFullSyncsDelete` | `Spec => OnlyFullSyncDeletes` |
| `IndexIsReplayable` | `Spec => []IndexedIsReplayable` |
| `ChatTurnProofs!TypeCorrect` | `Spec => []TypeOK` |
| `HistoriesAcceptable` | `Spec => []HistoryAcceptable` |
| `NothingIsForgotten` | `Spec => NothingForgotten` |
| `ValidatedTurnsHaveAnswers` | `Spec => []ValidatedTurnsAnswer` |
| `OneAttemptIsStreamed` | `Spec => []OneAttemptStreamed` |
| `CoherenceProofs!StaleExplained` | `Spec => []StaleNeedsOverlapOrRecall` |
| `ListsExpireAlways` | `Spec => []ListsExpire` |
| `ListsBounded` | `Spec => []ListBounded` |
| `PromiseKept` | `Spec => KeepsPromise`, the refinement of `AnswerCache` |
| `AccessProofs!MerchantsHaveShards` | `Spec => []MerchantHasShard` |
| `MerchantsUnique` | `Spec => []OneMerchantPerTenant` |
| `LockoutExplained` | `Spec => []LockoutNeedsOverlap` |
| `OwnKeys` | `Spec => OwnKeysOnly` |
| `ServicesProofs!RetryAfterIsLongEnough` | `C!Spec => []RetryAfterSuffices` (the limiter) |
| `BurstsBounded` | `C!Spec => []TwiceTheLimitAtMost` |
| `StalenessExplained` | `F!Spec => []StaleNeedsABadMoment` (the reloads) |
| `EveryCallBilledOnce` | `L!Spec => []BillsAddUp` |
| `ProcessSharesOneOfEach` | `P!Spec => []OneOfEach`, from a theorem for each of its four parts |
| `ScriptsProofs!OneFullSchema` | `S!Spec => []SchemaSettles` |
| `ReRunsMend` | `O!Spec => []ReRunsHeal` |
| `NothingPaidTwice` | `E!Spec => []PaidForOnce` |
| `AlgorithmsProofs!TheLastRowWins` | `Spec => []LastRowWins` |
| `CluesAlwaysDecide` | `Spec => []CluesDecideTheClass` |
| `EveryRowIsIdentified` | `Spec => []RowsAreIdentified` |
| `PagesAreAlwaysFull` | `Spec => []PagesAreFull` |
| `SortingAlwaysAgrees` | `Spec => []SortedAgreesWithStats` |
| `OnlySiblingsEverMislead` | `Spec => []OnlySiblingsMislead` |
| `FlagsAreAlwaysFair` | `Spec => []FlagsAreFair` |
| `RegressionsAreAlwaysCaught` | `Spec => []RegressionsAreCaught` |
| `PricesAlwaysSurvive` | `Spec => []PricesSurvive` |
| `SuspectsAreAlwaysFlagged` | `Spec => []SuspectsAreFlagged` |

`PermitsConserved`, `ListBounded`, `RetryAfterSuffices` and the modules' `TypeOK`
are proved and no longer checked by a run. The theorems with a prefix are about
the instances of `MCServices` (`C`, `L`, ... name the part), for whatever its
constants are. The `Spec` of `AlgorithmsProofs` is that of `MCAlgorithms`: a
behaviour holds one input of a pure part, of any length the constants allow. What
an input is made of (the products, calls, judgements, digits and prices listed
there) is fixed by that module; the lemmas on which these theorems rest are about
any sequence of the right type (`OnlyOutliers` of any rates, `FarOutFair` of any
prices, `NeverMisread` of any digits).

### Ingestion, chat, cache and access

`IngestionProofs` shows `TypeInv` (types, and that a job past "idle" has an
upload and a row) and `PermitsConserved` inductive; the latter counts the
holders of permits, so a step into or out of the semaphore's block changes a
cardinality by one. None of the other properties is inductive: they speak of
completed jobs, and the reason they hold is spread over the stages before. It
therefore carries, for each job, four facts about what it has done so far:
`DeltaInv` (what is changed, and what is left to write, is a subset of the
feed's products that differ from the hashes read), `SoloInv` (while a job is
undisturbed, the index is what it read plus what it has written so far, and
Mongo has what it stored; past the delete step, nothing but the feed's products
and what the delete spared), `OwesInv` (a change it made is remembered until an
invalidation, or it is on a path to one), `ReportInv` (a completed row is
`Outcome` of the job's memory). The step of another job either is of another
tenant, or writes and clears this job's `solo`, or changes nothing the facts
speak of (`Unaffected`). `RawInv` says that a SKU in the index without a raw row
is one some unfinished job brought; raw rows only grow, and a job completes only
after storing all its rows.

In `ChatTurnProofs`, `TypeInv` adds to the types what a turn's node says of its
tool rounds (`RoundsInv`): tools are declared exactly while rounds are left, so
a tool call at the cap cannot come, which is all `ValidatedTurnsAnswer` needs.
`HistoryAcceptable` and `NothingForgotten` rest on `SavedInv`, that without
overlap the running turn's copy is the checkpoint, and `CallsInv`, that the last
message may lack its result only while a turn is in `tool_node`; every action
is a move to a node (`MoveKeepsHistory`), an end (`EndKeepsHistory`) or a
beginning. `StreamInv` orders the replies streamed so far before the round a
turn is in.

`CoherenceProofs` rests on `StaleInv`: whatever a turn holds or a list has is
either marked `outdated` or of the tenant's present version, or an invalidation
is owed (`Settled`). The only step that ends an owing deletes the list and marks
the turns that have read; the only one that makes a version old makes an owing.
`ExpiryInv` and the bound on the list are kept by the three stages of a store,
whose early end `cut` and `faults` count. In `PromiseKept` a push is a `Learn`,
a trim or an expiry a `Forget`, a write a `Change`, an invalidation a `Settle`,
a hit a `Serve`; all other steps stutter, or forget nothing.

`AccessProofs` types requests by the stage they are in (`Shape`, `Authorised`)
and adds what the stages know. `ShardInv`: a request about to commit a merchant
has its shard. `UniqueInv`: the transactions that inserted a tenant exclude each
other and every merchant that is there. `LockInv`, the heart of
`LockoutExplained`: unless two revocations of a merchant overlapped
(`crossed`), at most one is past its count, and a key other than its target
remains.

### The services of a process

The limiter's wait needs `Owed`: at most one caller owes the counter its expiry,
and until it pays there is none and nobody was told a wait; after that what was
told and the TTL count down alike. The bound on bursts, `BurstsBounded`, needs
to know which counter admitted whom, which no variable says: `TwoCounters`
claims that the admissions of the last `Window` ticks split into those of the
present counter and those of the one before, each within the limit, the former
within the count, and the latter outside the time the present one has run.
An INCR adds to the first part; a tick drops the oldest admissions of both, and
the one that ends the counter makes the first part the second.

The reloads need `TimesInv` (no mtime a reader keeps is later than the file's
last change, which is the file's own) and `FreshInv` (a reader whose mtime is
the file's holds what the file says, unless the file changed in the reader's
gap or twice in a tick).

`EveryCallBilledOnce` rests on `LedgerInv`: each row is of one call that was
paid, has its merchant and its price, and no two rows are of one call; a call
that was paid and is not being recorded has a row or is in `lost`. The rest is
arithmetic: rows renamed to their calls keep their sum (`SumImage`), the models'
subtotals add up to it (`SumByClass`), and two windows that share an instant
split the rows (`SumDisjoint`). `Lemmas` proves these by an induction over finite
sets that needs no operator parameter: a family of subsets that has the empty
one, and with a subset each of its one-element extensions, has all
(`SetInduction`).

The parts of `OneOfEach` have an invariant each: `ConnectionInv` (who connects
holds the lock and finds no client), `RankInv` (who ranks has the permit, and a
thread reranks for whoever awaits it), `WarmInv` (a warm-up alone looks for its
model, and a request only when all warm-ups are done) and `OpenInv` (what is
open is still among the clients to be disposed of). They share `AtRest`: outside
of "serving" no request is under way.

### Provisioning and scripts

`OneFullSchema` is carried by what each stage of a caller has established
(`StageInv`): the collection has all its properties but those it has `todo`, and
lacks these unless it met another caller; one that returned has found or added
every property, and one that raised had a call fail or met another. `MeetInv`
says that callers under way at once have met each other; at most one created the
collection.

`ReRunsMend` says what a run that has the tenant for itself finds at each place
of its script, whatever an earlier run left (`AloneInv`). `SeedInv` adds what the
seeds have done to a tenant none of them removes: a merchant's row without a
shard has a seed between the two, or one that died there (`stranded`). `Together`
says that runs under way at once are recorded as `alongside`.

`NothingPaidTwice` follows each key: it is in the plan, in one call, being
appended or in the file, and in one of these at most (`Apart`). `Accounts` says
that it was paid for as often as it was wasted, and once more if it is being
appended or in the file. `Waste` bounds what was wasted by a batch for each retried
attempt and a wave of full batches for each run that ended early, since no more
was ever in flight (`OneWave`). A run that failed leaves appends behind, which may
still fail or be lost in a torn line: while none is running, `Waste` counts them as
lost already, and each step of such an append keeps the sum (`LineLost`).

### The pure parts

Each theorem of `AlgorithmsProofs` turns an input into what the operators make
of it. For a feed, a fold over a sequence is a walk over its prefixes (`Walk`),
and an induction over their lengths (`Upward`) shows `Agree`: the parser's pass
and the deduplication's agree on the rows so far, and both on the last row of
each SKU. `CluesAlwaysDecide` compares the scores of a query of any length,
which are counts; `EveryRowIsIdentified` follows a row's identity through the
feed and through the enrichment script.

For retrieval, `RankGrows` shows that the number of positions up to a position
grows with its key, so that each rank is that of one position (`OneOfEachRank`)
and `Arranged` shows each once, in order. `SearchShows` says from which places of
what is in reach a page is taken, and `FullPage` that for a catalog without
repeats it is full and nothing better is left out of the pool. `SortedFirst` says
that the first product shown has the least key of the pool, `StatsBound` that the
minimum and maximum are values of products that match and bound the others; the
two meet (`Superlative`) when every match is in the pool.

`OnlySiblingsEverMislead` rests on the catalog having one product for each
case-folded SKU, so that a lookup of a SKU has one hit with that spelling. A
walk along the turn's calls shows what its evidence knows after each of them;
from there the answer's SKUs are followed to the cards they get and the reproaches
they earn. `FlagsAreAlwaysFair` is about the other half of the same evidence, the
figures the statistics returned.

`RegressionsAreAlwaysCaught` has three parts. Of a ranking: sums with falling
weights are sums of prefix sums, each distinct relevant document has a place of its
own in the ideal ranking, which never falls, and a repetition gains nothing, so no
prefix gains more than the ideal's. Of the gate: the drops of a class's queries
add up to that of its mean. Of the sweep: the sum over the classes of their best is
no less than the best sum.

`PricesAlwaysSurvive` follows a number from its digits to the text of a style and
back. `Spells` says at which places of the text its digits stand; these increase
from digit to digit (`DigitsApart`), so what is left when the group separators are
taken out is the digits again (`OnlyIs`). The rest counts the separators and asks
whether the last stands before the last three digits (`Separated`), which is what
the code decides by (`ReadIs`).

`SuspectsAreAlwaysFlagged` bounds Grubbs' statistic without roots: what the rates
are short of the highest has its squared sum bounded by the number of catalogs that
are short, times the sum of squares (`SumFlatter`, the inequality of Cauchy and
Schwarz), and every entry of the table lies between the statistic of a lone outlier
and that of two that share the highest rate (`CriticalBetween`). The fence needs
where rounding puts the quartiles (`Quartiles`): at most a quarter of the places,
and no more than lie between the quartiles, are above the upper one, so that a
geometric sequence grows no more from there to its end than between the quartiles
(`CrossRatios`).

### Only model-checked

Liveness (`JobsEnd`, `RequestsEnd`, `TurnsEnd`, `StaleAnswersGo`, `WindowsEnd`,
`StreamsEnd`) is out of the prover's reach. Of the safety properties,
`RowsAreMapped` alone stays with TLC: `Mapping` folds over the parts of a text with
`SelectSeq`, whose recursive definition the prover cannot open. The same holds of
the violations of section 4, which are counterexamples.

## 6. Plan

What is left, in order of weight.

1. `IngestionSpec`: an abstract job (an upload takes effect at most once, as a
   whole or in part, and then resolves) that `Ingestion` implements by a
   refinement mapping, checked and then proved.
2. Proofs about `Mapping`, with its filters written as `Retrieval`'s are.
3. `invalidate_all` and the throttled `last_used_at`; the readiness probes,
   which open clients of their own.
4. The streamed events of a turn (`app/routers/chat.py`) as a protocol with its
   reader, the front end.

## 7. Not modelled

Text matching itself: the regular expressions that find a price, a marker or a
refusal in a text, the repair of mojibake and markup, which pattern an alpha or
complexity clue is. The wording of prompts, and the golden queries of the
evaluation, which are data (some 2,500 lines). Embeddings, reranking scores and
the language model's answers, which are inputs of the models here. The
benchmark and judge harnesses' measurements, the front end, containers and
charts, metrics and logs: they keep no state another part depends on. The
read-only endpoints and health probes. In the lifecycle: settings and the
registration of routers. `components` in `PROJECT.json` says what is left out of
each part that is modelled.

## 8. Running

    tlc -config IngestionOverlap.cfg MCIngestion
    tlc -config IngestionQueue.cfg MCIngestion
    tlc -config Access.cfg MCAccess
    tlc -config ChatTurn.cfg ChatTurn
    tlc -config Coherence.cfg MCCoherence
    tlc -config Services.cfg MCServices
    tlapm IngestionProofs.tla

and the other violations and proof modules alike. `services` is the longest run,
two to three minutes with two workers; `AlgorithmsProofs` is the longest proof, some
fifteen minutes, and `ServicesProofs` and `ScriptsProofs` take some ten each.
