----------------------------- MODULE Ingestion -----------------------------
(***************************************************************************)
(* Catalog ingestion: app/routers/ingestion.py accepts an upload and       *)
(* schedules app/ingestion/pipeline.py's run_ingestion_job as a background *)
(* task of the API process.  Jobs of one or several tenants run at the     *)
(* same time, throttled by a process-wide semaphore; every call to         *)
(* Weaviate, Mongo, Redis or Postgres may fail before or after it took     *)
(* effect, and the process may die at any await.                           *)
(*                                                                         *)
(* Data is abstracted to what the properties tell apart: a catalog maps a  *)
(* SKU to the content hash of its product, None standing for absence, and  *)
(* a feed is what parse_and_dedupe makes of its rows (module Feed).        *)
(***************************************************************************)
EXTENDS Integers, FiniteSets

CONSTANTS
  Jobs,         \* job ids
  Tenants,
  Skus,
  Hashes,       \* content hashes; equal rows have equal hashes
  None,         \* an absent SKU, a job row that does not exist
  Feeds,        \* the parsed feeds an upload may carry
  Catalogs,     \* the catalogs an earlier process may have left behind
  Limit,        \* INGESTION_CONCURRENCY_LIMIT
  EmbedBatch,   \* EMBED_BATCH_SIZE
  MongoBatch,   \* MONGO_BULK_BATCH_SIZE
  Attempts,     \* with_retry's attempts
  Faulty,       \* the services that may fail
  MaxFaults,    \* bound on failing calls
  MaxCrashes    \* bound on process crashes

Catalog == [Skus -> Hashes \cup {None}]

Present(c) == {s \in Skus : c[s] # None}

Services == {"weaviate", "mongo", "redis", "postgres"}

(* A parsed feed: the winning product of each SKU, the SKUs its rejected   *)
(* rows name, and parse_and_dedupe's counts.                               *)
Feed == [products : Catalog, rejected : SUBSET Skus,
         total : Nat, failed : Nat, duplicates : Nat]

ASSUME IngestionAssumption ==
  /\ IsFiniteSet(Jobs) /\ IsFiniteSet(Skus)
  /\ None \notin Hashes
  /\ Feeds \subseteq Feed
  /\ \A f \in Feeds :
       f.total = Cardinality(Present(f.products)) + f.duplicates + f.failed
  /\ Catalogs \subseteq Catalog
  /\ Limit \in Nat \ {0} /\ EmbedBatch \in Nat \ {0}
  /\ MongoBatch \in Nat \ {0} /\ Attempts \in Nat \ {0}
  /\ Faulty \subseteq Services
  /\ MaxFaults \in Nat /\ MaxCrashes \in Nat

VARIABLES
  row,      \* Postgres: the committed ingestion_jobs row of each job
  upload,   \* the arguments of each background task
  pc,       \* where each background task is
  mem,      \* the local variables of each background task
  permits,  \* the value of _ingestion_semaphore
  index,    \* Weaviate: the catalog each tenant serves
  raw,      \* Mongo: the row copies of each tenant
  owes,     \* history: jobs that changed a tenant's index since the last invalidation
  solo,     \* history: no other job wrote the tenant since this one read the hashes
  faults, crashes  \* failures and crashes so far

stores == <<index, raw>>
history == <<owes, solo>>
bounds == <<faults, crashes>>
vars == <<row, upload, pc, mem, permits, stores, history, bounds>>

Upload == [tenant : Tenants, feed : Feeds, full : BOOLEAN]

Status == {"PENDING", "RUNNING", "SUCCEEDED", "PARTIAL", "FAILED"}
Terminal == {"SUCCEEDED", "PARTIAL", "FAILED"}
Completed == {"SUCCEEDED", "PARTIAL"}

JobRow == [status : Status, total : Nat, indexed : Nat, failed : Nat,
           skipped : Nat, deleted : Nat]

(* Stages of the task.  "gone" is a task that ended without resolving its  *)
(* row: the process died, or the commit that resolves it raised.           *)
Holding == {"fetch", "upsert", "delete", "mongo"}
Stage == Holding \cup {"idle", "scheduled", "waiting", "invalidate",
                       "finish", "failing", "done", "gone"}
Live == Stage \ {"idle", "done", "gone"}

(* "spared" is no local variable: it is the failed part of the answer to   *)
(* the delete, which delete_products_by_sku drops.                         *)
Memory == [existing : Catalog, changed : SUBSET Skus, rest : SUBSET Skus,
           deleted : Nat, spared : SUBSET Skus, tries : 0 .. Attempts - 1]

Nothing == [s \in Skus |-> None]
Fresh == [existing |-> Nothing, changed |-> {}, rest |-> {},
          deleted |-> 0, spared |-> {}, tries |-> 0]

Holders == {j \in Jobs : pc[j] \in Holding}

TenantOf(j) == upload[j].tenant
FeedOf(j) == upload[j].feed
Products(j) == Present(FeedOf(j).products)

-----------------------------------------------------------------------------
(* What the calls do to a catalog.                                         *)

(* Mutant: only new SKUs count as changed.                                 *)
ChangedIgnoresUpdates(products, existing) ==
  {s \in Present(products) : existing[s] = None}

(* partition_by_delta: the SKUs whose hash differs from the indexed one.   *)
Changed(products, existing) ==
  {s \in Present(products) : existing[s] # products[s]}

(* The SKUs a full_sync deletes: indexed when the hashes were read, and    *)
(* without a product in the feed.                                          *)
Stale(j) == Present(mem[j].existing) \ Products(j)

(* Those of them that delete_many's filter still finds.                    *)
Matched(j) == Stale(j) \cap Present(index[TenantOf(j)])

Put(c, S, products) == [s \in Skus |-> IF s \in S THEN products[s] ELSE c[s]]
Remove(c, S) == [s \in Skus |-> IF s \in S THEN None ELSE c[s]]

(* Mutant: len // size batches.                                            *)
FullBatches(rest, size) == {b \in SUBSET rest : Cardinality(b) = size}

(* range(0, len, size): full batches, then what is left.                   *)
Batches(rest, size) ==
  {b \in SUBSET rest : \/ Cardinality(b) = size
                       \/ b = rest /\ b # {} /\ Cardinality(rest) < size}

-----------------------------------------------------------------------------
(* Control shared by the steps of a task.                                  *)

Goto(j, stage) == pc' = [pc EXCEPT ![j] = stage]

Keep(j, m) == mem' = [mem EXCEPT ![j] = m]

Spend(service) ==
  /\ service \in Faulty /\ faults < MaxFaults
  /\ faults' = faults + 1
  /\ UNCHANGED crashes

(* Mutant: release() outside a finally.                                    *)
ExitLeaksOnError(j, stage) ==
  /\ Goto(j, stage)
  /\ permits' = IF pc[j] \in Holding /\ stage # "failing" THEN permits + 1 ELSE permits

(* async with _ingestion_semaphore gives the permit back on every exit.    *)
Exit(j, stage) ==
  /\ Goto(j, stage)
  /\ permits' = IF pc[j] \in Holding THEN permits + 1 ELSE permits

(* An exception that leaves ingest() is caught by run_ingestion_job.       *)
Raise(j) == Exit(j, "failing") /\ UNCHANGED mem

(* A call raised.  with_retry calls again after a transient error while    *)
(* attempts remain; any other exception, and the last attempt's, leave     *)
(* ingest().                                                               *)
RetryOrRaise(j) ==
  \/ /\ mem[j].tries + 1 < Attempts
     /\ Keep(j, [mem[j] EXCEPT !.tries = @ + 1])
     /\ UNCHANGED <<pc, permits>>
  \/ Raise(j)

(* History of a write by j: no other job of the tenant runs alone any more. *)
Disturb(j) ==
  solo' = [k \in Jobs |-> solo[k] /\ (k = j \/ TenantOf(k) # TenantOf(j))]

WriteIndex(j, c) ==
  /\ index' = [index EXCEPT ![TenantOf(j)] = c]
  /\ owes' = [owes EXCEPT ![TenantOf(j)] =
                IF c = index[TenantOf(j)] THEN @ ELSE @ \cup {j}]
  /\ Disturb(j)
  /\ UNCHANGED raw

WriteRaw(j, S) ==
  /\ raw' = [raw EXCEPT ![TenantOf(j)] = Put(@, S, FeedOf(j).products)]
  /\ Disturb(j)
  /\ UNCHANGED <<index, owes>>

-----------------------------------------------------------------------------
(* ingest_catalog: the job row is committed PENDING with the row count     *)
(* before the background task is added.                                    *)
Submit(j) ==
  /\ pc[j] = "idle"
  /\ \E u \in Upload :
       /\ upload' = [upload EXCEPT ![j] = u]
       /\ row' = [row EXCEPT ![j] =
                    [status |-> "PENDING", total |-> u.feed.total, indexed |-> 0,
                     failed |-> 0, skipped |-> 0, deleted |-> 0]]
  /\ Goto(j, "scheduled")
  /\ UNCHANGED <<mem, permits, stores, history, bounds>>

(* run_ingestion_job up to the commit of RUNNING; parsing needs no await.  *)
Start(j) ==
  /\ pc[j] = "scheduled"
  /\ row' = [row EXCEPT ![j].status = "RUNNING"]
  /\ Goto(j, "waiting")
  /\ UNCHANGED <<upload, mem, permits, stores, history, bounds>>

(* The session that starts the job raises outside run_ingestion_job's try. *)
StartFails(j) ==
  /\ pc[j] = "scheduled"
  /\ Spend("postgres")
  /\ row' \in {row, [row EXCEPT ![j].status = "RUNNING"]}
  /\ Goto(j, "gone")
  /\ UNCHANGED <<upload, mem, permits, stores, history>>

Acquire(j) ==
  /\ pc[j] = "waiting" /\ permits > 0
  /\ permits' = permits - 1
  /\ Goto(j, "fetch")
  /\ UNCHANGED <<row, upload, mem, stores, history, bounds>>

(* existing_content_hashes, then the delta against the feed.               *)
Fetch(j) ==
  /\ pc[j] = "fetch"
  /\ LET existing == index[TenantOf(j)]
         changed == Changed(FeedOf(j).products, existing)
     IN Keep(j, [Fresh EXCEPT !.existing = existing, !.changed = changed,
                              !.rest = changed])
  /\ solo' = [solo EXCEPT ![j] = TRUE]
  /\ Goto(j, "upsert")
  /\ UNCHANGED <<row, upload, permits, stores, owes, bounds>>

FetchFails(j) ==
  /\ pc[j] = "fetch"
  /\ Spend("weaviate")
  /\ RetryOrRaise(j)
  /\ UNCHANGED <<row, upload, stores, history>>

(* One round of _embed_and_upsert.                                         *)
UpsertBatch(j) ==
  /\ pc[j] = "upsert"
  /\ \E b \in Batches(mem[j].rest, EmbedBatch) :
       /\ WriteIndex(j, Put(index[TenantOf(j)], b, FeedOf(j).products))
       /\ Keep(j, [mem[j] EXCEPT !.rest = @ \ b, !.tries = 0])
  /\ UNCHANGED <<row, upload, pc, permits, bounds>>

(* The upsert raised, or returned per-object errors; any part of the batch *)
(* may have been written.                                                  *)
UpsertFails(j) ==
  /\ pc[j] = "upsert"
  /\ Spend("weaviate")
  /\ \E b \in Batches(mem[j].rest, EmbedBatch) : \E done \in SUBSET b :
       WriteIndex(j, Put(index[TenantOf(j)], done, FeedOf(j).products))
  /\ RetryOrRaise(j)
  /\ UNCHANGED <<row, upload>>

(* Mutant: deletes without looking at full_sync.                           *)
UpsertedDeletesAlways(j) ==
  /\ pc[j] = "upsert" /\ mem[j].rest = {}
  /\ IF Stale(j) # {}
     THEN Goto(j, "delete") /\ UNCHANGED mem
     ELSE Goto(j, "mongo") /\ Keep(j, [mem[j] EXCEPT !.rest = Products(j)])
  /\ UNCHANGED <<row, upload, permits, stores, history, bounds>>

(* All batches written: delete what the feed lacks, or go on to Mongo.     *)
Upserted(j) ==
  /\ pc[j] = "upsert" /\ mem[j].rest = {}
  /\ IF upload[j].full /\ Stale(j) # {}
     THEN Goto(j, "delete") /\ UNCHANGED mem
     ELSE Goto(j, "mongo") /\ Keep(j, [mem[j] EXCEPT !.rest = Products(j)])
  /\ UNCHANGED <<row, upload, permits, stores, history, bounds>>

(* delete_many answered, and gone is the part it deleted:                  *)
(* delete_products_by_sku returns their number and no more.                *)
Deletion(j, gone) ==
  /\ WriteIndex(j, Remove(index[TenantOf(j)], gone))
  /\ Keep(j, [mem[j] EXCEPT !.deleted = Cardinality(gone),
                            !.spared = Matched(j) \ gone,
                            !.rest = Products(j), !.tries = 0])
  /\ Goto(j, "mongo")
  /\ UNCHANGED <<row, upload, permits>>

DeleteStale(j) ==
  /\ pc[j] = "delete"
  /\ Deletion(j, Matched(j))
  /\ UNCHANGED bounds

(* Some objects could not be deleted.  The answer says so, no exception is *)
(* raised, and ingest() goes on.                                           *)
DeletePartly(j) ==
  /\ pc[j] = "delete"
  /\ Spend("weaviate")
  /\ \E gone \in SUBSET Matched(j) : gone # Matched(j) /\ Deletion(j, gone)

(* The call raised; any part of the objects may be gone.                   *)
DeleteFails(j) ==
  /\ pc[j] = "delete"
  /\ Spend("weaviate")
  /\ \E gone \in SUBSET Stale(j) :
       WriteIndex(j, Remove(index[TenantOf(j)], gone))
  /\ RetryOrRaise(j)
  /\ UNCHANGED <<row, upload>>

(* Mutant: a return inside the loop over the chunks.                       *)
StoreRawOneChunk(j) ==
  /\ pc[j] = "mongo"
  /\ \E b \in Batches(mem[j].rest, MongoBatch) :
       /\ WriteRaw(j, b)
       /\ Keep(j, [mem[j] EXCEPT !.rest = {}, !.tries = 0])
  /\ UNCHANGED <<row, upload, pc, permits, bounds>>

(* One bulk_write of _store_raw_rows.                                      *)
StoreRaw(j) ==
  /\ pc[j] = "mongo"
  /\ \E b \in Batches(mem[j].rest, MongoBatch) :
       /\ WriteRaw(j, b)
       /\ Keep(j, [mem[j] EXCEPT !.rest = @ \ b, !.tries = 0])
  /\ UNCHANGED <<row, upload, pc, permits, bounds>>

(* ordered=False: any part of the chunk may have been written.             *)
StoreRawFails(j) ==
  /\ pc[j] = "mongo"
  /\ Spend("mongo")
  /\ \E b \in Batches(mem[j].rest, MongoBatch) : \E done \in SUBSET b :
       WriteRaw(j, done)
  /\ RetryOrRaise(j)
  /\ UNCHANGED <<row, upload>>

(* Mutant: only deletions invalidate the cache.                            *)
ReleaseIgnoresUpserts(j) ==
  /\ pc[j] = "mongo" /\ mem[j].rest = {}
  /\ Exit(j, IF mem[j].deleted > 0 THEN "invalidate" ELSE "finish")
  /\ UNCHANGED <<row, upload, mem, stores, history, bounds>>

(* Leave the semaphore; the cache is invalidated only when the run upserted *)
(* or deleted something.                                                   *)
Release(j) ==
  /\ pc[j] = "mongo" /\ mem[j].rest = {}
  /\ Exit(j, IF mem[j].changed # {} \/ mem[j].deleted > 0
             THEN "invalidate" ELSE "finish")
  /\ UNCHANGED <<row, upload, mem, stores, history, bounds>>

Invalidate(j) ==
  /\ pc[j] = "invalidate"
  /\ owes' = [owes EXCEPT ![TenantOf(j)] = {}]
  /\ Goto(j, "finish")
  /\ UNCHANGED <<row, upload, mem, permits, stores, solo, bounds>>

(* The DEL is not retried; it may have reached Redis all the same.         *)
InvalidateFails(j) ==
  /\ pc[j] = "invalidate"
  /\ Spend("redis")
  /\ owes' \in {owes, [owes EXCEPT ![TenantOf(j)] = {}]}
  /\ Raise(j)
  /\ UNCHANGED <<row, upload, stores, solo>>

(* Mutant: every product of the feed counts as skipped.                    *)
OutcomeSkipsAll(j) ==
  [status |-> IF FeedOf(j).failed > 0 THEN "PARTIAL" ELSE "SUCCEEDED",
   total |-> FeedOf(j).total,
   indexed |-> Cardinality(mem[j].changed),
   failed |-> FeedOf(j).failed,
   skipped |-> Cardinality(Products(j)),
   deleted |-> mem[j].deleted]

(* The counts a completed job writes onto its row.                         *)
Outcome(j) ==
  [status |-> IF FeedOf(j).failed > 0 THEN "PARTIAL" ELSE "SUCCEEDED",
   total |-> FeedOf(j).total,
   indexed |-> Cardinality(mem[j].changed),
   failed |-> FeedOf(j).failed,
   skipped |-> Cardinality(Products(j) \ mem[j].changed),
   deleted |-> mem[j].deleted]

Resolution(j) ==
  IF pc[j] = "finish" THEN Outcome(j) ELSE [row[j] EXCEPT !.status = "FAILED"]

(* The commit that resolves the job, after success or a caught exception.  *)
Resolve(j) ==
  /\ pc[j] \in {"finish", "failing"}
  /\ row' = [row EXCEPT ![j] = Resolution(j)]
  /\ Goto(j, "done")
  /\ UNCHANGED <<upload, mem, permits, stores, history, bounds>>

(* Either commit raises out of run_ingestion_job, written or not.          *)
ResolveFails(j) ==
  /\ pc[j] \in {"finish", "failing"}
  /\ Spend("postgres")
  /\ row' \in {row, [row EXCEPT ![j] = Resolution(j)]}
  /\ Goto(j, "gone")
  /\ UNCHANGED <<upload, mem, permits, stores, history>>

(* The process dies and restarts: tasks and semaphore are in memory only,  *)
(* and nothing at startup picks unfinished rows up again.                  *)
Crash ==
  /\ crashes < MaxCrashes /\ crashes' = crashes + 1
  /\ \E j \in Jobs : pc[j] \in Live
  /\ pc' = [j \in Jobs |-> IF pc[j] \in Live THEN "gone" ELSE pc[j]]
  /\ permits' = Limit
  /\ UNCHANGED <<row, upload, mem, stores, history, faults>>

-----------------------------------------------------------------------------
Init ==
  /\ row = [j \in Jobs |-> None]
  /\ upload = [j \in Jobs |-> None]
  /\ pc = [j \in Jobs |-> "idle"]
  /\ mem = [j \in Jobs |-> Fresh]
  /\ permits = Limit
  /\ index \in [Tenants -> Catalogs]
  /\ raw = index
  /\ owes = [t \in Tenants |-> {}]
  /\ solo = [j \in Jobs |-> FALSE]
  /\ faults = 0 /\ crashes = 0

Succeed(j) ==
  \/ Start(j) \/ Acquire(j) \/ Fetch(j) \/ UpsertBatch(j) \/ Upserted(j)
  \/ DeleteStale(j) \/ StoreRaw(j) \/ Release(j) \/ Invalidate(j) \/ Resolve(j)

Fail(j) ==
  \/ StartFails(j) \/ FetchFails(j) \/ UpsertFails(j) \/ DeletePartly(j)
  \/ DeleteFails(j) \/ StoreRawFails(j) \/ InvalidateFails(j) \/ ResolveFails(j)

Next ==
  \/ \E j \in Jobs : Submit(j) \/ Succeed(j) \/ Fail(j)
  \/ Crash

Spec == Init /\ [][Next]_vars

(* The event loop runs every task that can run; failures and crashes       *)
(* happen or do not.                                                       *)
FairSpec == Spec /\ \A j \in Jobs : WF_vars(Succeed(j))

-----------------------------------------------------------------------------
(* Properties.                                                             *)

(* Every variable has its type; the program counters and the job rows are  *)
(* those of run_ingestion_job.                                             *)
TypeOK ==
  /\ row \in [Jobs -> JobRow \cup {None}]
  /\ upload \in [Jobs -> Upload \cup {None}]
  /\ pc \in [Jobs -> Stage]
  /\ mem \in [Jobs -> Memory]
  /\ permits \in 0 .. Limit
  /\ index \in [Tenants -> Catalog]
  /\ raw \in [Tenants -> Catalog]
  /\ owes \in [Tenants -> SUBSET Jobs]
  /\ solo \in [Jobs -> BOOLEAN]
  /\ faults \in 0 .. MaxFaults /\ crashes \in 0 .. MaxCrashes

(* The semaphore never leaks or mints a permit, whichever way ingest() is  *)
(* left: by its end, by an exception of any call, or with the process.     *)
PermitsConserved == permits + Cardinality(Holders) = Limit

HasCompleted(j) == row[j] # None /\ row[j].status \in Completed

(* A job reported SUCCEEDED or PARTIAL, while no other job has written its *)
(* tenant since it read the hashes, leaves Weaviate and Mongo agreeing     *)
(* with its feed, whatever calls failed and were retried on the way; after *)
(* a full_sync the tenant holds exactly the feed's products, and those the *)
(* answer to the delete reported as failed.                                *)
SoloJobIndexesItsFeed ==
  \A j \in Jobs : HasCompleted(j) /\ solo[j] =>
    /\ \A s \in Products(j) : /\ index[TenantOf(j)][s] = FeedOf(j).products[s]
                             /\ raw[TenantOf(j)][s] = FeedOf(j).products[s]
    /\ upload[j].full =>
         Present(index[TenantOf(j)]) = Products(j) \cup mem[j].spared

(* A product in Weaviate has its source row in Mongo, unless a job that    *)
(* brought it has not completed: Weaviate is written before Mongo.         *)
IndexedIsReplayable ==
  \A t \in Tenants : \A s \in Present(index[t]) \ Present(raw[t]) :
    \E j \in Jobs : /\ pc[j] # "idle" /\ TenantOf(j) = t
                   /\ s \in Products(j) /\ ~ HasCompleted(j)

(* The counts of a completed job account for every row of the feed.        *)
ReportAddsUp ==
  \A j \in Jobs : HasCompleted(j) =>
    row[j].total = row[j].indexed + row[j].skipped + row[j].failed
                     + FeedOf(j).duplicates

(* A completed job's changes have been followed by an invalidation of the  *)
(* tenant's semantic cache, with one exception: a full_sync that only      *)
(* deleted, and whose delete was retried after its answer was lost.        *)
CompletedJobInvalidated ==
  \A j \in Jobs : HasCompleted(j) /\ j \in owes[TenantOf(j)] =>
    upload[j].full /\ row[j].indexed = 0 /\ row[j].deleted = 0

LossIsFullSync ==
  \A t \in Tenants : \A s \in Present(index[t]) \ Present(index'[t]) :
    \E j \in Jobs : /\ pc[j] = "delete" /\ TenantOf(j) = t
                   /\ upload[j].full /\ s \notin Products(j)

(* A partial upload never loses a product it did not mention: a product    *)
(* leaves the index only by a full_sync whose feed has no product for it.  *)
OnlyFullSyncDeletes == [][LossIsFullSync]_vars

(* Every accepted job ends: its row reaches a terminal status unless the   *)
(* process died or a commit of the row raised.                             *)
JobsEnd == \A j \in Jobs :
  pc[j] = "scheduled" ~> \/ pc[j] = "gone"
                         \/ row[j] # None /\ row[j].status \in Terminal

(* pipeline.py: a re-ingest that changed something "must not leave the     *)
(* chat semantic cache serving a shopper an answer built from the old      *)
(* catalog state".                                                         *)
ResolvedJobInvalidated ==
  \A j \in Jobs : pc[j] = "done" => j \notin owes[TenantOf(j)]

(* delete_products_by_sku: "a SKU that vanished from a fresh feed is       *)
(* removed from the index, not just left stale forever".                   *)
FullSyncLeavesNoStale ==
  \A j \in Jobs : HasCompleted(j) /\ solo[j] /\ upload[j].full =>
    Present(index[TenantOf(j)]) \subseteq Products(j)

(* ingest: full_sync deletes a SKU that is "*absent* from this feed".      *)
FullSyncKeepsMentioned ==
  [][\A t \in Tenants : \A s \in Present(index[t]) \ Present(index'[t]) :
       \E j \in Jobs : /\ pc[j] = "delete" /\ TenantOf(j) = t
                      /\ s \notin FeedOf(j).rejected \cup Products(j)]_vars

=============================================================================
