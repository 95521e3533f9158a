-------------------------- MODULE IngestionProofs --------------------------
(***************************************************************************)
(* Type correctness, the ingestion semaphore and the properties that       *)
(* relate a job's report to the stores it wrote, for every set of jobs,    *)
(* tenants and SKUs, every feed, limit and batch size, and any number of   *)
(* failures and crashes.                                                   *)
(***************************************************************************)
EXTENDS Ingestion, FiniteSetTheorems, TLAPS

(* A job is known to Postgres, with its upload, from its submission on.    *)
JobsKnown ==
  \A j \in Jobs :
    IF pc[j] = "idle" THEN row[j] = None /\ upload[j] = None /\ ~ solo[j]
    ELSE row[j] \in JobRow /\ upload[j] \in Upload

TypeInv == TypeOK /\ JobsKnown

-----------------------------------------------------------------------------
(* Facts about the operators.                                              *)

LEMMA PutType ==
  ASSUME NEW c \in Catalog, NEW p \in Catalog, NEW S
  PROVE  Put(c, S, p) \in Catalog
BY DEF Put, Catalog

LEMMA RemoveType ==
  ASSUME NEW c \in Catalog, NEW S PROVE Remove(c, S) \in Catalog
BY DEF Remove, Catalog

LEMMA PresentAfter ==
  ASSUME NEW c \in Catalog, NEW p \in Catalog, NEW S, S \subseteq Present(p)
  PROVE  /\ Present(Put(c, S, p)) = Present(c) \cup S
         /\ Present(Remove(c, S)) = Present(c) \ S
BY DEF Catalog, Put, Remove, Present

LEMMA BatchesAreSubsets ==
  ASSUME NEW rest, NEW size \in Nat \ {0}, IsFiniteSet(rest), NEW b \in Batches(rest, size)
  PROVE  b \subseteq rest /\ b # {}
BY FS_EmptySet DEF Batches

LEMMA SkusFinite ==
  ASSUME NEW S \in SUBSET Skus
  PROVE  IsFiniteSet(S) /\ Cardinality(S) \in Nat
BY FS_Subset, FS_CardinalityType, IngestionAssumption

(* A job that is not idle has a tenant and a feed of the right type.       *)
LEMMA UploadType ==
  ASSUME TypeInv, NEW j \in Jobs, pc[j] # "idle"
  PROVE  /\ TenantOf(j) \in Tenants
         /\ FeedOf(j) \in Feed
         /\ FeedOf(j).products \in Catalog
         /\ Products(j) \in SUBSET Skus
BY IngestionAssumption DEF TypeInv, JobsKnown, Upload, TenantOf, FeedOf, Products, Present, Feed

-----------------------------------------------------------------------------
(* Type correctness, and the semaphore it needs: the bound on permits is   *)
(* that the holders' number is a natural number.                           *)

LEMMA HoldersFinite ==
  /\ IsFiniteSet(Holders) /\ Cardinality(Holders) \in Nat
  /\ IsFiniteSet(Holders') /\ Cardinality(Holders') \in Nat
<1>1. Holders \subseteq Jobs /\ Holders' \subseteq Jobs
  BY DEF Holders
<1>2. QED
  BY <1>1, FS_Subset, FS_CardinalityType, IngestionAssumption

(* One job changing stage changes the number of holders by at most one.    *)
LEMMA HoldersMove ==
  ASSUME NEW j \in Jobs, NEW stage, pc \in [Jobs -> Stage], Goto(j, stage)
  PROVE  LET before == IF pc[j] \in Holding THEN 1 ELSE 0
             after == IF stage \in Holding THEN 1 ELSE 0
         IN Cardinality(Holders') = Cardinality(Holders) - before + after
<1>1. CASE stage \in Holding
  <2>1. Holders' = Holders \cup {j}
    BY <1>1 DEF Goto, Holders
  <2>2. j \in Holders <=> pc[j] \in Holding
    BY DEF Holders
  <2>3. QED
    BY <1>1, <2>1, <2>2, HoldersFinite, FS_AddElement
<1>2. CASE stage \notin Holding
  <2>1. Holders' = Holders \ {j}
    BY <1>2 DEF Goto, Holders
  <2>2. j \in Holders <=> pc[j] \in Holding
    BY DEF Holders
  <2>3. QED
    BY <1>2, <2>1, <2>2, HoldersFinite, FS_RemoveElement
<1>3. QED
  BY <1>1, <1>2

LEMMA HoldersStay ==
  ASSUME NEW j \in Jobs, NEW stage, pc \in [Jobs -> Stage], Goto(j, stage),
         pc[j] \in Holding <=> stage \in Holding
  PROVE  Cardinality(Holders') = Cardinality(Holders)
BY HoldersMove, HoldersFinite

LEMMA ExitConserves ==
  ASSUME TypeInv, PermitsConserved, NEW j \in Jobs, NEW stage \in Stage \ Holding,
         Exit(j, stage)
  PROVE  PermitsConserved' /\ permits' \in 0 .. Limit
<1>1. permits \in Int /\ Limit \in Int /\ Goto(j, stage)
      /\ permits' = IF pc[j] \in Holding THEN permits + 1 ELSE permits
  BY IngestionAssumption DEF TypeInv, TypeOK, Exit
<1>2. Cardinality(Holders') = Cardinality(Holders) - (IF pc[j] \in Holding THEN 1 ELSE 0)
  BY <1>1, HoldersMove, HoldersFinite DEF TypeInv, TypeOK
<1>3. PermitsConserved'
  BY <1>1, <1>2, HoldersFinite DEF PermitsConserved
<1>4. permits' \in Int /\ permits' >= 0
  BY <1>1 DEF TypeInv, TypeOK
<1>5. QED
  BY <1>1, <1>3, <1>4, HoldersFinite DEF PermitsConserved

(* What a failed call may do to the control of its task.                   *)
LEMMA RetryOrRaiseType ==
  ASSUME TypeInv, PermitsConserved, NEW j \in Jobs, pc[j] # "idle", RetryOrRaise(j)
  PROVE  /\ mem' \in [Jobs -> Memory]
         /\ pc' = [pc EXCEPT ![j] = pc'[j]] /\ pc'[j] \in {pc[j], "failing"}
         /\ pc' \in [Jobs -> Stage]
         /\ PermitsConserved' /\ permits' \in 0 .. Limit
<1>1. CASE Raise(j)
  <2>1. PermitsConserved' /\ permits' \in 0 .. Limit
    BY <1>1, ExitConserves DEF Raise, Stage, Holding
  <2>2. QED
    BY <1>1, <2>1 DEF Raise, Exit, Goto, TypeInv, TypeOK, Stage
<1>2. CASE /\ mem[j].tries + 1 < Attempts
           /\ Keep(j, [mem[j] EXCEPT !.tries = @ + 1])
           /\ UNCHANGED <<pc, permits>>
  <2>1. mem \in [Jobs -> Memory] /\ mem[j] \in Memory /\ Attempts \in Nat
    BY IngestionAssumption DEF TypeInv, TypeOK
  <2>2. mem[j].tries \in 0 .. Attempts - 1
    BY <2>1 DEF Memory
  <2>3. mem[j].tries + 1 \in 0 .. Attempts - 1
    BY <1>2, <2>1, <2>2
  <2>4. [mem[j] EXCEPT !.tries = @ + 1] \in Memory
    BY <2>1, <2>3 DEF Memory
  <2>5. mem' \in [Jobs -> Memory]
    BY <1>2, <2>1, <2>4 DEF Keep
  <2>6. QED
    BY <1>2, <2>5 DEF PermitsConserved, Holders, TypeInv, TypeOK
<1>3. QED
  BY <1>1, <1>2 DEF RetryOrRaise

LEMMA WriteIndexType ==
  ASSUME TypeInv, NEW j \in Jobs, pc[j] # "idle", NEW c \in Catalog, WriteIndex(j, c)
  PROVE  /\ index' \in [Tenants -> Catalog] /\ raw' \in [Tenants -> Catalog]
         /\ owes' \in [Tenants -> SUBSET Jobs]
         /\ solo' \in [Jobs -> BOOLEAN] /\ \A k \in Jobs : solo'[k] => solo[k]
BY UploadType DEF WriteIndex, Disturb, TypeInv, TypeOK

LEMMA WriteRawType ==
  ASSUME TypeInv, NEW j \in Jobs, pc[j] # "idle", NEW S, WriteRaw(j, S)
  PROVE  /\ index' \in [Tenants -> Catalog] /\ raw' \in [Tenants -> Catalog]
         /\ owes' \in [Tenants -> SUBSET Jobs]
         /\ solo' \in [Jobs -> BOOLEAN] /\ \A k \in Jobs : solo'[k] => solo[k]
<1>1. Put(raw[TenantOf(j)], S, FeedOf(j).products) \in Catalog
  BY UploadType, PutType DEF TypeInv, TypeOK
<1>2. QED
  BY <1>1, UploadType DEF WriteRaw, Disturb, TypeInv, TypeOK

(* A task that stays known: only its own row and its own solo flag change. *)
LEMMA JobsStayKnown ==
  ASSUME TypeInv, NEW j \in Jobs, pc[j] # "idle",
         pc' = [pc EXCEPT ![j] = pc'[j]], pc'[j] # "idle", upload' = upload,
         row' = row \/ \E r \in JobRow : row' = [row EXCEPT ![j] = r],
         \A k \in Jobs : solo'[k] => solo[k] \/ k = j
  PROVE  JobsKnown' /\ row' \in [Jobs -> JobRow \cup {None}]
<1>1. row \in [Jobs -> JobRow \cup {None}] /\ pc \in [Jobs -> Stage]
  BY DEF TypeInv, TypeOK
<1>2. row' \in [Jobs -> JobRow \cup {None}] /\ \A k \in Jobs \ {j} : row'[k] = row[k]
  BY <1>1
<1>3. row'[j] \in JobRow
  BY <1>1 DEF TypeInv, JobsKnown
<1>4. QED
  BY <1>1, <1>2, <1>3 DEF TypeInv, JobsKnown

(* Steps that leave permits alone and move no job in or out of the         *)
(* semaphore.                                                              *)
LEMMA PermitsUntouched ==
  ASSUME TypeInv, PermitsConserved, NEW j \in Jobs, permits' = permits,
         pc' = [pc EXCEPT ![j] = pc'[j]], pc[j] \in Holding <=> pc'[j] \in Holding
  PROVE  PermitsConserved' /\ permits' \in 0 .. Limit
<1>1. Goto(j, pc'[j])
  BY DEF Goto
<1>2. Cardinality(Holders') = Cardinality(Holders)
  BY <1>1, HoldersStay DEF TypeInv, TypeOK
<1>3. QED
  BY <1>2 DEF PermitsConserved, TypeInv, TypeOK

Sound == TypeInv /\ PermitsConserved

LEMMA SubmitSound == ASSUME Sound, NEW j \in Jobs, Submit(j) PROVE Sound'
<1>1. PICK u \in Upload :
        /\ upload' = [upload EXCEPT ![j] = u]
        /\ row' = [row EXCEPT ![j] =
                     [status |-> "PENDING", total |-> u.feed.total, indexed |-> 0,
                      failed |-> 0, skipped |-> 0, deleted |-> 0]]
  BY DEF Submit
<1>2. u.feed.total \in Nat
  BY IngestionAssumption DEF Upload, Feed
<1>3. [status |-> "PENDING", total |-> u.feed.total, indexed |-> 0,
       failed |-> 0, skipped |-> 0, deleted |-> 0] \in JobRow
  BY <1>2 DEF JobRow, Status
<1>4. pc' = [pc EXCEPT ![j] = "scheduled"] /\ pc[j] = "idle"
      /\ UNCHANGED <<mem, permits, stores, history, bounds>>
  BY DEF Submit, Goto
<1>5. JobsKnown'
  BY <1>1, <1>3, <1>4 DEF Sound, TypeInv, TypeOK, JobsKnown, history
<1>6. PermitsConserved' /\ permits' \in 0 .. Limit
  BY <1>4, PermitsUntouched DEF Sound, TypeInv, TypeOK, Holding
<1>7. TypeOK'
  BY <1>1, <1>3, <1>4, <1>6
  DEF Sound, TypeInv, TypeOK, Stage, stores, history, bounds
<1>8. QED
  BY <1>5, <1>6, <1>7 DEF Sound, TypeInv

LEMMA StartSound == ASSUME Sound, NEW j \in Jobs, Start(j) PROVE Sound'
<1>1. pc[j] = "scheduled" /\ pc' = [pc EXCEPT ![j] = "waiting"]
      /\ row' = [row EXCEPT ![j].status = "RUNNING"]
      /\ UNCHANGED <<upload, mem, permits, stores, history, bounds>>
  BY DEF Start, Goto
<1>2. pc'[j] = "waiting"
  BY <1>1 DEF Sound, TypeInv, TypeOK
<1>3. row[j] \in JobRow /\ row \in [Jobs -> JobRow \cup {None}]
  BY <1>1 DEF Sound, TypeInv, TypeOK, JobsKnown
<1>4. \E r \in JobRow : row' = [row EXCEPT ![j] = r]
  <2>1. [row[j] EXCEPT !.status = "RUNNING"] \in JobRow
    BY <1>3 DEF JobRow, Status
  <2>2. QED
    BY <1>1, <1>3, <2>1
<1>5. JobsKnown' /\ row' \in [Jobs -> JobRow \cup {None}]
  BY <1>1, <1>2, <1>4, JobsStayKnown DEF Sound, history
<1>6. PermitsConserved' /\ permits' \in 0 .. Limit
  BY <1>1, <1>2, PermitsUntouched DEF Sound, Holding
<1>7. QED
  BY <1>1, <1>5, <1>6 DEF Sound, TypeInv, TypeOK, Stage, stores, history, bounds

LEMMA StartFailsSound == ASSUME Sound, NEW j \in Jobs, StartFails(j) PROVE Sound'
<1>1. pc[j] = "scheduled" /\ pc' = [pc EXCEPT ![j] = "gone"]
      /\ row' \in {row, [row EXCEPT ![j].status = "RUNNING"]}
      /\ UNCHANGED <<upload, mem, permits, stores, history>>
  BY DEF StartFails, Goto
<1>2. pc'[j] = "gone"
  BY <1>1 DEF Sound, TypeInv, TypeOK
<1>3. row[j] \in JobRow /\ row \in [Jobs -> JobRow \cup {None}]
  BY <1>1 DEF Sound, TypeInv, TypeOK, JobsKnown
<1>4. row' = row \/ \E r \in JobRow : row' = [row EXCEPT ![j] = r]
  <2>1. [row[j] EXCEPT !.status = "RUNNING"] \in JobRow
    BY <1>3 DEF JobRow, Status
  <2>2. QED
    BY <1>1, <1>3, <2>1
<1>5. JobsKnown' /\ row' \in [Jobs -> JobRow \cup {None}]
  BY <1>1, <1>2, <1>4, JobsStayKnown DEF Sound, history
<1>6. PermitsConserved' /\ permits' \in 0 .. Limit
  BY <1>1, <1>2, PermitsUntouched DEF Sound, Holding
<1>7. faults' \in 0 .. MaxFaults /\ crashes' \in 0 .. MaxCrashes
  BY IngestionAssumption DEF StartFails, Spend, Sound, TypeInv, TypeOK
<1>8. QED
  BY <1>1, <1>5, <1>6, <1>7 DEF Sound, TypeInv, TypeOK, Stage, stores, history

LEMMA AcquireSound == ASSUME Sound, NEW j \in Jobs, Acquire(j) PROVE Sound'
<1>1. pc[j] = "waiting" /\ Goto(j, "fetch") /\ permits > 0 /\ permits' = permits - 1
      /\ UNCHANGED <<row, upload, mem, stores, history, bounds>>
  BY DEF Acquire
<1>2. pc' = [pc EXCEPT ![j] = "fetch"] /\ pc'[j] = "fetch"
  BY <1>1 DEF Goto, Sound, TypeInv, TypeOK
<1>3. Cardinality(Holders') = Cardinality(Holders) + 1
  BY <1>1, HoldersMove, HoldersFinite DEF Sound, TypeInv, TypeOK, Holding
<1>4. permits \in Int /\ Limit \in Int
  BY IngestionAssumption DEF Sound, TypeInv, TypeOK
<1>5. PermitsConserved' /\ permits' \in 0 .. Limit
  BY <1>1, <1>3, <1>4, HoldersFinite DEF Sound, PermitsConserved
<1>6. JobsKnown'
  BY <1>1, <1>2, JobsStayKnown DEF Sound, history
<1>7. QED
  BY <1>1, <1>2, <1>5, <1>6
  DEF Sound, TypeInv, TypeOK, Stage, Holding, stores, history, bounds

LEMMA FreshType ==
  ASSUME NEW existing \in Catalog, NEW changed \in SUBSET Skus
  PROVE  [Fresh EXCEPT !.existing = existing, !.changed = changed, !.rest = changed]
           \in Memory
<1>1. 0 \in 0 .. Attempts - 1
  BY IngestionAssumption
<1>2. QED
  BY <1>1 DEF Fresh, Memory

LEMMA FetchSound == ASSUME Sound, NEW j \in Jobs, Fetch(j) PROVE Sound'
<1> DEFINE existing == index[TenantOf(j)]
           changed == Changed(FeedOf(j).products, existing)
           m == [Fresh EXCEPT !.existing = existing, !.changed = changed, !.rest = changed]
<1>1. pc[j] = "fetch" /\ pc' = [pc EXCEPT ![j] = "upsert"]
      /\ mem' = [mem EXCEPT ![j] = m] /\ solo' = [solo EXCEPT ![j] = TRUE]
      /\ UNCHANGED <<row, upload, permits, stores, owes, bounds>>
  BY DEF Fetch, Goto, Keep
<1>2. pc'[j] = "upsert"
  BY <1>1 DEF Sound, TypeInv, TypeOK
<1>3. existing \in Catalog /\ changed \in SUBSET Skus
  BY <1>1, UploadType DEF Sound, TypeInv, TypeOK, Changed, Present
<1>4. m \in Memory
  BY <1>3, FreshType
<1>5. JobsKnown'
  BY <1>1, <1>2, JobsStayKnown DEF Sound, TypeInv, TypeOK
<1>6. PermitsConserved' /\ permits' \in 0 .. Limit
  BY <1>1, <1>2, PermitsUntouched DEF Sound, Holding
<1>7. QED
  BY <1>1, <1>4, <1>5, <1>6
  DEF Sound, TypeInv, TypeOK, Stage, Holding, stores, bounds

(* The part of a failed call that is the same for every service: j keeps   *)
(* its row and its upload, and retries or raises.                          *)
LEMMA FailureSound ==
  ASSUME Sound, NEW j \in Jobs, pc[j] # "idle", NEW service, Spend(service),
         RetryOrRaise(j), UNCHANGED <<row, upload>>,
         index' \in [Tenants -> Catalog], raw' \in [Tenants -> Catalog],
         owes' \in [Tenants -> SUBSET Jobs], solo' \in [Jobs -> BOOLEAN],
         \A k \in Jobs : solo'[k] => solo[k]
  PROVE  Sound'
<1>1. /\ mem' \in [Jobs -> Memory]
      /\ pc' = [pc EXCEPT ![j] = pc'[j]] /\ pc'[j] \in {pc[j], "failing"}
      /\ pc' \in [Jobs -> Stage]
      /\ PermitsConserved' /\ permits' \in 0 .. Limit
  BY RetryOrRaiseType DEF Sound
<1>2. JobsKnown'
  BY <1>1, JobsStayKnown DEF Sound
<1>3. faults' \in 0 .. MaxFaults /\ crashes' \in 0 .. MaxCrashes
  BY IngestionAssumption DEF Spend, Sound, TypeInv, TypeOK
<1>4. QED
  BY <1>1, <1>2, <1>3 DEF Sound, TypeInv, TypeOK

LEMMA FetchFailsSound == ASSUME Sound, NEW j \in Jobs, FetchFails(j) PROVE Sound'
BY FailureSound DEF FetchFails, Sound, TypeInv, TypeOK, stores, history

(* What a batch of products, or a set of stale SKUs, leaves of a catalog.  *)
LEMMA BatchType ==
  ASSUME Sound, NEW j \in Jobs, pc[j] # "idle", NEW size \in Nat \ {0},
         NEW b \in Batches(mem[j].rest, size)
  PROVE  b \in SUBSET Skus /\ b \subseteq mem[j].rest /\ b # {}
<1>1. mem[j].rest \in SUBSET Skus
  BY DEF Sound, TypeInv, TypeOK, Memory
<1>2. QED
  BY <1>1, BatchesAreSubsets, SkusFinite

(* A successful call replaces the local variables and nothing else.        *)
LEMMA KeepType ==
  ASSUME TypeInv, NEW j \in Jobs, NEW rest \in SUBSET Skus, NEW deleted \in Nat
  PROVE  /\ [mem[j] EXCEPT !.rest = rest, !.tries = 0] \in Memory
         /\ [mem[j] EXCEPT !.rest = rest] \in Memory
         /\ \A spared \in SUBSET Skus :
              [mem[j] EXCEPT !.deleted = deleted, !.spared = spared, !.rest = rest,
                             !.tries = 0] \in Memory
<1>1. 0 \in 0 .. Attempts - 1
  BY IngestionAssumption
<1>2. mem[j] \in Memory
  BY DEF TypeInv, TypeOK
<1>3. QED
  BY <1>1, <1>2 DEF Memory

LEMMA UpsertBatchSound == ASSUME Sound, NEW j \in Jobs, UpsertBatch(j) PROVE Sound'
<1> DEFINE c(b) == Put(index[TenantOf(j)], b, FeedOf(j).products)
           m(b) == [mem[j] EXCEPT !.rest = @ \ b, !.tries = 0]
<1>1. pc[j] = "upsert" /\ UNCHANGED <<row, upload, pc, permits, bounds>>
  BY DEF UpsertBatch
<1>2. PICK b \in Batches(mem[j].rest, EmbedBatch) : WriteIndex(j, c(b)) /\ Keep(j, m(b))
  BY DEF UpsertBatch
<1>3. c(b) \in Catalog
  BY <1>1, UploadType, PutType DEF Sound, TypeInv, TypeOK
<1>4. mem[j].rest \ b \in SUBSET Skus
  BY DEF Sound, TypeInv, TypeOK, Memory
<1>5. m(b) \in Memory
  BY <1>4, KeepType DEF Sound
<1>6. mem' \in [Jobs -> Memory]
  BY <1>2, <1>5 DEF Keep, Sound, TypeInv, TypeOK
<1>7. /\ index' \in [Tenants -> Catalog] /\ raw' \in [Tenants -> Catalog]
      /\ owes' \in [Tenants -> SUBSET Jobs]
      /\ solo' \in [Jobs -> BOOLEAN] /\ \A k \in Jobs : solo'[k] => solo[k]
  BY <1>1, <1>2, <1>3, WriteIndexType DEF Sound
<1>8. JobsKnown'
  BY <1>1, <1>7 DEF Sound, TypeInv, JobsKnown
<1>9. QED
  BY <1>1, <1>6, <1>7, <1>8
  DEF Sound, TypeInv, TypeOK, PermitsConserved, Holders, bounds

LEMMA UpsertFailsSound == ASSUME Sound, NEW j \in Jobs, UpsertFails(j) PROVE Sound'
<1> DEFINE c(S) == Put(index[TenantOf(j)], S, FeedOf(j).products)
<1>1. pc[j] = "upsert" /\ Spend("weaviate") /\ RetryOrRaise(j) /\ UNCHANGED <<row, upload>>
  BY DEF UpsertFails
<1>2. PICK b \in Batches(mem[j].rest, EmbedBatch) : \E done \in SUBSET b :
        WriteIndex(j, c(done))
  BY DEF UpsertFails
<1>3. PICK done \in SUBSET b : WriteIndex(j, c(done))
  BY <1>2
<1>4. c(done) \in Catalog
  BY <1>1, UploadType, PutType DEF Sound, TypeInv, TypeOK
<1>5. QED
  BY <1>1, <1>3, <1>4, WriteIndexType, FailureSound DEF Sound

LEMMA UpsertedSound == ASSUME Sound, NEW j \in Jobs, Upserted(j) PROVE Sound'
<1>1. pc[j] = "upsert" /\ pc' = [pc EXCEPT ![j] = pc'[j]]
      /\ pc'[j] \in {"delete", "mongo"}
      /\ mem' \in {mem, [mem EXCEPT ![j] = [mem[j] EXCEPT !.rest = Products(j)]]}
      /\ UNCHANGED <<row, upload, permits, stores, history, bounds>>
  BY DEF Upserted, Goto, Keep, Sound, TypeInv, TypeOK
<1>2. mem' \in [Jobs -> Memory]
  <2>1. Products(j) \in SUBSET Skus
    BY <1>1, UploadType DEF Sound
  <2>2. [mem[j] EXCEPT !.rest = Products(j)] \in Memory
    BY <2>1, KeepType DEF Sound
  <2>3. QED
    BY <1>1, <2>2 DEF Sound, TypeInv, TypeOK
<1>3. JobsKnown'
  BY <1>1, JobsStayKnown DEF Sound, history
<1>4. PermitsConserved' /\ permits' \in 0 .. Limit
  BY <1>1, PermitsUntouched DEF Sound, Holding
<1>5. QED
  BY <1>1, <1>2, <1>3, <1>4
  DEF Sound, TypeInv, TypeOK, Stage, Holding, stores, history, bounds

(* A delete that answered, in full or in part.                             *)
Deletes(j) == DeleteStale(j) \/ DeletePartly(j)

LEMMA DeletesShape ==
  ASSUME Sound, NEW j \in Jobs, Deletes(j)
  PROVE  /\ pc[j] = "delete" /\ \E gone \in SUBSET Matched(j) : Deletion(j, gone)
         /\ faults' \in 0 .. MaxFaults /\ crashes' \in 0 .. MaxCrashes
<1>1. CASE DeleteStale(j)
  BY <1>1 DEF DeleteStale, Sound, TypeInv, TypeOK, bounds
<1>2. CASE DeletePartly(j)
  <2>1. Spend("weaviate")
    BY <1>2 DEF DeletePartly
  <2>2. faults' \in 0 .. MaxFaults /\ crashes' \in 0 .. MaxCrashes
    BY <2>1, IngestionAssumption DEF Spend, Sound, TypeInv, TypeOK
  <2>3. QED
    BY <1>2, <2>2 DEF DeletePartly
<1>3. QED
  BY <1>1, <1>2 DEF Deletes

LEMMA DeletesSound == ASSUME Sound, NEW j \in Jobs, Deletes(j) PROVE Sound'
<1>1. PICK gone \in SUBSET Matched(j) : Deletion(j, gone)
  BY DeletesShape
<1> DEFINE c == Remove(index[TenantOf(j)], gone)
           n == Cardinality(gone)
           left == Matched(j) \ gone
           m == [mem[j] EXCEPT !.deleted = n, !.spared = left, !.rest = Products(j),
                               !.tries = 0]
<1>2. pc[j] = "delete" /\ pc' = [pc EXCEPT ![j] = "mongo"]
      /\ WriteIndex(j, c) /\ mem' = [mem EXCEPT ![j] = m]
      /\ UNCHANGED <<row, upload, permits>>
  BY <1>1, DeletesShape DEF Deletion, Goto, Keep
<1>3. pc'[j] = "mongo"
  BY <1>2 DEF Sound, TypeInv, TypeOK
<1>4. c \in Catalog
  BY <1>2, UploadType, RemoveType DEF Sound, TypeInv, TypeOK
<1>5. Products(j) \in SUBSET Skus /\ n \in Nat /\ left \in SUBSET Skus
  <2>1. Matched(j) \in SUBSET Skus
    BY DEF Matched, Stale, Present
  <2>2. QED
    BY <1>2, <2>1, UploadType, SkusFinite DEF Sound
<1>6. m \in Memory
  <2> HIDE DEF n, left
  <2>1. QED
    BY <1>5, KeepType DEF Sound
<1>7. mem' \in [Jobs -> Memory]
  BY <1>2, <1>6 DEF Sound, TypeInv, TypeOK
<1>8. /\ index' \in [Tenants -> Catalog] /\ raw' \in [Tenants -> Catalog]
      /\ owes' \in [Tenants -> SUBSET Jobs]
      /\ solo' \in [Jobs -> BOOLEAN] /\ \A k \in Jobs : solo'[k] => solo[k]
  BY <1>2, <1>4, WriteIndexType DEF Sound
<1>9. JobsKnown'
  BY <1>2, <1>3, <1>8, JobsStayKnown DEF Sound
<1>10. PermitsConserved' /\ permits' \in 0 .. Limit
  BY <1>2, <1>3, PermitsUntouched DEF Sound, Holding
<1>11. faults' \in 0 .. MaxFaults /\ crashes' \in 0 .. MaxCrashes
  BY DeletesShape
<1>12. QED
  BY <1>2, <1>7, <1>8, <1>9, <1>10, <1>11
  DEF Sound, TypeInv, TypeOK, Stage, Holding

LEMMA DeleteFailsSound == ASSUME Sound, NEW j \in Jobs, DeleteFails(j) PROVE Sound'
<1>1. pc[j] = "delete" /\ Spend("weaviate") /\ RetryOrRaise(j) /\ UNCHANGED <<row, upload>>
  BY DEF DeleteFails
<1>2. PICK gone \in SUBSET Stale(j) : WriteIndex(j, Remove(index[TenantOf(j)], gone))
  BY DEF DeleteFails
<1>3. Remove(index[TenantOf(j)], gone) \in Catalog
  BY <1>1, UploadType, RemoveType DEF Sound, TypeInv, TypeOK
<1>4. QED
  BY <1>1, <1>2, <1>3, WriteIndexType, FailureSound DEF Sound

LEMMA StoreRawSound == ASSUME Sound, NEW j \in Jobs, StoreRaw(j) PROVE Sound'
<1> DEFINE m(b) == [mem[j] EXCEPT !.rest = @ \ b, !.tries = 0]
<1>1. pc[j] = "mongo" /\ UNCHANGED <<row, upload, pc, permits, bounds>>
  BY DEF StoreRaw
<1>2. PICK b \in Batches(mem[j].rest, MongoBatch) : WriteRaw(j, b) /\ Keep(j, m(b))
  BY DEF StoreRaw
<1>3. mem[j].rest \ b \in SUBSET Skus
  BY DEF Sound, TypeInv, TypeOK, Memory
<1>4. m(b) \in Memory
  BY <1>3, KeepType DEF Sound
<1>5. mem' \in [Jobs -> Memory]
  BY <1>2, <1>4 DEF Keep, Sound, TypeInv, TypeOK
<1>6. /\ index' \in [Tenants -> Catalog] /\ raw' \in [Tenants -> Catalog]
      /\ owes' \in [Tenants -> SUBSET Jobs]
      /\ solo' \in [Jobs -> BOOLEAN] /\ \A k \in Jobs : solo'[k] => solo[k]
  BY <1>1, <1>2, WriteRawType DEF Sound
<1>7. JobsKnown'
  BY <1>1, <1>6 DEF Sound, TypeInv, JobsKnown
<1>8. QED
  BY <1>1, <1>5, <1>6, <1>7
  DEF Sound, TypeInv, TypeOK, PermitsConserved, Holders, bounds

LEMMA StoreRawFailsSound == ASSUME Sound, NEW j \in Jobs, StoreRawFails(j) PROVE Sound'
<1>1. pc[j] = "mongo" /\ Spend("mongo") /\ RetryOrRaise(j) /\ UNCHANGED <<row, upload>>
  BY DEF StoreRawFails
<1>2. PICK b \in Batches(mem[j].rest, MongoBatch) : \E done \in SUBSET b : WriteRaw(j, done)
  BY DEF StoreRawFails
<1>3. PICK done \in SUBSET b : WriteRaw(j, done)
  BY <1>2
<1>4. QED
  BY <1>1, <1>3, WriteRawType, FailureSound DEF Sound

LEMMA ReleaseSound == ASSUME Sound, NEW j \in Jobs, Release(j) PROVE Sound'
<1>1. PICK stage \in {"invalidate", "finish"} : Exit(j, stage)
  BY DEF Release
<1>2. pc[j] = "mongo" /\ pc' = [pc EXCEPT ![j] = stage] /\ pc'[j] = stage
      /\ UNCHANGED <<row, upload, mem, stores, history, bounds>>
  BY <1>1 DEF Release, Exit, Goto, Sound, TypeInv, TypeOK
<1>3. PermitsConserved' /\ permits' \in 0 .. Limit
  BY <1>1, ExitConserves DEF Sound, Stage, Holding
<1>4. JobsKnown'
  BY <1>2, JobsStayKnown DEF Sound, history
<1>5. QED
  BY <1>2, <1>3, <1>4
  DEF Sound, TypeInv, TypeOK, Stage, Holding, stores, history, bounds

LEMMA InvalidateSound == ASSUME Sound, NEW j \in Jobs, Invalidate(j) PROVE Sound'
<1>1. pc[j] = "invalidate" /\ pc' = [pc EXCEPT ![j] = "finish"] /\ pc'[j] = "finish"
      /\ owes' = [owes EXCEPT ![TenantOf(j)] = {}]
      /\ UNCHANGED <<row, upload, mem, permits, stores, solo, bounds>>
  BY DEF Invalidate, Goto, Sound, TypeInv, TypeOK
<1>2. PermitsConserved' /\ permits' \in 0 .. Limit
  BY <1>1, PermitsUntouched DEF Sound, Holding
<1>3. JobsKnown'
  BY <1>1, JobsStayKnown DEF Sound
<1>4. QED
  BY <1>1, <1>2, <1>3 DEF Sound, TypeInv, TypeOK, Stage, Holding, stores, bounds

LEMMA InvalidateFailsSound ==
  ASSUME Sound, NEW j \in Jobs, InvalidateFails(j) PROVE Sound'
<1>1. pc[j] = "invalidate" /\ Spend("redis") /\ Raise(j)
      /\ UNCHANGED <<row, upload, stores, solo>>
  BY DEF InvalidateFails
<1>2. owes' \in [Tenants -> SUBSET Jobs]
  BY DEF InvalidateFails, Sound, TypeInv, TypeOK
<1>3. RetryOrRaise(j)
  BY <1>1 DEF RetryOrRaise
<1>4. QED
  BY <1>1, <1>2, <1>3, FailureSound DEF Sound, TypeInv, TypeOK, stores

LEMMA ResolutionType ==
  ASSUME Sound, NEW j \in Jobs, pc[j] # "idle" PROVE Resolution(j) \in JobRow
<1>1. CASE pc[j] = "finish"
  <2>1. FeedOf(j) \in Feed /\ Products(j) \in SUBSET Skus
    BY UploadType, <1>1 DEF Sound
  <2>2. mem[j].changed \in SUBSET Skus /\ mem[j].deleted \in Nat
    BY DEF Sound, TypeInv, TypeOK, Memory
  <2>3. Cardinality(mem[j].changed) \in Nat /\ Cardinality(Products(j) \ mem[j].changed) \in Nat
    BY <2>1, <2>2, SkusFinite
  <2>4. Outcome(j) \in JobRow
    BY <2>1, <2>2, <2>3 DEF Outcome, JobRow, Status, Feed
  <2>5. QED
    BY <1>1, <2>4 DEF Resolution
<1>2. CASE pc[j] # "finish"
  <2>1. row[j] \in JobRow
    BY DEF Sound, TypeInv, JobsKnown
  <2>2. QED
    BY <1>2, <2>1 DEF Resolution, JobRow, Status
<1>3. QED
  BY <1>1, <1>2

LEMMA ResolveSound == ASSUME Sound, NEW j \in Jobs, Resolve(j) PROVE Sound'
<1>1. pc[j] \in {"finish", "failing"} /\ pc' = [pc EXCEPT ![j] = "done"] /\ pc'[j] = "done"
      /\ row' = [row EXCEPT ![j] = Resolution(j)]
      /\ UNCHANGED <<upload, mem, permits, stores, history, bounds>>
  BY DEF Resolve, Goto, Sound, TypeInv, TypeOK
<1>2. PermitsConserved' /\ permits' \in 0 .. Limit
  BY <1>1, PermitsUntouched DEF Sound, Holding
<1>3. JobsKnown' /\ row' \in [Jobs -> JobRow \cup {None}]
  BY <1>1, ResolutionType, JobsStayKnown DEF Sound, history
<1>4. QED
  BY <1>1, <1>2, <1>3 DEF Sound, TypeInv, TypeOK, Stage, stores, history, bounds

LEMMA ResolveFailsSound == ASSUME Sound, NEW j \in Jobs, ResolveFails(j) PROVE Sound'
<1>1. pc[j] \in {"finish", "failing"} /\ pc' = [pc EXCEPT ![j] = "gone"] /\ pc'[j] = "gone"
      /\ row' \in {row, [row EXCEPT ![j] = Resolution(j)]}
      /\ UNCHANGED <<upload, mem, permits, stores, history>>
  BY DEF ResolveFails, Goto, Sound, TypeInv, TypeOK
<1>2. PermitsConserved' /\ permits' \in 0 .. Limit
  BY <1>1, PermitsUntouched DEF Sound, Holding
<1>3. JobsKnown' /\ row' \in [Jobs -> JobRow \cup {None}]
  BY <1>1, ResolutionType, JobsStayKnown DEF Sound, history
<1>4. faults' \in 0 .. MaxFaults /\ crashes' \in 0 .. MaxCrashes
  BY IngestionAssumption DEF ResolveFails, Spend, Sound, TypeInv, TypeOK
<1>5. QED
  BY <1>1, <1>2, <1>3, <1>4 DEF Sound, TypeInv, TypeOK, Stage, stores, history

LEMMA CrashSound == ASSUME Sound, Crash PROVE Sound'
<1>1. /\ pc' = [j \in Jobs |-> IF pc[j] \in Live THEN "gone" ELSE pc[j]]
      /\ permits' = Limit /\ crashes < MaxCrashes /\ crashes' = crashes + 1
      /\ UNCHANGED <<row, upload, mem, stores, history, faults>>
  BY DEF Crash
<1>2. Holders' = {}
  BY <1>1 DEF Holders, Live, Holding, Stage
<1>3. PermitsConserved' /\ permits' \in 0 .. Limit
  BY <1>1, <1>2, FS_EmptySet, IngestionAssumption DEF PermitsConserved
<1>4. pc' \in [Jobs -> Stage] /\ \A j \in Jobs : pc'[j] = "idle" <=> pc[j] = "idle"
  BY <1>1 DEF Sound, TypeInv, TypeOK, Live, Stage
<1>5. JobsKnown'
  BY <1>1, <1>4 DEF Sound, TypeInv, JobsKnown, history
<1>6. crashes' \in 0 .. MaxCrashes
  BY <1>1, IngestionAssumption DEF Sound, TypeInv, TypeOK
<1>7. QED
  BY <1>1, <1>3, <1>4, <1>5, <1>6 DEF Sound, TypeInv, TypeOK, stores, history

LEMMA InitSound == Init => Sound
<1> SUFFICES ASSUME Init PROVE Sound
  OBVIOUS
<1>1. Holders = {}
  BY DEF Init, Holders, Holding
<1>2. PermitsConserved /\ permits \in 0 .. Limit
  BY <1>1, FS_EmptySet, IngestionAssumption DEF Init, PermitsConserved
<1>3. Fresh \in Memory
  BY IngestionAssumption DEF Fresh, Nothing, Memory, Catalog
<1>4. index \in [Tenants -> Catalog]
  BY IngestionAssumption DEF Init
<1>5. QED
  BY <1>2, <1>3, <1>4, IngestionAssumption
  DEF Init, Sound, TypeInv, TypeOK, JobsKnown, Stage

LEMMA NextSound == Sound /\ [Next]_vars => Sound'
<1> SUFFICES ASSUME Sound, [Next]_vars PROVE Sound'
  OBVIOUS
<1>1. ASSUME NEW j \in Jobs, Succeed(j) PROVE Sound'
  BY <1>1, StartSound, AcquireSound, FetchSound, UpsertBatchSound, UpsertedSound,
     DeletesSound, StoreRawSound, ReleaseSound, InvalidateSound, ResolveSound
  DEF Succeed, Deletes
<1>2. ASSUME NEW j \in Jobs, Fail(j) PROVE Sound'
  BY <1>2, StartFailsSound, FetchFailsSound, UpsertFailsSound, DeletesSound,
     DeleteFailsSound, StoreRawFailsSound, InvalidateFailsSound, ResolveFailsSound
  DEF Fail, Deletes
<1>3. CASE UNCHANGED vars
  BY <1>3 DEF Sound, TypeInv, TypeOK, JobsKnown, PermitsConserved, Holders,
     vars, stores, history, bounds
<1>4. QED
  BY <1>1, <1>2, <1>3, SubmitSound, CrashSound DEF Next

(* The job rows, the tasks' stages and local variables, the stores and the *)
(* semaphore have their types in every reachable state.                    *)
THEOREM TypeCorrect == Spec => []TypeOK
<1>1. Sound => TypeOK
  BY DEF Sound, TypeInv
<1>2. QED
  BY <1>1, InitSound, NextSound, PTL DEF Spec

(* No way out of ingest() leaks or mints a permit of the semaphore, for    *)
(* any number of jobs, retries, exceptions and crashes.                    *)
THEOREM SemaphoreSafe == Spec => []PermitsConserved
<1>1. Sound => PermitsConserved
  BY DEF Sound
<1>2. QED
  BY <1>1, InitSound, NextSound, PTL DEF Spec

-----------------------------------------------------------------------------
(* The inductive invariant behind the safety properties, job by job: what  *)
(* each stage of a task has established.                                   *)

Indexed(j, S) == \A s \in S : index[TenantOf(j)][s] = FeedOf(j).products[s]
Copied(j, S) == \A s \in S : raw[TenantOf(j)][s] = FeedOf(j).products[s]
Exact(j) == upload[j].full =>
              Present(index[TenantOf(j)]) = Products(j) \cup mem[j].spared

(* The local variables of a task past the fetch of the hashes.             *)
DeltaInv(j) ==
  /\ pc[j] \in {"upsert", "delete", "mongo", "invalidate", "finish"} =>
       mem[j].changed \subseteq Products(j)
  /\ pc[j] = "upsert" => mem[j].rest \subseteq mem[j].changed
  /\ pc[j] \in {"upsert", "delete"} => mem[j].spared = {}
  /\ pc[j] = "delete" => upload[j].full
  /\ pc[j] = "mongo" => mem[j].rest \subseteq Products(j)

(* What a job that nobody disturbed has made of its tenant.  Between the   *)
(* fetch and the end of the upserts the index differs from the hashes read *)
(* only in products of the feed; afterwards only in deleted ones as well.  *)
SoloInv(j) ==
  solo[j] =>
    /\ pc[j] \notin {"idle", "scheduled", "waiting", "fetch"}
    /\ pc[j] = "upsert" =>
         /\ Indexed(j, Products(j) \ mem[j].rest)
         /\ \A s \in Skus \ Products(j) : index[TenantOf(j)][s] = mem[j].existing[s]
    /\ pc[j] = "delete" =>
         /\ Indexed(j, Products(j))
         /\ Present(index[TenantOf(j)]) \ Products(j) \subseteq Stale(j)
    /\ pc[j] = "mongo" =>
         Indexed(j, Products(j)) /\ Exact(j) /\ Copied(j, Products(j) \ mem[j].rest)
    /\ pc[j] \in {"invalidate", "finish"} \/ HasCompleted(j) =>
         Indexed(j, Products(j)) /\ Exact(j) /\ Copied(j, Products(j))

(* A job that still owes its tenant an invalidation will invalidate, has   *)
(* failed, or only deleted and was told that it deleted nothing.           *)
OwesInv(j) ==
  \A t \in Tenants : j \in owes[t] =>
    /\ pc[j] \notin {"idle", "scheduled", "waiting", "fetch"} /\ TenantOf(j) = t
    /\ pc[j] = "upsert" => mem[j].changed # {}
    /\ pc[j] \in {"delete", "mongo"} => mem[j].changed # {} \/ upload[j].full
    /\ pc[j] = "finish" =>
         upload[j].full /\ mem[j].changed = {} /\ mem[j].deleted = 0
    /\ HasCompleted(j) => upload[j].full /\ row[j].indexed = 0 /\ row[j].deleted = 0

ReportInv(j) ==
  HasCompleted(j) =>
    /\ pc[j] \in {"done", "gone"}
    /\ row[j].total = row[j].indexed + row[j].skipped + row[j].failed
                         + FeedOf(j).duplicates

JobInv(j) == DeltaInv(j) /\ SoloInv(j) /\ OwesInv(j) /\ ReportInv(j)

JobsInv == \A j \in Jobs : JobInv(j)

(* What Mongo holds of a job's feed, whoever wrote it: raw rows are never  *)
(* deleted, so other jobs cannot disturb this.                             *)
CopiedInv(j) ==
  /\ pc[j] = "mongo" => Products(j) \ mem[j].rest \subseteq Present(raw[TenantOf(j)])
  /\ pc[j] \in {"invalidate", "finish"} => Products(j) \subseteq Present(raw[TenantOf(j)])

RawInv == \A j \in Jobs : CopiedInv(j)

-----------------------------------------------------------------------------
(* A step of one job leaves the invariant of every other job alone: writes *)
(* of its tenant's stores take its solo flag away.                         *)

LEMMA Unaffected ==
  ASSUME NEW k \in Jobs, JobInv(k),
         pc'[k] = pc[k], mem'[k] = mem[k], row'[k] = row[k], upload'[k] = upload[k],
         solo'[k] => /\ solo[k] /\ index'[TenantOf(k)] = index[TenantOf(k)]
                     /\ raw'[TenantOf(k)] = raw[TenantOf(k)],
         \A t \in Tenants : k \in owes'[t] => k \in owes[t]
  PROVE  JobInv(k)'
<1>1. TenantOf(k)' = TenantOf(k) /\ FeedOf(k)' = FeedOf(k) /\ Products(k)' = Products(k)
      /\ Stale(k)' = Stale(k) /\ (HasCompleted(k)' <=> HasCompleted(k))
  BY DEF TenantOf, FeedOf, Products, Stale, HasCompleted
<1>2. DeltaInv(k)'
  BY <1>1 DEF JobInv, DeltaInv
<1>3. SoloInv(k)'
  BY <1>1 DEF JobInv, SoloInv, Indexed, Copied, Exact
<1>4. OwesInv(k)'
  BY <1>1 DEF JobInv, OwesInv
<1>5. ReportInv(k)'
  BY <1>1 DEF JobInv, ReportInv
<1>6. QED
  BY <1>2, <1>3, <1>4, <1>5 DEF JobInv

(* Only j's entries change; the stores of the tenants of solo jobs do not. *)
LEMMA OthersUnaffected ==
  ASSUME Sound, JobsInv, NEW j \in Jobs,
         \A k \in Jobs \ {j} : /\ pc'[k] = pc[k] /\ mem'[k] = mem[k]
                               /\ row'[k] = row[k] /\ upload'[k] = upload[k],
         \A k \in Jobs \ {j} : solo'[k] =>
           /\ solo[k] /\ index'[TenantOf(k)] = index[TenantOf(k)]
           /\ raw'[TenantOf(k)] = raw[TenantOf(k)],
         \A k \in Jobs \ {j} : \A t \in Tenants : k \in owes'[t] => k \in owes[t],
         JobInv(j)'
  PROVE  JobsInv'
BY Unaffected DEF JobsInv

LEMMA WriteIndexOthers ==
  ASSUME Sound, NEW j \in Jobs, pc[j] # "idle", NEW c, WriteIndex(j, c)
  PROVE  /\ \A k \in Jobs \ {j} : solo'[k] =>
              /\ solo[k] /\ index'[TenantOf(k)] = index[TenantOf(k)]
              /\ raw'[TenantOf(k)] = raw[TenantOf(k)]
         /\ \A k \in Jobs \ {j} : \A t \in Tenants : k \in owes'[t] => k \in owes[t]
         /\ index'[TenantOf(j)] = c /\ raw' = raw /\ (solo'[j] <=> solo[j])
         /\ \A t \in Tenants : j \in owes'[t] =>
              j \in owes[t] \/ (t = TenantOf(j) /\ c # index[TenantOf(j)])
<1>1. TenantOf(j) \in Tenants
  BY UploadType DEF Sound
<1>2. \A k \in Jobs : solo'[k] <=> solo[k] /\ (k = j \/ TenantOf(k) # TenantOf(j))
  BY Zenon DEF WriteIndex, Disturb
<1>3. \A t \in Tenants : t # TenantOf(j) => index'[t] = index[t]
  BY DEF WriteIndex, Sound, TypeInv, TypeOK
<1>4. index'[TenantOf(j)] = c /\ raw' = raw
  BY <1>1 DEF WriteIndex, Sound, TypeInv, TypeOK
<1>5. owes' = [owes EXCEPT ![TenantOf(j)] = IF c = index[TenantOf(j)] THEN @ ELSE @ \cup {j}]
  BY DEF WriteIndex
<1>6. \A k \in Jobs : \A t \in Tenants : k \in owes'[t] =>
        k \in owes[t] \/ (k = j /\ t = TenantOf(j) /\ c # index[TenantOf(j)])
  BY <1>1, <1>5 DEF Sound, TypeInv, TypeOK
<1>7. \A k \in Jobs : solo[k] => TenantOf(k) \in Tenants
  BY UploadType DEF Sound, TypeInv, JobsKnown
<1>8. QED
  BY <1>2, <1>3, <1>4, <1>6, <1>7

LEMMA WriteRawOthers ==
  ASSUME Sound, NEW j \in Jobs, pc[j] # "idle", NEW S, WriteRaw(j, S)
  PROVE  /\ \A k \in Jobs \ {j} : solo'[k] =>
              /\ solo[k] /\ index'[TenantOf(k)] = index[TenantOf(k)]
              /\ raw'[TenantOf(k)] = raw[TenantOf(k)]
         /\ raw'[TenantOf(j)] = Put(raw[TenantOf(j)], S, FeedOf(j).products)
         /\ index' = index /\ owes' = owes /\ (solo'[j] <=> solo[j])
<1>1. TenantOf(j) \in Tenants
  BY UploadType DEF Sound
<1>2. \A k \in Jobs : solo'[k] <=> solo[k] /\ (k = j \/ TenantOf(k) # TenantOf(j))
  BY Zenon DEF WriteRaw, Disturb
<1>3. \A t \in Tenants : t # TenantOf(j) => raw'[t] = raw[t]
  BY DEF WriteRaw, Sound, TypeInv, TypeOK
<1>4. raw'[TenantOf(j)] = Put(raw[TenantOf(j)], S, FeedOf(j).products)
      /\ index' = index /\ owes' = owes
  BY <1>1 DEF WriteRaw, Sound, TypeInv, TypeOK
<1>5. \A k \in Jobs : solo[k] => TenantOf(k) \in Tenants
  BY UploadType DEF Sound, TypeInv, JobsKnown
<1>6. QED
  BY <1>2, <1>3, <1>4, <1>5

LEMMA SubmitJobs ==
  ASSUME Sound, JobsInv, NEW j \in Jobs, Submit(j) PROVE JobsInv'
<1>1. PICK u \in Upload :
        /\ upload' = [upload EXCEPT ![j] = u]
        /\ row' = [row EXCEPT ![j] =
                     [status |-> "PENDING", total |-> u.feed.total, indexed |-> 0,
                      failed |-> 0, skipped |-> 0, deleted |-> 0]]
  BY DEF Submit
<1>2. pc[j] = "idle" /\ pc' = [pc EXCEPT ![j] = "scheduled"]
      /\ UNCHANGED <<mem, permits, stores, history, bounds>>
  BY DEF Submit, Goto
<1>3. pc'[j] = "scheduled" /\ row'[j].status = "PENDING"
  BY <1>1, <1>2 DEF Sound, TypeInv, TypeOK
<1>4. ~ HasCompleted(j)' /\ ~ solo'[j] /\ \A t \in Tenants : j \notin owes'[t]
  BY <1>2, <1>3
  DEF HasCompleted, Completed, Sound, TypeInv, JobsKnown, JobsInv, JobInv, OwesInv, history
<1>5. JobInv(j)'
  BY <1>3, <1>4 DEF JobInv, DeltaInv, SoloInv, OwesInv, ReportInv
<1>6. QED
  BY <1>1, <1>2, <1>5, OthersUnaffected DEF Sound, TypeInv, TypeOK, history, stores

LEMMA StartJobs ==
  ASSUME Sound, JobsInv, NEW j \in Jobs, Start(j) \/ StartFails(j) PROVE JobsInv'
<1>1. pc[j] = "scheduled"
      /\ pc' \in {[pc EXCEPT ![j] = "waiting"], [pc EXCEPT ![j] = "gone"]}
      /\ row' \in {row, [row EXCEPT ![j].status = "RUNNING"]}
      /\ UNCHANGED <<upload, mem, permits, stores, history>>
  BY DEF Start, StartFails, Goto
<1>2. pc'[j] \in {"waiting", "gone"}
  BY <1>1 DEF Sound, TypeInv, TypeOK
<1>3. ~ HasCompleted(j)
  BY <1>1 DEF JobsInv, JobInv, ReportInv
<1>4. ~ HasCompleted(j)'
  <2>1. row[j] \in JobRow
    BY <1>1 DEF Sound, TypeInv, JobsKnown
  <2>2. row'[j] = row[j] \/ row'[j].status = "RUNNING"
    BY <1>1, <2>1 DEF Sound, TypeInv, TypeOK, JobRow
  <2>3. QED
    BY <1>3, <2>2 DEF HasCompleted, Completed
<1>5. ~ solo'[j] /\ \A t \in Tenants : j \notin owes'[t]
  BY <1>1 DEF JobsInv, JobInv, SoloInv, OwesInv, history
<1>6. JobInv(j)'
  BY <1>2, <1>4, <1>5 DEF JobInv, DeltaInv, SoloInv, OwesInv, ReportInv
<1>7. QED
  BY <1>1, <1>6, OthersUnaffected DEF Sound, TypeInv, TypeOK, history, stores

LEMMA AcquireJobs ==
  ASSUME Sound, JobsInv, NEW j \in Jobs, Acquire(j) PROVE JobsInv'
<1>1. pc[j] = "waiting" /\ pc' = [pc EXCEPT ![j] = "fetch"]
      /\ UNCHANGED <<row, upload, mem, stores, history, bounds>>
  BY DEF Acquire, Goto
<1>2. pc'[j] = "fetch"
  BY <1>1 DEF Sound, TypeInv, TypeOK
<1>3. ~ HasCompleted(j)' /\ ~ solo'[j] /\ \A t \in Tenants : j \notin owes'[t]
  BY <1>1
  DEF JobsInv, JobInv, SoloInv, OwesInv, ReportInv, HasCompleted, history
<1>4. JobInv(j)'
  BY <1>2, <1>3 DEF JobInv, DeltaInv, SoloInv, OwesInv, ReportInv
<1>5. QED
  BY <1>1, <1>4, OthersUnaffected DEF Sound, TypeInv, TypeOK, history, stores

LEMMA FetchJobs ==
  ASSUME Sound, JobsInv, NEW j \in Jobs, Fetch(j) PROVE JobsInv'
<1> DEFINE existing == index[TenantOf(j)]
           changed == Changed(FeedOf(j).products, existing)
<1>1. pc[j] = "fetch" /\ pc' = [pc EXCEPT ![j] = "upsert"]
      /\ mem' = [mem EXCEPT ![j] = [Fresh EXCEPT !.existing = existing,
                                      !.changed = changed, !.rest = changed]]
      /\ solo' = [solo EXCEPT ![j] = TRUE]
      /\ UNCHANGED <<row, upload, permits, stores, owes, bounds>>
  BY DEF Fetch, Goto, Keep
<1>2. pc'[j] = "upsert" /\ mem'[j].existing = existing
      /\ mem'[j].changed = changed /\ mem'[j].rest = changed /\ mem'[j].spared = {}
  BY <1>1 DEF Sound, TypeInv, TypeOK, Fresh
<1>3. ~ HasCompleted(j)' /\ \A t \in Tenants : j \notin owes'[t]
  BY <1>1 DEF JobsInv, JobInv, OwesInv, ReportInv, HasCompleted
<1>4. TenantOf(j)' = TenantOf(j) /\ FeedOf(j)' = FeedOf(j) /\ Products(j)' = Products(j)
      /\ index' = index
  BY <1>1 DEF TenantOf, FeedOf, Products, stores
<1>5. changed \subseteq Products(j) /\ Indexed(j, Products(j) \ changed)
  BY DEF Changed, Products, Indexed
<1>6. SoloInv(j)'
  BY <1>2, <1>3, <1>4, <1>5 DEF SoloInv, Indexed
<1>7. JobInv(j)'
  BY <1>2, <1>3, <1>4, <1>5, <1>6 DEF JobInv, DeltaInv, OwesInv, ReportInv
<1>8. QED
  BY <1>1, <1>7, OthersUnaffected DEF Sound, TypeInv, TypeOK, stores

(* What a failing call leaves behind of the control of its task.           *)
LEMMA RetryOrRaiseKeeps ==
  ASSUME Sound, NEW j \in Jobs, pc[j] # "idle", RetryOrRaise(j)
  PROVE  /\ pc'[j] \in {pc[j], "failing"}
         /\ mem'[j].existing = mem[j].existing /\ mem'[j].changed = mem[j].changed
         /\ mem'[j].rest = mem[j].rest /\ mem'[j].deleted = mem[j].deleted
         /\ mem'[j].spared = mem[j].spared
         /\ \A k \in Jobs \ {j} : pc'[k] = pc[k] /\ mem'[k] = mem[k]
<1>1. pc \in [Jobs -> Stage] /\ mem \in [Jobs -> Memory] /\ mem[j] \in Memory
  BY DEF Sound, TypeInv, TypeOK
<1>2. CASE Raise(j)
  BY <1>1, <1>2 DEF Raise, Exit, Goto
<1>3. CASE Keep(j, [mem[j] EXCEPT !.tries = @ + 1]) /\ UNCHANGED <<pc, permits>>
  BY <1>1, <1>3 DEF Keep, Memory
<1>4. QED
  BY <1>2, <1>3 DEF RetryOrRaise

LEMMA FetchFailsJobs ==
  ASSUME Sound, JobsInv, NEW j \in Jobs, FetchFails(j) PROVE JobsInv'
<1>1. pc[j] = "fetch" /\ RetryOrRaise(j) /\ UNCHANGED <<row, upload, stores, history>>
  BY DEF FetchFails
<1>2. /\ pc'[j] \in {"fetch", "failing"}
      /\ \A k \in Jobs \ {j} : pc'[k] = pc[k] /\ mem'[k] = mem[k]
  BY <1>1, RetryOrRaiseKeeps
<1>3. ~ HasCompleted(j)' /\ ~ solo'[j] /\ \A t \in Tenants : j \notin owes'[t]
  BY <1>1
  DEF JobsInv, JobInv, SoloInv, OwesInv, ReportInv, HasCompleted, history
<1>4. JobInv(j)'
  BY <1>2, <1>3 DEF JobInv, DeltaInv, SoloInv, OwesInv, ReportInv
<1>5. QED
  BY <1>1, <1>2, <1>4, OthersUnaffected DEF history, stores

(* Products(j), its tenant and its feed do not depend on the step.         *)
LEMMA SameUpload ==
  ASSUME NEW j \in Jobs, upload' = upload
  PROVE  /\ TenantOf(j)' = TenantOf(j) /\ FeedOf(j)' = FeedOf(j)
         /\ Products(j)' = Products(j) /\ upload'[j].full = upload[j].full
BY DEF TenantOf, FeedOf, Products

(* Writing products of the feed, all or part of a batch.                   *)
LEMMA PutIndexes ==
  ASSUME Sound, NEW j \in Jobs, pc[j] # "idle", NEW S \in SUBSET Products(j),
         WriteIndex(j, Put(index[TenantOf(j)], S, FeedOf(j).products))
  PROVE  /\ \A s \in Skus \ S : index'[TenantOf(j)][s] = index[TenantOf(j)][s]
         /\ \A s \in S : index'[TenantOf(j)][s] = FeedOf(j).products[s]
         /\ S = {} => \A t \in Tenants : j \in owes'[t] => j \in owes[t]
<1> DEFINE c == Put(index[TenantOf(j)], S, FeedOf(j).products)
<1>1. index'[TenantOf(j)] = c
  BY WriteIndexOthers
<1>2. S \subseteq Skus /\ index[TenantOf(j)] \in Catalog
  BY UploadType DEF Sound, TypeInv, TypeOK
<1>3. S = {} => c = index[TenantOf(j)]
  BY <1>2 DEF Put, Catalog
<1>4. \A t \in Tenants : j \in owes'[t] =>
        j \in owes[t] \/ (t = TenantOf(j) /\ c # index[TenantOf(j)])
  BY WriteIndexOthers
<1>5. QED
  BY <1>1, <1>2, <1>3, <1>4 DEF Put

LEMMA UpsertBatchJobs ==
  ASSUME Sound, JobsInv, NEW j \in Jobs, UpsertBatch(j) PROVE JobsInv'
<1> DEFINE c(b) == Put(index[TenantOf(j)], b, FeedOf(j).products)
<1>1. pc[j] = "upsert" /\ UNCHANGED <<row, upload, pc, permits, bounds>>
  BY DEF UpsertBatch
<1>2. PICK b \in Batches(mem[j].rest, EmbedBatch) :
        /\ WriteIndex(j, c(b))
        /\ mem' = [mem EXCEPT ![j] = [mem[j] EXCEPT !.rest = @ \ b, !.tries = 0]]
  BY DEF UpsertBatch, Keep
<1>3. mem'[j].rest = mem[j].rest \ b /\ mem'[j].changed = mem[j].changed
      /\ mem'[j].existing = mem[j].existing /\ mem'[j].spared = mem[j].spared
  BY <1>2 DEF Sound, TypeInv, TypeOK, Memory
<1>4. b \subseteq mem[j].rest /\ b # {}
  BY <1>1, BatchType, IngestionAssumption
<1>5. mem[j].rest \subseteq mem[j].changed /\ mem[j].changed \subseteq Products(j)
  BY <1>1 DEF JobsInv, JobInv, DeltaInv
<1>6. b \in SUBSET Products(j)
  BY <1>4, <1>5
<1>7. /\ \A s \in Skus \ b : index'[TenantOf(j)][s] = index[TenantOf(j)][s]
      /\ \A s \in b : index'[TenantOf(j)][s] = FeedOf(j).products[s]
  BY <1>1, <1>2, <1>6, PutIndexes
<1>8. Products(j) \in SUBSET Skus
  BY <1>1, UploadType DEF Sound
<1>9. solo'[j] <=> solo[j]
  BY <1>1, <1>2, WriteIndexOthers
<1>10. ~ HasCompleted(j)'
  BY <1>1 DEF JobsInv, JobInv, ReportInv, HasCompleted
<1>11. SoloInv(j)'
  <2>1. solo[j] => Indexed(j, Products(j) \ mem[j].rest)
                   /\ \A s \in Skus \ Products(j) :
                        index[TenantOf(j)][s] = mem[j].existing[s]
    BY <1>1 DEF JobsInv, JobInv, SoloInv
  <2>2. QED
    BY <1>1, <1>3, <1>4, <1>6, <1>7, <1>8, <1>9, <1>10, <2>1, SameUpload
    DEF SoloInv, Indexed
<1>12. OwesInv(j)'
  <2>1. \A t \in Tenants : j \in owes'[t] => TenantOf(j) = t
    BY <1>1, <1>2, WriteIndexOthers DEF JobsInv, JobInv, OwesInv
  <2>2. QED
    BY <1>1, <1>3, <1>4, <1>5, <1>10, <2>1, SameUpload DEF OwesInv
<1>13. JobInv(j)'
  BY <1>1, <1>3, <1>5, <1>10, <1>11, <1>12, SameUpload
  DEF JobsInv, JobInv, DeltaInv, ReportInv
<1>14. QED
  BY <1>1, <1>2, <1>13, OthersUnaffected, WriteIndexOthers DEF Sound, TypeInv, TypeOK

LEMMA UpsertFailsJobs ==
  ASSUME Sound, JobsInv, NEW j \in Jobs, UpsertFails(j) PROVE JobsInv'
<1>1. pc[j] = "upsert" /\ RetryOrRaise(j) /\ UNCHANGED <<row, upload>>
  BY DEF UpsertFails
<1>2. PICK b \in Batches(mem[j].rest, EmbedBatch) : \E done \in SUBSET b :
        WriteIndex(j, Put(index[TenantOf(j)], done, FeedOf(j).products))
  BY DEF UpsertFails
<1>3. PICK done \in SUBSET b :
        WriteIndex(j, Put(index[TenantOf(j)], done, FeedOf(j).products))
  BY <1>2
<1>4. b \subseteq mem[j].rest /\ b # {}
  BY <1>1, BatchType, IngestionAssumption
<1>5. mem[j].rest \subseteq mem[j].changed /\ mem[j].changed \subseteq Products(j)
  BY <1>1 DEF JobsInv, JobInv, DeltaInv
<1>6. done \in SUBSET Products(j) /\ done \subseteq mem[j].rest /\ mem[j].changed # {}
  BY <1>4, <1>5
<1>7. /\ pc'[j] \in {"upsert", "failing"}
      /\ mem'[j].existing = mem[j].existing /\ mem'[j].changed = mem[j].changed
      /\ mem'[j].rest = mem[j].rest /\ mem'[j].spared = mem[j].spared
      /\ \A k \in Jobs \ {j} : pc'[k] = pc[k] /\ mem'[k] = mem[k]
  BY <1>1, RetryOrRaiseKeeps
<1>8. /\ \A s \in Skus \ done : index'[TenantOf(j)][s] = index[TenantOf(j)][s]
      /\ \A s \in done : index'[TenantOf(j)][s] = FeedOf(j).products[s]
  BY <1>1, <1>3, <1>6, PutIndexes
<1>9. Products(j) \in SUBSET Skus
  BY <1>1, UploadType DEF Sound
<1>10. (solo'[j] <=> solo[j]) /\ ~ HasCompleted(j)'
  BY <1>1, <1>3, WriteIndexOthers DEF JobsInv, JobInv, ReportInv, HasCompleted
<1>11. SoloInv(j)'
  <2>1. solo[j] => Indexed(j, Products(j) \ mem[j].rest)
                   /\ \A s \in Skus \ Products(j) :
                        index[TenantOf(j)][s] = mem[j].existing[s]
    BY <1>1 DEF JobsInv, JobInv, SoloInv
  <2>2. QED
    BY <1>1, <1>6, <1>7, <1>8, <1>9, <1>10, <2>1, SameUpload DEF SoloInv, Indexed
<1>12. OwesInv(j)'
  <2>1. \A t \in Tenants : j \in owes'[t] => TenantOf(j) = t
    BY <1>1, <1>3, WriteIndexOthers DEF JobsInv, JobInv, OwesInv
  <2>2. QED
    BY <1>1, <1>6, <1>7, <1>10, <2>1, SameUpload DEF OwesInv
<1>13. JobInv(j)'
  BY <1>1, <1>5, <1>7, <1>10, <1>11, <1>12, SameUpload
  DEF JobsInv, JobInv, DeltaInv, ReportInv
<1>14. QED
  BY <1>1, <1>3, <1>7, <1>13, OthersUnaffected, WriteIndexOthers

LEMMA UpsertedJobs ==
  ASSUME Sound, JobsInv, NEW j \in Jobs, Upserted(j) PROVE JobsInv'
<1>1. pc[j] = "upsert" /\ mem[j].rest = {}
      /\ UNCHANGED <<row, upload, permits, stores, history, bounds>>
  BY DEF Upserted
<1>2. IF upload[j].full /\ Stale(j) # {}
      THEN pc' = [pc EXCEPT ![j] = "delete"] /\ mem' = mem
      ELSE pc' = [pc EXCEPT ![j] = "mongo"]
           /\ mem' = [mem EXCEPT ![j] = [mem[j] EXCEPT !.rest = Products(j)]]
  BY DEF Upserted, Goto, Keep
<1>3. pc \in [Jobs -> Stage] /\ mem \in [Jobs -> Memory] /\ mem[j] \in Memory
  BY DEF Sound, TypeInv, TypeOK
<1>4. mem'[j].existing = mem[j].existing /\ mem'[j].changed = mem[j].changed
      /\ mem'[j].spared = mem[j].spared
      /\ \A k \in Jobs \ {j} : pc'[k] = pc[k] /\ mem'[k] = mem[k]
  BY <1>2, <1>3 DEF Memory
<1>5. \/ pc'[j] = "delete" /\ upload[j].full
      \/ /\ pc'[j] = "mongo" /\ mem'[j].rest = Products(j)
         /\ upload[j].full => Stale(j) = {}
  BY <1>2, <1>3 DEF Memory
<1>6. mem[j].changed \subseteq Products(j) /\ Products(j) \in SUBSET Skus
      /\ mem[j].spared = {}
  BY <1>1, UploadType DEF JobsInv, JobInv, DeltaInv, Sound
<1>7. /\ TenantOf(j)' = TenantOf(j) /\ FeedOf(j)' = FeedOf(j)
      /\ Products(j)' = Products(j) /\ upload' = upload /\ index' = index /\ raw' = raw
      /\ solo' = solo /\ owes' = owes /\ Stale(j)' = Stale(j)
      /\ ~ HasCompleted(j)'
  BY <1>1, <1>4
  DEF TenantOf, FeedOf, Products, Stale, HasCompleted, JobsInv, JobInv, ReportInv,
      stores, history
<1>8. SoloInv(j)'
  <2>1. solo[j] => Indexed(j, Products(j))
                   /\ \A s \in Skus \ Products(j) :
                        index[TenantOf(j)][s] = mem[j].existing[s]
    BY <1>1 DEF JobsInv, JobInv, SoloInv, Indexed
  <2>2. solo[j] => Present(index[TenantOf(j)]) \ Products(j) \subseteq Stale(j)
    BY <2>1 DEF Present, Stale
  <2>3. solo[j] => Products(j) \subseteq Present(index[TenantOf(j)])
    BY <2>1 DEF Indexed, Present, Products
  <2>4. CASE pc'[j] = "delete"
    BY <1>7, <2>1, <2>2, <2>4 DEF SoloInv, Indexed
  <2>5. CASE pc'[j] = "mongo"
    <3>1. solo[j] => Exact(j)
      BY <1>5, <1>6, <2>2, <2>3, <2>5 DEF Exact
    <3>2. Products(j) \ mem'[j].rest = {}
      BY <1>5, <2>5
    <3>3. QED
      BY <1>4, <1>7, <2>1, <2>5, <3>1, <3>2 DEF SoloInv, Indexed, Exact, Copied
  <2>6. QED
    BY <1>5, <2>4, <2>5
<1>9. OwesInv(j)'
  BY <1>1, <1>4, <1>5, <1>7 DEF JobsInv, JobInv, OwesInv
<1>10. JobInv(j)'
  BY <1>4, <1>5, <1>6, <1>7, <1>8, <1>9 DEF JobInv, DeltaInv, ReportInv
<1>11. QED
  BY <1>1, <1>4, <1>7, <1>10, OthersUnaffected

(* Deleting stale SKUs, all or part of them, leaves the feed's products.   *)
LEMMA RemoveStale ==
  ASSUME Sound, NEW j \in Jobs, pc[j] # "idle", NEW S \in SUBSET Stale(j),
         WriteIndex(j, Remove(index[TenantOf(j)], S))
  PROVE  /\ \A s \in Skus \ S : index'[TenantOf(j)][s] = index[TenantOf(j)][s]
         /\ Indexed(j, Products(j)) => \A s \in Products(j) :
              index'[TenantOf(j)][s] = FeedOf(j).products[s]
         /\ Present(index'[TenantOf(j)]) = Present(index[TenantOf(j)]) \ S
<1> DEFINE c == Remove(index[TenantOf(j)], S)
<1>1. index'[TenantOf(j)] = c
  BY WriteIndexOthers
<1>2. Products(j) \in SUBSET Skus /\ index[TenantOf(j)] \in Catalog
  BY UploadType DEF Sound, TypeInv, TypeOK
<1>3. S \cap Products(j) = {} /\ S \subseteq Skus
  BY DEF Stale, Present
<1>4. \A s \in Skus \ S : c[s] = index[TenantOf(j)][s]
  BY DEF Remove
<1>5. Present(c) = Present(index[TenantOf(j)]) \ S
  BY <1>2 DEF Remove, Present, Catalog
<1>6. QED
  BY <1>1, <1>2, <1>3, <1>4, <1>5 DEF Indexed

LEMMA DeletesJobs ==
  ASSUME Sound, JobsInv, NEW j \in Jobs, Deletes(j) PROVE JobsInv'
<1> PICK gone \in SUBSET Matched(j) : Deletion(j, gone)
  BY DeletesShape
<1>1. pc[j] = "delete" /\ pc' = [pc EXCEPT ![j] = "mongo"]
      /\ WriteIndex(j, Remove(index[TenantOf(j)], gone))
      /\ UNCHANGED <<row, upload, permits>> /\ gone \in SUBSET Stale(j)
  BY DeletesShape DEF Deletion, Goto, Matched
<1>2. PICK n : mem' = [mem EXCEPT ![j] = [mem[j] EXCEPT
                         !.deleted = n, !.spared = Matched(j) \ gone,
                         !.rest = Products(j), !.tries = 0]]
  BY DEF Deletion, Keep
<1>3. pc \in [Jobs -> Stage] /\ mem \in [Jobs -> Memory] /\ mem[j] \in Memory
  BY DEF Sound, TypeInv, TypeOK
<1>4. mem'[j].changed = mem[j].changed /\ mem'[j].rest = Products(j)
      /\ mem'[j].spared = Matched(j) \ gone
      /\ \A k \in Jobs \ {j} : mem'[k] = mem[k]
  BY <1>2, <1>3 DEF Memory
<1>5. pc'[j] = "mongo" /\ \A k \in Jobs \ {j} : pc'[k] = pc[k]
  BY <1>1, <1>3
<1>6. mem[j].changed \subseteq Products(j) /\ upload[j].full /\ ~ HasCompleted(j)
  BY <1>1 DEF JobsInv, JobInv, DeltaInv, ReportInv
<1>7. /\ TenantOf(j)' = TenantOf(j) /\ FeedOf(j)' = FeedOf(j)
      /\ Products(j)' = Products(j) /\ upload'[j].full /\ ~ HasCompleted(j)'
  BY <1>1, <1>6 DEF TenantOf, FeedOf, Products, HasCompleted
<1>8. SoloInv(j)'
  <2>1. solo'[j] => Indexed(j, Products(j))
                    /\ Present(index[TenantOf(j)]) \ Products(j) \subseteq Stale(j)
    BY <1>1, WriteIndexOthers DEF JobsInv, JobInv, SoloInv
  <2>2. solo'[j] => \A s \in Products(j) : index'[TenantOf(j)][s] = FeedOf(j).products[s]
    BY <1>1, <2>1, RemoveStale
  <2>3. Present(index'[TenantOf(j)]) = Present(index[TenantOf(j)]) \ gone
    BY <1>1, RemoveStale
  <2>4. solo'[j] => Products(j) \subseteq Present(index[TenantOf(j)])
    BY <1>1, <2>1, UploadType DEF Indexed, Present, Products
  <2>5. Stale(j) \cap Products(j) = {}
    BY DEF Stale
  <2>6. solo'[j] => Present(index'[TenantOf(j)]) = Products(j) \cup mem'[j].spared
    BY <1>1, <1>4, <2>1, <2>3, <2>4, <2>5 DEF Matched
  <2>7. QED
    BY <1>4, <1>5, <1>7, <2>2, <2>6 DEF SoloInv, Indexed, Copied, Exact, Present
<1>9. OwesInv(j)'
  <2>1. \A t \in Tenants : j \in owes'[t] => TenantOf(j) = t
    BY <1>1, WriteIndexOthers DEF JobsInv, JobInv, OwesInv
  <2>2. QED
    BY <1>5, <1>7, <2>1 DEF OwesInv
<1>10. JobInv(j)'
  BY <1>4, <1>5, <1>6, <1>7, <1>8, <1>9 DEF JobInv, DeltaInv, ReportInv
<1>11. QED
  BY <1>1, <1>4, <1>5, <1>10, OthersUnaffected, WriteIndexOthers

LEMMA DeleteFailsJobs ==
  ASSUME Sound, JobsInv, NEW j \in Jobs, DeleteFails(j) PROVE JobsInv'
<1>1. pc[j] = "delete" /\ RetryOrRaise(j) /\ UNCHANGED <<row, upload>>
  BY DEF DeleteFails
<1>2. PICK gone \in SUBSET Stale(j) : WriteIndex(j, Remove(index[TenantOf(j)], gone))
  BY DEF DeleteFails
<1>3. /\ pc'[j] \in {"delete", "failing"}
      /\ mem'[j].existing = mem[j].existing /\ mem'[j].changed = mem[j].changed
      /\ mem'[j].rest = mem[j].rest /\ mem'[j].spared = mem[j].spared
      /\ \A k \in Jobs \ {j} : pc'[k] = pc[k] /\ mem'[k] = mem[k]
  BY <1>1, RetryOrRaiseKeeps
<1>4. mem[j].changed \subseteq Products(j) /\ upload[j].full /\ ~ HasCompleted(j)
  BY <1>1 DEF JobsInv, JobInv, DeltaInv, ReportInv
<1>5. /\ TenantOf(j)' = TenantOf(j) /\ FeedOf(j)' = FeedOf(j)
      /\ Products(j)' = Products(j) /\ Stale(j)' = Stale(j)
      /\ upload'[j].full /\ ~ HasCompleted(j)'
  BY <1>1, <1>3, <1>4 DEF TenantOf, FeedOf, Products, Stale, HasCompleted
<1>6. SoloInv(j)'
  <2>1. solo'[j] => Indexed(j, Products(j))
                    /\ Present(index[TenantOf(j)]) \ Products(j) \subseteq Stale(j)
    BY <1>1, <1>2, WriteIndexOthers DEF JobsInv, JobInv, SoloInv
  <2>2. solo'[j] => \A s \in Products(j) : index'[TenantOf(j)][s] = FeedOf(j).products[s]
    BY <1>1, <1>2, <2>1, RemoveStale
  <2>3. Present(index'[TenantOf(j)]) = Present(index[TenantOf(j)]) \ gone
    BY <1>1, <1>2, RemoveStale
  <2>4. QED
    BY <1>3, <1>5, <2>1, <2>2, <2>3 DEF SoloInv, Indexed, Present
<1>7. OwesInv(j)'
  <2>1. \A t \in Tenants : j \in owes'[t] => TenantOf(j) = t
    BY <1>1, <1>2, WriteIndexOthers DEF JobsInv, JobInv, OwesInv
  <2>2. QED
    BY <1>3, <1>5, <2>1 DEF OwesInv
<1>8. JobInv(j)'
  BY <1>1, <1>3, <1>4, <1>5, <1>6, <1>7 DEF JobsInv, JobInv, DeltaInv, ReportInv
<1>9. QED
  BY <1>1, <1>2, <1>3, <1>8, OthersUnaffected, WriteIndexOthers

LEMMA StoreRawJobs ==
  ASSUME Sound, JobsInv, NEW j \in Jobs, StoreRaw(j) PROVE JobsInv'
<1>1. pc[j] = "mongo" /\ UNCHANGED <<row, upload, pc, permits, bounds>>
  BY DEF StoreRaw
<1>2. PICK b \in Batches(mem[j].rest, MongoBatch) :
        /\ WriteRaw(j, b)
        /\ mem' = [mem EXCEPT ![j] = [mem[j] EXCEPT !.rest = @ \ b, !.tries = 0]]
  BY DEF StoreRaw, Keep
<1>3. mem'[j].rest = mem[j].rest \ b /\ mem'[j].changed = mem[j].changed
      /\ mem'[j].spared = mem[j].spared
      /\ \A k \in Jobs \ {j} : mem'[k] = mem[k]
  BY <1>2 DEF Sound, TypeInv, TypeOK, Memory
<1>4. mem[j].rest \subseteq Products(j) /\ mem[j].changed \subseteq Products(j)
      /\ ~ HasCompleted(j)
  BY <1>1 DEF JobsInv, JobInv, DeltaInv, ReportInv
<1>5. /\ raw'[TenantOf(j)] = Put(raw[TenantOf(j)], b, FeedOf(j).products)
      /\ index' = index /\ owes' = owes /\ (solo'[j] <=> solo[j])
  BY <1>1, <1>2, WriteRawOthers
<1>6. Products(j) \in SUBSET Skus
  BY <1>1, UploadType DEF Sound
<1>7. ~ HasCompleted(j)'
  BY <1>1, <1>4 DEF HasCompleted
<1>8. SoloInv(j)'
  <2>1. solo[j] =>
          Indexed(j, Products(j)) /\ Exact(j) /\ Copied(j, Products(j) \ mem[j].rest)
    BY <1>1 DEF JobsInv, JobInv, SoloInv
  <2>2. solo[j] => \A s \in Products(j) \ (mem[j].rest \ b) :
          raw'[TenantOf(j)][s] = FeedOf(j).products[s]
    BY <1>5, <1>6, <2>1 DEF Put, Copied
  <2>3. QED
    BY <1>1, <1>3, <1>5, <1>7, <2>1, <2>2, SameUpload
    DEF SoloInv, Indexed, Copied, Exact, Present
<1>9. OwesInv(j)'
  BY <1>1, <1>3, <1>5, <1>7, SameUpload DEF JobsInv, JobInv, OwesInv
<1>10. JobInv(j)'
  BY <1>1, <1>3, <1>4, <1>7, <1>8, <1>9, SameUpload DEF JobInv, DeltaInv, ReportInv
<1>11. QED
  BY <1>1, <1>2, <1>3, <1>5, <1>10, OthersUnaffected, WriteRawOthers

LEMMA StoreRawFailsJobs ==
  ASSUME Sound, JobsInv, NEW j \in Jobs, StoreRawFails(j) PROVE JobsInv'
<1>1. pc[j] = "mongo" /\ RetryOrRaise(j) /\ UNCHANGED <<row, upload>>
  BY DEF StoreRawFails
<1>2. PICK b \in Batches(mem[j].rest, MongoBatch) : \E done \in SUBSET b : WriteRaw(j, done)
  BY DEF StoreRawFails
<1>3. PICK done \in SUBSET b : WriteRaw(j, done)
  BY <1>2
<1>4. /\ pc'[j] \in {"mongo", "failing"}
      /\ mem'[j].changed = mem[j].changed /\ mem'[j].rest = mem[j].rest
      /\ mem'[j].spared = mem[j].spared
      /\ \A k \in Jobs \ {j} : pc'[k] = pc[k] /\ mem'[k] = mem[k]
  BY <1>1, RetryOrRaiseKeeps
<1>5. mem[j].rest \subseteq Products(j) /\ mem[j].changed \subseteq Products(j)
      /\ ~ HasCompleted(j)
  BY <1>1 DEF JobsInv, JobInv, DeltaInv, ReportInv
<1>6. /\ raw'[TenantOf(j)] = Put(raw[TenantOf(j)], done, FeedOf(j).products)
      /\ index' = index /\ owes' = owes /\ (solo'[j] <=> solo[j])
  BY <1>1, <1>3, WriteRawOthers
<1>7. Products(j) \in SUBSET Skus
  BY <1>1, UploadType DEF Sound
<1>8. ~ HasCompleted(j)'
  BY <1>1, <1>5 DEF HasCompleted
<1>9. SoloInv(j)'
  <2>1. solo[j] =>
          Indexed(j, Products(j)) /\ Exact(j) /\ Copied(j, Products(j) \ mem[j].rest)
    BY <1>1 DEF JobsInv, JobInv, SoloInv
  <2>2. solo[j] => \A s \in Products(j) \ mem[j].rest :
          raw'[TenantOf(j)][s] = FeedOf(j).products[s]
    BY <1>6, <1>7, <2>1 DEF Put, Copied
  <2>3. QED
    BY <1>1, <1>4, <1>6, <1>8, <2>1, <2>2, SameUpload
    DEF SoloInv, Indexed, Copied, Exact, Present
<1>10. OwesInv(j)'
  BY <1>1, <1>4, <1>6, <1>8, SameUpload DEF JobsInv, JobInv, OwesInv
<1>11. JobInv(j)'
  BY <1>1, <1>4, <1>5, <1>8, <1>9, <1>10, SameUpload DEF JobInv, DeltaInv, ReportInv
<1>12. QED
  BY <1>1, <1>3, <1>4, <1>6, <1>11, OthersUnaffected, WriteRawOthers

LEMMA ReleaseJobs ==
  ASSUME Sound, JobsInv, NEW j \in Jobs, Release(j) PROVE JobsInv'
<1>1. pc[j] = "mongo" /\ mem[j].rest = {} /\ UNCHANGED <<row, upload, mem, stores, history>>
      /\ pc' = [pc EXCEPT ![j] = IF mem[j].changed # {} \/ mem[j].deleted > 0
                                 THEN "invalidate" ELSE "finish"]
  BY DEF Release, Exit, Goto
<1>2. \/ pc'[j] = "invalidate"
      \/ pc'[j] = "finish" /\ mem[j].changed = {} /\ mem[j].deleted = 0
  <2>1. mem[j].deleted \in Nat
    BY DEF Sound, TypeInv, TypeOK, Memory
  <2>2. QED
    BY <1>1, <2>1 DEF Sound, TypeInv, TypeOK
<1>3. /\ TenantOf(j)' = TenantOf(j) /\ FeedOf(j)' = FeedOf(j)
      /\ Products(j)' = Products(j) /\ upload' = upload /\ index' = index /\ raw' = raw
      /\ solo' = solo /\ owes' = owes /\ mem' = mem
      /\ ~ HasCompleted(j) /\ ~ HasCompleted(j)'
  BY <1>1
  DEF TenantOf, FeedOf, Products, HasCompleted, JobsInv, JobInv, ReportInv, stores, history
<1>4. SoloInv(j)'
  <2>1. solo[j] => Indexed(j, Products(j)) /\ Exact(j) /\ Copied(j, Products(j))
    BY <1>1 DEF JobsInv, JobInv, SoloInv, Copied
  <2>2. QED
    BY <1>2, <1>3, <2>1 DEF SoloInv, Indexed, Copied, Exact
<1>5. OwesInv(j)'
  BY <1>1, <1>2, <1>3 DEF JobsInv, JobInv, OwesInv
<1>6. JobInv(j)'
  BY <1>1, <1>2, <1>3, <1>4, <1>5 DEF JobsInv, JobInv, DeltaInv, ReportInv
<1>7. QED
  BY <1>1, <1>3, <1>6, OthersUnaffected DEF Sound, TypeInv, TypeOK

LEMMA InvalidateJobs ==
  ASSUME Sound, JobsInv, NEW j \in Jobs, Invalidate(j) PROVE JobsInv'
<1>1. pc[j] = "invalidate" /\ pc' = [pc EXCEPT ![j] = "finish"]
      /\ owes' = [owes EXCEPT ![TenantOf(j)] = {}]
      /\ UNCHANGED <<row, upload, mem, stores, solo>>
  BY DEF Invalidate, Goto
<1>2. pc'[j] = "finish" /\ ~ HasCompleted(j)
  BY <1>1 DEF Sound, TypeInv, TypeOK, JobsInv, JobInv, ReportInv
<1>3. \A t \in Tenants : owes'[t] = IF t = TenantOf(j) THEN {} ELSE owes[t]
  BY <1>1 DEF Sound, TypeInv, TypeOK
<1>4. \A t \in Tenants : j \notin owes'[t]
  BY <1>3 DEF JobsInv, JobInv, OwesInv
<1>5. /\ TenantOf(j)' = TenantOf(j) /\ FeedOf(j)' = FeedOf(j)
      /\ Products(j)' = Products(j) /\ upload' = upload /\ index' = index /\ raw' = raw
      /\ solo' = solo /\ mem' = mem /\ ~ HasCompleted(j)'
  BY <1>1, <1>2 DEF TenantOf, FeedOf, Products, HasCompleted, stores
<1>6. SoloInv(j)'
  BY <1>1, <1>2, <1>5 DEF JobsInv, JobInv, SoloInv, Indexed, Copied, Exact
<1>7. JobInv(j)'
  BY <1>1, <1>2, <1>4, <1>5, <1>6 DEF JobsInv, JobInv, DeltaInv, OwesInv, ReportInv
<1>8. QED
  BY <1>1, <1>3, <1>5, <1>7, OthersUnaffected DEF Sound, TypeInv, TypeOK

LEMMA InvalidateFailsJobs ==
  ASSUME Sound, JobsInv, NEW j \in Jobs, InvalidateFails(j) PROVE JobsInv'
<1>1. pc[j] = "invalidate" /\ pc' = [pc EXCEPT ![j] = "failing"]
      /\ owes' \in {owes, [owes EXCEPT ![TenantOf(j)] = {}]}
      /\ UNCHANGED <<row, upload, mem, stores, solo>>
  BY DEF InvalidateFails, Raise, Exit, Goto
<1>2. pc'[j] = "failing" /\ ~ HasCompleted(j)
  BY <1>1 DEF Sound, TypeInv, TypeOK, JobsInv, JobInv, ReportInv
<1>3. \A t \in Tenants : \A k \in Jobs : k \in owes'[t] => k \in owes[t]
  BY <1>1 DEF Sound, TypeInv, TypeOK
<1>4. TenantOf(j)' = TenantOf(j) /\ ~ HasCompleted(j)'
  BY <1>1, <1>2 DEF TenantOf, HasCompleted
<1>5. OwesInv(j)'
  BY <1>1, <1>2, <1>3, <1>4 DEF JobsInv, JobInv, OwesInv
<1>6. JobInv(j)'
  BY <1>2, <1>4, <1>5 DEF JobInv, DeltaInv, SoloInv, ReportInv
<1>7. QED
  BY <1>1, <1>3, <1>6, OthersUnaffected DEF Sound, TypeInv, TypeOK, stores

(* The counts of a completed run: changed and unchanged products partition *)
(* the feed's products, which are its rows less duplicates and rejections. *)
LEMMA OutcomeAddsUp ==
  ASSUME Sound, NEW j \in Jobs, pc[j] # "idle", mem[j].changed \subseteq Products(j)
  PROVE  /\ Outcome(j).total = Outcome(j).indexed + Outcome(j).skipped
                                 + Outcome(j).failed + FeedOf(j).duplicates
         /\ mem[j].changed = {} => Outcome(j).indexed = 0
         /\ Outcome(j).deleted = mem[j].deleted
<1>1. FeedOf(j) \in Feed /\ Products(j) \in SUBSET Skus
  BY UploadType DEF Sound
<1>2. FeedOf(j) \in Feeds
  BY DEF Sound, TypeInv, JobsKnown, Upload, FeedOf
<1>3. FeedOf(j).total = Cardinality(Products(j)) + FeedOf(j).duplicates + FeedOf(j).failed
  BY <1>2, IngestionAssumption DEF Products
<1>4. IsFiniteSet(Products(j)) /\ Products(j) \cap mem[j].changed = mem[j].changed
  BY <1>1, SkusFinite
<1>5. Cardinality(Products(j) \ mem[j].changed)
        = Cardinality(Products(j)) - Cardinality(mem[j].changed)
  BY <1>4, FS_Difference
<1>6. Cardinality(Products(j)) \in Nat /\ Cardinality(mem[j].changed) \in Nat
  BY <1>1, SkusFinite
<1>7. FeedOf(j).duplicates \in Nat /\ FeedOf(j).failed \in Nat
  BY <1>1 DEF Feed
<1>8. mem[j].changed = {} => Cardinality(mem[j].changed) = 0
  BY FS_EmptySet
<1>9. QED
  BY <1>3, <1>5, <1>6, <1>7, <1>8 DEF Outcome

LEMMA ResolveJobs ==
  ASSUME Sound, JobsInv, NEW j \in Jobs, Resolve(j) \/ ResolveFails(j) PROVE JobsInv'
<1>1. pc[j] \in {"finish", "failing"} /\ UNCHANGED <<upload, mem, stores, history>>
      /\ pc' \in {[pc EXCEPT ![j] = "done"], [pc EXCEPT ![j] = "gone"]}
      /\ row' \in {row, [row EXCEPT ![j] = Resolution(j)]}
  BY DEF Resolve, ResolveFails, Goto
<1>2. pc'[j] \in {"done", "gone"} /\ row'[j] \in {row[j], Resolution(j)}
      /\ \A k \in Jobs \ {j} : pc'[k] = pc[k] /\ row'[k] = row[k]
  BY <1>1 DEF Sound, TypeInv, TypeOK
<1>3. ~ HasCompleted(j) /\ mem[j].deleted \in Nat
  BY <1>1 DEF JobsInv, JobInv, ReportInv, Sound, TypeInv, TypeOK, Memory
<1>4. HasCompleted(j)' => pc[j] = "finish" /\ row'[j] = Outcome(j)
  <2>1. row[j] \in JobRow
    BY <1>1 DEF Sound, TypeInv, JobsKnown
  <2>2. [row[j] EXCEPT !.status = "FAILED"].status = "FAILED"
    BY <2>1 DEF JobRow
  <2>3. QED
    BY <1>2, <1>3, <2>2 DEF HasCompleted, Completed, Resolution
<1>5. /\ TenantOf(j)' = TenantOf(j) /\ FeedOf(j)' = FeedOf(j)
      /\ Products(j)' = Products(j) /\ upload' = upload /\ index' = index /\ raw' = raw
      /\ solo' = solo /\ owes' = owes /\ mem' = mem
  BY <1>1 DEF TenantOf, FeedOf, Products, stores, history
<1>6. pc[j] = "finish" => mem[j].changed \subseteq Products(j)
  BY DEF JobsInv, JobInv, DeltaInv
<1>7. SoloInv(j)'
  <2>1. solo[j] /\ pc[j] = "finish" =>
          Indexed(j, Products(j)) /\ Exact(j) /\ Copied(j, Products(j))
    BY DEF JobsInv, JobInv, SoloInv
  <2>2. QED
    BY <1>2, <1>4, <1>5, <2>1 DEF SoloInv, Indexed, Copied, Exact
<1>8. OwesInv(j)'
  <2>1. ASSUME HasCompleted(j)', NEW t \in Tenants, j \in owes[t]
        PROVE  upload[j].full /\ row'[j].indexed = 0 /\ row'[j].deleted = 0
    <3>1. upload[j].full /\ mem[j].changed = {} /\ mem[j].deleted = 0
      BY <1>4, <2>1 DEF JobsInv, JobInv, OwesInv
    <3>2. QED
      BY <1>4, <1>6, <2>1, <3>1, OutcomeAddsUp
  <2>2. \A t \in Tenants : j \in owes[t] => TenantOf(j) = t
    BY DEF JobsInv, JobInv, OwesInv
  <2>3. QED
    BY <1>2, <1>5, <2>1, <2>2 DEF OwesInv
<1>9. ReportInv(j)'
  BY <1>1, <1>2, <1>4, <1>5, <1>6, OutcomeAddsUp DEF ReportInv
<1>10. JobInv(j)'
  BY <1>2, <1>7, <1>8, <1>9 DEF JobInv, DeltaInv
<1>11. QED
  BY <1>1, <1>2, <1>5, <1>10, OthersUnaffected

LEMMA CrashJobs == ASSUME Sound, JobsInv, Crash PROVE JobsInv'
<1>1. /\ pc' = [j \in Jobs |-> IF pc[j] \in Live THEN "gone" ELSE pc[j]]
      /\ UNCHANGED <<row, upload, mem, stores, history>>
  BY DEF Crash
<1>2. SUFFICES ASSUME NEW j \in Jobs PROVE JobInv(j)'
  BY DEF JobsInv
<1>3. CASE pc[j] \notin Live
  <2>1. pc'[j] = pc[j]
    BY <1>1, <1>3
  <2>2. QED
    BY <1>1, <2>1, Unaffected DEF JobsInv, stores, history
<1>4. CASE pc[j] \in Live
  <2>1. pc'[j] = "gone" /\ ~ HasCompleted(j)
    BY <1>1, <1>4 DEF JobsInv, JobInv, ReportInv, Live
  <2>2. TenantOf(j)' = TenantOf(j) /\ ~ HasCompleted(j)' /\ owes' = owes
    BY <1>1, <2>1 DEF TenantOf, HasCompleted, history
  <2>3. OwesInv(j)'
    BY <2>1, <2>2 DEF JobsInv, JobInv, OwesInv
  <2>4. QED
    BY <2>1, <2>2, <2>3 DEF JobInv, DeltaInv, SoloInv, ReportInv
<1>5. QED
  BY <1>3, <1>4

LEMMA InitJobs == Init => JobsInv
<1> SUFFICES ASSUME Init, NEW j \in Jobs PROVE JobInv(j)
  BY DEF JobsInv
<1>1. pc[j] = "idle" /\ ~ solo[j] /\ ~ HasCompleted(j) /\ \A t \in Tenants : owes[t] = {}
  BY DEF Init, HasCompleted
<1>2. QED
  BY <1>1 DEF JobInv, DeltaInv, SoloInv, OwesInv, ReportInv

LEMMA NextJobs == Sound /\ JobsInv /\ [Next]_vars => JobsInv'
<1> SUFFICES ASSUME Sound, JobsInv, [Next]_vars PROVE JobsInv'
  OBVIOUS
<1>1. ASSUME NEW j \in Jobs, Succeed(j) PROVE JobsInv'
  BY <1>1, StartJobs, AcquireJobs, FetchJobs, UpsertBatchJobs, UpsertedJobs,
     DeletesJobs, StoreRawJobs, ReleaseJobs, InvalidateJobs, ResolveJobs
  DEF Succeed, Deletes
<1>2. ASSUME NEW j \in Jobs, Fail(j) PROVE JobsInv'
  BY <1>2, StartJobs, DeletesJobs, FetchFailsJobs, UpsertFailsJobs, DeleteFailsJobs,
     StoreRawFailsJobs, InvalidateFailsJobs, ResolveJobs
  DEF Fail, Deletes
<1>3. CASE UNCHANGED vars
  BY <1>3, Unaffected DEF JobsInv, vars, stores, history, bounds
<1>4. QED
  BY <1>1, <1>2, <1>3, SubmitJobs, CrashJobs DEF Next

LEMMA JobsAlways == Spec => [](Sound /\ JobsInv)
BY InitSound, NextSound, InitJobs, NextJobs, PTL DEF Spec

(* A job reported as completed, and not overtaken by another job of its    *)
(* tenant, left both stores agreeing with its feed, for any feed, batch    *)
(* size and sequence of failing and retried calls.                         *)
THEOREM SoloJobsIndexTheirFeed == Spec => []SoloJobIndexesItsFeed
<1>1. Sound /\ JobsInv => SoloJobIndexesItsFeed
  BY DEF JobsInv, JobInv, SoloInv, SoloJobIndexesItsFeed, Indexed, Copied, Exact
<1>2. QED
  BY <1>1, JobsAlways, PTL

(* The counts of every completed job account for every row of its feed.    *)
THEOREM ReportsAddUp == Spec => []ReportAddsUp
<1>1. Sound /\ JobsInv => ReportAddsUp
  BY DEF JobsInv, JobInv, ReportInv, ReportAddsUp
<1>2. QED
  BY <1>1, JobsAlways, PTL

(* No completed job leaves the tenant's semantic cache uninvalidated after *)
(* a change of its index, but for a delete whose answer was lost.          *)
THEOREM CompletedJobsInvalidate == Spec => []CompletedJobInvalidated
<1>1. ASSUME Sound, JobsInv, NEW j \in Jobs, HasCompleted(j), j \in owes[TenantOf(j)]
      PROVE  upload[j].full /\ row[j].indexed = 0 /\ row[j].deleted = 0
  <2>1. pc[j] # "idle"
    BY <1>1 DEF Sound, TypeInv, JobsKnown, HasCompleted
  <2>2. TenantOf(j) \in Tenants
    BY <1>1, <2>1, UploadType DEF Sound
  <2>3. QED
    BY <1>1, <2>2 DEF JobsInv, JobInv, OwesInv
<1>2. Sound /\ JobsInv => CompletedJobInvalidated
  BY <1>1 DEF CompletedJobInvalidated
<1>3. QED
  BY <1>2, JobsAlways, PTL

-----------------------------------------------------------------------------
(* What a step may do to the stores, whichever job takes it.               *)

LEMMA UpsertWrites ==
  ASSUME Sound, JobsInv, NEW j \in Jobs, UpsertBatch(j) \/ UpsertFails(j)
  PROVE  /\ pc[j] = "upsert" /\ raw' = raw
         /\ \E S \in SUBSET Products(j) :
              WriteIndex(j, Put(index[TenantOf(j)], S, FeedOf(j).products))
<1>1. pc[j] = "upsert"
  BY DEF UpsertBatch, UpsertFails
<1>2. PICK b \in Batches(mem[j].rest, EmbedBatch) : \E S \in SUBSET b :
        WriteIndex(j, Put(index[TenantOf(j)], S, FeedOf(j).products))
  BY DEF UpsertBatch, UpsertFails
<1>3. b \subseteq Products(j)
  BY <1>1, BatchType, IngestionAssumption DEF JobsInv, JobInv, DeltaInv
<1>4. QED
  BY <1>1, <1>2, <1>3 DEF WriteIndex

LEMMA DeleteWrites ==
  ASSUME Sound, NEW j \in Jobs, Deletes(j) \/ DeleteFails(j)
  PROVE  /\ pc[j] = "delete" /\ raw' = raw
         /\ \E S \in SUBSET Stale(j) : WriteIndex(j, Remove(index[TenantOf(j)], S))
<1>1. CASE Deletes(j)
  <2>1. PICK gone \in SUBSET Matched(j) : Deletion(j, gone)
    BY <1>1, DeletesShape
  <2>2. WriteIndex(j, Remove(index[TenantOf(j)], gone)) /\ gone \in SUBSET Stale(j)
    BY <2>1 DEF Deletion, Matched
  <2>3. pc[j] = "delete" /\ raw' = raw
    BY <1>1, <2>2, DeletesShape DEF WriteIndex
  <2>4. QED
    BY <2>2, <2>3
<1>2. CASE DeleteFails(j)
  BY <1>2 DEF DeleteFails, WriteIndex
<1>3. QED
  BY <1>1, <1>2

LEMMA RawWrites ==
  ASSUME Sound, JobsInv, NEW j \in Jobs, StoreRaw(j) \/ StoreRawFails(j)
  PROVE  /\ pc[j] = "mongo" /\ index' = index
         /\ \E S \in SUBSET Products(j) : WriteRaw(j, S)
<1>1. pc[j] = "mongo"
  BY DEF StoreRaw, StoreRawFails
<1>2. PICK b \in Batches(mem[j].rest, MongoBatch) : \E S \in SUBSET b : WriteRaw(j, S)
  BY DEF StoreRaw, StoreRawFails
<1>3. b \subseteq Products(j)
  BY <1>1, BatchType, IngestionAssumption DEF JobsInv, JobInv, DeltaInv
<1>4. QED
  BY <1>1, <1>2, <1>3 DEF WriteRaw

Writes(j) == \/ UpsertBatch(j) \/ UpsertFails(j) \/ Deletes(j) \/ DeleteFails(j)
             \/ StoreRaw(j) \/ StoreRawFails(j)

LEMMA OthersWriteNothing ==
  ASSUME [Next]_vars, \A j \in Jobs : ~ Writes(j) PROVE UNCHANGED stores
BY DEF Next, Succeed, Fail, Writes, Deletes, Submit, Start, StartFails, Acquire, Fetch,
       FetchFails, Upserted, Release, Invalidate, InvalidateFails, Resolve, ResolveFails, Crash, vars

(* A product enters the index only from the feed of a job that upserts,    *)
(* and leaves it only as a stale one of a job that deletes.                *)
LEMMA IndexStep ==
  ASSUME Sound, JobsInv, [Next]_vars, NEW t \in Tenants
  PROVE  /\ \A s \in Present(index'[t]) \ Present(index[t]) :
              \E j \in Jobs : pc[j] = "upsert" /\ TenantOf(j) = t /\ s \in Products(j)
         /\ \A s \in Present(index[t]) \ Present(index'[t]) :
              \E j \in Jobs : pc[j] = "delete" /\ TenantOf(j) = t /\ s \in Stale(j)
<1>1. ASSUME NEW j \in Jobs, NEW c, pc[j] # "idle", WriteIndex(j, c), t # TenantOf(j)
      PROVE  index'[t] = index[t]
  BY <1>1 DEF WriteIndex, Sound, TypeInv, TypeOK
<1>2. CASE \E j \in Jobs : UpsertBatch(j) \/ UpsertFails(j)
  <2>1. PICK j \in Jobs : UpsertBatch(j) \/ UpsertFails(j)
    BY <1>2
  <2>2. pc[j] = "upsert" /\ \E S \in SUBSET Products(j) :
          WriteIndex(j, Put(index[TenantOf(j)], S, FeedOf(j).products))
    BY <2>1, UpsertWrites
  <2>3. PICK S \in SUBSET Products(j) :
          WriteIndex(j, Put(index[TenantOf(j)], S, FeedOf(j).products))
    BY <2>2
  <2>4. CASE t = TenantOf(j)
    <3>1. index'[t] = Put(index[t], S, FeedOf(j).products)
      BY <2>2, <2>3, <2>4, WriteIndexOthers
    <3>2. Present(index'[t]) = Present(index[t]) \cup S
      BY <2>2, <3>1, UploadType, PresentAfter DEF Products, Sound, TypeInv, TypeOK
    <3>3. QED
      BY <2>2, <2>4, <3>2
  <2>5. QED
    BY <1>1, <2>2, <2>3, <2>4
<1>3. CASE \E j \in Jobs : Deletes(j) \/ DeleteFails(j)
  <2>1. PICK j \in Jobs : Deletes(j) \/ DeleteFails(j)
    BY <1>3
  <2>2. pc[j] = "delete" /\ \E S \in SUBSET Stale(j) :
          WriteIndex(j, Remove(index[TenantOf(j)], S))
    BY <2>1, DeleteWrites
  <2>3. PICK S \in SUBSET Stale(j) : WriteIndex(j, Remove(index[TenantOf(j)], S))
    BY <2>2
  <2>4. t = TenantOf(j) => Present(index'[t]) = Present(index[t]) \ S
    BY <2>2, <2>3, RemoveStale
  <2>5. QED
    BY <1>1, <2>2, <2>3, <2>4
<1>4. CASE \E j \in Jobs : StoreRaw(j) \/ StoreRawFails(j)
  BY <1>4, RawWrites
<1>5. QED
  BY <1>2, <1>3, <1>4, OthersWriteNothing DEF Writes, stores

(* No step takes a row out of Mongo.                                       *)
LEMMA RawGrows ==
  ASSUME Sound, JobsInv, [Next]_vars, NEW t \in Tenants
  PROVE  Present(raw[t]) \subseteq Present(raw'[t])
<1>1. CASE \E j \in Jobs : StoreRaw(j) \/ StoreRawFails(j)
  <2>1. PICK j \in Jobs : StoreRaw(j) \/ StoreRawFails(j)
    BY <1>1
  <2>2. pc[j] = "mongo" /\ \E S \in SUBSET Products(j) : WriteRaw(j, S)
    BY <2>1, RawWrites
  <2>3. PICK S \in SUBSET Products(j) : WriteRaw(j, S)
    BY <2>2
  <2>4. CASE t = TenantOf(j)
    <3>1. raw'[t] = Put(raw[t], S, FeedOf(j).products)
      BY <2>2, <2>3, <2>4, WriteRawOthers
    <3>2. Present(raw'[t]) = Present(raw[t]) \cup S
      BY <2>2, <3>1, UploadType, PresentAfter DEF Products, Sound, TypeInv, TypeOK
    <3>3. QED
      BY <3>2
  <2>5. CASE t # TenantOf(j)
    BY <2>3, <2>5 DEF WriteRaw, Sound, TypeInv, TypeOK
  <2>6. QED
    BY <2>4, <2>5
<1>2. CASE ~ \E j \in Jobs : StoreRaw(j) \/ StoreRawFails(j)
  <2>1. raw' = raw
    BY <1>2, OthersWriteNothing, UpsertWrites, DeleteWrites DEF Writes, stores
  <2>2. QED
    BY <2>1
<1>3. QED
  BY <1>1, <1>2

(* A partial upload loses nothing: only a full_sync's delete takes a       *)
(* product out of the index, and never one its feed has.                   *)
THEOREM OnlyFullSyncsDelete == Spec => OnlyFullSyncDeletes
<1>1. Sound /\ JobsInv /\ [Next]_vars => LossIsFullSync
  <2>1. JobsInv => \A j \in Jobs : pc[j] = "delete" => upload[j].full
    BY DEF JobsInv, JobInv, DeltaInv
  <2>2. QED
    BY <2>1, IndexStep DEF Stale, LossIsFullSync
<1>2. QED
  BY <1>1, JobsAlways, PTL DEF Spec, OnlyFullSyncDeletes

-----------------------------------------------------------------------------
(* Replayability: what Mongo holds of each job's feed, and who still owes  *)
(* it the rest.                                                            *)

Step(j) == Submit(j) \/ Succeed(j) \/ Fail(j)

(* A step of j changes no other job, and never makes j idle again.         *)
LEMMA StepOfOne ==
  ASSUME Sound, NEW j \in Jobs, Step(j)
  PROVE  /\ pc'[j] # "idle"
         /\ \A k \in Jobs \ {j} : /\ pc'[k] = pc[k] /\ mem'[k] = mem[k]
                                  /\ row'[k] = row[k] /\ upload'[k] = upload[k]
<1>1. pc \in [Jobs -> Stage] /\ mem \in [Jobs -> Memory]
      /\ row \in [Jobs -> JobRow \cup {None}] /\ upload \in [Jobs -> Upload \cup {None}]
  BY DEF Sound, TypeInv, TypeOK
<1>2. CASE Submit(j)
  BY <1>1, <1>2 DEF Submit, Goto
<1>3. CASE Start(j) \/ StartFails(j) \/ Acquire(j)
  BY <1>1, <1>3 DEF Start, StartFails, Acquire, Goto
<1>4. CASE Fetch(j) \/ UpsertBatch(j) \/ Upserted(j) \/ Deletes(j) \/ StoreRaw(j)
  BY <1>1, <1>4
  DEF Fetch, UpsertBatch, Upserted, Deletes, DeleteStale, DeletePartly, Deletion, StoreRaw,
      Goto, Keep
<1>5. CASE FetchFails(j) \/ UpsertFails(j) \/ DeleteFails(j) \/ StoreRawFails(j)
  <2>1. pc[j] \notin {"idle", "failing"} /\ RetryOrRaise(j) /\ UNCHANGED <<row, upload>>
    BY <1>5 DEF FetchFails, UpsertFails, DeleteFails, StoreRawFails
  <2>2. QED
    BY <2>1, RetryOrRaiseKeeps
<1>6. CASE Release(j) \/ Invalidate(j) \/ InvalidateFails(j)
  BY <1>1, <1>6 DEF Release, Invalidate, InvalidateFails, Raise, Exit, Goto
<1>7. CASE Resolve(j) \/ ResolveFails(j)
  BY <1>1, <1>7 DEF Resolve, ResolveFails, Goto
<1>8. QED
  BY <1>2, <1>3, <1>4, <1>5, <1>6, <1>7 DEF Step, Succeed, Fail, Deletes

(* An accepted job keeps its upload.                                       *)
LEMMA UploadKept ==
  ASSUME Sound, [Next]_vars, NEW j \in Jobs, pc[j] # "idle"
  PROVE  /\ pc'[j] # "idle" /\ upload'[j] = upload[j]
         /\ TenantOf(j)' = TenantOf(j) /\ Products(j)' = Products(j)
<1>1. pc'[j] # "idle" /\ upload'[j] = upload[j]
  <2>1. ASSUME Step(j) PROVE pc'[j] # "idle" /\ upload'[j] = upload[j]
    <3>1. ~ Submit(j)
      BY DEF Submit
    <3>2. CASE Start(j) \/ Acquire(j) \/ Fetch(j) \/ UpsertBatch(j) \/ Upserted(j)
      BY <3>2, StepOfOne, <2>1 DEF Start, Acquire, Fetch, UpsertBatch, Upserted
    <3>3. CASE DeleteStale(j) \/ DeletePartly(j)
      <4>1. PICK gone : Deletion(j, gone)
        BY <3>3 DEF DeleteStale, DeletePartly
      <4>2. QED
        BY <2>1, <4>1, StepOfOne DEF Deletion
    <3>4. CASE StoreRaw(j) \/ Release(j) \/ Invalidate(j) \/ Resolve(j)
      BY <3>4, StepOfOne, <2>1 DEF StoreRaw, Release, Invalidate, Resolve
    <3>5. CASE StartFails(j) \/ FetchFails(j) \/ UpsertFails(j) \/ DeleteFails(j)
      BY <3>5, StepOfOne, <2>1 DEF StartFails, FetchFails, UpsertFails, DeleteFails
    <3>6. CASE StoreRawFails(j) \/ InvalidateFails(j) \/ ResolveFails(j)
      BY <3>6, StepOfOne, <2>1 DEF StoreRawFails, InvalidateFails, ResolveFails
    <3>7. QED
      BY <2>1, <3>1, <3>2, <3>3, <3>4, <3>5, <3>6 DEF Step, Succeed, Fail
  <2>2. ASSUME NEW k \in Jobs \ {j}, Step(k)
        PROVE  pc'[j] # "idle" /\ upload'[j] = upload[j]
    BY <2>2, StepOfOne
  <2>3. CASE Crash
    BY <2>3 DEF Crash, Live
  <2>4. CASE UNCHANGED vars
    BY <2>4 DEF vars
  <2>5. QED
    BY <2>1, <2>2, <2>3, <2>4 DEF Next, Step
<1>2. QED
  BY <1>1 DEF TenantOf, Products, FeedOf

(* A row becomes a completed one only by the commit of a finished task.    *)
LEMMA Completion ==
  ASSUME Sound, JobsInv, [Next]_vars, NEW j \in Jobs, HasCompleted(j)', ~ HasCompleted(j)
  PROVE  pc[j] = "finish"
<1>1. row'[j] # row[j]
  BY DEF HasCompleted
<1>2. Step(j)
  <2>1. ASSUME NEW k \in Jobs \ {j}, Step(k) PROVE FALSE
    BY <1>1, <2>1, StepOfOne
  <2>2. ~ Crash /\ ~ UNCHANGED vars
    BY <1>1 DEF Crash, vars
  <2>3. QED
    BY <2>1, <2>2 DEF Next, Step
<1>3. row \in [Jobs -> JobRow \cup {None}] /\ (pc[j] # "idle" => row[j] \in JobRow)
  BY DEF Sound, TypeInv, TypeOK, JobsKnown
<1>4. ~ Submit(j)
  <2>1. ASSUME Submit(j) PROVE row'[j].status = "PENDING"
    BY <1>3, <2>1 DEF Submit
  <2>2. QED
    BY <2>1 DEF HasCompleted, Completed
<1>5. ~ Start(j) /\ ~ StartFails(j)
  <2>1. ASSUME Start(j) \/ StartFails(j) PROVE row'[j].status = "RUNNING"
    <3>1. row' = [row EXCEPT ![j].status = "RUNNING"] /\ pc[j] # "idle"
      BY <1>1, <2>1 DEF Start, StartFails
    <3>2. row[j] \in JobRow
      BY <1>3, <3>1
    <3>3. QED
      BY <1>3, <3>1, <3>2 DEF JobRow
  <2>2. QED
    BY <2>1 DEF HasCompleted, Completed
<1>6. Resolve(j) \/ ResolveFails(j)
  BY <1>1, <1>2, <1>4, <1>5
  DEF Step, Succeed, Fail, Acquire, Fetch, FetchFails, UpsertBatch, UpsertFails, Upserted,
      DeleteStale, DeletePartly, Deletion, DeleteFails, StoreRaw, StoreRawFails, Release,
      Invalidate, InvalidateFails
<1>7. row'[j] = Resolution(j) /\ pc[j] \in {"finish", "failing"}
  BY <1>1, <1>3, <1>6 DEF Resolve, ResolveFails
<1>8. CASE pc[j] = "failing"
  <2>1. row'[j].status = "FAILED"
    BY <1>3, <1>7, <1>8 DEF Resolution, JobRow
  <2>2. QED
    BY <2>1 DEF HasCompleted, Completed
<1>9. QED
  BY <1>7, <1>8

(* What Mongo holds of each job's feed does not shrink under it.           *)
LEMMA RawInvStep == ASSUME Sound, JobsInv, RawInv, [Next]_vars PROVE RawInv'
<1> SUFFICES ASSUME NEW j \in Jobs PROVE CopiedInv(j)'
  BY DEF RawInv
<1>1. pc[j] # "idle" => /\ TenantOf(j) \in Tenants
                        /\ Present(raw[TenantOf(j)]) \subseteq Present(raw'[TenantOf(j)])
                        /\ TenantOf(j)' = TenantOf(j) /\ Products(j)' = Products(j)
  BY UploadType, RawGrows, UploadKept DEF Sound
<1>2. ASSUME pc'[j] = pc[j], mem'[j].rest = mem[j].rest PROVE CopiedInv(j)'
  BY <1>1, <1>2 DEF RawInv, CopiedInv, Present
<1>3. ASSUME pc'[j] \notin {"mongo", "invalidate", "finish"} PROVE CopiedInv(j)'
  BY <1>3 DEF CopiedInv
<1>4. CASE Step(j)
  <2>1. pc \in [Jobs -> Stage] /\ mem \in [Jobs -> Memory] /\ mem[j] \in Memory
    BY DEF Sound, TypeInv, TypeOK
  <2>2. CASE Submit(j) \/ Start(j) \/ StartFails(j) \/ Acquire(j) \/ Fetch(j)
    BY <1>3, <2>1, <2>2 DEF Submit, Start, StartFails, Acquire, Fetch, Goto
  <2>3. CASE FetchFails(j) \/ UpsertFails(j) \/ DeleteFails(j) \/ StoreRawFails(j)
    <3>1. pc[j] # "idle" /\ RetryOrRaise(j)
      BY <2>3 DEF FetchFails, UpsertFails, DeleteFails, StoreRawFails
    <3>2. pc'[j] \in {pc[j], "failing"} /\ mem'[j].rest = mem[j].rest
      BY <3>1, RetryOrRaiseKeeps
    <3>3. QED
      BY <1>2, <1>3, <3>2
  <2>4. CASE UpsertBatch(j)
    BY <1>3, <2>4 DEF UpsertBatch
  <2>5. CASE Upserted(j) \/ Deletes(j)
    <3>1. CASE Upserted(j)
      <4>1. /\ pc[j] = "upsert"
            /\ \/ pc'[j] = "delete"
               \/ /\ pc'[j] = "mongo"
                  /\ mem' = [mem EXCEPT ![j] = [mem[j] EXCEPT !.rest = Products(j)]]
        BY <2>1, <3>1 DEF Upserted, Goto, Keep
      <4>2. pc'[j] = "delete" \/ mem'[j].rest = Products(j)
        BY <2>1, <4>1 DEF Memory
      <4>3. QED
        BY <1>1, <4>1, <4>2 DEF CopiedInv
    <3>2. CASE Deletes(j)
      <4> PICK gone \in SUBSET Matched(j) : Deletion(j, gone)
        BY <3>2, DeletesShape
      <4>1. pc[j] = "delete" /\ pc'[j] = "mongo"
        BY <2>1, <3>2, DeletesShape DEF Deletion, Goto
      <4>2. PICK n, left : mem' = [mem EXCEPT ![j] = [mem[j] EXCEPT
              !.deleted = n, !.spared = left, !.rest = Products(j), !.tries = 0]]
        BY DEF Deletion, Keep
      <4>3. mem'[j].rest = Products(j)
        BY <2>1, <4>2 DEF Memory
      <4>4. QED
        BY <1>1, <4>1, <4>3 DEF CopiedInv
    <3>3. QED
      BY <2>5, <3>1, <3>2
  <2>6. CASE StoreRaw(j)
    <3>1. pc[j] = "mongo" /\ pc' = pc
      BY <2>6 DEF StoreRaw
    <3>2. PICK b \in Batches(mem[j].rest, MongoBatch) :
            /\ WriteRaw(j, b)
            /\ mem' = [mem EXCEPT ![j] = [mem[j] EXCEPT !.rest = @ \ b, !.tries = 0]]
      BY <2>6 DEF StoreRaw, Keep
    <3>3. mem'[j].rest = mem[j].rest \ b
      BY <2>1, <3>2 DEF Memory
    <3>4. b \subseteq Products(j)
      BY <3>1, BatchType, IngestionAssumption DEF JobsInv, JobInv, DeltaInv
    <3>5. raw'[TenantOf(j)] = Put(raw[TenantOf(j)], b, FeedOf(j).products)
      BY <3>1, <3>2, WriteRawOthers
    <3>6. Present(raw'[TenantOf(j)]) = Present(raw[TenantOf(j)]) \cup b
      BY <3>1, <3>4, <3>5, UploadType, PresentAfter DEF Products, Sound, TypeInv, TypeOK
    <3>7. Products(j) \ mem[j].rest \subseteq Present(raw[TenantOf(j)])
      BY <3>1 DEF RawInv, CopiedInv
    <3>8. Products(j) \ mem'[j].rest \subseteq Present(raw'[TenantOf(j)])
      BY <3>3, <3>6, <3>7
    <3>9. QED
      BY <1>1, <3>1, <3>8 DEF CopiedInv, Present
  <2>7. CASE Release(j)
    <3>1. pc[j] = "mongo" /\ mem[j].rest = {} /\ pc'[j] \in {"invalidate", "finish"}
      BY <2>1, <2>7 DEF Release, Exit, Goto
    <3>2. Products(j) \subseteq Present(raw[TenantOf(j)])
      BY <3>1 DEF RawInv, CopiedInv
    <3>3. QED
      BY <1>1, <3>1, <3>2 DEF CopiedInv, Present
  <2>8. CASE Invalidate(j) \/ InvalidateFails(j)
    <3>1. pc[j] = "invalidate" /\ pc'[j] \in {"finish", "failing"}
      BY <2>1, <2>8 DEF Invalidate, InvalidateFails, Raise, Exit, Goto
    <3>2. Products(j) \subseteq Present(raw[TenantOf(j)])
      BY <3>1 DEF RawInv, CopiedInv
    <3>3. QED
      BY <1>1, <3>1, <3>2 DEF CopiedInv, Present
  <2>9. CASE Resolve(j) \/ ResolveFails(j)
    BY <1>3, <2>1, <2>9 DEF Resolve, ResolveFails, Goto
  <2>10. QED
    BY <1>4, <2>2, <2>3, <2>4, <2>5, <2>6, <2>7, <2>8, <2>9 DEF Step, Succeed, Fail, Deletes
<1>5. ASSUME NEW k \in Jobs \ {j}, Step(k) PROVE CopiedInv(j)'
  BY <1>2, <1>5, StepOfOne
<1>6. CASE Crash
  BY <1>2, <1>3, <1>6 DEF Crash
<1>7. CASE UNCHANGED vars
  BY <1>2, <1>7 DEF vars
<1>8. QED
  BY <1>4, <1>5, <1>6, <1>7 DEF Next, Step

LEMMA ReplayStep ==
  ASSUME Sound, JobsInv, RawInv, IndexedIsReplayable, [Next]_vars
  PROVE  IndexedIsReplayable'
<1> SUFFICES ASSUME NEW t \in Tenants, NEW s \in Present(index'[t]) \ Present(raw'[t])
             PROVE  \E j \in Jobs : /\ pc'[j] # "idle" /\ TenantOf(j)' = t
                                    /\ s \in Products(j)' /\ ~ HasCompleted(j)'
  BY DEF IndexedIsReplayable, Present
<1>1. s \notin Present(raw[t])
  BY RawGrows
<1>2. ASSUME NEW j \in Jobs, pc[j] # "idle", TenantOf(j) = t, s \in Products(j),
             ~ HasCompleted(j)
      PROVE  ~ HasCompleted(j)'
  <2>1. pc[j] = "finish" => Products(j) \subseteq Present(raw[t])
    BY <1>2 DEF RawInv, CopiedInv
  <2>2. QED
    BY <1>1, <1>2, <2>1, Completion
<1>3. PICK j \in Jobs : pc[j] # "idle" /\ TenantOf(j) = t /\ s \in Products(j)
                        /\ ~ HasCompleted(j)
  <2>1. CASE s \in Present(index[t])
    BY <1>1, <2>1 DEF IndexedIsReplayable
  <2>2. CASE s \notin Present(index[t])
    <3>1. PICK j \in Jobs : pc[j] = "upsert" /\ TenantOf(j) = t /\ s \in Products(j)
      BY <2>2, IndexStep
    <3>2. ~ HasCompleted(j)
      BY <3>1 DEF JobsInv, JobInv, ReportInv
    <3>3. QED
      BY <3>1, <3>2
  <2>3. QED
    BY <2>1, <2>2
<1>4. QED
  BY <1>2, <1>3, UploadKept

LEMMA InitReplay == Init => RawInv /\ IndexedIsReplayable
BY DEF Init, RawInv, CopiedInv, IndexedIsReplayable

(* Weaviate never holds a product without its source row in Mongo, except  *)
(* one brought by a job that has not completed.                            *)
THEOREM IndexIsReplayable == Spec => []IndexedIsReplayable
<1> DEFINE Inv == Sound /\ JobsInv /\ RawInv /\ IndexedIsReplayable
<1>1. Init => Inv
  BY InitSound, InitJobs, InitReplay
<1>2. Inv /\ [Next]_vars => Inv'
  BY NextSound, NextJobs, RawInvStep, ReplayStep
<1>3. Inv => IndexedIsReplayable
  OBVIOUS
<1> HIDE DEF Inv
<1>4. QED
  BY <1>1, <1>2, <1>3, PTL DEF Spec

=============================================================================
