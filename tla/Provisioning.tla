---------------------------- MODULE Provisioning ----------------------------
(***************************************************************************)
(* The scripts that provision a merchant past the API and fill its         *)
(* catalog: scripts/seed.py, _provision_fixture_tenant and _run_queries of *)
(* eval/ci_quality_gate.py, and bench_weaviate of                          *)
(* scripts/bench_ingestion.py.  Runs of one script may overlap, die        *)
(* anywhere and be started again; each script has a tenant of its own, so  *)
(* a behaviour is about the runs of one of them.                           *)
(***************************************************************************)
EXTENDS Naturals, FiniteSets, Sequences

CONSTANTS
  Runs, Wares,   \* the products of the script's feed
  Stale,         \* one an earlier version of it held
  None,
  MaxDeaths      \* bound on runs that fail or are killed

ProvisioningAssumption ==
  /\ Stale \notin Wares /\ MaxDeaths \in Nat
  /\ \A products \in SUBSET (Wares \cup {Stale}) : products # None

VARIABLES
  script,    \* whose runs these are
  row,       \* Postgres: the merchant exists
  shard,     \* Weaviate: the products of the tenant, None without a tenant
  place,     \* which step of the script each run is at, 0 before the first
  fate,
  changes,   \* the products each run found missing or changed
  measured,  \* what its queries searched
  alongside, \* history: the runs that were under way at once with it
  died,      \* history: it failed by itself or was killed
  stranded   \* history: a run left a row behind without a tenant or a key

vars == <<script, row, shard, place, fate, changes, measured, alongside, died, stranded>>

-----------------------------------------------------------------------------
(* ensure_schema (Schema) precedes "exists" in all of them.                *)
Seed == <<"select", "insert", "exists", "create", "delta", "write">>
Gate == <<"erase", "insert", "exists", "remove", "create", "delta", "write", "measure">>
(* One repetition stands for all: each begins by removing the tenant.      *)
Bench == <<"exists", "create", "remove", "create", "write", "remove">>

Script == [seed |-> Seed, gate |-> Gate, bench |-> Bench]

Step(r, n) == Script[script][place[r] + n]
Is(r, step) == fate[r] = "running" /\ Step(r, 0) = step

Advance(r, n) ==
  /\ place' = [place EXCEPT ![r] = @ + n]
  /\ fate' = [fate EXCEPT ![r] = IF place[r] + n > Len(Script[script]) THEN "done" ELSE @]

Raise(r) == fate' = [fate EXCEPT ![r] = "raised"] /\ UNCHANGED place

Begin(r) ==
  /\ fate[r] = "idle"
  /\ fate' = [fate EXCEPT ![r] = "running"]
  /\ place' = [place EXCEPT ![r] = 1]
  /\ LET others == {o \in Runs : fate[o] = "running"}
     IN alongside' = [o \in Runs |-> IF o = r THEN others
                                     ELSE IF o \in others THEN alongside[o] \cup {r}
                                     ELSE alongside[o]]
  /\ UNCHANGED <<script, row, shard, changes, measured, died, stranded>>

-----------------------------------------------------------------------------
(* The merchant.                                                           *)

(* Mutant: a merchant that exists has been seeded.                         *)
SelectReturns(r) ==
  /\ Is(r, "select")
  /\ Advance(r, IF row THEN Len(Seed) ELSE 1)
  /\ UNCHANGED <<script, row, shard, changes, measured, alongside, died, stranded>>

(* _get_or_create_merchant: one that exists is taken as it is.             *)
Select(r) ==
  /\ Is(r, "select")
  /\ Advance(r, IF row THEN 4 ELSE 1)
  /\ UNCHANGED <<script, row, shard, changes, measured, alongside, died, stranded>>

(* The delete, a transaction of its own.                                   *)
Erase(r) ==
  /\ Is(r, "erase")
  /\ row' = FALSE
  /\ Advance(r, 1)
  /\ UNCHANGED <<script, shard, changes, measured, alongside, died, stranded>>

(* The merchant with its first key; the tenant column is unique.           *)
Insert(r) ==
  /\ Is(r, "insert")
  /\ row' = TRUE
  /\ IF row THEN Raise(r) ELSE Advance(r, 1)
  /\ UNCHANGED <<script, shard, changes, measured, alongside, died, stranded>>

-----------------------------------------------------------------------------
(* The tenant.  Weaviate takes the creation of one that exists and the     *)
(* removal of one that does not for done.                                  *)

(* tenant_exists decides whether the next call is made.                    *)
Exists(r) ==
  /\ Is(r, "exists")
  /\ Advance(r, IF (shard # None) <=> (Step(r, 1) = "remove") THEN 1 ELSE 2)
  /\ UNCHANGED <<script, row, shard, changes, measured, alongside, died, stranded>>

Remove(r) ==
  /\ Is(r, "remove")
  /\ shard' = None
  /\ Advance(r, 1)
  /\ UNCHANGED <<script, row, changes, measured, alongside, died, stranded>>

Create(r) ==
  /\ Is(r, "create")
  /\ shard' = IF shard = None THEN {} ELSE shard
  /\ Advance(r, 1)
  /\ UNCHANGED <<script, row, changes, measured, alongside, died, stranded>>

-----------------------------------------------------------------------------
(* ingest: the delta, then the writes; the gate reads its merchant again   *)
(* first.  A tenant is never created by reading or writing it.             *)
Delta(r) ==
  /\ Is(r, "delta")
  /\ IF shard = None \/ (script = "gate" /\ ~row)
     THEN Raise(r) /\ UNCHANGED changes
     ELSE changes' = [changes EXCEPT ![r] = Wares \ shard] /\ Advance(r, 1)
  /\ UNCHANGED <<script, row, shard, measured, alongside, died, stranded>>

(* The benchmark writes its objects without asking what is there.          *)
Written(r) == IF script = "bench" THEN Wares ELSE changes[r]

Write(r) ==
  /\ Is(r, "write")
  /\ IF shard = None /\ Written(r) # {}
     THEN Raise(r) /\ UNCHANGED shard
     ELSE /\ shard' = IF shard = None THEN None ELSE shard \cup Written(r)
          /\ Advance(r, 1)
  /\ UNCHANGED <<script, row, changes, measured, alongside, died, stranded>>

(* The gate's queries, over what is indexed then.                          *)
Measure(r) ==
  /\ Is(r, "measure")
  /\ IF shard = None THEN Raise(r) /\ UNCHANGED measured
     ELSE measured' = [measured EXCEPT ![r] = shard] /\ Advance(r, 1)
  /\ UNCHANGED <<script, row, shard, changes, alongside, died, stranded>>

-----------------------------------------------------------------------------
(* A call fails or the run is killed, after any of its batches.  The key   *)
(* of a new merchant is printed when its tenant exists, never again.       *)
Die(r) ==
  /\ fate[r] = "running" /\ Cardinality(died) < MaxDeaths
  /\ died' = died \cup {r}
  /\ IF Is(r, "write") /\ shard # None
     THEN \E done \in SUBSET Written(r) : shard' = shard \cup done
     ELSE UNCHANGED shard
  /\ stranded' = (stranded \/ (script = "seed" /\ Step(r, 0) \in {"exists", "create"}))
  /\ Raise(r)
  /\ UNCHANGED <<script, row, changes, measured, alongside>>

Init ==
  /\ script \in DOMAIN Script
  /\ row \in BOOLEAN /\ shard \in {None} \cup SUBSET (Wares \cup {Stale})
  /\ (script = "bench" => ~row) /\ (script # "bench" => (row <=> shard # None))
  /\ place = [r \in Runs |-> 0]
  /\ fate = [r \in Runs |-> "idle"]
  /\ changes = [r \in Runs |-> {}]
  /\ measured = [r \in Runs |-> None]
  /\ alongside = [r \in Runs |-> {}]
  /\ died = {}
  /\ stranded = FALSE

Next ==
  \E r \in Runs :
    \/ Begin(r) \/ Select(r) \/ Erase(r) \/ Insert(r) \/ Exists(r) \/ Remove(r) \/ Create(r)
    \/ Delta(r) \/ Write(r) \/ Measure(r) \/ Die(r)

Spec == Init /\ [][Next]_vars

-----------------------------------------------------------------------------
Alone(r) == alongside[r] = {}

(* Nothing an earlier run left makes a later one fail that has the tenant  *)
(* for itself, but a seed killed between its row and its tenant, which no  *)
(* later seed repairs.                                                     *)
ReRunsSucceed ==
  \A r \in Runs : fate[r] = "raised" /\ Alone(r) => r \in died \/ stranded

(* "Idempotent": a seed that ends leaves its whole feed indexed, whatever  *)
(* the runs before or beside it did.                                       *)
SeedsFill ==
  script = "seed" =>
    /\ \A r \in Runs : fate[r] = "done" => shard # None /\ Wares \subseteq shard
    /\ row /\ shard = None =>
         stranded \/ \E r \in Runs : fate[r] = "running" /\ Step(r, 0) \in {"exists", "create"}

(* "Starting fresh removes any risk of a previous run's partial state":    *)
(* the gate measures the fixture and nothing else, unless two gates        *)
(* overlap.                                                                *)
GatesMeasureTheFixture ==
  \A r \in Runs : measured[r] # None /\ Alone(r) => measured[r] = Wares

ReRunsHeal == ReRunsSucceed /\ SeedsFill /\ GatesMeasureTheFixture

=============================================================================
