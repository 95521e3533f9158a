----------------------------- MODULE MCServices -----------------------------
(***************************************************************************)
(* The parts of the system that share no state with the others: which of   *)
(* them a behaviour is about is chosen in its initial state, and the rest  *)
(* of them stay as they begin.                                             *)
(***************************************************************************)
EXTENDS MCAlgorithms

CONSTANTS
  Callers, Limit, Window, MaxCount, MaxFailures,                       \* RateLimit
  Streams, Merchants, MerchantOf, LongIds, Models, Priced, Usages,
  PoolSize, MaxCalls, MaxFaults,                                       \* Ledger
  Feed, Taxonomy, Uncategorized, BatchSize, WaveSize, Attempts,
  Pilots, MaxStops,                                                    \* Enrichment
  s1, s2, s3, m1, m2, fast, odd, k1, k2, k3, k4, k5,
  Older,                                                               \* Schema
  Environments,                                                        \* Process
  Wares, Stale,                                                        \* Provisioning
  Routers, Maps, Torn, MaxWrites, MaxTime                              \* FileReload

VARIABLES
  subject,
  counter, ttl, pc, count, admitted, promised, orphaned, failures,     \* RateLimit
  phase, calls, unpaid, ledger, lost, billed, now, faults,             \* Ledger
  lines, torn, running, batches, calling, writing, paid, wasted,
  retried, stops,                                                      \* Enrichment
  collection, at, todo, created, met, hit, setbacks,                   \* Schema
  role, lifespan, cached, loads, work, spot, lock, permit, client, open,
  connections, left, raised, broken, troubles,                         \* Process
  script, row, shard, place, fate, changes, measured, alongside, died,
  stranded,                                                            \* Provisioning
  file, mtime, writes, changed, clock, step, stat, seen, holds, checked,
  gap, shared                                                          \* FileReload

limiter == <<counter, ttl, pc, count, admitted, promised, orphaned, failures>>
costs == <<phase, calls, unpaid, ledger, lost, billed, now, faults>>
reload ==
  <<file, mtime, writes, changed, clock, step, stat, seen, holds, checked, gap, shared>>
enrichment ==
  <<lines, torn, running, batches, calling, writing, paid, wasted, retried, stops>>
schema == <<collection, at, todo, created, met, hit, setbacks>>
process == <<role, lifespan, cached, loads, work, spot, lock, permit, client, open,
             connections, left, raised, broken, troubles>>
provisioning == <<script, row, shard, place, fate, changes, measured, alongside, died, stranded>>
computed == <<algorithm, input>>

C == INSTANCE RateLimit
L == INSTANCE Ledger
E == INSTANCE Enrichment WITH file <- lines
S == INSTANCE Schema WITH step <- at, faults <- setbacks
P == INSTANCE Process
       WITH Requests <- Callers, phase <- lifespan, step <- spot, faults <- troubles
O == INSTANCE Provisioning WITH Runs <- Callers, MaxDeaths <- MaxFaults
F == INSTANCE FileReload

ASSUME ServicesAssumption ==
  /\ C!RateLimitAssumption /\ F!FileReloadAssumption
  /\ L!LedgerAssumption /\ E!EnrichmentAssumption
  /\ S!SchemaAssumption /\ P!ProcessAssumption /\ O!ProvisioningAssumption
  /\ AlgorithmsAssumption

Subject == {"RateLimit", "Ledger", "FileReload", "Enrichment", "Schema", "Process",
            "Provisioning", "Algorithms"}

(* What does not take part has a single initial state.                     *)
SchemaInit == S!Init /\ (subject # "Schema" => collection = {})
ProcessInit == P!Init /\ (subject # "Process" => role = "script")
ProvisioningInit ==
  O!Init /\ (subject # "Provisioning" => script = "seed" /\ shard = None)
AlgorithmsInit == IF subject = "Algorithms" THEN Init ELSE algorithm = None /\ input = <<>>

ServicesInit ==
  /\ subject \in Subject
  /\ F!Init /\ C!Init /\ L!Init /\ E!Init
  /\ SchemaInit /\ ProcessInit /\ ProvisioningInit /\ AlgorithmsInit

Steps ==
  \/ /\ subject = "RateLimit" /\ C!Next
     /\ UNCHANGED <<costs, reload, enrichment, schema, process, provisioning, computed>>
  \/ /\ subject = "Ledger" /\ L!Next
     /\ UNCHANGED <<limiter, reload, enrichment, schema, process, provisioning, computed>>
  \/ /\ subject = "FileReload" /\ F!Next
     /\ UNCHANGED <<limiter, costs, enrichment, schema, process, provisioning, computed>>
  \/ /\ subject = "Enrichment" /\ E!Next
     /\ UNCHANGED <<limiter, costs, reload, schema, process, provisioning, computed>>
  \/ /\ subject = "Schema" /\ S!Next
     /\ UNCHANGED <<limiter, costs, reload, enrichment, process, provisioning, computed>>
  \/ /\ subject = "Process" /\ P!Next
     /\ UNCHANGED <<limiter, costs, reload, enrichment, schema, provisioning, computed>>
  \/ /\ subject = "Provisioning" /\ O!Next
     /\ UNCHANGED <<limiter, costs, reload, enrichment, schema, process, computed>>
  \/ /\ subject = "Algorithms" /\ Next
     /\ UNCHANGED <<limiter, costs, reload, enrichment, schema, process, provisioning>>

ServicesNext == Steps /\ UNCHANGED subject

ServicesSpec ==
  /\ ServicesInit
  /\ [][ServicesNext]_<<subject, limiter, costs, reload, enrichment, schema, process,
                       provisioning, computed>>
  /\ C!Fairness /\ L!Fairness

-----------------------------------------------------------------------------
(* The properties of the parts, under their own names, beside those of     *)
(* MCAlgorithms.                                                           *)

(* At most twice the limit passes in a window's time, however it falls.    *)
TwiceTheLimitAtMost == C!TwiceTheLimitAtMost

(* A counter goes, unless its EXPIRE failed.                               *)
WindowsEnd == C!WindowsEnd

(* No call is charged twice, to another merchant, or in two windows.       *)
BillsAddUp == L!BillsAddUp

(* A chat stream ends, though all of them wait for a second connection.    *)
StreamsEnd == L!StreamsEnd

(* What is served is what the file says, but for the two races.            *)
StaleNeedsABadMoment == F!StaleNeedsABadMoment

(* A key is paid for once, but for lost attempts, failing runs and kills.  *)
PaidForOnce == E!PaidForOnce

(* Provisioning twice, or on two releases, settles on one full schema.     *)
SchemaSettles == S!SchemaSettles

(* What the requests of a process share is there once and gone with it.    *)
OneOfEach == P!OneOfEach

(* Provisioning again heals what an earlier run of a script left.          *)
ReRunsHeal == O!ReRunsHeal

-----------------------------------------------------------------------------
(* Two merchants' streams, one with a conversation_id its column cannot    *)
(* hold, and a model PRICING does not know.                                *)
MCMerchantOf == s1 :> m1 @@ s2 :> m1 @@ s3 :> m2
MCPriced == fast :> [input |-> 1, output |-> 5]
MCUsages == {[input |-> 3, output |-> 1, cached |-> 2, created |-> 1]}

(* A feed with a repeated key and a row without one.                       *)
MCFeed == <<k1, k2, None, k1, k3, k4, k5>>

=============================================================================
