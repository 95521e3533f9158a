------------------------------- MODULE Access -------------------------------
(***************************************************************************)
(* Merchants and their API keys: create_merchant, create_key and           *)
(* revoke_key of app/routers/merchants.py, authenticated by app/deps.py,   *)
(* each in the one transaction session_scope of app/database.py gives a    *)
(* request and commits after the response was sent.  Requests run at the   *)
(* same time and interleave at every await.                                *)
(*                                                                         *)
(* A key is identified with the request that minted it: generate_api_key   *)
(* never repeats one.  A merchant row is identified with the key minted    *)
(* beside it.                                                              *)
(***************************************************************************)
EXTENDS Integers, FiniteSets

CONSTANTS
  Requests,
  Tenants,
  None,
  FirstKeys,    \* the initial keys of the merchants already provisioned
  FirstOwner,   \* whose they are
  MaxFaults     \* bound on failing calls and crashes

Keys == Requests \cup FirstKeys

ASSUME AccessAssumption ==
  /\ IsFiniteSet(Requests) /\ IsFiniteSet(FirstKeys)
  /\ Requests \cap FirstKeys = {}
  /\ None \notin Tenants
  /\ FirstOwner \in [FirstKeys -> Tenants]
  /\ \A k, l \in FirstKeys : FirstOwner[k] = FirstOwner[l] => k = l
  /\ MaxFaults \in Nat

VARIABLES
  owner,      \* Postgres, committed: the merchant each key belongs to
  merchants,  \* Postgres, committed: the merchant rows, by their initial keys
  revoked,    \* Postgres, committed: the keys whose revoked_at is set
  shards,     \* Weaviate: the tenants that exist
  req, pc, answer,  \* each request, where its handler is, its HTTP status
  crossed,    \* history: tenants two of whose revocations overlapped
  faults

database == <<owner, merchants, revoked>>
vars == <<database, shards, req, pc, answer, crossed, faults>>

Request == [op : {"create_merchant"}, tenant : Tenants]
      \cup [op : {"create_key"}, tenant : Tenants, key : Keys]
      \cup [op : {"revoke_key"}, tenant : Tenants, key : Keys, target : Keys]

Stage == {"idle", "select", "flush", "provision", "auth", "insert", "lookup",
          "count", "commit", "done"}
Active == Stage \ {"idle", "done"}

Status == {201, 204, 401, 404, 409, 500}

ActiveKeys(t) == {k \in Keys : owner[k] = t /\ k \notin revoked}

Provisioned(t) == \E k \in merchants : owner[k] = t

Is(r, op) == pc[r] # "idle" /\ req[r].op = op

(* The merchant get_current_merchant resolves the API key of a request to. *)
Caller(r) == owner[req[r].key]

-----------------------------------------------------------------------------
Goto(r, stage) == pc' = [pc EXCEPT ![r] = stage]

(* The response is sent; the session commits afterwards.                   *)
Accept(r, status) ==
  /\ answer' = [answer EXCEPT ![r] = status]
  /\ Goto(r, "commit")

(* An HTTPException: session_scope rolls back.                             *)
Refuse(r, status) ==
  /\ answer' = [answer EXCEPT ![r] = status]
  /\ Goto(r, "done")

Spend == faults < MaxFaults /\ faults' = faults + 1

(* A caller sends a key that was issued, or one that was not (r's own).    *)
Arrive(r) ==
  /\ pc[r] = "idle"
  /\ \E q \in Request :
       /\ q.op # "create_merchant" => owner[q.key] # None \/ q.key = r
       /\ q.op = "revoke_key" => owner[q.target] # None
       /\ req' = [req EXCEPT ![r] = q]
       /\ Goto(r, IF q.op = "create_merchant" THEN "select" ELSE "auth")
  /\ UNCHANGED <<database, shards, answer, crossed, faults>>

-----------------------------------------------------------------------------
(* create_merchant.                                                        *)

SelectExisting(r) ==
  /\ pc[r] = "select"
  /\ IF Provisioned(req[r].tenant) THEN Refuse(r, 409)
     ELSE Goto(r, "flush") /\ UNCHANGED answer
  /\ UNCHANGED <<database, shards, req, crossed, faults>>

(* Mutant: the transaction is not ended with its request.                  *)
InsertedForever(r, t) ==
  Is(r, "create_merchant") /\ req[r].tenant = t /\ pc[r] \in {"provision", "commit", "done"}

(* Another transaction has inserted the tenant and not ended: Postgres     *)
(* makes a second insert wait for it.                                      *)
Inserted(r, t) ==
  Is(r, "create_merchant") /\ req[r].tenant = t /\ pc[r] \in {"provision", "commit"}

(* Mutant: the select above is the only check.                             *)
FlushUnchecked(r) ==
  /\ pc[r] = "flush"
  /\ Goto(r, "provision")
  /\ UNCHANGED <<database, shards, req, answer, crossed, faults>>

(* flush sends the inserts; the unique tenant column decides.              *)
Flush(r) ==
  /\ pc[r] = "flush"
  /\ \A other \in Requests : ~ Inserted(other, req[r].tenant)
  /\ IF Provisioned(req[r].tenant) THEN Refuse(r, 409)
     ELSE Goto(r, "provision") /\ UNCHANGED answer
  /\ UNCHANGED <<database, shards, req, crossed, faults>>

(* Mutant: the shard is left for later.                                    *)
ProvisionLater(r) ==
  /\ pc[r] = "provision"
  /\ Accept(r, 201)
  /\ UNCHANGED <<database, shards, req, crossed, faults>>

(* ensure_schema, tenant_exists and create_tenant, while the row is        *)
(* uncommitted.                                                            *)
Provision(r) ==
  /\ pc[r] = "provision"
  /\ shards' = shards \cup {req[r].tenant}
  /\ Accept(r, 201)
  /\ UNCHANGED <<database, req, crossed, faults>>

-----------------------------------------------------------------------------
(* create_key and revoke_key.                                              *)

(* get_current_merchant, then tenant_from_path.                            *)
Authenticate(r) ==
  /\ pc[r] = "auth"
  /\ LET k == req[r].key
     IN IF owner[k] = None \/ k \in revoked THEN Refuse(r, 401)
        ELSE IF Caller(r) # req[r].tenant THEN Refuse(r, 404)
        ELSE /\ Goto(r, IF Is(r, "create_key") THEN "insert" ELSE "lookup")
             /\ UNCHANGED answer
  /\ UNCHANGED <<database, shards, req, crossed, faults>>

InsertKey(r) ==
  /\ pc[r] = "insert"
  /\ Accept(r, 201)
  /\ UNCHANGED <<database, shards, req, crossed, faults>>

(* is_active of the key to revoke.  The key the caller authenticated with  *)
(* is already in the session, which keeps the state it was loaded in.      *)
SeenActive(r) == req[r].target = req[r].key \/ req[r].target \notin revoked

(* Mutant: the key is looked up by its id alone.                           *)
LookupAnyMerchant(r) ==
  /\ pc[r] = "lookup"
  /\ IF SeenActive(r) THEN Goto(r, "count") /\ UNCHANGED answer ELSE Refuse(r, 204)
  /\ UNCHANGED <<database, shards, req, crossed, faults>>

(* The key is looked up among the caller's own; revoking a revoked one     *)
(* changes nothing.                                                        *)
Lookup(r) ==
  /\ pc[r] = "lookup"
  /\ IF owner[req[r].target] # Caller(r) THEN Refuse(r, 404)
     ELSE IF SeenActive(r) THEN Goto(r, "count") /\ UNCHANGED answer
     ELSE Refuse(r, 204)
  /\ UNCHANGED <<database, shards, req, crossed, faults>>

Revoking(r, t) == Is(r, "revoke_key") /\ Caller(r) = t /\ pc[r] = "commit"

(* Mutant: off by one.                                                     *)
CountNone(r) ==
  /\ pc[r] = "count"
  /\ IF Cardinality(ActiveKeys(Caller(r))) <= 0
     THEN Refuse(r, 409) /\ UNCHANGED crossed
     ELSE /\ Accept(r, 204)
          /\ crossed' = IF \E other \in Requests \ {r} : Revoking(other, Caller(r))
                        THEN crossed \cup {Caller(r)} ELSE crossed
  /\ UNCHANGED <<database, shards, req, faults>>

(* The last active key is not revoked; any other is, at the commit.        *)
Count(r) ==
  /\ pc[r] = "count"
  /\ IF Cardinality(ActiveKeys(Caller(r))) <= 1
     THEN Refuse(r, 409) /\ UNCHANGED crossed
     ELSE /\ Accept(r, 204)
          /\ crossed' = IF \E other \in Requests \ {r} : Revoking(other, Caller(r))
                        THEN crossed \cup {Caller(r)} ELSE crossed
  /\ UNCHANGED <<database, shards, req, faults>>

-----------------------------------------------------------------------------
NewKeyOwner(r) == Caller(r)

(* What the commit of a request's transaction does.                        *)
Apply(r) ==
  CASE Is(r, "create_merchant") ->
         /\ owner' = [owner EXCEPT ![r] = req[r].tenant]
         /\ merchants' = merchants \cup {r}
         /\ UNCHANGED revoked
    [] Is(r, "create_key") ->
         owner' = [owner EXCEPT ![r] = NewKeyOwner(r)] /\ UNCHANGED <<merchants, revoked>>
    [] Is(r, "revoke_key") ->
         revoked' = revoked \cup {req[r].target} /\ UNCHANGED <<owner, merchants>>

Commit(r) ==
  /\ pc[r] = "commit"
  /\ Apply(r)
  /\ Goto(r, "done")
  /\ UNCHANGED <<shards, req, answer, crossed, faults>>

(* The response is out already; the commit may have reached Postgres.      *)
CommitFails(r) ==
  /\ pc[r] = "commit" /\ Spend
  /\ UNCHANGED database \/ Apply(r)
  /\ Goto(r, "done")
  /\ UNCHANGED <<shards, req, answer, crossed>>

(* Any call raises: session_scope rolls the transaction back.  A failed    *)
(* Weaviate call may have created the tenant.                              *)
Fails(r) ==
  /\ pc[r] \in Active \ {"commit"} /\ Spend
  /\ shards' \in IF pc[r] = "provision" THEN {shards, shards \cup {req[r].tenant}}
                 ELSE {shards}
  /\ Refuse(r, 500)
  /\ UNCHANGED <<database, req, crossed>>

(* The process dies: Postgres rolls every open transaction back.           *)
Crash ==
  /\ Spend
  /\ \E r \in Requests : pc[r] \in Active
  /\ pc' = [r \in Requests |-> IF pc[r] \in Active THEN "done" ELSE pc[r]]
  /\ \E T \in SUBSET {req[r].tenant : r \in {q \in Requests : pc[q] = "provision"}} :
       shards' = shards \cup T
  /\ UNCHANGED <<database, req, answer, crossed>>

-----------------------------------------------------------------------------
Init ==
  /\ owner = [k \in Keys |-> IF k \in FirstKeys THEN FirstOwner[k] ELSE None]
  /\ merchants = FirstKeys
  /\ revoked = {}
  /\ shards = {FirstOwner[k] : k \in FirstKeys}
  /\ req = [r \in Requests |-> None]
  /\ pc = [r \in Requests |-> "idle"]
  /\ answer = [r \in Requests |-> None]
  /\ crossed = {}
  /\ faults = 0

Handle(r) ==
  \/ SelectExisting(r) \/ Flush(r) \/ Provision(r)
  \/ Authenticate(r) \/ InsertKey(r) \/ Lookup(r) \/ Count(r)
  \/ Commit(r)

Next ==
  \/ \E r \in Requests : Arrive(r) \/ Handle(r) \/ CommitFails(r) \/ Fails(r)
  \/ Crash

Spec == Init /\ [][Next]_vars

(* The event loop runs every handler that can run.                         *)
FairSpec == Spec /\ \A r \in Requests : WF_vars(Handle(r))

-----------------------------------------------------------------------------
(* Every variable has its type.                                            *)
TypeOK ==
  /\ owner \in [Keys -> Tenants \cup {None}]
  /\ merchants \in SUBSET Keys /\ revoked \in SUBSET Keys
  /\ shards \in SUBSET Tenants
  /\ req \in [Requests -> Request \cup {None}]
  /\ pc \in [Requests -> Stage]
  /\ answer \in [Requests -> Status \cup {None}]
  /\ crossed \in SUBSET Tenants
  /\ faults \in 0 .. MaxFaults

(* "The reverse order would allow a merchant row with no tenant behind     *)
(* it": a committed merchant has its Weaviate tenant, whatever failed.     *)
MerchantHasShard == \A k \in merchants : owner[k] \in shards

(* Two operators provisioning the same tenant at once make one merchant.   *)
OneMerchantPerTenant ==
  \A k, l \in merchants : owner[k] = owner[l] => k = l

(* A merchant without an active key lost it to two revocations that        *)
(* overlapped; one at a time, the last key always survives.                *)
LockoutNeedsOverlap ==
  \A k \in merchants : ActiveKeys(owner[k]) = {} => owner[k] \in crossed

(* A request issues and revokes keys of the merchant its own key belongs   *)
(* to, never of the one its path or its key id names.                      *)
OwnKeysOnly ==
  [][\A k \in Keys :
       /\ k \in revoked' \ revoked =>
            \E r \in Requests : Is(r, "revoke_key") /\ Caller(r) = owner[k]
       /\ owner'[k] # owner[k] /\ k \notin merchants' =>
            /\ owner'[k] = req[k].tenant
            /\ \E l \in Keys : owner[l] = owner'[k]]_vars

(* A handler never waits forever, not even for the transaction that holds  *)
(* its tenant.                                                             *)
RequestsEnd == \A r \in Requests : pc[r] \in Active ~> pc[r] = "done"

(* revoke_key: revoking the only active key "would lock this merchant out  *)
(* permanently".                                                           *)
NeverLockedOut == \A k \in merchants : ActiveKeys(owner[k]) # {}

=============================================================================
