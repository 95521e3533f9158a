---------------------------- MODULE AccessProofs ----------------------------
(***************************************************************************)
(* Type correctness and safety of the merchants and their keys, for every  *)
(* set of tenants, requests and keys, and any number of failing calls and  *)
(* crashes.                                                                *)
(***************************************************************************)
EXTENDS Access, FiniteSetTheorems, TLAPS

-----------------------------------------------------------------------------
(* Type correctness.                                                       *)

LEMMA RequestFields ==
  ASSUME NEW q \in Request
  PROVE  /\ q.op \in {"create_merchant", "create_key", "revoke_key"}
         /\ q.tenant \in Tenants
         /\ q.op # "create_merchant" => q.key \in Keys
         /\ q.op = "revoke_key" => q.target \in Keys
BY DEF Request

(* What a request is, at each stage of its handler.                        *)
Shape(r) ==
  /\ pc[r] # "idle" => req[r] \in Request
  /\ pc[r] \in {"select", "flush", "provision"} => req[r].op = "create_merchant"
  /\ pc[r] = "auth" => req[r].op \in {"create_key", "revoke_key"}
  /\ pc[r] = "insert" => req[r].op = "create_key"
  /\ pc[r] \in {"lookup", "count"} => req[r].op = "revoke_key"

(* The key a request issues is unknown until it commits; the key it        *)
(* authenticated with, and the one it is about to revoke, belong to the    *)
(* tenant its path names.                                                  *)
Authorised(r) ==
  /\ pc[r] # "done" => owner[r] = None /\ r \notin merchants
  /\ pc[r] \in {"insert", "lookup", "count", "commit"} /\ req[r].op # "create_merchant" =>
       owner[req[r].key] = req[r].tenant
  /\ pc[r] \in {"count", "commit"} /\ req[r].op = "revoke_key" =>
       owner[req[r].target] = req[r].tenant

TypeInv == TypeOK /\ \A r \in Requests : Shape(r) /\ Authorised(r)

LEMMA InitType == Init => TypeInv
BY AccessAssumption DEF Init, TypeInv, TypeOK, Shape, Authorised, Keys, Stage

(* Only the request a step is about changes its stage or its content.      *)
LEMMA ArriveType ==
  ASSUME TypeInv, NEW r \in Requests, Arrive(r)
  PROVE  TypeInv'
<1>1. PICK q \in Request :
        /\ req' = [req EXCEPT ![r] = q]
        /\ pc' = [pc EXCEPT ![r] = IF q.op = "create_merchant" THEN "select" ELSE "auth"]
  BY DEF Arrive, Goto
<1>2. TypeOK'
  BY <1>1 DEF Arrive, TypeInv, TypeOK, Stage, database
<1>3. pc[r] = "idle" /\ owner' = owner /\ merchants' = merchants
  BY DEF Arrive, database
<1>4. ASSUME NEW s \in Requests PROVE (Shape(s) /\ Authorised(s))'
  BY <1>1, <1>3, <1>4, RequestFields DEF TypeInv, TypeOK, Shape, Authorised
<1>5. QED
  BY <1>2, <1>4 DEF TypeInv

LEMMA HandleType ==
  ASSUME TypeInv, NEW r \in Requests,
         \/ SelectExisting(r) \/ Flush(r) \/ Provision(r) \/ Authenticate(r)
         \/ InsertKey(r) \/ Lookup(r) \/ Count(r) \/ Fails(r)
  PROVE  TypeInv'
<1>1. /\ req[r] \in Request
      /\ req[r].tenant \in Tenants
      /\ req[r].op # "create_merchant" => req[r].key \in Keys
  BY RequestFields
  DEF TypeInv, Shape, SelectExisting, Flush, Provision, Authenticate, InsertKey, Lookup,
      Count, Fails, Active
<1>2. /\ UNCHANGED <<database, req>>
      /\ pc' \in [Requests -> Stage] /\ answer' \in [Requests -> Status \cup {None}]
      /\ \A s \in Requests \ {r} : pc'[s] = pc[s]
  BY DEF SelectExisting, Flush, Provision, Authenticate, InsertKey, Lookup, Count, Fails,
         Accept, Refuse, Goto, TypeInv, TypeOK, Stage, Status
<1>3. shards' \in SUBSET Tenants
  BY <1>1 DEF SelectExisting, Flush, Provision, Authenticate, InsertKey, Lookup, Count, Fails,
         TypeInv, TypeOK
<1>4. crossed' \in SUBSET Tenants
  <2>1. CASE Count(r)
    <3>1. Caller(r) \in Tenants
      BY <1>1, <2>1 DEF Count, Caller, TypeInv, Shape, Authorised
    <3>2. QED
      BY <2>1, <3>1 DEF Count, TypeInv, TypeOK
  <2>2. CASE ~ Count(r)
    BY <2>2 DEF SelectExisting, Flush, Provision, Authenticate, InsertKey, Lookup, Fails,
         TypeInv, TypeOK
  <2>3. QED
    BY <2>1, <2>2
<1>5. faults' \in 0 .. MaxFaults
  BY AccessAssumption
  DEF SelectExisting, Flush, Provision, Authenticate, InsertKey, Lookup, Count, Fails, Spend,
      TypeInv, TypeOK
<1>6. Shape(r)'
  BY <1>1, <1>2
  DEF SelectExisting, Flush, Provision, Authenticate, InsertKey, Lookup, Count, Fails,
      Accept, Refuse, Goto, Shape, TypeInv, TypeOK, Is
<1>7. Authorised(r)'
  BY <1>1, <1>2
  DEF SelectExisting, Flush, Provision, Authenticate, InsertKey, Lookup, Count, Fails,
      Accept, Refuse, Goto, Shape, Authorised, TypeInv, TypeOK, Is, Caller, database, Active
<1>8. QED
  BY <1>2, <1>3, <1>4, <1>5, <1>6, <1>7 DEF TypeInv, TypeOK, Shape, Authorised, database

(* What the commit of a transaction changes.                               *)
LEMMA ApplyEffect ==
  ASSUME TypeInv, NEW r \in Requests, pc[r] = "commit", Apply(r)
  PROVE  /\ owner' \in [Keys -> Tenants \cup {None}]
         /\ merchants' \in SUBSET Keys /\ revoked' \in SUBSET Keys
         /\ merchants \subseteq merchants' /\ merchants' \subseteq merchants \cup {r}
         /\ \A k \in Keys \ {r} : owner'[k] = owner[k]
         /\ owner[r] = None /\ r \notin merchants
         /\ \/ /\ req[r].op = "create_merchant"
               /\ owner'[r] = req[r].tenant /\ r \in merchants' /\ revoked' = revoked
            \/ /\ req[r].op = "create_key"
               /\ owner'[r] = req[r].tenant /\ merchants' = merchants /\ revoked' = revoked
            \/ /\ req[r].op = "revoke_key"
               /\ owner' = owner /\ merchants' = merchants
               /\ revoked' = revoked \cup {req[r].target}
<1>1. /\ req[r] \in Request /\ r \in Keys
      /\ req[r].op \in {"create_merchant", "create_key", "revoke_key"}
      /\ req[r].tenant \in Tenants
      /\ req[r].op # "create_merchant" => req[r].key \in Keys /\ Caller(r) = req[r].tenant
      /\ req[r].op = "revoke_key" => req[r].target \in Keys
      /\ owner[r] = None /\ r \notin merchants
  BY RequestFields DEF TypeInv, Shape, Authorised, Keys, Caller
<1>2. CASE req[r].op = "create_merchant"
  BY <1>1, <1>2 DEF Apply, Is, TypeInv, TypeOK
<1>3. CASE req[r].op = "create_key"
  BY <1>1, <1>3 DEF Apply, Is, NewKeyOwner, TypeInv, TypeOK
<1>4. CASE req[r].op = "revoke_key"
  BY <1>1, <1>4 DEF Apply, Is, TypeInv, TypeOK
<1>5. QED
  BY <1>1, <1>2, <1>3, <1>4

(* The end of a transaction that reached Postgres.                         *)
Applied(r) ==
  /\ pc[r] = "commit" /\ Apply(r)
  /\ pc' = [pc EXCEPT ![r] = "done"]
  /\ UNCHANGED <<shards, req, answer, crossed>>

LEMMA AppliedType ==
  ASSUME TypeInv, NEW r \in Requests, Applied(r), faults' \in 0 .. MaxFaults
  PROVE  TypeInv'
<1>1. TypeOK'
  BY ApplyEffect DEF Applied, TypeInv, TypeOK, Stage
<1>2. ASSUME NEW s \in Requests PROVE (Shape(s) /\ Authorised(s))'
  <2>1. CASE s = r
    BY <2>1 DEF Applied, TypeInv, TypeOK, Shape, Authorised
  <2>2. CASE s # r
    <3>1. Shape(s)'
      BY <2>2 DEF Applied, TypeInv, TypeOK, Shape
    <3>2. pc'[s] = pc[s] /\ req' = req /\ s \in Keys
      BY <2>2 DEF Applied, TypeInv, TypeOK, Keys
    <3>3. \A k \in Keys : owner[k] \in Tenants => owner'[k] = owner[k]
      BY ApplyEffect, AccessAssumption DEF Applied
    <3>4. pc[s] # "done" => owner'[s] = None /\ s \notin merchants'
      BY <2>2, <3>2, ApplyEffect DEF Applied, TypeInv, Authorised
    <3>5. QED
      BY <3>1, <3>2, <3>3, <3>4, RequestFields DEF TypeInv, Shape, Authorised
  <2>3. QED
    BY <2>1, <2>2
<1>3. QED
  BY <1>1, <1>2 DEF TypeInv

LEMMA CommitCases ==
  ASSUME NEW r \in Requests, Commit(r) \/ CommitFails(r)
  PROVE  \/ Applied(r)
         \/ /\ pc[r] = "commit" /\ pc' = [pc EXCEPT ![r] = "done"]
            /\ UNCHANGED <<database, shards, req, answer, crossed>>
BY DEF Commit, CommitFails, Goto, Applied

LEMMA DoneType ==
  ASSUME TypeInv, TypeOK', UNCHANGED <<database, req>>,
         \A r \in Requests : pc'[r] = pc[r] \/ (pc[r] # "idle" /\ pc'[r] = "done")
  PROVE  TypeInv'
<1> SUFFICES ASSUME NEW r \in Requests PROVE Shape(r)' /\ Authorised(r)'
  BY DEF TypeInv
<1>1. owner' = owner /\ merchants' = merchants /\ req' = req
  BY DEF database
<1>2. Shape(r) /\ Authorised(r)
  BY DEF TypeInv
<1>3. CASE pc'[r] = pc[r]
  BY <1>1, <1>2, <1>3 DEF Shape, Authorised
<1>4. CASE pc'[r] = "done" /\ pc[r] # "idle"
  BY <1>1, <1>2, <1>4 DEF Shape, Authorised
<1>5. QED
  BY <1>3, <1>4

LEMMA CommitType ==
  ASSUME TypeInv, NEW r \in Requests, Commit(r) \/ CommitFails(r)
  PROVE  TypeInv'
<1>1. faults' \in 0 .. MaxFaults
  BY AccessAssumption DEF Commit, CommitFails, Spend, TypeInv, TypeOK
<1>2. CASE Applied(r)
  BY <1>1, <1>2, AppliedType
<1>3. CASE pc' = [pc EXCEPT ![r] = "done"] /\ UNCHANGED <<database, shards, req, answer, crossed>>
  <2>1. TypeOK'
    BY <1>1, <1>3 DEF TypeInv, TypeOK, Stage, database
  <2>2. \A s \in Requests : pc'[s] = pc[s] \/ (pc[s] # "idle" /\ pc'[s] = "done")
    BY <1>3, CommitCases DEF Applied, TypeInv, TypeOK
  <2>3. QED
    BY <1>3, <2>1, <2>2, DoneType
<1>4. QED
  BY <1>2, <1>3, CommitCases

LEMMA CrashType == ASSUME TypeInv, Crash PROVE TypeInv'
<1>1. \A r \in Requests : pc'[r] = pc[r] \/ pc'[r] = "done"
  BY DEF Crash
<1>2. shards' \in SUBSET Tenants
  <2>1. \A r \in Requests : pc[r] = "provision" => req[r].tenant \in Tenants
    BY RequestFields DEF TypeInv, Shape
  <2>2. QED
    BY <2>1 DEF Crash, TypeInv, TypeOK
<1>3. TypeOK'
  BY <1>1, <1>2, AccessAssumption DEF Crash, Spend, TypeInv, TypeOK, database, Stage
<1>4. \A r \in Requests : pc'[r] = pc[r] \/ (pc[r] # "idle" /\ pc'[r] = "done")
  BY DEF Crash, Active
<1>5. QED
  BY <1>3, <1>4, DoneType DEF Crash

LEMMA StepType == TypeInv /\ [Next]_vars => TypeInv'
<1> SUFFICES ASSUME TypeInv, [Next]_vars PROVE TypeInv'
  OBVIOUS
<1>1. CASE UNCHANGED vars
  BY <1>1 DEF TypeInv, TypeOK, Shape, Authorised, vars, database
<1>2. CASE Next
  BY <1>2, ArriveType, HandleType, CommitType, CrashType DEF Next, Handle
<1>3. QED
  BY <1>1, <1>2

(* Every variable has its type, and every request holds what its stage     *)
(* says: among it, that a key is issued and revoked for the tenant the     *)
(* caller's own key belongs to.                                            *)
THEOREM TypeInvariant == Spec => []TypeInv
BY InitType, StepType, PTL DEF Spec

-----------------------------------------------------------------------------
(* Shards and uniqueness.                                                  *)

(* A step leaves every transaction uncommitted or applies one.             *)
LEMMA StepCases ==
  ASSUME TypeInv, Next
  PROVE  \/ UNCHANGED database
         \/ \E r \in Requests : Applied(r)
<1>1. CASE \E r \in Requests : Commit(r) \/ CommitFails(r)
  BY <1>1, CommitCases
<1>2. CASE \E r \in Requests : Arrive(r) \/ Fails(r) \/ SelectExisting(r) \/ Flush(r)
             \/ Provision(r) \/ Authenticate(r) \/ InsertKey(r) \/ Lookup(r) \/ Count(r)
  BY <1>2
  DEF Arrive, Fails, SelectExisting, Flush, Provision, Authenticate, InsertKey, Lookup, Count
<1>3. CASE Crash
  BY <1>3 DEF Crash
<1>4. QED
  BY <1>1, <1>2, <1>3 DEF Next, Handle

(* A request about to commit a merchant has provisioned its shard.         *)
ShardInv ==
  /\ MerchantHasShard
  /\ \A r \in Requests :
       pc[r] = "commit" /\ req[r].op = "create_merchant" => req[r].tenant \in shards

LEMMA StepShard == TypeInv /\ ShardInv /\ [Next]_vars => ShardInv'
<1> SUFFICES ASSUME TypeInv, ShardInv, [Next]_vars PROVE ShardInv'
  OBVIOUS
<1>1. CASE UNCHANGED vars
  BY <1>1 DEF ShardInv, MerchantHasShard, vars, database
<1>2. CASE Next
  <2>1. shards \subseteq shards'
    BY <1>2
    DEF Next, Handle, Arrive, Fails, SelectExisting, Flush, Provision, Authenticate, InsertKey,
        Lookup, Count, Commit, CommitFails, Crash
  <2>2. ASSUME NEW r \in Requests, pc'[r] = "commit", req'[r].op = "create_merchant"
        PROVE  req'[r].tenant \in shards'
    <3>1. CASE pc[r] = "commit" /\ req'[r] = req[r]
      BY <2>1, <2>2, <3>1 DEF ShardInv
    <3>2. CASE Provision(r)
      BY <3>2 DEF Provision
    <3>3. CASE \E s \in Requests \ {r} : Arrive(s) \/ Handle(s) \/ CommitFails(s) \/ Fails(s)
      <4>1. pc'[r] = pc[r] /\ req'[r] = req[r]
        BY <3>3
        DEF Handle, Arrive, Fails, SelectExisting, Flush, Provision, Authenticate, InsertKey,
            Lookup, Count, Commit, CommitFails, Accept, Refuse, Goto, TypeInv, TypeOK
      <4>2. QED
        BY <2>2, <3>1, <4>1
    <3>4. CASE Crash
      BY <2>2, <3>1, <3>4 DEF Crash, Active
    <3>5. CASE InsertKey(r) \/ Count(r)
      BY <2>2, <3>5 DEF InsertKey, Count, TypeInv, Shape
    <3>6. CASE Arrive(r) \/ Fails(r) \/ SelectExisting(r) \/ Flush(r) \/ Authenticate(r)
               \/ Lookup(r) \/ Commit(r) \/ CommitFails(r)
      BY <2>2, <3>6
      DEF Arrive, Fails, SelectExisting, Flush, Authenticate, Lookup, Commit, CommitFails,
          Refuse, Goto, TypeInv, TypeOK
    <3>7. QED
      BY <1>2, <3>2, <3>3, <3>4, <3>5, <3>6 DEF Next, Handle
  <2>3. MerchantHasShard'
    <3>1. CASE UNCHANGED database
      BY <2>1, <3>1 DEF database, ShardInv, MerchantHasShard
    <3>2. ASSUME NEW r \in Requests, Applied(r) PROVE MerchantHasShard'
      <4>1. \A k \in merchants : owner'[k] = owner[k] /\ owner[k] \in shards
        BY <3>2, ApplyEffect DEF Applied, ShardInv, MerchantHasShard, TypeInv, TypeOK
      <4>2. r \in merchants' => owner'[r] \in shards
        BY <3>2, ApplyEffect DEF Applied, ShardInv
      <4>3. QED
        BY <2>1, <3>2, <4>1, <4>2, ApplyEffect DEF Applied, MerchantHasShard
    <3>3. QED
      BY <1>2, <3>1, <3>2, StepCases
  <2>4. QED
    BY <2>2, <2>3 DEF ShardInv
<1>3. QED
  BY <1>1, <1>2

(* A committed merchant has its tenant in Weaviate, whatever failed        *)
(* between the two.                                                        *)
THEOREM MerchantsHaveShards == Spec => []MerchantHasShard
<1>1. Init => ShardInv
  BY DEF Init, ShardInv, MerchantHasShard, Keys
<1>2. ShardInv => MerchantHasShard
  BY DEF ShardInv
<1>3. QED
  BY <1>1, <1>2, InitType, StepType, StepShard, PTL DEF Spec

(* The transactions that have inserted a tenant exclude each other and     *)
(* every merchant that is there already.                                   *)
UniqueInv ==
  /\ OneMerchantPerTenant
  /\ \A r, s \in Requests, t \in Tenants : Inserted(r, t) /\ Inserted(s, t) => r = s
  /\ \A r \in Requests, t \in Tenants : Inserted(r, t) => ~ Provisioned(t)

LEMMA StepUnique == TypeInv /\ UniqueInv /\ [Next]_vars => UniqueInv'
<1> SUFFICES ASSUME TypeInv, UniqueInv, [Next]_vars PROVE UniqueInv'
  OBVIOUS
<1>1. CASE UNCHANGED vars
  BY <1>1 DEF UniqueInv, OneMerchantPerTenant, Inserted, Provisioned, Is, vars, database
<1>2. CASE Next
  <2>1. ASSUME NEW s \in Requests, NEW t \in Tenants, Inserted(s, t)', ~ Inserted(s, t)
        PROVE  /\ Flush(s) /\ ~ Provisioned(t) /\ UNCHANGED <<database, req>>
               /\ \A r \in Requests : ~ Inserted(r, t)
               /\ \A r \in Requests \ {s} : pc'[r] = pc[r]
    <3>1. pc'[s] \in {"provision", "commit"} /\ req'[s].op = "create_merchant" /\ req'[s].tenant = t
      BY <2>1 DEF Inserted, Is
    <3>2. CASE \E r \in Requests \ {s} : Arrive(r) \/ Handle(r) \/ CommitFails(r) \/ Fails(r)
      <4>1. pc'[s] = pc[s] /\ req'[s] = req[s]
        BY <3>2
        DEF Handle, Arrive, Fails, SelectExisting, Flush, Provision, Authenticate, InsertKey,
            Lookup, Count, Commit, CommitFails, Accept, Refuse, Goto, TypeInv, TypeOK
      <4>2. QED
        BY <2>1, <3>1, <4>1 DEF Inserted, Is
    <3>3. CASE Flush(s)
      <4>1. req'[s] = req[s] /\ pc'[s] = "provision"
        BY <3>1, <3>3 DEF Flush, Refuse, Goto, TypeInv, TypeOK
      <4>2. ~ Provisioned(t)
        BY <3>1, <3>3, <4>1 DEF Flush, Refuse, Goto, TypeInv, TypeOK
      <4>3. QED
        BY <3>1, <3>3, <4>1, <4>2 DEF Flush, Refuse, Goto, TypeInv, TypeOK
    <3>4. CASE Provision(s) \/ InsertKey(s) \/ Count(s)
      <4>1. pc[s] \in {"provision", "insert", "count"} /\ req'[s] = req[s]
        BY <3>4 DEF Provision, InsertKey, Count
      <4>2. QED
        BY <2>1, <3>1, <4>1 DEF Inserted, Is, TypeInv, Shape
    <3>5. CASE Arrive(s) \/ Fails(s) \/ SelectExisting(s) \/ Authenticate(s)
               \/ Lookup(s) \/ Commit(s) \/ CommitFails(s)
      BY <3>1, <3>5
      DEF Arrive, Fails, SelectExisting, Authenticate, Lookup, Commit, CommitFails,
          Refuse, Goto, TypeInv, TypeOK
    <3>6. CASE Crash
      BY <2>1, <3>1, <3>6 DEF Crash, Active, Inserted, Is
    <3>7. QED
      BY <1>2, <3>2, <3>3, <3>4, <3>5, <3>6 DEF Next, Handle
  <2>2. ASSUME NEW r \in Requests, NEW s \in Requests, NEW t \in Tenants,
               Inserted(r, t)', Inserted(s, t)'
        PROVE  r = s
    <3>1. CASE Inserted(r, t) /\ Inserted(s, t)
      BY <3>1 DEF UniqueInv
    <3>2. CASE ~ Inserted(s, t)
      BY <2>1, <2>2, <3>2 DEF Inserted, Is
    <3>3. CASE ~ Inserted(r, t)
      BY <2>1, <2>2, <3>3 DEF Inserted, Is
    <3>4. QED
      BY <3>1, <3>2, <3>3
  <2>3. ASSUME NEW r \in Requests, Applied(r)
        PROVE  /\ OneMerchantPerTenant'
               /\ \A s \in Requests, t \in Tenants : Inserted(s, t) /\ s # r => ~ Provisioned(t)'
    <3>1. \A k \in merchants : k \in Keys /\ k # r /\ owner'[k] = owner[k]
      BY <2>3, ApplyEffect DEF Applied, TypeInv, TypeOK
    <3>2. r \in merchants' => Inserted(r, owner'[r]) /\ owner'[r] \in Tenants
      BY <2>3, ApplyEffect, RequestFields DEF Applied, Inserted, Is, TypeInv, Shape
    <3>3. merchants' \subseteq merchants \cup {r}
      BY <2>3, ApplyEffect DEF Applied
    <3>4. r \in merchants' => \A k \in merchants : owner[k] # owner'[r]
      BY <3>2 DEF UniqueInv, Provisioned
    <3>5. OneMerchantPerTenant'
      BY <3>1, <3>3, <3>4 DEF OneMerchantPerTenant, UniqueInv
    <3>6. ASSUME NEW s \in Requests, NEW t \in Tenants, Inserted(s, t), s # r
          PROVE  ~ Provisioned(t)'
      <4>1. ~ Provisioned(t)
        BY <3>6 DEF UniqueInv
      <4>2. r \in merchants' => owner'[r] # t
        BY <3>2, <3>6 DEF UniqueInv
      <4>3. QED
        BY <3>1, <3>3, <4>1, <4>2 DEF Provisioned
    <3>7. QED
      BY <3>5, <3>6
  <2>4. ASSUME NEW s \in Requests, NEW t \in Tenants, Inserted(s, t)'
        PROVE  ~ Provisioned(t)'
    <3>1. CASE ~ Inserted(s, t)
      BY <2>1, <2>4, <3>1 DEF Provisioned, database
    <3>2. CASE Inserted(s, t) /\ UNCHANGED database
      BY <3>2 DEF Provisioned, database, UniqueInv
    <3>3. CASE Inserted(s, t) /\ \E r \in Requests : Applied(r)
      BY <2>3, <2>4, <3>3 DEF Applied, Inserted, TypeInv, TypeOK
    <3>4. QED
      BY <1>2, <3>1, <3>2, <3>3, StepCases
  <2>5. OneMerchantPerTenant'
    BY <1>2, <2>3, StepCases DEF UniqueInv, OneMerchantPerTenant, database
  <2>6. QED
    BY <2>2, <2>4, <2>5 DEF UniqueInv
<1>3. QED
  BY <1>1, <1>2

(* However many operators provision a tenant at the same time, one         *)
(* merchant is made of it.                                                 *)
THEOREM MerchantsUnique == Spec => []OneMerchantPerTenant
<1>1. Init => UniqueInv
  BY AccessAssumption DEF Init, UniqueInv, OneMerchantPerTenant, Inserted, Keys
<1>2. UniqueInv => OneMerchantPerTenant
  BY DEF UniqueInv
<1>3. QED
  BY <1>1, <1>2, InitType, StepType, StepUnique, PTL DEF Spec

-----------------------------------------------------------------------------
(* Keys.                                                                   *)

(* A revocation that is about to commit leaves a key, unless another one   *)
(* of its tenant overlapped it.                                            *)
LockInv ==
  /\ \A k \in revoked : owner[k] # None
  /\ \A t \in Tenants \ crossed :
       /\ \A r, s \in Requests : Revoking(r, t) /\ Revoking(s, t) => r = s
       /\ \A r \in Requests : Revoking(r, t) => ActiveKeys(t) \ {req[r].target} # {}
       /\ Provisioned(t) => ActiveKeys(t) # {}

LEMMA RevokingIs ==
  ASSUME TypeInv, NEW r \in Requests, NEW t
  PROVE  Revoking(r, t) <=>
           pc[r] = "commit" /\ req[r].op = "revoke_key" /\ req[r].tenant = t
BY DEF Revoking, Is, Caller, TypeInv, Authorised

LEMMA ActiveKeysFinite == ASSUME NEW t PROVE IsFiniteSet(ActiveKeys(t))
<1>1. IsFiniteSet(Keys)
  BY AccessAssumption, FS_Union DEF Keys
<1>2. ActiveKeys(t) \subseteq Keys
  BY DEF ActiveKeys
<1>3. QED
  BY <1>1, <1>2, FS_Subset

(* Only a Count makes a request a revoking one.                            *)
LEMMA RevokingBegins ==
  ASSUME TypeInv, TypeInv', Next, NEW s \in Requests, NEW t \in Tenants,
         Revoking(s, t)', ~ Revoking(s, t)
  PROVE  /\ Count(s) /\ UNCHANGED <<database, req>> /\ req[s].tenant = t
         /\ ActiveKeys(t) \ {req[s].target} # {}
         /\ (\E r \in Requests \ {s} : Revoking(r, t)) => t \in crossed'
<1>1. pc'[s] = "commit" /\ req'[s].op = "revoke_key" /\ req'[s].tenant = t
  BY DEF Revoking, Is, Caller, TypeInv, Authorised
<1>2. ~ (pc[s] = "commit" /\ req[s].op = "revoke_key" /\ req[s].tenant = t)
  BY RevokingIs
<1>3. CASE \E r \in Requests \ {s} : Arrive(r) \/ Handle(r) \/ CommitFails(r) \/ Fails(r)
  <2>1. pc'[s] = pc[s] /\ req'[s] = req[s]
    BY <1>3
    DEF Handle, Arrive, Fails, SelectExisting, Flush, Provision, Authenticate, InsertKey,
        Lookup, Count, Commit, CommitFails, Accept, Refuse, Goto, TypeInv, TypeOK
  <2>2. QED
    BY <1>1, <1>2, <2>1
<1>4. CASE Count(s)
  <2>1. UNCHANGED <<database, req>> /\ pc[s] = "count"
    BY <1>4 DEF Count
  <2>2. Caller(s) = t
    BY <1>1, <2>1 DEF Caller, TypeInv, Authorised
  <2>3. ~ (Cardinality(ActiveKeys(t)) <= 1)
        /\ ((\E r \in Requests \ {s} : Revoking(r, t)) => t \in crossed')
    BY <1>1, <1>4, <2>2 DEF Count, Refuse, Goto, TypeInv, TypeOK
  <2>4. ActiveKeys(t) \ {req[s].target} # {}
    <3> DEFINE A == ActiveKeys(t)
    <3>1. IsFiniteSet(A)
      BY ActiveKeysFinite
    <3> HIDE DEF A
    <3>2. Cardinality(A) \in Nat
      BY <3>1, FS_CardinalityType
    <3>3. CASE req[s].target \in A
      <4>1. Cardinality(A \ {req[s].target}) = Cardinality(A) - 1
        BY <3>1, <3>3, FS_RemoveElement
      <4>2. Cardinality(A \ {req[s].target}) # 0
        BY <2>3, <3>2, <4>1 DEF A
      <4>3. QED
        BY <4>2, FS_EmptySet DEF A
    <3>4. CASE req[s].target \notin A
      <4>1. A # {}
        BY <2>3, FS_EmptySet DEF A
      <4>2. QED
        BY <3>4, <4>1 DEF A
    <3>5. QED
      BY <3>3, <3>4
  <2>5. QED
    BY <1>1, <1>4, <2>1, <2>3, <2>4
<1>5. CASE Provision(s) \/ InsertKey(s)
  BY <1>1, <1>5 DEF Provision, InsertKey, TypeInv, Shape
<1>6. CASE Arrive(s) \/ Fails(s) \/ SelectExisting(s) \/ Flush(s) \/ Authenticate(s)
           \/ Lookup(s) \/ Commit(s) \/ CommitFails(s)
  BY <1>1, <1>6
  DEF Arrive, Fails, SelectExisting, Flush, Authenticate, Lookup, Commit, CommitFails,
      Refuse, Goto, TypeInv, TypeOK
<1>7. CASE Crash
  BY <1>1, <1>2, <1>7 DEF Crash, Active
<1>8. QED
  BY <1>3, <1>4, <1>5, <1>6, <1>7 DEF Next, Handle

(* A request that was revoking and still is has the same target.           *)
LEMMA RevokingStays ==
  ASSUME TypeInv, TypeInv', Next, NEW s \in Requests, NEW t \in Tenants,
         Revoking(s, t)', Revoking(s, t)
  PROVE  req'[s] = req[s] /\ ~ Applied(s)
<1>1. pc[s] = "commit" /\ pc'[s] = "commit"
  BY DEF Revoking
<1>2. ~ Applied(s)
  BY <1>1 DEF Applied, TypeInv, TypeOK
<1>3. req'[s] = req[s]
  BY <1>1
  DEF Next, Handle, Arrive, Fails, SelectExisting, Flush, Provision, Authenticate, InsertKey,
      Lookup, Count, Commit, CommitFails, Crash, Goto, TypeInv, TypeOK
<1>4. QED
  BY <1>2, <1>3

(* What a commit does to the active keys of a tenant.                      *)
LEMMA AppliedKeys ==
  ASSUME TypeInv, LockInv, NEW r \in Requests, Applied(r), NEW t \in Tenants
  PROVE  /\ \A k \in revoked' : owner'[k] # None
         /\ ~ Revoking(r, t) => ActiveKeys(t) \subseteq ActiveKeys(t)'
         /\ Revoking(r, t) => ActiveKeys(t) \ {req[r].target} \subseteq ActiveKeys(t)'
         /\ Provisioned(t)' /\ ~ Provisioned(t) => ActiveKeys(t)' # {}
<1>1. /\ r \in Keys /\ req[r] \in Request /\ req[r].tenant \in Tenants /\ None \notin Tenants
      /\ req[r].op = "revoke_key" => req[r].target \in Keys /\ owner[req[r].target] = req[r].tenant
      /\ pc[r] = "commit"
  BY AccessAssumption, RequestFields DEF Applied, TypeInv, Shape, Authorised, Keys
<1>2. r \notin revoked
  BY <1>1, ApplyEffect DEF Applied, LockInv
<1>3. Revoking(r, t) <=> req[r].op = "revoke_key" /\ req[r].tenant = t
  BY <1>1, RevokingIs
<1>4. CASE req[r].op = "revoke_key"
  <2>1. owner' = owner /\ merchants' = merchants /\ revoked' = revoked \cup {req[r].target}
    BY <1>4, ApplyEffect DEF Applied
  <2>2. QED
    BY <1>1, <1>3, <1>4, <2>1 DEF LockInv, ActiveKeys, Provisioned
<1>5. CASE req[r].op # "revoke_key"
  <2>1. /\ owner'[r] = req[r].tenant /\ revoked' = revoked /\ owner[r] = None
        /\ merchants' \subseteq merchants \cup {r}
        /\ \A k \in Keys \ {r} : owner'[k] = owner[k]
    BY <1>5, ApplyEffect DEF Applied
  <2>2. ActiveKeys(t) \subseteq ActiveKeys(t)'
    BY <1>1, <2>1 DEF ActiveKeys
  <2>3. \A k \in revoked' : owner'[k] # None
    BY <1>1, <1>2, <2>1 DEF LockInv, TypeInv, TypeOK
  <2>4. Provisioned(t)' /\ ~ Provisioned(t) => r \in ActiveKeys(t)'
    <3>1. \A k \in merchants : k \in Keys \ {r}
      BY <1>1, ApplyEffect DEF Applied, TypeInv, TypeOK
    <3>2. QED
      BY <1>1, <1>2, <2>1, <3>1 DEF Provisioned, ActiveKeys
  <2>5. QED
    BY <1>3, <1>5, <2>2, <2>3, <2>4
<1>6. QED
  BY <1>4, <1>5

LEMMA StepLock == TypeInv /\ TypeInv' /\ LockInv /\ [Next]_vars => LockInv'
<1> SUFFICES ASSUME TypeInv, TypeInv', LockInv, [Next]_vars PROVE LockInv'
  OBVIOUS
<1>1. CASE UNCHANGED vars
  BY <1>1 DEF LockInv, Revoking, ActiveKeys, Provisioned, Is, Caller, vars, database
<1>2. CASE Next
  <2>1. \A k \in revoked' : owner'[k] # None
    <3>1. CASE UNCHANGED database
      BY <3>1 DEF database, LockInv
    <3>2. ASSUME NEW r \in Requests, Applied(r) PROVE \A k \in revoked' : owner'[k] # None
      <4>1. req[r].tenant \in Tenants
        BY <3>2, RequestFields DEF Applied, TypeInv, Shape
      <4>2. QED
        BY <3>2, <4>1, AppliedKeys
    <3>3. QED
      BY <1>2, <3>1, <3>2, StepCases
  <2>2. crossed \subseteq crossed'
    BY <1>2
    DEF Next, Handle, Arrive, Fails, SelectExisting, Flush, Provision, Authenticate, InsertKey,
        Lookup, Count, Commit, CommitFails, Crash
  <2> SUFFICES ASSUME NEW t \in Tenants, t \notin crossed'
               PROVE  /\ \A r, s \in Requests : Revoking(r, t)' /\ Revoking(s, t)' => r = s
                      /\ \A r \in Requests :
                           Revoking(r, t)' => ActiveKeys(t)' \ {req'[r].target} # {}
                      /\ Provisioned(t)' => ActiveKeys(t)' # {}
    BY <2>1 DEF LockInv
  <2>3. /\ \A r, s \in Requests : Revoking(r, t) /\ Revoking(s, t) => r = s
        /\ \A r \in Requests : Revoking(r, t) => ActiveKeys(t) \ {req[r].target} # {}
        /\ Provisioned(t) => ActiveKeys(t) # {}
    BY <2>2 DEF LockInv
  <2>4. CASE \E s \in Requests : Revoking(s, t)' /\ ~ Revoking(s, t)
    <3>1. PICK s \in Requests : Revoking(s, t)' /\ ~ Revoking(s, t)
      BY <2>4
    <3>2. /\ Count(s) /\ UNCHANGED <<database, req>>
          /\ ActiveKeys(t) \ {req[s].target} # {}
          /\ ~ \E r \in Requests \ {s} : Revoking(r, t)
      BY <1>2, <3>1, RevokingBegins
    <3>3. \A r \in Requests \ {s} : ~ Revoking(r, t)'
      <4>1. \A r \in Requests \ {s} : pc'[r] = pc[r] /\ req'[r] = req[r]
        BY <3>2 DEF Count, Accept, Refuse, Goto, TypeInv, TypeOK
      <4>2. QED
        BY <3>2, <4>1 DEF Revoking, Is, Caller, database
    <3>4. ActiveKeys(t)' = ActiveKeys(t) /\ Provisioned(t)' = Provisioned(t) /\ req' = req
      BY <3>2 DEF ActiveKeys, Provisioned, database
    <3>5. QED
      BY <2>3, <3>2, <3>3, <3>4
  <2>5. CASE /\ \A s \in Requests : Revoking(s, t)' => Revoking(s, t)
             /\ UNCHANGED database
    <3>1. ActiveKeys(t)' = ActiveKeys(t) /\ Provisioned(t)' = Provisioned(t)
      BY <2>5 DEF ActiveKeys, Provisioned, database
    <3>2. QED
      BY <1>2, <2>3, <2>5, <3>1, RevokingStays
  <2>6. CASE /\ \A s \in Requests : Revoking(s, t)' => Revoking(s, t)
             /\ \E r \in Requests : Applied(r)
    <3>1. PICK r \in Requests : Applied(r)
      BY <2>6
    <3>2. \A s \in Requests : Revoking(s, t)' => Revoking(s, t) /\ s # r /\ req'[s] = req[s]
      BY <1>2, <2>6, <3>1, RevokingStays
    <3>3. CASE Revoking(r, t)
      BY <2>3, <3>1, <3>2, <3>3, AppliedKeys
    <3>4. CASE ~ Revoking(r, t)
      <4>1. ActiveKeys(t) \subseteq ActiveKeys(t)'
            /\ (Provisioned(t)' /\ ~ Provisioned(t) => ActiveKeys(t)' # {})
        BY <3>1, <3>4, AppliedKeys
      <4>2. QED
        BY <2>3, <3>2, <4>1
    <3>5. QED
      BY <3>3, <3>4
  <2>7. QED
    BY <1>2, <2>4, <2>5, <2>6, StepCases
<1>3. QED
  BY <1>1, <1>2

(* The last key of a merchant is lost only to two revocations that         *)
(* overlap.                                                                *)
THEOREM LockoutExplained == Spec => []LockoutNeedsOverlap
<1>1. Init => LockInv
  <2> SUFFICES ASSUME Init, NEW t \in Tenants
               PROVE  Provisioned(t) => ActiveKeys(t) # {}
    BY DEF Init, LockInv, Revoking
  <2>1. \A k \in merchants : k \in Keys /\ k \notin revoked
    BY DEF Init, Keys
  <2>2. QED
    BY <2>1 DEF Provisioned, ActiveKeys
<1>2. TypeInv /\ ShardInv /\ LockInv => LockoutNeedsOverlap
  BY DEF ShardInv, MerchantHasShard, LockInv, LockoutNeedsOverlap, Provisioned, TypeInv, TypeOK
<1>3. Init => ShardInv
  BY DEF Init, ShardInv, MerchantHasShard, Keys
<1>4. QED
  BY <1>1, <1>2, <1>3, InitType, StepType, StepShard, StepLock, PTL DEF Spec

(* Keys are issued to and revoked from the caller's own merchant only.     *)
THEOREM OwnKeys == Spec => OwnKeysOnly
<1> DEFINE Own ==
      \A k \in Keys :
        /\ k \in revoked' \ revoked =>
             \E r \in Requests : Is(r, "revoke_key") /\ Caller(r) = owner[k]
        /\ owner'[k] # owner[k] /\ k \notin merchants' =>
             /\ owner'[k] = req[k].tenant
             /\ \E l \in Keys : owner[l] = owner'[k]
<1>1. TypeInv /\ [Next]_vars => [Own]_vars
  <2> SUFFICES ASSUME TypeInv, Next PROVE Own
    OBVIOUS
  <2>1. CASE UNCHANGED database
    BY <2>1 DEF database
  <2>2. ASSUME NEW r \in Requests, Applied(r) PROVE Own
    <3>1. /\ pc[r] = "commit" /\ req[r] \in Request
          /\ req[r].op # "create_merchant" => req[r].key \in Keys /\ Caller(r) = req[r].tenant
          /\ req[r].op = "revoke_key" => owner[req[r].target] = req[r].tenant
      BY <2>2, RequestFields DEF Applied, TypeInv, Shape, Authorised, Caller
    <3>2. ASSUME NEW k \in Keys, k \in revoked' \ revoked
          PROVE  Is(r, "revoke_key") /\ Caller(r) = owner[k]
      BY <2>2, <3>1, <3>2, ApplyEffect DEF Applied, Is
    <3>3. ASSUME NEW k \in Keys, owner'[k] # owner[k], k \notin merchants'
          PROVE  owner'[k] = req[k].tenant /\ \E l \in Keys : owner[l] = owner'[k]
      <4>1. k = r /\ req[r].op = "create_key" /\ owner'[r] = req[r].tenant
        BY <2>2, <3>3, ApplyEffect DEF Applied
      <4>2. QED
        BY <3>1, <4>1 DEF Caller
    <3>4. QED
      BY <3>2, <3>3
  <2>3. QED
    BY <2>1, <2>2, StepCases
<1>2. QED
  BY <1>1, InitType, StepType, PTL DEF Spec, OwnKeysOnly

=============================================================================
