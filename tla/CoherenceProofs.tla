-------------------------- MODULE CoherenceProofs --------------------------
(***************************************************************************)
(* What the semantic cache guarantees, for every number of tenants,        *)
(* conversations, jobs and questions, every capacity, expiry and           *)
(* threshold: why an answer can be stale, how long a list can be, when it  *)
(* expires, and that the list of entries keeps the promise of module       *)
(* AnswerCache.                                                            *)
(***************************************************************************)
EXTENDS Coherence, SequenceTheorems, FiniteSetTheorems, TLAPS

-----------------------------------------------------------------------------
(* Facts about lists of entries.                                           *)

LEMMA EmptyList == ToSet(<<>>) = {}
BY DEF ToSet

LEMMA ListElements ==
  ASSUME NEW s \in Seq(Entry)
  PROVE  /\ ToSet(s) \subseteq Entry
         /\ \A i \in DOMAIN s : s[i] \in ToSet(s)
BY ElementOfSeq, LenProperties DEF ToSet

LEMMA PushedList ==
  ASSUME NEW s \in Seq(Entry), NEW e \in Entry
  PROVE  /\ <<e>> \o s \in Seq(Entry)
         /\ <<e>> \o s # <<>>
         /\ Len(<<e>> \o s) = Len(s) + 1
         /\ ToSet(<<e>> \o s) = ToSet(s) \cup {e}
<1> DEFINE n == <<e>> \o s
<1>1. /\ n \in Seq(Entry) /\ Len(n) = Len(s) + 1 /\ Len(s) \in Nat
      /\ n[1] = e /\ \A i \in 1 .. Len(s) : n[i + 1] = s[i]
  OBVIOUS
<1>2. DOMAIN n = 1 .. Len(s) + 1 /\ DOMAIN s = 1 .. Len(s)
  BY <1>1, LenProperties
<1> HIDE DEF n
<1>3. ToSet(n) \subseteq ToSet(s) \cup {e}
  <2> SUFFICES ASSUME NEW i \in 1 .. Len(s) + 1
               PROVE  n[i] = e \/ \E k \in 1 .. Len(s) : n[i] = s[k]
    BY <1>2 DEF ToSet
  <2>1. CASE i = 1
    BY <1>1, <2>1
  <2>2. CASE i # 1
    <3>1. i - 1 \in 1 .. Len(s) /\ (i - 1) + 1 = i
      BY <1>1, <2>2
    <3>2. QED
      BY <1>1, <3>1
  <2>3. QED
    BY <2>1, <2>2
<1>4. ToSet(s) \cup {e} \subseteq ToSet(n)
  <2> SUFFICES ASSUME NEW i \in 1 .. Len(s)
               PROVE  s[i] \in ToSet(n) /\ e \in ToSet(n)
    <3>1. 1 \in DOMAIN n
      BY <1>1, <1>2
    <3>2. QED
      BY <1>1, <1>2, <3>1 DEF ToSet
  <2>1. i + 1 \in DOMAIN n /\ 1 \in DOMAIN n
    BY <1>1, <1>2
  <2>2. QED
    BY <1>1, <2>1 DEF ToSet
<1>5. n # <<>>
  BY <1>1
<1>6. QED
  BY <1>1, <1>3, <1>4, <1>5 DEF n

LEMMA TrimmedList ==
  ASSUME NEW s \in Seq(Entry)
  PROVE  /\ FirstEntries(s) \in Seq(Entry)
         /\ Len(FirstEntries(s)) <= Capacity /\ Len(FirstEntries(s)) <= Len(s)
         /\ s = <<>> => FirstEntries(s) = <<>>
         /\ ToSet(FirstEntries(s)) \subseteq ToSet(s)
<1>1. Len(s) \in Nat /\ Capacity \in Nat \ {0} /\ DOMAIN s = 1 .. Len(s)
  BY CoherenceAssumption, LenProperties
<1>2. CASE Len(s) > Capacity
  <2> DEFINE f == SubSeq(s, 1, Capacity)
  <2>1. /\ f \in Seq(Entry) /\ Len(f) = Capacity
        /\ \A i \in 1 .. Capacity : f[i] = s[i]
    BY <1>1, <1>2, ElementOfSeq, SubSeqProperties
  <2>2. ToSet(f) \subseteq ToSet(s)
    BY <1>1, <1>2, <2>1, LenProperties DEF ToSet
  <2>3. s # <<>>
    BY <1>1, <1>2
  <2>4. QED
    BY <1>1, <1>2, <2>1, <2>2, <2>3 DEF FirstEntries
<1>3. CASE ~ Len(s) > Capacity
  BY <1>1, <1>3 DEF FirstEntries
<1>4. QED
  BY <1>2, <1>3

-----------------------------------------------------------------------------
(* Type correctness.                                                       *)

(* A turn that is not over asks a question, and holds nothing it read      *)
(* before it missed or after it stored.                                    *)
Asked ==
  \A c \in Conversations :
    /\ pc[c] \in {"lookup", "agent", "push"} => turn[c].question \in Questions
    /\ pc[c] \notin {"agent", "push"} => turn[c].version = None

TypeInv == TypeOK /\ Asked

LEMMA BlankTurn == Blank \in Turn /\ Blank.version = None
BY CoherenceAssumption DEF Blank, Turn

LEMMA InitType == Init => TypeInv
<1> SUFFICES ASSUME Init PROVE TypeInv
  OBVIOUS
<1>1. TypeOK
  BY BlankTurn, CoherenceAssumption DEF Init, TypeOK, Versions, Stage
<1>2. Asked
  BY BlankTurn DEF Init, Asked
<1>3. QED
  BY <1>1, <1>2 DEF TypeInv

LEMMA IngestionType ==
  ASSUME TypeInv, NEW j \in Jobs,
         Invalidate(j) \/ JobFails(j) \/ \E t \in Tenants : Write(j, t)
  PROVE  TypeInv'
<1>1. CASE \E t \in Tenants : Write(j, t)
  BY <1>1, CoherenceAssumption DEF TypeInv, TypeOK, Asked, Write, redis, Versions
<1>2. CASE JobFails(j)
  BY <1>2 DEF TypeInv, TypeOK, Asked, JobFails, EndJob, redis
<1>3. CASE Invalidate(j)
  <2>1. jobs[j] \in Tenants
    BY <1>3 DEF TypeInv, TypeOK, Invalidate
  <2>2. list' \in [Tenants -> Seq(Entry)]
    <3>1. <<>> \in Seq(Entry)
      OBVIOUS
    <3>2. QED
      BY <1>3, <2>1, <3>1 DEF TypeInv, TypeOK, Invalidate, Deleted
  <2>3. ttl' \in [Tenants -> 0 .. TTL]
    BY <1>3, <2>1, CoherenceAssumption DEF TypeInv, TypeOK, Invalidate
  <2>4. \A c \in Conversations :
          turn'[c] \in Turn /\ turn'[c].question = turn[c].question
          /\ turn'[c].version = turn[c].version
    <3> SUFFICES ASSUME NEW c \in Conversations
                 PROVE  turn'[c] \in Turn /\ turn'[c].question = turn[c].question
                        /\ turn'[c].version = turn[c].version
      OBVIOUS
    <3>1. turn[c] \in Turn
      BY DEF TypeInv, TypeOK
    <3>2. [turn[c] EXCEPT !.outdated = TRUE] \in Turn
          /\ [turn[c] EXCEPT !.outdated = TRUE].question = turn[c].question
          /\ [turn[c] EXCEPT !.outdated = TRUE].version = turn[c].version
      BY <3>1 DEF Turn
    <3>3. QED
      BY <1>3, <3>1, <3>2 DEF Invalidate
  <2>5. turn' \in [Conversations -> Turn]
    BY <1>3, <2>4 DEF Invalidate
  <2>6. TypeOK'
    BY <1>3, <2>1, <2>2, <2>3, <2>5 DEF TypeInv, TypeOK, Invalidate, EndJob
  <2>7. Asked'
    BY <1>3, <2>4 DEF TypeInv, Asked, Invalidate
  <2>8. QED
    BY <2>6, <2>7 DEF TypeInv
<1>4. QED
  BY <1>1, <1>2, <1>3

LEMMA HavingReadType ==
  ASSUME NEW h \in Turn, h.rounds < MaxRounds, NEW v \in Versions, NEW stats \in BOOLEAN
  PROVE  HavingRead(h, v, stats) \in Turn
         /\ HavingRead(h, v, stats).question = h.question
<1> DEFINE n == HavingRead(h, v, stats)
<1>1. /\ n.question = h.question /\ n.outdated = h.outdated
      /\ n.rounds = h.rounds + 1 /\ n.rounds \in 0 .. MaxRounds
      /\ n.version \in Versions \cup {None}
  BY CoherenceAssumption DEF HavingRead, Turn
<1>2. n.stats \in BOOLEAN
  <2>1. n.stats = (h.stats \/ stats)
    BY DEF HavingRead, Turn
  <2>2. h.stats \in BOOLEAN
    BY DEF Turn
  <2>3. QED
    BY <2>1, <2>2
<1>3. n = [question |-> n.question, version |-> n.version, outdated |-> n.outdated,
           stats |-> n.stats, rounds |-> n.rounds]
  <2>1. n = [f \in {"question", "version", "outdated", "stats", "rounds"} |-> n[f]]
    BY DEF HavingRead, Turn
  <2> HIDE DEF n
  <2>2. QED
    BY <2>1
<1> HIDE DEF n
<1>4. n.question \in Questions \cup {None} /\ n.outdated \in BOOLEAN
  BY <1>1 DEF Turn
<1>5. n \in Turn
  BY <1>1, <1>2, <1>3, <1>4, Zenon DEF Turn
<1>6. QED
  BY <1>1, <1>5 DEF n

LEMMA TurnType ==
  ASSUME TypeInv, NEW c \in Conversations,
         \/ Hit(c) \/ Miss(c) \/ Answer(c) \/ ToolCall(c) \/ Break(c)
         \/ \E q \in Asks[c] : Begin(c, q)
  PROVE  TypeInv'
<1> DEFINE t == TenantOf[c]
<1>1. t \in Tenants /\ turn[c] \in Turn /\ pc[c] \in Stage /\ catalog[t] \in Versions
  BY CoherenceAssumption DEF TypeInv, TypeOK
<1>2. CASE \E q \in Asks[c] : Begin(c, q)
  <2>1. PICK q \in Asks[c] : Begin(c, q)
    BY <1>2
  <2>2. q \in Questions
    BY CoherenceAssumption
  <2>3. [Blank EXCEPT !.question = q] \in Turn
        /\ [Blank EXCEPT !.question = q].question = q
        /\ [Blank EXCEPT !.question = q].version = None
    BY <2>2, BlankTurn DEF Turn
  <2>4. QED
    BY <2>1, <2>2, <2>3 DEF TypeInv, TypeOK, Asked, Begin, Goto, Stage, ingestion, redis
<1>3. CASE Hit(c)
  <2>1. served' \in [tenant : Tenants, question : Questions, answer : Entry]
    <3>1. list[t] \in Seq(Entry)
      BY <1>1 DEF TypeInv, TypeOK
    <3>2. \A i \in DOMAIN list[t] : list[t][i] \in Entry
      BY <3>1, LenProperties, ElementOfSeq
    <3>3. QED
      BY <1>1, <1>3, <3>2 DEF TypeInv, Asked, Hit
  <2>2. QED
    BY <1>3, <2>1, BlankTurn
    DEF TypeInv, TypeOK, Asked, Hit, End, Goto, Stage, ingestion, redis
<1>4. CASE Miss(c)
  BY <1>4 DEF TypeInv, TypeOK, Asked, Miss, Goto, Stage, ingestion, redis
<1>5. CASE ToolCall(c)
  <2>1. turn'[c] \in Turn /\ turn'[c].question = turn[c].question
        /\ \A d \in Conversations \ {c} : turn'[d] = turn[d]
    <3>1. PICK stats \in BOOLEAN :
            turn' = [turn EXCEPT ![c] = HavingRead(@, catalog[t], stats)]
      BY <1>5 DEF ToolCall
    <3>2. HavingRead(turn[c], catalog[t], stats) \in Turn
          /\ HavingRead(turn[c], catalog[t], stats).question = turn[c].question
      BY <1>1, <1>5, CoherenceAssumption, HavingReadType DEF ToolCall, MayCall
    <3>3. QED
      BY <3>1, <3>2 DEF TypeInv, TypeOK
  <2>2. turn' \in [Conversations -> Turn]
    <3>1. turn' = [d \in Conversations |-> turn'[d]]
      BY <1>5 DEF TypeInv, TypeOK, ToolCall
    <3>2. QED
      BY <2>1, <3>1 DEF TypeInv, TypeOK
  <2>3. TypeOK'
    BY <1>1, <1>5, <2>2 DEF TypeInv, TypeOK, ToolCall, ingestion, redis
  <2>4. Asked'
    BY <1>5, <2>1 DEF TypeInv, Asked, ToolCall
  <2>5. QED
    BY <2>3, <2>4 DEF TypeInv
<1>6. CASE Answer(c)
  <2>1. CASE End(c)
    BY <1>6, <2>1, BlankTurn
    DEF TypeInv, TypeOK, Asked, Answer, End, Goto, Stage, ingestion, redis
  <2>2. CASE Goto(c, "push") /\ \E grounded \in Grounds(c) : turn' = [turn EXCEPT ![c] = grounded]
    <3>1. \A grounded \in Grounds(c) : grounded \in Turn /\ grounded.question = turn[c].question
      BY <1>1 DEF Grounds, Turn, TypeInv, TypeOK
    <3>2. PICK grounded \in Turn : /\ turn' = [turn EXCEPT ![c] = grounded]
                                   /\ grounded.question = turn[c].question
      BY <2>2, <3>1
    <3>3. TypeOK'
      BY <1>6, <2>2, <3>2 DEF TypeInv, TypeOK, Answer, Goto, Stage, ingestion, redis
    <3>4. Asked'
      BY <1>6, <2>2, <3>2 DEF TypeInv, TypeOK, Asked, Answer, Goto, ingestion, redis
    <3>5. QED
      BY <3>3, <3>4 DEF TypeInv
  <2>3. QED
    BY <1>6, <2>1, <2>2 DEF Answer
<1>7. CASE Break(c)
  BY <1>1, <1>7, BlankTurn, CoherenceAssumption
  DEF TypeInv, TypeOK, Asked, Break, End, Goto, Stage, ingestion, redis
<1>8. QED
  BY <1>2, <1>3, <1>4, <1>5, <1>6, <1>7

LEMMA StoreType ==
  ASSUME TypeInv, NEW c \in Conversations, Push(c) \/ Trim(c) \/ Expire(c)
  PROVE  TypeInv'
<1> DEFINE t == TenantOf[c]
<1>1. t \in Tenants /\ turn[c] \in Turn /\ list[t] \in Seq(Entry)
  BY CoherenceAssumption DEF TypeInv, TypeOK
<1>2. CASE Push(c)
  <2>1. EntryOf(c) \in Entry
    BY <1>1, <1>2 DEF TypeInv, Asked, Push, EntryOf, Entry, Turn
  <2>2. <<EntryOf(c)>> \o list[t] \in Seq(Entry)
    BY <1>1, <2>1, PushedList
  <2>3. list' \in [Tenants -> Seq(Entry)]
    BY <1>1, <1>2, <2>2 DEF TypeInv, TypeOK, Push, Pushed
  <2>4. QED
    BY <1>2, <2>3, BlankTurn DEF TypeInv, TypeOK, Asked, Push, Goto, Stage, ingestion
<1>3. CASE Trim(c)
  <2>1. FirstEntries(list[t]) \in Seq(Entry)
    BY <1>1, TrimmedList
  <2>2. list' \in [Tenants -> Seq(Entry)]
    BY <1>1, <1>3, <2>1 DEF TypeInv, TypeOK, Trim
  <2>3. QED
    BY <1>3, <2>2 DEF TypeInv, TypeOK, Asked, Trim, Goto, Stage, ingestion
<1>4. CASE Expire(c)
  <2>1. Expiry(t) \in 0 .. TTL
    BY CoherenceAssumption DEF Expiry
  <2>2. QED
    BY <1>1, <1>4, <2>1, BlankTurn
    DEF TypeInv, TypeOK, Asked, Expire, End, Goto, Stage, ingestion
<1>5. QED
  BY <1>2, <1>3, <1>4

LEMMA TickType == ASSUME TypeInv, Tick PROVE TypeInv'
<1>1. \A t \in Tenants : list[t] \in Seq(Entry) /\ <<>> \in Seq(Entry) /\ ttl[t] \in 0 .. TTL
  BY DEF TypeInv, TypeOK
<1>2. list' \in [Tenants -> Seq(Entry)]
  BY <1>1 DEF Tick
<1>3. ttl' \in [Tenants -> 0 .. TTL]
  BY <1>1, CoherenceAssumption DEF Tick
<1>4. QED
  BY <1>2, <1>3 DEF TypeInv, TypeOK, Asked, Tick, ingestion

LEMMA StepType == TypeInv /\ [Next]_vars => TypeInv'
<1> SUFFICES ASSUME TypeInv, [Next]_vars PROVE TypeInv'
  OBVIOUS
<1>1. CASE UNCHANGED vars
  BY <1>1 DEF TypeInv, TypeOK, Asked, vars, ingestion, redis
<1>2. CASE Next
  BY <1>2, IngestionType, TurnType, StoreType, TickType DEF Next, Proceed
<1>3. QED
  BY <1>1, <1>2

(* Every variable has its type, however turns, jobs and failures           *)
(* interleave.                                                             *)
THEOREM TypeInvariant == Spec => []TypeInv
BY InitType, StepType, PTL DEF Spec

-----------------------------------------------------------------------------
(* Why an answer can be stale.                                             *)

(* The property of the list, carried back to the turns that will store.    *)
Settled(t, v) == v = None \/ v = catalog[t] \/ owes[t] # {}

TurnsSettled ==
  \A c \in Conversations : turn[c].outdated \/ Settled(TenantOf[c], turn[c].version)

ListsSettled ==
  \A t \in Tenants : \A e \in ToSet(list[t]) : e.outdated \/ Settled(t, e.version)

StaleInv == TypeInv /\ TurnsSettled /\ ListsSettled

LEMMA InitStale == Init => StaleInv
BY InitType, BlankTurn, EmptyList
DEF Init, StaleInv, TurnsSettled, ListsSettled, Settled

LEMMA IngestionStale ==
  ASSUME StaleInv, NEW j \in Jobs,
         Invalidate(j) \/ JobFails(j) \/ \E t \in Tenants : Write(j, t)
  PROVE  TurnsSettled' /\ ListsSettled'
<1>1. CASE \E t \in Tenants : Write(j, t)
  <2>1. PICK t \in Tenants : Write(j, t)
    BY <1>1
  <2>2. owes'[t] # {} /\ \A u \in Tenants \ {t} : owes'[u] = owes[u] /\ catalog'[u] = catalog[u]
    BY <2>1 DEF Write, StaleInv, TypeInv, TypeOK
  <2>3. \A v : \A u \in Tenants : Settled(u, v) => Settled(u, v)'
    BY <2>2 DEF Settled
  <2>4. \A c \in Conversations : TenantOf[c] \in Tenants
    BY CoherenceAssumption
  <2>5. QED
    BY <2>1, <2>3, <2>4 DEF Write, redis, StaleInv, TurnsSettled, ListsSettled
<1>2. CASE JobFails(j)
  BY <1>2 DEF JobFails, redis, StaleInv, TurnsSettled, ListsSettled, Settled
<1>3. CASE Invalidate(j)
  <2> DEFINE t == jobs[j]
  <2>1. t \in Tenants /\ \A c \in Conversations : TenantOf[c] \in Tenants /\ turn[c] \in Turn
    BY <1>3, CoherenceAssumption DEF Invalidate, StaleInv, TypeInv, TypeOK
  <2>2. \A v : \A u \in Tenants : u # t /\ Settled(u, v) => Settled(u, v)'
    BY <1>3, <2>1 DEF Invalidate, Settled, StaleInv, TypeInv, TypeOK
  <2>3. ListsSettled'
    <3>1. list'[t] = <<>> /\ \A u \in Tenants \ {t} : list'[u] = list[u]
      BY <1>3, <2>1 DEF Invalidate, Deleted, StaleInv, TypeInv, TypeOK
    <3>2. QED
      BY <2>1, <2>2, <3>1, EmptyList DEF StaleInv, ListsSettled
  <2>4. TurnsSettled'
    <3> SUFFICES ASSUME NEW c \in Conversations
                 PROVE  turn'[c].outdated \/ Settled(TenantOf[c], turn[c].version)'
      BY DEF TurnsSettled
    <3>1. CASE c \in Overtaken(t)
      <4>1. turn'[c].outdated = TRUE
        BY <1>3, <2>1, <3>1 DEF Invalidate, Turn
      <4>2. QED
        BY <4>1
    <3>2. CASE c \notin Overtaken(t)
      <4>1. turn'[c] = turn[c]
        BY <1>3, <3>2 DEF Invalidate
      <4>2. CASE TenantOf[c] = t
        <5>1. turn[c].version = None
          BY <3>2, <4>2 DEF Overtaken, StaleInv, TypeInv, Asked
        <5>2. QED
          BY <4>1, <5>1 DEF Settled
      <4>3. CASE TenantOf[c] # t
        BY <2>1, <2>2, <4>1, <4>3 DEF StaleInv, TurnsSettled
      <4>4. QED
        BY <4>2, <4>3
    <3>3. QED
      BY <3>1, <3>2
  <2>5. QED
    BY <2>3, <2>4
<1>4. QED
  BY <1>1, <1>2, <1>3

(* The steps of a turn before it stores leave the lists and the catalog    *)
(* alone.                                                                  *)
LEMMA TurnStale ==
  ASSUME StaleInv, NEW c \in Conversations,
         \/ Hit(c) \/ Miss(c) \/ Answer(c) \/ ToolCall(c) \/ Break(c)
         \/ \E q \in Asks[c] : Begin(c, q)
  PROVE  TurnsSettled' /\ ListsSettled'
<1> DEFINE t == TenantOf[c]
<1>1. /\ list' = list /\ catalog' = catalog /\ owes' = owes
      /\ \A d \in Conversations \ {c} : turn'[d] = turn[d]
  BY DEF Hit, Miss, Answer, ToolCall, Break, Begin, End, ingestion, redis, StaleInv, TypeInv, TypeOK
<1>2. ListsSettled'
  BY <1>1 DEF ListsSettled, Settled, StaleInv
<1>3. turn[c] \in Turn /\ (turn[c].outdated \/ Settled(t, turn[c].version))
  BY DEF StaleInv, TypeInv, TypeOK, TurnsSettled
<1>4. turn'[c].outdated \/ Settled(t, turn'[c].version)
  <2>1. CASE turn'[c] = Blank \/ \E q \in Asks[c] : turn'[c] = [Blank EXCEPT !.question = q]
    BY <2>1, BlankTurn DEF Turn, Settled
  <2>2. CASE turn'[c] = turn[c] \/ turn'[c] \in Grounds(c)
    BY <1>3, <2>2 DEF Grounds, Turn
  <2>3. CASE ToolCall(c)
    <3>1. PICK stats \in BOOLEAN :
            turn' = [turn EXCEPT ![c] = HavingRead(@, catalog[t], stats)]
      BY <2>3 DEF ToolCall
    <3>2. turn'[c] = HavingRead(turn[c], catalog[t], stats)
      BY <3>1 DEF StaleInv, TypeInv, TypeOK
    <3>3. turn'[c].outdated = turn[c].outdated
          /\ turn'[c].version \in {turn[c].version, catalog[t]}
      BY <1>3, <3>2 DEF HavingRead, Turn
    <3>4. QED
      BY <1>3, <3>3 DEF Settled
  <2>4. QED
    BY <2>1, <2>2, <2>3 DEF Hit, Miss, Answer, Break, Begin, End, StaleInv, TypeInv, TypeOK
<1>5. QED
  BY <1>1, <1>2, <1>3, <1>4 DEF TurnsSettled, Settled, StaleInv

LEMMA StoreStale ==
  ASSUME StaleInv, NEW c \in Conversations, Push(c) \/ Trim(c) \/ Expire(c)
  PROVE  TurnsSettled' /\ ListsSettled'
<1> DEFINE t == TenantOf[c]
<1>1. t \in Tenants /\ turn[c] \in Turn /\ \A u \in Tenants : list[u] \in Seq(Entry)
  BY CoherenceAssumption DEF StaleInv, TypeInv, TypeOK
<1>2. catalog' = catalog /\ owes' = owes
  BY DEF Push, Trim, Expire, ingestion
<1>3. \A v : \A u \in Tenants : Settled(u, v) <=> Settled(u, v)'
  BY <1>2 DEF Settled
<1>4. TurnsSettled'
  <2>1. \A d \in Conversations : turn'[d] \in {turn[d], Blank}
    BY DEF Push, Trim, Expire, End, StaleInv, TypeInv, TypeOK
  <2>2. \A d \in Conversations : TenantOf[d] \in Tenants
    BY CoherenceAssumption
  <2>3. QED
    BY <1>2, <2>1, <2>2, BlankTurn DEF TurnsSettled, Settled, StaleInv
<1>5. \A u \in Tenants : \A e \in ToSet(list'[u]) :
        e \in ToSet(list[u]) \/ (u = t /\ Push(c) /\ e = EntryOf(c))
  <2>1. CASE Push(c)
    <3>1. EntryOf(c) \in Entry
      BY <1>1, <2>1 DEF StaleInv, TypeInv, Asked, Push, EntryOf, Entry, Turn
    <3>2. list' = [list EXCEPT ![t] = <<EntryOf(c)>> \o @]
      BY <2>1 DEF Push, Pushed
    <3>3. QED
      BY <1>1, <2>1, <3>1, <3>2, PushedList DEF StaleInv, TypeInv, TypeOK
  <2>2. CASE Trim(c)
    BY <1>1, <2>2, TrimmedList DEF Trim, StaleInv, TypeInv, TypeOK
  <2>3. CASE Expire(c)
    BY <2>3 DEF Expire
  <2>4. QED
    BY <2>1, <2>2, <2>3
<1>6. Push(c) => (EntryOf(c).outdated \/ Settled(t, EntryOf(c).version))
  BY <1>1 DEF EntryOf, StaleInv, TurnsSettled
<1>7. ListsSettled'
  BY <1>3, <1>5, <1>6 DEF ListsSettled, StaleInv
<1>8. QED
  BY <1>4, <1>7

LEMMA TickStale == ASSUME StaleInv, Tick PROVE TurnsSettled' /\ ListsSettled'
<1>1. \A t \in Tenants : list'[t] = <<>> \/ list'[t] = list[t]
  BY DEF Tick
<1>2. catalog' = catalog /\ owes' = owes /\ turn' = turn
  BY DEF Tick, ingestion
<1>3. QED
  BY <1>1, <1>2, EmptyList DEF StaleInv, TurnsSettled, ListsSettled, Settled

LEMMA StepStale == StaleInv /\ [Next]_vars => StaleInv'
<1> SUFFICES ASSUME StaleInv, [Next]_vars PROVE StaleInv'
  OBVIOUS
<1>1. TypeInv'
  BY StepType DEF StaleInv
<1>2. CASE UNCHANGED vars
  BY <1>1, <1>2 DEF StaleInv, TurnsSettled, ListsSettled, Settled, vars, ingestion, redis
<1>3. CASE Next
  BY <1>1, <1>3, IngestionStale, TurnStale, StoreStale, TickStale DEF Next, Proceed, StaleInv
<1>4. QED
  BY <1>2, <1>3

(* Without a job that owes an invalidation, a cached answer of an earlier  *)
(* catalog was stored after the invalidation or recalled.                  *)
THEOREM StaleExplained == Spec => []StaleNeedsOverlapOrRecall
<1>1. StaleInv => StaleNeedsOverlapOrRecall
  BY DEF StaleInv, ListsSettled, Settled, Stale, StaleNeedsOverlapOrRecall
<1>2. QED
  BY <1>1, InitStale, StepStale, PTL DEF Spec

-----------------------------------------------------------------------------
(* How long a list lives and how long it gets.                             *)

LEMMA StepExpires == TypeInv /\ ListsExpire /\ [Next]_vars => ListsExpire'
<1> SUFFICES ASSUME TypeInv, ListsExpire, [Next]_vars,
                    NEW t \in Tenants, list'[t] # <<>>, ttl'[t] = 0
             PROVE  (Storing(t, {"trim", "expire"}) # {} \/ t \in cut)'
  BY DEF ListsExpire
<1>1. TTL > 0 /\ ttl[t] \in 0 .. TTL /\ \A c \in Conversations : TenantOf[c] \in Tenants
  BY CoherenceAssumption DEF TypeInv, TypeOK
<1>2. CASE UNCHANGED <<list, ttl, pc, cut>>
  BY <1>2 DEF ListsExpire, Storing
<1>3. CASE UNCHANGED vars \/ \E j \in Jobs : JobFails(j) \/ \E u \in Tenants : Write(j, u)
  BY <1>2, <1>3 DEF vars, redis, JobFails, Write
<1>4. ASSUME NEW j \in Jobs, Invalidate(j) PROVE (Storing(t, {"trim", "expire"}) # {} \/ t \in cut)'
  <2>1. jobs[j] \in Tenants /\ t # jobs[j]
    BY <1>4 DEF Invalidate, Deleted, TypeInv, TypeOK
  <2>2. list[t] # <<>> /\ ttl[t] = 0 /\ pc' = pc /\ (t \in cut => t \in cut')
    BY <1>4, <2>1 DEF Invalidate, Deleted, TypeInv, TypeOK
  <2>3. QED
    BY <2>2 DEF ListsExpire, Storing
<1>5. ASSUME NEW c \in Conversations,
             Hit(c) \/ Miss(c) \/ Answer(c) \/ ToolCall(c) \/ \E q \in Asks[c] : Begin(c, q)
      PROVE  (Storing(t, {"trim", "expire"}) # {} \/ t \in cut)'
  <2>1. list[t] # <<>> /\ ttl[t] = 0 /\ cut' = cut
    BY <1>5 DEF Hit, Miss, Answer, ToolCall, Begin, redis
  <2>2. \A d \in Conversations : pc[d] \in {"trim", "expire"} => pc'[d] = pc[d]
    BY <1>5 DEF Hit, Miss, Answer, ToolCall, Begin, End, Goto, TypeInv, TypeOK
  <2>3. QED
    BY <2>1, <2>2 DEF ListsExpire, Storing
<1>6. ASSUME NEW c \in Conversations, Push(c) \/ Trim(c)
      PROVE  (Storing(t, {"trim", "expire"}) # {} \/ t \in cut)'
  <2>1. pc'[c] \in {"trim", "expire"}
        /\ \A d \in Conversations \ {c} : pc'[d] = pc[d]
    BY <1>6 DEF Push, Trim, Goto, TypeInv, TypeOK
  <2>2. CASE TenantOf[c] = t
    BY <2>1, <2>2 DEF Storing
  <2>3. CASE TenantOf[c] # t
    <3>1. list[t] # <<>> /\ ttl[t] = 0 /\ cut' = cut
      BY <1>1, <1>6, <2>3 DEF Push, Trim, Pushed, TypeInv, TypeOK
    <3>2. QED
      BY <2>1, <2>3, <3>1 DEF ListsExpire, Storing
  <2>4. QED
    BY <2>2, <2>3
<1>7. ASSUME NEW c \in Conversations, Expire(c)
      PROVE  (Storing(t, {"trim", "expire"}) # {} \/ t \in cut)'
  <2>1. TenantOf[c] # t
    BY <1>1, <1>7 DEF Expire, Expiry, TypeInv, TypeOK
  <2>2. list[t] # <<>> /\ ttl[t] = 0 /\ (t \in cut => t \in cut')
        /\ \A d \in Conversations \ {c} : pc'[d] = pc[d]
    BY <1>1, <1>7, <2>1 DEF Expire, End, Goto, TypeInv, TypeOK
  <2>3. QED
    BY <2>1, <2>2 DEF ListsExpire, Storing
<1>8. ASSUME NEW c \in Conversations, Break(c)
      PROVE  (Storing(t, {"trim", "expire"}) # {} \/ t \in cut)'
  <2>1. /\ list[t] # <<>> /\ ttl[t] = 0 /\ cut \subseteq cut'
        /\ pc[c] \in {"trim", "expire"} => TenantOf[c] \in cut'
        /\ \A d \in Conversations \ {c} : pc'[d] = pc[d]
    BY <1>8 DEF Break, End, Goto, redis, TypeInv, TypeOK
  <2>2. QED
    BY <2>1 DEF ListsExpire, Storing
<1>9. CASE Tick
  <2>1. list[t] # <<>> /\ ttl[t] = 0 /\ pc' = pc /\ cut' = cut
    BY <1>1, <1>9 DEF Tick
  <2>2. QED
    BY <2>1 DEF ListsExpire, Storing
<1>10. QED
  BY <1>3, <1>4, <1>5, <1>6, <1>7, <1>8, <1>9 DEF Next, Proceed

(* A list without an expiry is one a store still works on, or one whose    *)
(* store was cut short.                                                    *)
THEOREM ListsExpireAlways == Spec => []ListsExpire
<1>1. Init => ListsExpire
  BY DEF Init, ListsExpire
<1>2. QED
  BY <1>1, InitType, StepType, StepExpires, PTL DEF Spec

LEMMA StepBounded == TypeInv /\ ListBounded /\ [Next]_vars => ListBounded'
<1> SUFFICES ASSUME TypeInv, ListBounded, [Next]_vars, NEW t \in Tenants
             PROVE  (Len(list[t]) <= Capacity + Cardinality(Storing(t, {"trim"})) + faults)'
  BY DEF ListBounded
<1> DEFINE S == Storing(t, {"trim"})
           T == S'
           n == Len(list[t])
           m == Len(list'[t])
<1>1. IsFiniteSet(S) /\ IsFiniteSet(T)
  <2>1. S \subseteq Conversations /\ T \subseteq Conversations
    BY DEF Storing
  <2>2. QED
    BY <2>1, CoherenceAssumption, FS_Subset
<1>2. /\ Cardinality(S) \in Nat /\ Cardinality(T) \in Nat /\ n \in Nat /\ m \in Nat
      /\ Capacity \in Nat /\ faults \in Nat /\ faults' \in Nat /\ faults <= faults'
  <2>1. list[t] \in Seq(Entry) /\ list'[t] \in Seq(Entry)
    BY StepType DEF TypeInv, TypeOK
  <2>2. faults <= faults'
    <3>1. faults \in Nat
      BY CoherenceAssumption DEF TypeInv, TypeOK
    <3>2. faults' \in {faults, faults + 1}
      BY DEF Next, Proceed, Invalidate, JobFails, Write, Hit, Miss, Answer, ToolCall, Break,
             Begin, Push, Trim, Expire, Tick, vars, ingestion
    <3>3. QED
      BY <3>1, <3>2
  <2>3. QED
    BY <1>1, <2>1, <2>2, StepType, CoherenceAssumption, FS_CardinalityType, LenProperties
    DEF TypeInv, TypeOK
<1>3. n <= Capacity + Cardinality(S) + faults
  BY DEF ListBounded
<1>4. \A c \in Conversations : TenantOf[c] \in Tenants
  BY CoherenceAssumption
<1> HIDE DEF n, m
<1>5. ASSUME m = 0 \/ m = n, pc' = pc
      PROVE  m <= Capacity + Cardinality(T) + faults'
  BY <1>2, <1>3, <1>5 DEF Storing
<1>6. CASE UNCHANGED vars \/ \E j \in Jobs : JobFails(j) \/ \E u \in Tenants : Write(j, u)
  <2>1. list' = list /\ pc' = pc
    BY <1>6 DEF vars, redis, JobFails, Write
  <2>2. m <= Capacity + Cardinality(T) + faults'
    BY <1>5, <2>1 DEF n, m
  <2>3. QED
    BY <2>2 DEF m
<1>7. ASSUME NEW j \in Jobs, Invalidate(j) PROVE m <= Capacity + Cardinality(T) + faults'
  BY <1>5, <1>7 DEF Invalidate, Deleted, TypeInv, TypeOK, n, m
<1>8. CASE Tick
  BY <1>5, <1>8 DEF Tick, n, m
<1>9. ASSUME NEW c \in Conversations,
              Hit(c) \/ Miss(c) \/ Answer(c) \/ ToolCall(c) \/ \E q \in Asks[c] : Begin(c, q)
       PROVE  m <= Capacity + Cardinality(T) + faults'
  <2>1. m = n
    BY <1>9 DEF Hit, Miss, Answer, ToolCall, Begin, redis, n, m
  <2>2. S \subseteq T
    BY <1>9 DEF Hit, Miss, Answer, ToolCall, Begin, End, Goto, Storing, TypeInv, TypeOK
  <2>3. Cardinality(S) <= Cardinality(T)
    BY <1>1, <2>2, FS_Subset
  <2>4. QED
    BY <1>2, <1>3, <2>1, <2>3
<1>10. ASSUME NEW c \in Conversations, Push(c)
       PROVE  m <= Capacity + Cardinality(T) + faults'
  <2>1. CASE TenantOf[c] = t
    <3>1. m = n + 1
      <4>1. EntryOf(c) \in Entry /\ list[t] \in Seq(Entry)
        BY <1>10 DEF TypeInv, TypeOK, Asked, Push, EntryOf, Entry, Turn
      <4>2. list'[t] = <<EntryOf(c)>> \o list[t]
        BY <1>10, <2>1 DEF Push, Pushed, TypeInv, TypeOK
      <4>3. QED
        BY <4>1, <4>2, PushedList DEF n, m
    <3>2. T = S \cup {c} /\ c \notin S
      BY <1>10, <2>1 DEF Push, Goto, Storing, TypeInv, TypeOK
    <3>3. Cardinality(T) = Cardinality(S) + 1
      BY <1>1, <3>2, FS_AddElement
    <3>4. QED
      BY <1>2, <1>3, <3>1, <3>3
  <2>2. CASE TenantOf[c] # t
    <3>1. m = n
      BY <1>4, <1>10, <2>2 DEF Push, Pushed, TypeInv, TypeOK, n, m
    <3>2. T = S
      BY <1>10, <2>2 DEF Push, Goto, Storing, TypeInv, TypeOK
    <3>3. QED
      BY <1>2, <1>3, <3>1, <3>2
  <2>3. QED
    BY <2>1, <2>2
<1>11. ASSUME NEW c \in Conversations, Trim(c)
       PROVE  m <= Capacity + Cardinality(T) + faults'
  <2>1. CASE TenantOf[c] = t
    <3>1. m <= Capacity
      BY <1>4, <1>11, <2>1, TrimmedList DEF Trim, TypeInv, TypeOK, m
    <3>2. QED
      BY <1>2, <3>1
  <2>2. CASE TenantOf[c] # t
    <3>1. m = n
      BY <1>4, <1>11, <2>2 DEF Trim, TypeInv, TypeOK, n, m
    <3>2. T = S
      BY <1>11, <2>2 DEF Trim, Goto, Storing, TypeInv, TypeOK
    <3>3. QED
      BY <1>2, <1>3, <3>1, <3>2
  <2>3. QED
    BY <2>1, <2>2
<1>12. ASSUME NEW c \in Conversations, Expire(c)
       PROVE  m <= Capacity + Cardinality(T) + faults'
  <2>1. m = n
    BY <1>12 DEF Expire, n, m
  <2>2. T = S
    BY <1>12 DEF Expire, End, Goto, Storing, TypeInv, TypeOK
  <2>3. QED
    BY <1>2, <1>3, <2>1, <2>2
<1>13. ASSUME NEW c \in Conversations, Break(c)
       PROVE  m <= Capacity + Cardinality(T) + faults'
  <2>1. m = n /\ faults' = faults + 1
    BY <1>13 DEF Break, redis, n, m
  <2>2. T = S \ {c}
    BY <1>13 DEF Break, End, Goto, Storing, TypeInv, TypeOK
  <2>3. Cardinality(T) >= Cardinality(S) - 1
    <3>1. CASE c \in S
      BY <1>1, <1>2, <2>2, <3>1, FS_RemoveElement
    <3>2. CASE c \notin S
      <4>1. T = S
        BY <2>2, <3>2
      <4>2. QED
        BY <1>2, <4>1
    <3>3. QED
      BY <3>1, <3>2
  <2>4. QED
    BY <1>2, <1>3, <2>1, <2>3
<1>14. m <= Capacity + Cardinality(T) + faults'
  BY <1>6, <1>7, <1>8, <1>9, <1>10, <1>11, <1>12, <1>13 DEF Next, Proceed, m
<1>15. QED
  BY <1>14 DEF m

(* A list is longer than its capacity only by the stores that have not     *)
(* trimmed it.                                                             *)
THEOREM ListsBounded == Spec => []ListBounded
<1>1. Init => ListBounded
  <2> SUFFICES ASSUME Init, NEW t \in Tenants
               PROVE  Len(list[t]) <= Capacity + Cardinality(Storing(t, {"trim"})) + faults
    BY DEF ListBounded
  <2>1. Storing(t, {"trim"}) = {} /\ Len(list[t]) = 0 /\ faults = 0
    BY DEF Init, Storing
  <2>2. Cardinality(Storing(t, {"trim"})) = 0
    BY <2>1, FS_EmptySet
  <2>3. QED
    BY <2>1, <2>2, CoherenceAssumption
<1>2. QED
  BY <1>1, InitType, StepType, StepBounded, PTL DEF Spec

-----------------------------------------------------------------------------
(* The lists keep the promise of module AnswerCache.                       *)

Kept == [t \in Tenants |-> ToSet(list[t])]
Unsettled == {t \in Tenants : owes[t] # {}}

LEMMA InitKeeps == Init => Promise!Init
BY EmptyList DEF Init, Promise!Init

LEMMA KeptType == TypeInv => Kept \in [Tenants -> SUBSET Entry]
<1> SUFFICES ASSUME TypeInv, NEW t \in Tenants PROVE ToSet(list[t]) \subseteq Entry
  BY DEF Kept
<1>1. list[t] \in Seq(Entry)
  BY DEF TypeInv, TypeOK
<1>2. QED
  BY <1>1, ListElements

(* A step that serves nothing, owes what was owed and keeps no answer it   *)
(* did not have is a Forget.                                               *)
LEMMA Forgets ==
  ASSUME TypeInv, TypeInv', served' = None, owes' = owes,
         \A t \in Tenants : ToSet(list'[t]) \subseteq ToSet(list[t])
  PROVE  Promise!Next
<1>1. Kept' \in [Tenants -> SUBSET Entry] /\ \A t \in Tenants : Kept'[t] \subseteq Kept[t]
  BY KeptType DEF Kept
<1>2. Promise!Forget
  BY <1>1 DEF Promise!Forget, Kept
<1>3. QED
  BY <1>2 DEF Promise!Next

LEMMA StepKeeps == TypeInv /\ TypeInv' /\ [Next]_vars => [Promise!Next]_Promise!vars
<1> SUFFICES ASSUME TypeInv, TypeInv', [Next]_vars PROVE Promise!Next \/ UNCHANGED Promise!vars
  OBVIOUS
<1>1. \A c \in Conversations : TenantOf[c] \in Tenants
  BY CoherenceAssumption
<1>2. CASE UNCHANGED vars
  BY <1>2 DEF vars, ingestion, redis, Promise!vars
<1>3. ASSUME NEW j \in Jobs, NEW t \in Tenants, Write(j, t) PROVE Promise!Next
  <2>1. Unsettled' = Unsettled \cup {t} /\ list' = list /\ served' = None
    <3>1. list' = list /\ served' = None
      BY <1>3 DEF Write, redis
    <3>2. owes'[t] # {} /\ \A u \in Tenants \ {t} : owes'[u] = owes[u]
      BY <1>3 DEF Write, TypeInv, TypeOK
    <3>3. QED
      BY <3>1, <3>2 DEF Unsettled
  <2>2. Promise!Change(t)
    BY <2>1 DEF Promise!Change, Unsettled
  <2>3. QED
    BY <2>2 DEF Promise!Next
<1>4. ASSUME NEW j \in Jobs, JobFails(j) PROVE Promise!Next
  BY <1>4, Forgets DEF JobFails, redis
<1>5. ASSUME NEW j \in Jobs, Invalidate(j) PROVE Promise!Next
  <2>1. PICK t \in Tenants : t = jobs[j]
    BY <1>5 DEF Invalidate, TypeInv, TypeOK
  <2>2. Unsettled' = Unsettled \ {t} /\ served' = None
    BY <1>5, <2>1 DEF Invalidate, Unsettled, TypeInv, TypeOK
  <2>3. list' = [list EXCEPT ![t] = <<>>]
    BY <1>5, <2>1 DEF Invalidate, Deleted
  <2>4. Kept' = [Kept EXCEPT ![t] = {}]
    BY <2>1, <2>3, EmptyList DEF Kept, TypeInv, TypeOK
  <2>5. Promise!Settle(t)
    BY <2>2, <2>4 DEF Promise!Settle, Kept, Unsettled
  <2>6. QED
    BY <2>1, <2>5 DEF Promise!Next
<1>6. ASSUME NEW c \in Conversations, Hit(c) PROVE Promise!Next
  <2> DEFINE t == TenantOf[c]
             q == turn[c].question
             entries == list[t]
  <2>1. PICK i \in DOMAIN entries :
          /\ IsBest(i, q, entries)
          /\ served' = [tenant |-> t, question |-> q, answer |-> entries[i]]
    BY <1>6 DEF Hit
  <2>2. t \in Tenants /\ q \in Questions /\ entries \in Seq(Entry)
    BY <1>1, <1>6 DEF Hit, TypeInv, TypeOK, Asked
  <2>3. entries[i] \in Entry /\ entries[i] \in ToSet(entries)
    BY <2>2, ListElements
  <2>4. <<q, entries[i].question>> \in {p \in Questions \X Questions : Similarity[p] >= Threshold}
    <3>1. entries[i].question \in Questions
      BY <2>3 DEF Entry
    <3>2. Similarity[<<q, entries[i].question>>] >= Threshold
      BY <2>1 DEF IsBest, NearEnough
    <3>3. QED
      BY <2>2, <3>1, <3>2
  <2>5. list' = list /\ owes' = owes
    BY <1>6 DEF Hit, ingestion, redis
  <2>6. Promise!Serve(t)
    BY <2>1, <2>2, <2>3, <2>4, <2>5 DEF Promise!Serve
  <2>7. QED
    BY <2>2, <2>6 DEF Promise!Next
<1>7. ASSUME NEW c \in Conversations,
             Miss(c) \/ Answer(c) \/ ToolCall(c) \/ Break(c) \/ \E q \in Asks[c] : Begin(c, q)
      PROVE  Promise!Next
  BY <1>7, Forgets DEF Miss, Answer, ToolCall, Break, Begin, ingestion, redis
<1>8. ASSUME NEW c \in Conversations, Push(c) PROVE Promise!Next
  <2> DEFINE t == TenantOf[c]
  <2>1. EntryOf(c) \in Entry /\ t \in Tenants /\ list[t] \in Seq(Entry)
    BY <1>1, <1>8 DEF TypeInv, TypeOK, Asked, Push, EntryOf, Entry, Turn
  <2>2. list' = [list EXCEPT ![t] = <<EntryOf(c)>> \o @]
    BY <1>8 DEF Push, Pushed
  <2>3. ToSet(<<EntryOf(c)>> \o list[t]) = ToSet(list[t]) \cup {EntryOf(c)}
    BY <2>1, PushedList
  <2>4. Kept' = [Kept EXCEPT ![t] = @ \cup {EntryOf(c)}]
    BY <2>1, <2>2, <2>3 DEF Kept, TypeInv, TypeOK
  <2>5. owes' = owes /\ served' = None
    BY <1>8 DEF Push, ingestion
  <2>6. Promise!Learn(t)
    BY <2>1, <2>4, <2>5 DEF Promise!Learn, Kept
  <2>7. QED
    BY <2>1, <2>6 DEF Promise!Next
<1>9. ASSUME NEW c \in Conversations, Trim(c) PROVE Promise!Next
  <2>1. \A t \in Tenants : ToSet(list'[t]) \subseteq ToSet(list[t])
    <3>1. \A t \in Tenants : list[t] \in Seq(Entry) /\ list'[t] \in {list[t], FirstEntries(list[t])}
      BY <1>1, <1>9 DEF Trim, TypeInv, TypeOK
    <3>2. QED
      BY <3>1, TrimmedList
  <2>2. QED
    BY <1>9, <2>1, Forgets DEF Trim, ingestion
<1>10. ASSUME NEW c \in Conversations, Expire(c) PROVE Promise!Next
  BY <1>10, Forgets DEF Expire, ingestion
<1>11. CASE Tick
  <2>1. \A t \in Tenants : ToSet(list'[t]) \subseteq ToSet(list[t])
    BY <1>11, EmptyList DEF Tick
  <2>2. QED
    BY <1>11, <2>1, Forgets DEF Tick, ingestion
<1>12. QED
  BY <1>2, <1>3, <1>4, <1>5, <1>6, <1>7, <1>8, <1>9, <1>10, <1>11 DEF Next, Proceed

(* Pushed, trimmed, expired, cut short or deleted, the list of entries     *)
(* implements the cache that serves only what it learnt for the tenant and *)
(* the question, and settles a change only by forgetting every answer.     *)
THEOREM PromiseKept == Spec => KeepsPromise
BY InitType, StepType, InitKeeps, StepKeeps, PTL DEF Spec, KeepsPromise, Promise!Spec

=============================================================================
