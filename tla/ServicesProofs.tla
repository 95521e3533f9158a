--------------------------- MODULE ServicesProofs ---------------------------
(***************************************************************************)
(* Proofs about the services of MCServices, for every value of their       *)
(* constants.                                                              *)
(***************************************************************************)
EXTENDS MCServices, Sequences, Lemmas

-----------------------------------------------------------------------------
(* The capped counter.                                                     *)
LEMMA Capped ==
  ASSUME C!RateLimitAssumption, NEW n \in Nat
  PROVE  /\ C!Min({n + 1, MaxCount}) \in Nat
         /\ C!Min({n + 1, MaxCount}) > 0
         /\ C!Min({n + 1, MaxCount}) = 1 <=> n = 0
<1>1. MaxCount \in Nat /\ MaxCount > 1
  BY DEF C!RateLimitAssumption
<1>2. \E x \in {n + 1, MaxCount} : \A y \in {n + 1, MaxCount} : x <= y
  BY <1>1
<1>3. C!Min({n + 1, MaxCount}) \in {n + 1, MaxCount}
      /\ \A y \in {n + 1, MaxCount} : C!Min({n + 1, MaxCount}) <= y
  BY <1>2 DEF C!Min
<1>4. CASE n = 0
  BY <1>1, <1>3, <1>4
<1>5. CASE n # 0
  BY <1>1, <1>3, <1>5
<1>6. QED
  BY <1>4, <1>5

LEMMA LimiterInit == ASSUME C!RateLimitAssumption PROVE C!Init => C!TypeOK
<1> SUFFICES ASSUME C!Init PROVE C!TypeOK
  OBVIOUS
<1>1. orphaned \in BOOLEAN
  BY DEF C!Init
<1>2. /\ counter \in Nat /\ ttl \in 0 .. Window /\ failures \in 0 .. MaxFailures
      /\ promised \in 0 .. Window \cup {None}
  BY DEF C!Init, C!RateLimitAssumption
<1>3. /\ pc \in [Callers -> {"idle", "expire", "judge"}] /\ count \in [Callers -> Nat]
      /\ admitted \in [0 .. Window - 1 -> Nat]
  BY DEF C!Init
<1>4. QED
  BY <1>1, <1>2, <1>3 DEF C!TypeOK

LEMMA LimiterStep == ASSUME C!RateLimitAssumption
                     PROVE C!TypeOK /\ [C!Next]_C!vars => C!TypeOK'
<1> SUFFICES ASSUME C!TypeOK, [C!Next]_C!vars PROVE C!TypeOK'
  OBVIOUS
<1>1. CASE UNCHANGED C!vars
  BY <1>1 DEF C!TypeOK, C!vars, C!redis
<1>2. ASSUME NEW c \in Callers, C!Incr(c) PROVE C!TypeOK'
  <2>1. counter' \in Nat
    BY <1>2, Capped DEF C!Incr, C!TypeOK
  <2>2. admitted' \in [0 .. Window - 1 -> Nat]
    <3>1. 0 \in 0 .. Window - 1
      BY DEF C!RateLimitAssumption
    <3>2. QED
      BY <1>2, <3>1 DEF C!Incr, C!TypeOK
  <2>3. QED
    BY <1>2, <2>1, <2>2 DEF C!Incr, C!Goto, C!TypeOK
<1>3. ASSUME NEW c \in Callers, C!Expire(c) PROVE C!TypeOK'
  BY <1>3 DEF C!Expire, C!Goto, C!TypeOK, C!RateLimitAssumption
<1>4. ASSUME NEW c \in Callers, C!Allow(c) \/ C!Refuse(c) PROVE C!TypeOK'
  <2>1. pc' \in [Callers -> {"idle", "expire", "judge"}]
    BY <1>4 DEF C!Allow, C!Refuse, C!Goto, C!TypeOK
  <2>2. promised' \in 0 .. Window \cup {None}
    BY <1>4 DEF C!Allow, C!Refuse, C!RetryAfter, C!TypeOK, C!RateLimitAssumption
  <2>3. UNCHANGED <<counter, ttl, count, admitted, orphaned, failures>>
    BY <1>4 DEF C!Allow, C!Refuse, C!redis
  <2>4. QED
    BY <2>1, <2>2, <2>3 DEF C!TypeOK
<1>5. ASSUME NEW c \in Callers, C!Fails(c) PROVE C!TypeOK'
  BY <1>5 DEF C!Fails, C!Goto, C!redis, C!TypeOK, C!RateLimitAssumption
<1>6. CASE C!Tick
  <2>1. admitted' \in [0 .. Window - 1 -> Nat]
    <3>1. \A n \in 0 .. Window - 1 : n # 0 => n - 1 \in 0 .. Window - 1
      BY DEF C!RateLimitAssumption
    <3>2. QED
      BY <1>6, <3>1 DEF C!Tick, C!TypeOK
  <2>2. promised' \in 0 .. Window \cup {None}
    BY <1>6 DEF C!Tick, C!TypeOK, C!RateLimitAssumption
  <2>3. QED
    BY <1>6, <2>1, <2>2 DEF C!Tick, C!TypeOK, C!RateLimitAssumption
<1>7. QED
  BY <1>1, <1>2, <1>3, <1>4, <1>5, <1>6 DEF C!Next, C!Proceed

(* Every variable has its type.                                            *)
THEOREM LimiterTypes == C!RateLimitAssumption /\ C!Spec => []C!TypeOK
<1> SUFFICES ASSUME C!RateLimitAssumption PROVE C!Spec => []C!TypeOK
  OBVIOUS
<1>1. QED
  BY LimiterInit, LimiterStep, PTL DEF C!Spec

(* A counter has one caller that owes it its expiry at most; it has none   *)
(* until that caller pays, and nobody has been told how long it will last. *)
Owed ==
  /\ counter = 0 => ttl = 0
  /\ \A c \in Callers : pc[c] = "expire" => counter > 0 /\ ttl = 0
  /\ \A c, d \in Callers : pc[c] = "expire" /\ pc[d] = "expire" => c = d

LEMMA StepOwed ==
  ASSUME C!RateLimitAssumption
  PROVE  C!TypeOK /\ Owed /\ C!RetryAfterSuffices /\ [C!Next]_C!vars
         => Owed' /\ C!RetryAfterSuffices'
<1> SUFFICES ASSUME C!TypeOK, Owed, C!RetryAfterSuffices, [C!Next]_C!vars
             PROVE  Owed' /\ C!RetryAfterSuffices'
  OBVIOUS
<1>1. CASE UNCHANGED C!vars
  BY <1>1 DEF Owed, C!RetryAfterSuffices, C!vars, C!redis
<1>2. ASSUME NEW c \in Callers, C!Incr(c) PROVE Owed' /\ C!RetryAfterSuffices'
  <2>1. counter' > 0 /\ (counter' = 1 <=> counter = 0) /\ counter \in Nat
    BY <1>2, Capped DEF C!Incr, C!TypeOK
  <2>2. pc'[c] = (IF counter' = 1 THEN "expire" ELSE "judge")
        /\ ttl' = ttl /\ promised' = promised
        /\ \A d \in Callers \ {c} : pc'[d] = pc[d]
    BY <1>2 DEF C!Incr, C!SetsExpiry, C!Goto, C!TypeOK
  <2>3. QED
    BY <2>1, <2>2 DEF Owed, C!RetryAfterSuffices
<1>3. ASSUME NEW c \in Callers, C!Expire(c) PROVE Owed' /\ C!RetryAfterSuffices'
  <2>1. counter > 0 /\ ttl = 0 /\ promised = None /\ ttl' = Window /\ Window > 0
    BY <1>3 DEF C!Expire, Owed, C!RetryAfterSuffices, C!RateLimitAssumption
  <2>2. \A d \in Callers : pc'[d] # "expire"
    BY <1>3 DEF C!Expire, C!Goto, Owed, C!TypeOK
  <2>3. QED
    BY <1>3, <2>1, <2>2 DEF C!Expire, Owed, C!RetryAfterSuffices
<1>4. ASSUME NEW c \in Callers, C!Allow(c) \/ C!Refuse(c) \/ C!Fails(c)
      PROVE  Owed' /\ C!RetryAfterSuffices'
  <2>1. /\ UNCHANGED C!redis
        /\ pc'[c] = "idle" /\ \A d \in Callers \ {c} : pc'[d] = pc[d]
    BY <1>4 DEF C!Allow, C!Refuse, C!Fails, C!Goto, C!TypeOK
  <2>2. Owed'
    BY <2>1 DEF Owed, C!redis
  <2>3. promised' = promised \/ (ttl > 0 /\ promised' = ttl)
    BY <1>4 DEF C!Allow, C!Refuse, C!Fails, C!RetryAfter, C!TypeOK
  <2>4. QED
    BY <2>1, <2>2, <2>3 DEF C!RetryAfterSuffices, C!redis, C!TypeOK, C!RateLimitAssumption
<1>5. CASE C!Tick
  BY <1>5 DEF C!Tick, Owed, C!RetryAfterSuffices, C!TypeOK, C!RateLimitAssumption
<1>6. QED
  BY <1>1, <1>2, <1>3, <1>4, <1>5 DEF C!Next, C!Proceed

(* A caller that waits as long as its 429 said finds the counter that      *)
(* refused it gone, whenever the EXPIRE came.                              *)
THEOREM RetryAfterIsLongEnough == C!RateLimitAssumption /\ C!Spec => []C!RetryAfterSuffices
<1> SUFFICES ASSUME C!RateLimitAssumption PROVE C!Spec => []C!RetryAfterSuffices
  OBVIOUS
<1>1. C!Init => Owed /\ C!RetryAfterSuffices
  BY DEF C!Init, Owed, C!RetryAfterSuffices
<1>2. QED
  BY <1>1, LimiterInit, LimiterStep, StepOwed, PTL DEF C!Spec
-----------------------------------------------------------------------------
(* Twice the limit.  What passed in the last Window ticks was counted by   *)
(* the counter that is there or by the one before it; those of the latter  *)
(* leave the window while the former's TTL runs down.                      *)
Span == 0 .. Window - 1

CountedBy(cur, prev) ==
  /\ cur \in [Span -> Nat] /\ prev \in [Span -> Nat]
  /\ \A n \in Span : admitted[n] = cur[n] + prev[n]
  /\ SumOver(cur, Span) <= counter /\ SumOver(cur, Span) <= Limit
  /\ SumOver(prev, Span) <= Limit
  /\ ttl > 0 => \A n \in Span : n < Window - ttl => prev[n] = 0

TwoCounters == \E cur \in [Span -> Nat], prev \in [Span -> Nat] : CountedBy(cur, prev)

LEMMA SpanSums ==
  ASSUME C!RateLimitAssumption
  PROVE  /\ IsFiniteSet(Span) /\ 0 \in Span
         /\ \A f \in [Span -> Nat] : SumOver(f, Span) \in Nat
<1>1. IsFiniteSet(Span) /\ 0 \in Span
  BY FS_Interval DEF C!RateLimitAssumption, Span
<1>2. ASSUME NEW f \in [Span -> Nat] PROVE SumOver(f, Span) \in Nat
  <2>1. \A n \in Span : f[n] \in Nat
    OBVIOUS
  <2>2. QED
    BY <1>1, <2>1, SumNat
<1>3. QED
  BY <1>1, <1>2

LEMMA InitTwice == ASSUME C!RateLimitAssumption PROVE C!Init => TwoCounters
<1> SUFFICES ASSUME C!Init PROVE TwoCounters
  OBVIOUS
<1> DEFINE none == [n \in Span |-> 0]
<1>1. none \in [Span -> Nat] /\ \A n \in Span : none[n] \in 0 .. 0
  OBVIOUS
<1>2. SumOver(none, Span) = 0
  <2>1. SumOver(none, Span) \in Nat /\ SumOver(none, Span) <= 0 * Cardinality(Span)
    BY <1>1, SpanSums, SumBound
  <2>2. Cardinality(Span) \in Nat
    BY SpanSums, FS_CardinalityType
  <2>3. QED
    BY <2>1, <2>2
<1>3. \A n \in Span : admitted[n] = none[n] + none[n] /\ none[n] = 0
  BY DEF C!Init, Span
<1>4. counter = 0 /\ ttl = 0 /\ Limit \in Nat
  BY DEF C!Init, C!RateLimitAssumption
<1> HIDE DEF none
<1>5. CountedBy(none, none)
  BY <1>1, <1>2, <1>3, <1>4 DEF CountedBy
<1>6. QED
  BY <1>1, <1>5 DEF TwoCounters

(* A request that passes is counted by the counter that is there.          *)
LEMMA IncrTwice ==
  ASSUME C!RateLimitAssumption, C!TypeOK, TwoCounters, NEW c \in Callers, C!Incr(c)
  PROVE  TwoCounters'
<1>1. PICK cur \in [Span -> Nat], prev \in [Span -> Nat] : CountedBy(cur, prev)
  BY DEF TwoCounters
<1>2. counter \in Nat /\ MaxCount \in Nat /\ Limit \in Nat /\ MaxCount > Limit + 1
      /\ admitted \in [Span -> Nat]
  BY DEF C!TypeOK, C!RateLimitAssumption, Span
<1>3. counter' = counter + 1 \/ counter' = MaxCount
  <2>1. \E x \in {counter + 1, MaxCount} : \A y \in {counter + 1, MaxCount} : x <= y
    BY <1>2
  <2>2. QED
    BY <2>1 DEF C!Incr, C!Min
<1>4. CASE C!Allows(counter')
  <2> DEFINE more == [cur EXCEPT ![0] = @ + 1]
  <2>1. counter' = counter + 1 /\ counter' <= Limit
    BY <1>2, <1>3, <1>4 DEF C!Allows
  <2>2. more \in [Span -> Nat]
        /\ more[0] = cur[0] + 1 /\ \A n \in Span \ {0} : more[n] = cur[n]
    BY SpanSums
  <2>3. SumOver(more, Span) = SumOver(cur, Span) + 1
    <3> HIDE DEF more
    <3>1. \A n \in Span : cur[n] \in Int /\ more[n] \in Int
      BY <2>2
    <3>2. SumOver(more, Span) = SumOver(cur, Span) + more[0] - cur[0]
      BY <2>2, <3>1, SpanSums, SumChange
    <3>3. SumOver(cur, Span) \in Nat /\ cur[0] \in Nat
      BY SpanSums
    <3>4. QED
      BY <2>2, <3>2, <3>3
  <2>4. \A n \in Span : admitted'[n] = more[n] + prev[n]
    <3>1. admitted' = [admitted EXCEPT ![0] = @ + 1]
      BY <1>4 DEF C!Incr
    <3>2. \A n \in Span : cur[n] \in Nat /\ prev[n] \in Nat
            /\ admitted[n] = cur[n] + prev[n]
      BY <1>1 DEF CountedBy
    <3>3. QED
      BY <1>2, <2>2, <3>1, <3>2
  <2>5. SumOver(cur, Span) \in Nat /\ SumOver(cur, Span) <= counter
        /\ SumOver(prev, Span) <= Limit
    BY <1>1, SpanSums DEF CountedBy
  <2>6. ttl' = ttl
    BY DEF C!Incr
  <2> HIDE DEF more
  <2>7. CountedBy(more, prev)'
    BY <1>1, <1>2, <2>1, <2>2, <2>3, <2>4, <2>5, <2>6 DEF CountedBy
  <2>8. QED
    BY <2>2, <2>7 DEF TwoCounters
<1>5. CASE ~ C!Allows(counter')
  <2>1. counter' > Limit /\ counter' \in Nat
    BY <1>2, <1>3, <1>5 DEF C!Allows
  <2>2. \A n \in Span : admitted'[n] = admitted[n]
    BY <1>2, <1>5, SpanSums DEF C!Incr
  <2>3. SumOver(cur, Span) \in Nat
    BY SpanSums
  <2>4. ttl' = ttl
    BY DEF C!Incr
  <2>5. SumOver(cur, Span) <= counter'
    BY <1>1, <1>2, <2>1, <2>3 DEF CountedBy
  <2>6. CountedBy(cur, prev)'
    BY <1>1, <2>2, <2>4, <2>5 DEF CountedBy
  <2>7. QED
    BY <2>6 DEF TwoCounters
<1>6. QED
  BY <1>4, <1>5

(* When the counter goes, the one before it has left the window.           *)
LEMMA TickTwice ==
  ASSUME C!RateLimitAssumption, C!TypeOK, TwoCounters, C!Tick
  PROVE  TwoCounters'
<1>1. PICK cur \in [Span -> Nat], prev \in [Span -> Nat] : CountedBy(cur, prev)
  BY DEF TwoCounters
<1> DEFINE Aged(f) == [n \in Span |-> IF n = 0 THEN 0 ELSE f[n - 1]]
           none == [n \in Span |-> 0]
<1>2. /\ Window \in Nat \ {0} /\ Limit \in Nat /\ ttl \in 0 .. Window /\ counter \in Nat
      /\ \A n \in Span : n # 0 => n - 1 \in Span /\ n - 1 < n
      /\ \A n \in Span : n \in Nat /\ n <= Window - 1
  BY DEF C!TypeOK, C!RateLimitAssumption, Span
<1>3. ASSUME NEW f \in [Span -> Nat]
      PROVE  Aged(f) \in [Span -> Nat] /\ SumOver(Aged(f), Span) <= SumOver(f, Span)
  <2>1. Aged(f) \in [Span -> Nat]
    BY <1>2
  <2>2. \A n \in Span : Aged(f)[n] = IF n = 0 THEN 0 ELSE f[n - 1]
    OBVIOUS
  <2> HIDE DEF Aged
  <2>3. QED
    BY <1>2, <2>1, <2>2, SumShift DEF Span
<1>4. \A n \in Span : admitted'[n] = Aged(cur)[n] + Aged(prev)[n]
  <2>1. admitted' = [n \in Span |-> IF n = 0 THEN 0 ELSE admitted[n - 1]]
    BY DEF C!Tick, Span
  <2>2. \A n \in Span : admitted[n] = cur[n] + prev[n]
    BY <1>1 DEF CountedBy
  <2>3. QED
    BY <1>2, <2>1, <2>2
<1>5. /\ SumOver(cur, Span) \in Nat /\ SumOver(prev, Span) \in Nat
      /\ SumOver(Aged(cur), Span) \in Nat /\ SumOver(Aged(prev), Span) \in Nat
      /\ SumOver(Aged(cur), Span) <= SumOver(cur, Span)
      /\ SumOver(Aged(prev), Span) <= SumOver(prev, Span)
  BY <1>3, SpanSums
<1>6. /\ SumOver(cur, Span) <= counter /\ SumOver(cur, Span) <= Limit
      /\ SumOver(prev, Span) <= Limit
      /\ ttl > 0 => \A n \in Span : n < Window - ttl => prev[n] = 0
  BY <1>1 DEF CountedBy
<1>7. CASE ttl = 1
  <2>1. counter' = 0 /\ ttl' = 0
    BY <1>7 DEF C!Tick
  <2>2. \A n \in Span : Aged(prev)[n] = 0
    BY <1>2, <1>6, <1>7
  <2>3. none \in [Span -> Nat] /\ \A n \in Span : none[n] = 0
    OBVIOUS
  <2>4. SumOver(none, Span) = SumOver(Aged(prev), Span)
    <3>1. \A n \in Span : none[n] = Aged(prev)[n] /\ none[n] \in Int
      BY <2>2, <2>3
    <3> HIDE DEF none, Aged
    <3>2. QED
      BY <3>1, SpanSums, SumEqual
  <2>5. SumOver(none, Span) = 0
    <3>1. \A n \in Span : none[n] \in 0 .. 0
      OBVIOUS
    <3> HIDE DEF none
    <3>2. SumOver(none, Span) \in Nat /\ SumOver(none, Span) <= 0 * Cardinality(Span)
      BY <3>1, SpanSums, SumBound
    <3>3. Cardinality(Span) \in Nat
      BY SpanSums, FS_CardinalityType
    <3>4. QED
      BY <3>2, <3>3
  <2>6. Aged(cur) \in [Span -> Nat] /\ \A n \in Span : Aged(cur)[n] \in Nat
    BY <1>3
  <2>7. \A n \in Span : admitted'[n] = none[n] + Aged(cur)[n]
    <3>1. \A n \in Span : admitted'[n] = Aged(cur)[n] + Aged(prev)[n]
      BY <1>4
    <3> HIDE DEF none, Aged
    <3>2. QED
      BY <2>2, <2>3, <2>6, <3>1
  <2> HIDE DEF none, Aged
  <2>8. CountedBy(none, Aged(cur))'
    BY <1>2, <1>5, <1>6, <2>1, <2>3, <2>5, <2>6, <2>7 DEF CountedBy
  <2>9. QED
    BY <2>3, <2>6, <2>8 DEF TwoCounters
<1>8. CASE ttl # 1
  <2>1. counter' = counter /\ ttl' = IF ttl = 0 THEN 0 ELSE ttl - 1
    BY <1>8 DEF C!Tick
  <2>2. ttl' > 0 => \A n \in Span : n < Window - ttl' => Aged(prev)[n] = 0
    BY <1>2, <1>6, <1>8, <2>1
  <2>3. Aged(cur) \in [Span -> Nat] /\ Aged(prev) \in [Span -> Nat]
    BY <1>3
  <2>4. \A n \in Span : admitted'[n] = Aged(cur)[n] + Aged(prev)[n]
    BY <1>4
  <2> HIDE DEF Aged
  <2>5. CountedBy(Aged(cur), Aged(prev))'
    BY <1>2, <1>5, <1>6, <2>1, <2>2, <2>3, <2>4 DEF CountedBy
  <2>6. QED
    BY <2>3, <2>5 DEF TwoCounters
<1>9. QED
  BY <1>7, <1>8

LEMMA StepTwice ==
  ASSUME C!RateLimitAssumption
  PROVE  C!TypeOK /\ TwoCounters /\ [C!Next]_C!vars => TwoCounters'
<1> SUFFICES ASSUME C!TypeOK, TwoCounters, [C!Next]_C!vars PROVE TwoCounters'
  OBVIOUS
<1>1. CASE UNCHANGED <<counter, ttl, admitted>>
  BY <1>1 DEF TwoCounters, CountedBy
<1>2. ASSUME NEW c \in Callers, C!Expire(c) PROVE TwoCounters'
  <2>1. PICK cur \in [Span -> Nat], prev \in [Span -> Nat] : CountedBy(cur, prev)
    BY DEF TwoCounters
  <2>2. counter' = counter /\ admitted' = admitted
        /\ (ttl' = 0 \/ ttl' = Window)
    BY <1>2 DEF C!Expire
  <2>3. \A n \in Span : ~(n < Window - Window)
    BY DEF Span, C!RateLimitAssumption
  <2>4. CountedBy(cur, prev)'
    BY <2>1, <2>2, <2>3 DEF CountedBy
  <2>5. QED
    BY <2>4 DEF TwoCounters
<1>3. ASSUME NEW c \in Callers, C!Allow(c) \/ C!Refuse(c) \/ C!Fails(c)
      PROVE  UNCHANGED <<counter, ttl, admitted>>
  BY <1>3 DEF C!Allow, C!Refuse, C!Fails, C!redis
<1>4. QED
  BY <1>1, <1>2, <1>3, IncrTwice, TickTwice DEF C!Next, C!Proceed, C!vars, C!redis

(* Of the requests counted in any span of Window ticks at most twice the   *)
(* limit passes, however late EXPIRE follows INCR and whichever calls      *)
(* fail.                                                                   *)
THEOREM BurstsBounded == C!RateLimitAssumption /\ C!Spec => []TwiceTheLimitAtMost
<1> SUFFICES ASSUME C!RateLimitAssumption PROVE C!Spec => []TwiceTheLimitAtMost
  OBVIOUS
<1>1. TwoCounters => TwiceTheLimitAtMost
  <2> SUFFICES ASSUME TwoCounters PROVE TwiceTheLimitAtMost
    OBVIOUS
  <2>1. PICK cur \in [Span -> Nat], prev \in [Span -> Nat] : CountedBy(cur, prev)
    BY DEF TwoCounters
  <2>2. SumOver(admitted, Span) = SumOver(cur, Span) + SumOver(prev, Span)
    <3>1. \A n \in Span : cur[n] \in Int /\ prev[n] \in Int
            /\ admitted[n] = cur[n] + prev[n]
      BY <2>1 DEF CountedBy
    <3>2. QED
      BY <3>1, SpanSums, SumPlus
  <2>3. SumOver(admitted, Span) <= 2 * Limit
    <3>1. SumOver(cur, Span) \in Nat /\ SumOver(prev, Span) \in Nat /\ Limit \in Nat
      BY SpanSums DEF C!RateLimitAssumption
    <3>2. SumOver(cur, Span) <= Limit /\ SumOver(prev, Span) <= Limit
      BY <2>1 DEF CountedBy
    <3>3. QED
      BY <2>2, <3>1, <3>2
  <2>4. QED
    BY <2>3 DEF TwiceTheLimitAtMost, C!TwiceTheLimitAtMost, C!MapThenSumSet, C!MapThenFoldSet,
                SumOver, MapThenSumSet, MapThenFoldSet, Span
<1>2. QED
  BY <1>1, LimiterInit, LimiterStep, InitTwice, StepTwice, PTL DEF C!Spec

-----------------------------------------------------------------------------
(* The files that are read again when their mtime changes.                 *)

Times == Nat \cup {None}

ReloadTypes ==
  /\ writes \in Nat /\ clock \in Nat
  /\ file \in Nat \cup {None, Torn} /\ mtime \in Times /\ changed \in Times
  /\ shared \in BOOLEAN
  /\ step \in [F!Readers -> {"new", "stat_after", "idle", "load"}]
  /\ stat \in [F!Readers -> Times] /\ seen \in [F!Readers -> Times]
  /\ holds \in [F!Readers -> Nat \cup {None}]
  /\ checked \in [F!Readers -> BOOLEAN] /\ gap \in [F!Readers -> BOOLEAN]

LEMMA ReloadInit == ASSUME F!FileReloadAssumption PROVE F!Init => ReloadTypes
<1> SUFFICES ASSUME F!Init PROVE ReloadTypes
  OBVIOUS
<1>1. checked \in [F!Readers -> BOOLEAN] /\ gap \in [F!Readers -> BOOLEAN] /\ shared \in BOOLEAN
  BY DEF F!Init
<1>2. step \in [F!Readers -> {"new", "stat_after", "idle", "load"}]
  BY DEF F!Init
<1>3. QED
  BY <1>1, <1>2 DEF F!Init, ReloadTypes, Times

LEMMA ReloadStep ==
  ASSUME F!FileReloadAssumption PROVE ReloadTypes /\ [F!Next]_(F!vars) => ReloadTypes'
<1> SUFFICES ASSUME ReloadTypes, [F!Next]_(F!vars) PROVE ReloadTypes'
  OBVIOUS
<1>1. CASE UNCHANGED F!vars
  BY <1>1 DEF ReloadTypes, F!vars, F!disk
<1>2. CASE F!BeginWrite \/ F!EndWrite \/ F!Delete
  <2>1. checked' \in [F!Readers -> BOOLEAN] /\ gap' \in [F!Readers -> BOOLEAN]
          /\ shared' \in BOOLEAN
    BY <1>2, Zenon DEF F!BeginWrite, F!EndWrite, F!Delete, F!Becomes
  <2>2. QED
    BY <1>2, <2>1 DEF F!BeginWrite, F!EndWrite, F!Delete, F!Becomes, ReloadTypes, Times
<1>3. CASE F!Tick
  BY <1>3 DEF F!Tick, F!disk, ReloadTypes, Times
<1>4. ASSUME NEW r \in F!Readers, F!Construct(r) \/ F!StatAfter(r) PROVE ReloadTypes'
  BY <1>4 DEF F!Construct, F!StatAfter, F!Loaded, F!Goto, F!disk, ReloadTypes, Times
<1>5. ASSUME NEW r \in F!Readers, F!Stat(r) \/ F!Forget(r) PROVE ReloadTypes'
  <2>1. checked' \in [F!Readers -> BOOLEAN]
    BY <1>5, Zenon DEF F!Stat, F!Forget, F!Serve, ReloadTypes
  <2>2. step' \in [F!Readers -> {"new", "stat_after", "idle", "load"}]
    BY <1>5 DEF F!Stat, F!Forget, F!Serve, F!Goto, ReloadTypes
  <2>3. stat' \in [F!Readers -> Times] /\ seen' \in [F!Readers -> Times]
        /\ holds' \in [F!Readers -> Nat \cup {None}] /\ UNCHANGED <<F!disk, clock, gap>>
    BY <1>5 DEF F!Stat, F!Forget, ReloadTypes, Times
  <2>4. QED
    BY <2>1, <2>2, <2>3 DEF ReloadTypes, F!disk
<1>6. ASSUME NEW r \in F!Readers, F!Load(r) \/ F!LoadRaises(r) PROVE ReloadTypes'
  <2>1. checked' \in [F!Readers -> BOOLEAN] /\ gap' \in [F!Readers -> BOOLEAN]
    BY <1>6, Zenon DEF F!Load, F!LoadRaises, ReloadTypes
  <2>2. step' \in [F!Readers -> {"new", "stat_after", "idle", "load"}]
    BY <1>6 DEF F!Load, F!LoadRaises, F!Goto, ReloadTypes
  <2>3. /\ seen' \in [F!Readers -> Times] /\ holds' \in [F!Readers -> Nat \cup {None}]
        /\ UNCHANGED <<F!disk, clock, stat>>
    BY <1>6 DEF F!Load, F!LoadRaises, F!Loaded, ReloadTypes, Times
  <2>4. QED
    BY <2>1, <2>2, <2>3 DEF ReloadTypes, F!disk
<1>7. QED
  BY <1>1, <1>2, <1>3, <1>4, <1>5, <1>6 DEF F!Next

(* No mtime is later than the last change, which is the file's own.        *)
Past(t) == t \in Nat => changed \in Nat /\ t <= changed

TimesInv ==
  /\ changed \in Nat => changed <= clock
  /\ mtime = IF file = None THEN None ELSE changed
  /\ file # None => changed \in Nat
  /\ \A r \in F!Readers : Past(stat[r]) /\ Past(seen[r])

LEMMA StepTimes ==
  ASSUME F!FileReloadAssumption
  PROVE  ReloadTypes /\ TimesInv /\ [F!Next]_(F!vars) => TimesInv'
<1> SUFFICES ASSUME ReloadTypes, TimesInv, [F!Next]_(F!vars) PROVE TimesInv'
  OBVIOUS
<1>1. CASE UNCHANGED F!vars
  BY <1>1 DEF TimesInv, Past, F!vars, F!disk
<1>2. ASSUME NEW v \in Nat \cup {None, Torn}, F!Becomes(v), UNCHANGED <<clock, stat, seen>>
      PROVE  TimesInv'
  BY <1>2 DEF F!Becomes, ReloadTypes, Times, TimesInv, Past, F!FileReloadAssumption
<1>3. CASE F!BeginWrite \/ F!EndWrite \/ F!Delete
  BY <1>2, <1>3 DEF F!BeginWrite, F!EndWrite, F!Delete, ReloadTypes
<1>4. CASE F!Tick
  BY <1>4 DEF F!Tick, F!disk, ReloadTypes, TimesInv, Past
<1>5. Past(mtime)
  BY DEF TimesInv, ReloadTypes, Times, Past, F!FileReloadAssumption
<1>6. ASSUME NEW r \in F!Readers,
             \/ F!Construct(r) \/ F!StatAfter(r) \/ F!Stat(r) \/ F!Forget(r) \/ F!Load(r)
             \/ F!LoadRaises(r)
      PROVE  TimesInv'
  <2>1. UNCHANGED <<F!disk, clock>>
    BY <1>6 DEF F!Construct, F!StatAfter, F!Stat, F!Forget, F!Load, F!LoadRaises
  <2>2. \A q \in F!Readers :
          stat'[q] \in {stat[q], mtime} /\ seen'[q] \in {seen[q], stat[q], mtime, None}
    BY <1>6 DEF F!Construct, F!StatAfter, F!Stat, F!Forget, F!Load, F!LoadRaises, ReloadTypes
  <2>3. ~ (None \in Nat)
    BY DEF F!FileReloadAssumption
  <2>4. QED
    BY <1>5, <2>1, <2>2, <2>3 DEF TimesInv, Past, F!disk
<1>7. QED
  BY <1>1, <1>3, <1>4, <1>6 DEF F!Next

(* A reader whose mtime is the file's holds what the file says; one whose  *)
(* mtime is that of a missing file holds nothing, whatever came since.     *)
Fresh(r) ==
  /\ step[r] = "new" => holds[r] = None /\ seen[r] = None
  /\ step[r] \in {"new", "stat_after"} => ~ checked[r]
  /\ ~ gap[r] /\ step[r] = "stat_after" => holds[r] = F!Loaded
  /\ ~ gap[r] /\ step[r] # "stat_after" /\ seen[r] = None => holds[r] = None
  /\ ~ gap[r] /\ ~ shared /\ step[r] \in {"idle", "load"} /\ seen[r] = mtime
      => holds[r] = F!Loaded
  /\ checked[r] => seen[r] = mtime

FreshInv == \A r \in F!Readers : Fresh(r)

LEMMA StepFresh ==
  ASSUME F!FileReloadAssumption
  PROVE  ReloadTypes /\ TimesInv /\ FreshInv /\ [F!Next]_(F!vars) => FreshInv'
<1> SUFFICES ASSUME ReloadTypes, TimesInv, FreshInv, [F!Next]_(F!vars), NEW r \in F!Readers
             PROVE Fresh(r)'
  BY DEF FreshInv
<1>1. Fresh(r) /\ Past(seen[r]) /\ Past(stat[r])
  BY DEF FreshInv, TimesInv
<1>2. CASE UNCHANGED F!vars
  BY <1>1, <1>2 DEF Fresh, F!Loaded, F!vars, F!disk
<1>3. ASSUME NEW v \in Nat \cup {None, Torn}, F!Becomes(v),
             UNCHANGED <<clock, step, stat, seen, holds>>
      PROVE  Fresh(r)'
  <2>1. checked'[r] = FALSE /\ gap'[r] = (gap[r] \/ step[r] = "stat_after")
    BY <1>3 DEF F!Becomes
  <2>2. CASE v = None
    <3>1. mtime' = None /\ F!Loaded' = None
      BY <1>3, <2>2 DEF F!Becomes, F!Loaded
    <3>2. QED
      BY <1>1, <1>3, <2>1, <3>1 DEF Fresh
  <2>3. CASE v # None
    <3>1. mtime' = clock /\ (shared' <=> changed = clock)
      BY <1>3, <2>3 DEF F!Becomes
    <3>2. ~ shared' => seen[r] # clock
      BY <1>1, <3>1 DEF Past, TimesInv, ReloadTypes, Times, F!FileReloadAssumption
    <3>3. QED
      BY <1>1, <1>3, <2>1, <3>1, <3>2 DEF Fresh
  <2>4. QED
    BY <2>2, <2>3
<1>4. CASE F!BeginWrite \/ F!EndWrite \/ F!Delete
  BY <1>3, <1>4 DEF F!BeginWrite, F!EndWrite, F!Delete, ReloadTypes
<1>5. CASE F!Tick
  BY <1>1, <1>5 DEF F!Tick, F!disk, Fresh, F!Loaded
<1>6. ASSUME NEW q \in F!Readers, q # r,
             \/ F!Construct(q) \/ F!StatAfter(q) \/ F!Stat(q) \/ F!Forget(q) \/ F!Load(q)
             \/ F!LoadRaises(q)
      PROVE  Fresh(r)'
  <2>1. /\ UNCHANGED F!disk /\ step'[r] = step[r] /\ seen'[r] = seen[r]
            /\ holds'[r] = holds[r]
        /\ checked'[r] = checked[r] /\ gap'[r] = gap[r]
    BY <1>6 DEF F!Construct, F!StatAfter, F!Stat, F!Forget, F!Load, F!LoadRaises, F!Serve, F!Goto,
        ReloadTypes
  <2>2. QED
    BY <1>1, <2>1 DEF Fresh, F!Loaded, F!disk
<1>7. CASE F!Construct(r)
  BY <1>1, <1>7 DEF F!Construct, F!Goto, F!disk, Fresh, F!Loaded, ReloadTypes
<1>8. CASE F!StatAfter(r)
  <2>1. mtime = None => F!Loaded = None
    BY DEF TimesInv, ReloadTypes, F!Loaded, F!FileReloadAssumption
  <2>2. /\ step[r] = "stat_after" /\ step'[r] = "idle" /\ seen'[r] = mtime
            /\ holds'[r] = holds[r]
        /\ gap'[r] = gap[r] /\ UNCHANGED F!disk
    BY <1>8 DEF F!StatAfter, F!Goto, ReloadTypes
  <2>3. QED
    BY <1>1, <2>1, <2>2 DEF Fresh, F!Loaded, F!disk
<1>9. CASE F!Stat(r)
  <2>1. /\ step[r] = "idle" /\ seen' = seen /\ holds' = holds /\ gap' = gap
            /\ UNCHANGED F!disk
        /\ \/ mtime = seen[r] /\ step'[r] = "idle"
           \/ step'[r] = "load" /\ checked' = checked
    BY <1>9 DEF F!Stat, F!Unchanged, F!Serve, F!Goto, ReloadTypes
  <2>2. QED
    BY <1>1, <2>1 DEF Fresh, F!Loaded, F!disk
<1>10. CASE F!Forget(r)
  BY <1>1, <1>10 DEF F!Forget, F!Serve, F!Goto, F!disk, Fresh, F!Loaded, ReloadTypes, TimesInv
<1>11. CASE F!Load(r)
  <2>1. /\ step'[r] = "idle" /\ holds'[r] = F!Loaded /\ seen'[r] = stat[r]
        /\ gap'[r] = (stat[r] # mtime) /\ checked'[r] = (stat[r] = mtime) /\ UNCHANGED F!disk
    BY <1>11 DEF F!Load, F!Goto, ReloadTypes
  <2>2. mtime = None => F!Loaded = None
    BY DEF TimesInv, ReloadTypes, F!Loaded, F!FileReloadAssumption
  <2>3. QED
    BY <2>1, <2>2 DEF Fresh, F!Loaded, F!disk
<1>12. CASE F!LoadRaises(r)
  <2>1. /\ step[r] = "load" /\ step'[r] = "idle"
        /\ UNCHANGED <<F!disk, seen, holds, gap, checked>>
    BY <1>12 DEF F!LoadRaises, F!Goto, ReloadTypes
  <2>2. QED
    BY <1>1, <2>1 DEF Fresh, F!Loaded, F!disk
<1>13. QED
  BY <1>2, <1>4, <1>5, <1>6, <1>7, <1>8, <1>9, <1>10, <1>11, <1>12 DEF F!Next

(* A call that began after the last change of the file serves what it      *)
(* says, unless two changes share a tick or one came between a load and    *)
(* the stat of its mtime.                                                  *)
THEOREM StalenessExplained == F!FileReloadAssumption /\ F!Spec => []StaleNeedsABadMoment
<1> SUFFICES ASSUME F!FileReloadAssumption PROVE F!Spec => []StaleNeedsABadMoment
  OBVIOUS
<1>1. F!Init => TimesInv /\ FreshInv
  <2>1. ~ (None \in Nat)
    BY DEF F!FileReloadAssumption
  <2>2. F!Init => TimesInv
    BY <2>1 DEF F!Init, TimesInv, Past
  <2>3. F!Init => FreshInv
    BY <2>1 DEF F!Init, FreshInv, Fresh, F!Loaded
  <2>4. QED
    BY <2>2, <2>3
<1>2. FreshInv => StaleNeedsABadMoment
  BY DEF FreshInv, Fresh, StaleNeedsABadMoment, F!StaleNeedsABadMoment
<1>3. QED
  BY <1>1, <1>2, ReloadInit, ReloadStep, StepTimes, StepFresh, PTL DEF F!Spec

-----------------------------------------------------------------------------
(* The cost ledger.  A r is of a call that returned, of no other r's,  *)
(* and a call that returned has its r, lost it, or is being recorded.    *)
Recorded == {r.call : r \in ledger}
GivenUp == {l.call : l \in lost}

RowsInv ==
  \A r \in ledger :
    /\ r.call \in billed \ GivenUp /\ r.call.model \in DOMAIN Priced
    /\ r.call # unpaid[r.call.stream]
    /\ r.merchant = MerchantOf[r.call.stream]
    /\ r.cost = L!EstimateCost(r.call.model, r.call.usage)
    /\ r.at \in Nat

CallsInv ==
  \A call \in billed :
    /\ call \in L!Call /\ call.n <= calls[call.stream]
    /\ call \in Recorded \/ call \in GivenUp \/ call = unpaid[call.stream]

UnpaidInv ==
  \A s \in Streams :
    /\ unpaid[s] # None <=> phase[s] \in {"record", "insert"}
    /\ unpaid[s] # None => /\ unpaid[s] \in billed \ GivenUp /\ unpaid[s].stream = s
                           /\ unpaid[s].model \in DOMAIN Priced

LedgerInv ==
  /\ phase \in [Streams -> L!Stage] /\ calls \in [Streams -> Nat]
  /\ unpaid \in [Streams -> L!Call \cup {None}] /\ now \in Nat
  /\ IsFiniteSet(billed) /\ IsFiniteSet(ledger)
  /\ GivenUp \subseteq billed
  /\ \A r1, r2 \in ledger : r1.call = r2.call => r1 = r2
  /\ RowsInv /\ CallsInv /\ UnpaidInv

LEMMA LedgerInit == L!Init => LedgerInv
<1> SUFFICES ASSUME L!Init PROVE LedgerInv
  OBVIOUS
<1>1. IsFiniteSet({})
  BY FS_EmptySet
<1>2. QED
  BY <1>1 DEF L!Init, LedgerInv, RowsInv, CallsInv, UnpaidInv, GivenUp, Recorded, L!Stage

(* A stream that records nothing moves on, ...                            *)
MovesOn(s, stage) ==
  /\ unpaid[s] = None /\ L!Goto(s, stage) /\ stage \in L!Stage \ {"record", "insert"}
  /\ UNCHANGED <<calls, unpaid, ledger, lost, billed, now>>

(* ... or loses what it records.                                           *)
Loses(s, stage) ==
  /\ unpaid[s] # None /\ L!Goto(s, stage) /\ stage \in L!Stage \ {"record", "insert"}
  /\ GivenUp' = GivenUp \cup {unpaid[s]} /\ unpaid' = [unpaid EXCEPT ![s] = None]
  /\ UNCHANGED <<calls, ledger, billed, now>>

LEMMA DropOne ==
  ASSUME NEW call, NEW cause, lost' = lost \cup {[call |-> call, cause |-> cause]}
  PROVE  GivenUp' = GivenUp \cup {call}
<1> DEFINE l == [call |-> call, cause |-> cause]
<1>1. l.call = call
  OBVIOUS
<1> HIDE DEF l
<1>2. lost' = lost \cup {l}
  BY DEF l
<1>3. QED
  BY <1>1, <1>2 DEF GivenUp

LEMMA OfNoOtherRow ==
  ASSUME L!LedgerAssumption, LedgerInv, NEW r \in ledger
  PROVE  /\ r.call.stream \in Streams /\ r.call # None
         /\ \A s \in Streams : r.call # unpaid[s]
<1>1. r.call \in L!Call /\ r.call # unpaid[r.call.stream]
  BY DEF LedgerInv, RowsInv, CallsInv
<1>2. r.call.stream \in Streams /\ r.call # None
  BY <1>1 DEF L!Call, L!LedgerAssumption
<1>3. QED
  BY <1>1, <1>2 DEF LedgerInv, UnpaidInv

LEMMA StepLost ==
  ASSUME L!LedgerAssumption, LedgerInv, NEW s \in Streams, NEW stage,
         MovesOn(s, stage) \/ Loses(s, stage)
  PROVE  LedgerInv'
<1>1. CASE MovesOn(s, stage)
  BY <1>1 DEF MovesOn, LedgerInv, RowsInv, CallsInv, UnpaidInv, GivenUp, Recorded, L!Goto,
      L!Stage
<1>2. CASE Loses(s, stage)
  <2> USE <1>2 DEF Loses, LedgerInv, L!Goto
  <2>1. CallsInv'
    BY DEF CallsInv, Recorded
  <2>2. UnpaidInv'
    BY DEF UnpaidInv
  <2>3. RowsInv'
    BY OfNoOtherRow DEF RowsInv
  <2>4. phase' \in [Streams -> L!Stage] /\ GivenUp' \subseteq billed'
    BY DEF UnpaidInv
  <2>5. QED
    BY <2>1, <2>2, <2>3, <2>4
<1>3. QED
  BY <1>1, <1>2

LEMMA StepCall ==
  ASSUME L!LedgerAssumption, LedgerInv, NEW s \in Streams, L!CallReturns(s)
  PROVE  LedgerInv'
<1>1. phase[s] = "call" /\ unpaid[s] = None /\ calls[s] \in Nat
  BY DEF L!CallReturns, LedgerInv, UnpaidInv
<1>2. PICK model \in Models, usage \in Usages :
        LET call == [stream |-> s, n |-> calls[s] + 1, model |-> model, usage |-> usage]
        IN /\ billed' = billed \cup {call}
           /\ IF model \in DOMAIN Priced
              THEN /\ unpaid' = [unpaid EXCEPT ![s] = call]
                   /\ L!Goto(s, "record")
                   /\ UNCHANGED lost
              ELSE /\ lost' = lost \cup {[call |-> call, cause |-> "unpriced"]}
                   /\ UNCHANGED <<phase, unpaid>>
  BY DEF L!CallReturns
<1> DEFINE call == [stream |-> s, n |-> calls[s] + 1, model |-> model, usage |-> usage]
<1>3. call \in L!Call /\ call # None /\ call.stream = s /\ call.n = calls[s] + 1
        /\ call.model = model
  BY <1>1 DEF L!Call, L!LedgerAssumption
<1>4. call \notin billed
  BY <1>1, <1>3 DEF LedgerInv, CallsInv
<1>5. billed' = billed \cup {call} /\ calls' = [calls EXCEPT ![s] = @ + 1]
        /\ ledger' = ledger /\ now' = now
  BY <1>2 DEF L!CallReturns
<1>6. \/ /\ model \in DOMAIN Priced /\ unpaid' = [unpaid EXCEPT ![s] = call]
         /\ phase' = [phase EXCEPT ![s] = "record"] /\ GivenUp' = GivenUp
      \/ unpaid' = unpaid /\ phase' = phase /\ GivenUp' = GivenUp \cup {call}
  <2>1. CASE model \in DOMAIN Priced
    BY <1>2, <2>1 DEF L!Goto, GivenUp
  <2>2. CASE model \notin DOMAIN Priced
    BY <1>2, <2>2, DropOne
  <2>3. QED
    BY <2>1, <2>2
<1> HIDE DEF call
<1>7. IsFiniteSet(billed')
  BY <1>5, FS_AddElement DEF LedgerInv
<1>8. CallsInv'
  <2>1. \A c \in billed : c \in L!Call /\ c.n <= calls'[c.stream] /\ c.stream \in Streams
    BY <1>5 DEF LedgerInv, CallsInv, L!Call
  <2>2. \A c \in billed : c \in Recorded' \/ c \in GivenUp' \/ c = unpaid'[c.stream]
    BY <1>1, <1>3, <1>5, <1>6, <2>1 DEF LedgerInv, CallsInv, Recorded, L!LedgerAssumption
  <2>3. call.n <= calls'[call.stream] /\ (call \in GivenUp' \/ call = unpaid'[call.stream])
    BY <1>1, <1>3, <1>5, <1>6 DEF LedgerInv
  <2>4. QED
    BY <1>3, <1>5, <2>1, <2>2, <2>3 DEF CallsInv
<1>9. UnpaidInv'
  BY <1>1, <1>3, <1>4, <1>5, <1>6 DEF LedgerInv, UnpaidInv, L!Stage
<1>10. RowsInv'
  <2>1. \A r \in ledger : r.call # call /\ r.call.stream \in Streams
    BY <1>4 DEF LedgerInv, RowsInv, CallsInv, L!Call
  <2>2. QED
    BY <1>4, <1>5, <1>6, <2>1 DEF LedgerInv, RowsInv
<1>11. phase' \in [Streams -> L!Stage] /\ calls' \in [Streams -> Nat]
       /\ unpaid' \in [Streams -> L!Call \cup {None}]
  BY <1>1, <1>3, <1>5, <1>6 DEF LedgerInv, L!Stage
<1>12. GivenUp' \subseteq billed'
  BY <1>5, <1>6 DEF LedgerInv
<1>13. QED
  BY <1>5, <1>7, <1>8, <1>9, <1>10, <1>11, <1>12 DEF LedgerInv

LEMMA StepInsert ==
  ASSUME L!LedgerAssumption, LedgerInv, NEW s \in Streams, L!Insert(s)
  PROVE  LedgerInv'
<1> DEFINE new == L!Row(s)
<1>1. unpaid[s] # None /\ unpaid[s] \in billed \ GivenUp /\ unpaid[s].stream = s
      /\ unpaid[s].model \in DOMAIN Priced
  BY DEF L!Insert, LedgerInv, UnpaidInv
<1>2. /\ new.call = unpaid[s] /\ new.merchant = MerchantOf[s] /\ new.at = now
      /\ new.cost = L!EstimateCost(unpaid[s].model, unpaid[s].usage)
  BY DEF L!Row
<1>3. /\ ledger' = ledger \cup {new} /\ unpaid' = [unpaid EXCEPT ![s] = None]
      /\ phase' = [phase EXCEPT ![s] = "call"] /\ GivenUp' = GivenUp
      /\ UNCHANGED <<calls, billed, now>>
  BY DEF L!Insert, L!Goto, GivenUp
<1> HIDE DEF new
<1>4. IsFiniteSet(ledger')
  BY <1>3, FS_AddElement DEF LedgerInv
<1>5. \A r \in ledger : r.call # new.call
  BY <1>1, <1>2 DEF LedgerInv, RowsInv
<1>6. CallsInv'
  BY <1>1, <1>2, <1>3 DEF LedgerInv, CallsInv, Recorded
<1>7. UnpaidInv'
  BY <1>1, <1>3 DEF LedgerInv, UnpaidInv, L!Stage
<1>8. RowsInv'
  <2>1. \A r \in ledger : r.call # unpaid'[r.call.stream]
    BY <1>3, OfNoOtherRow DEF LedgerInv
  <2>2. unpaid'[new.call.stream] # new.call
    BY <1>1, <1>2, <1>3 DEF LedgerInv
  <2>3. QED
    BY <1>1, <1>2, <1>3, <2>1, <2>2 DEF LedgerInv, RowsInv
<1>9. phase' \in [Streams -> L!Stage] /\ unpaid' \in [Streams -> L!Call \cup {None}]
  BY <1>3 DEF LedgerInv, L!Stage
<1>10. QED
  BY <1>3, <1>4, <1>5, <1>6, <1>7, <1>8, <1>9 DEF LedgerInv

LEMMA LedgerStep == ASSUME L!LedgerAssumption
                    PROVE LedgerInv /\ [L!Next]_L!vars => LedgerInv'
<1> SUFFICES ASSUME LedgerInv, [L!Next]_L!vars PROVE LedgerInv'
  OBVIOUS
<1>1. CASE UNCHANGED L!vars
  BY <1>1 DEF L!vars, LedgerInv, RowsInv, CallsInv, UnpaidInv, GivenUp, Recorded
<1>2. CASE L!Tick
  BY <1>2 DEF L!Tick, LedgerInv, RowsInv, CallsInv, UnpaidInv, GivenUp, Recorded
<1>3. \A s \in Streams : phase[s] \in {"idle", "open", "call", "done"} => unpaid[s] = None
  BY DEF LedgerInv, UnpaidInv
<1>4. \A s \in Streams : phase[s] \in {"record", "insert"} => unpaid[s] # None
  BY DEF LedgerInv, UnpaidInv
<1>5. ASSUME NEW s \in Streams, L!TakeConnection(s) PROVE LedgerInv'
  BY <1>5 DEF L!TakeConnection, L!Goto, L!Stage, LedgerInv, RowsInv, CallsInv, UnpaidInv,
      GivenUp, Recorded
<1>6. ASSUME NEW s \in Streams, L!Open(s) \/ L!Authenticate(s) \/ L!TurnedAway(s)
             \/ L!Close(s)
      PROVE  \E stage : MovesOn(s, stage)
  BY <1>3, <1>6 DEF L!Open, L!Authenticate, L!TurnedAway, L!Close, MovesOn, L!Stage
<1>7. ASSUME NEW s \in Streams, L!RecordTimesOut(s) \/ L!InsertRefused(s)
             \/ L!InsertFails(s)
      PROVE  Loses(s, "call")
  <2>1. \E cause : L!GiveUp(s, cause)
    BY <1>7 DEF L!RecordTimesOut, L!InsertRefused, L!InsertFails
  <2>2. GivenUp' = GivenUp \cup {unpaid[s]}
    BY <2>1, DropOne DEF L!GiveUp
  <2>3. QED
    BY <1>4, <1>7, <2>1, <2>2 DEF L!RecordTimesOut, L!TimesOut, L!InsertRefused, L!InsertFails,
       L!GiveUp, Loses, L!Stage
<1>8. ASSUME NEW s \in Streams, L!Cancelled(s) PROVE MovesOn(s, "done") \/ Loses(s, "done")
  <2>1. CASE unpaid[s] = None
    <3>1. unpaid' = unpaid
      BY <1>8, <2>1 DEF L!Cancelled, LedgerInv
    <3>2. QED
      BY <1>8, <2>1, <3>1 DEF L!Cancelled, MovesOn, L!Stage
  <2>2. CASE unpaid[s] # None
    <3>1. GivenUp' = GivenUp \cup {unpaid[s]}
      BY <1>8, <2>2, DropOne DEF L!Cancelled
    <3>2. QED
      BY <1>8, <2>2, <3>1 DEF L!Cancelled, Loses, L!Stage
  <2>3. QED
    BY <2>1, <2>2
<1>9. QED
  BY <1>1, <1>2, <1>5, <1>6, <1>7, <1>8, StepLost, StepCall, StepInsert DEF L!Next,
      L!Proceed

(* The sums of get_usage, in the one form that the lemmas of Sums are about. *)
LEMMA CostIs ==
  ASSUME NEW rows, IsFiniteSet(rows)
  PROVE  L!Cost(rows) = SumOver([r \in rows |-> r.cost], rows)
<1> DEFINE f == [r \in rows |-> r.cost]
           Fix(g) == g = [part \in SUBSET rows |->
                            IF part = {} THEN 0
                            ELSE LET r == CHOOSE r \in part : TRUE
                                 IN  r.cost + g[part \ {r}]]
           g == CHOOSE g : Fix(g)
<1>1. \A h : Fix(h) <=> Rest(f, rows, h)
  BY DEF Rest
<1>2. L!Cost(rows) = g[rows]
  BY DEF L!Cost, L!MapThenSumSet, L!MapThenFoldSet
<1> HIDE DEF f, Fix
<1>3. Fix(g)
  <2>1. \E h : Fix(h)
    BY <1>1, Exists
  <2>2. QED
    BY <2>1
<1> HIDE DEF g
<1>4. PICK h : Rest(f, rows, h) /\ SumOver(f, rows) = h[rows]
  BY SumRec
<1>5. h[rows] = g[rows]
  BY <1>1, <1>3, <1>4, RestAgrees
<1>6. QED
  BY <1>2, <1>4, <1>5 DEF f

LEMMA TotalCostIs ==
  ASSUME NEW b, IsFiniteSet(DOMAIN b)
  PROVE  L!TotalCost(b) = SumOver([model \in DOMAIN b |-> b[model].cost], DOMAIN b)
<1> DEFINE f == [model \in DOMAIN b |-> b[model].cost]
           Fix(g) == g = [part \in SUBSET DOMAIN b |->
                            IF part = {} THEN 0
                            ELSE LET model == CHOOSE model \in part : TRUE
                                 IN  b[model].cost + g[part \ {model}]]
           g == CHOOSE g : Fix(g)
<1>1. \A h : Fix(h) <=> Rest(f, DOMAIN b, h)
  BY DEF Rest
<1>2. L!TotalCost(b) = g[DOMAIN b]
  BY DEF L!TotalCost, L!MapThenSumSet, L!MapThenFoldSet
<1> HIDE DEF f, Fix
<1>3. Fix(g)
  <2>1. \E h : Fix(h)
    BY <1>1, Exists
  <2>2. QED
    BY <2>1
<1> HIDE DEF g
<1>4. PICK h : Rest(f, DOMAIN b, h) /\ SumOver(f, DOMAIN b) = h[DOMAIN b]
  BY SumRec
<1>5. h[DOMAIN b] = g[DOMAIN b]
  BY <1>1, <1>3, <1>4, RestAgrees
<1>6. QED
  BY <1>2, <1>4, <1>5 DEF f

LEMMA TotalCallsIs ==
  ASSUME NEW b, IsFiniteSet(DOMAIN b)
  PROVE  L!TotalCalls(b) = SumOver([model \in DOMAIN b |-> b[model].calls], DOMAIN b)
<1> DEFINE f == [model \in DOMAIN b |-> b[model].calls]
           Fix(g) == g = [part \in SUBSET DOMAIN b |->
                            IF part = {} THEN 0
                            ELSE LET model == CHOOSE model \in part : TRUE
                                 IN  b[model].calls + g[part \ {model}]]
           g == CHOOSE g : Fix(g)
<1>1. \A h : Fix(h) <=> Rest(f, DOMAIN b, h)
  BY DEF Rest
<1>2. L!TotalCalls(b) = g[DOMAIN b]
  BY DEF L!TotalCalls, L!MapThenSumSet, L!MapThenFoldSet
<1> HIDE DEF f, Fix
<1>3. Fix(g)
  <2>1. \E h : Fix(h)
    BY <1>1, Exists
  <2>2. QED
    BY <2>1
<1> HIDE DEF g
<1>4. PICK h : Rest(f, DOMAIN b, h) /\ SumOver(f, DOMAIN b) = h[DOMAIN b]
  BY SumRec
<1>5. h[DOMAIN b] = g[DOMAIN b]
  BY <1>1, <1>3, <1>4, RestAgrees
<1>6. QED
  BY <1>2, <1>4, <1>5 DEF f

LEMMA PricesAre ==
  ASSUME NEW part, IsFiniteSet(part)
  PROVE  L!MapThenSumSet(LAMBDA call : L!EstimateCost(call.model, call.usage), part)
         = SumOver([call \in part |-> L!EstimateCost(call.model, call.usage)], part)
<1> DEFINE f == [call \in part |-> L!EstimateCost(call.model, call.usage)]
           Fix(g) == g = [u \in SUBSET part |->
                            IF u = {} THEN 0
                            ELSE LET call == CHOOSE call \in u : TRUE
                                 IN  L!EstimateCost(call.model, call.usage) + g[u \ {call}]]
           g == CHOOSE g : Fix(g)
<1>1. \A h : Fix(h) <=> Rest(f, part, h)
  BY DEF Rest
<1>2. L!MapThenSumSet(LAMBDA call : L!EstimateCost(call.model, call.usage), part) = g[part]
  BY DEF L!MapThenSumSet, L!MapThenFoldSet
<1> HIDE DEF f, Fix
<1>3. Fix(g)
  <2>1. \E h : Fix(h)
    BY <1>1, Exists
  <2>2. QED
    BY <2>1
<1> HIDE DEF g
<1>4. PICK h : Rest(f, part, h) /\ SumOver(f, part) = h[part]
  BY SumRec
<1>5. h[part] = g[part]
  BY <1>1, <1>3, <1>4, RestAgrees
<1>6. QED
  BY <1>2, <1>4, <1>5 DEF f

LEMMA CostsAreInts ==
  ASSUME L!LedgerAssumption, LedgerInv
  PROVE  /\ \A call \in billed : call.model \in DOMAIN Priced =>
                                 L!EstimateCost(call.model, call.usage) \in Int
         /\ \A r \in ledger : r.cost \in Int
<1>1. \A i, j \in Int : i * j \in Int /\ i + j \in Int
  OBVIOUS
<1>2. ASSUME NEW call \in billed, call.model \in DOMAIN Priced
      PROVE  L!EstimateCost(call.model, call.usage) \in Int
  <2>1. call.usage \in L!Usage /\ Priced[call.model] \in [input : Nat, output : Nat]
    BY <1>2 DEF LedgerInv, CallsInv, L!Call, L!LedgerAssumption
  <2>2. /\ Priced[call.model].input \in Int /\ Priced[call.model].output \in Int
        /\ call.usage.input \in Int /\ call.usage.output \in Int
        /\ call.usage.cached \in Int /\ call.usage.created \in Int
    BY <2>1 DEF L!Usage
  <2>3. 20 * call.usage.input + 2 * call.usage.cached + 25 * call.usage.created \in Int
    BY <2>2
  <2>4. Priced[call.model].output * 20 * call.usage.output \in Int
    BY <1>1, <2>2
  <2>5. QED
    BY <1>1, <2>2, <2>3, <2>4 DEF L!EstimateCost
<1>3. QED
  BY <1>2 DEF LedgerInv, RowsInv

LEMMA SameCount == \A T : L!Cardinality(T) = Cardinality(T)
BY DEF L!Cardinality, Cardinality

(* Adding up by model is adding up.                                        *)
LEMMA ByModelAddsUp ==
  ASSUME L!LedgerAssumption, LedgerInv, NEW m, NEW since, NEW until, NEW f,
         f = [r \in ledger |-> r.cost]
  PROVE  LET rows == L!Selected(m, since, until)
             bill == L!ByModel(m, since, until)
         IN  /\ IsFiniteSet(rows)
             /\ L!TotalCost(bill) = SumOver(f, rows)
             /\ L!TotalCalls(bill) = Cardinality(rows)
<1> DEFINE rows == L!Selected(m, since, until)
           bill == L!ByModel(m, since, until)
           model == [r \in rows |-> r.call.model]
           ones == [r \in rows |-> 1]
           K == {r.call.model : r \in rows}
           Of(k) == {r \in rows : model[r] = k}
<1>1. IsFiniteSet(rows) /\ rows \subseteq ledger
  BY FS_Subset DEF L!Selected, LedgerInv
<1>2. \A r \in rows : f[r] = r.cost /\ f[r] \in Int
  BY <1>1, CostsAreInts
<1>3. IsFiniteSet(K)
  <2>1. IsFiniteSet(rows)
    BY <1>1
  <2> HIDE DEF rows
  <2>2. model \in Surjection(rows, K)
    BY DEF Surjection
  <2> HIDE DEF model, K
  <2>3. QED
    BY <2>1, <2>2, FS_Surjection
<1>4. DOMAIN bill = K
  BY DEF L!ByModel
<1>5. \A k \in K : bill[k].cost = L!Cost(Of(k)) /\ bill[k].calls = L!Cardinality(Of(k))
  <2> HIDE DEF rows
  <2>1. \A k : Of(k) = {r \in rows : r.call.model = k}
    OBVIOUS
  <2> HIDE DEF Of
  <2>2. QED
    BY <2>1 DEF L!ByModel, rows
<1> HIDE DEF rows, bill
<1>6. \A r \in rows : model[r] \in K
  OBVIOUS
<1>7. ASSUME NEW k \in K PROVE IsFiniteSet(Of(k)) /\ Of(k) \subseteq rows
  BY <1>1, FS_Subset
<1>8. L!TotalCost(bill) = SumOver(f, rows)
  <2>1. ASSUME NEW k \in K PROVE bill[k].cost = SumOver(f, Of(k))
    <3> DEFINE part == Of(k)
               g == [r \in part |-> r.cost]
    <3>1. IsFiniteSet(part) /\ \A r \in part : g[r] = f[r] /\ g[r] \in Int
      BY <1>2, <1>7
    <3>2. bill[k].cost = SumOver(g, part)
      <4> HIDE DEF part
      <4> QED
        BY <1>5, <3>1, CostIs DEF part
    <3> HIDE DEF part, g
    <3>3. SumOver(g, part) = SumOver(f, part)
      BY <3>1, SumEqual
    <3>4. QED
      BY <3>2, <3>3 DEF part
  <2>2. [k \in DOMAIN bill |-> bill[k].cost] = [k \in K |-> SumOver(f, Of(k))]
    BY <1>4, <2>1
  <2>3. L!TotalCost(bill) = SumOver([k \in DOMAIN bill |-> bill[k].cost], DOMAIN bill)
    BY <1>3, <1>4, TotalCostIs
  <2> HIDE DEF model, K
  <2>4. SumOver(f, rows) = SumOver([k \in K |-> SumOver(f, Of(k))], K)
    <3>1. IsFiniteSet(rows) /\ (\A r \in rows : f[r] \in Int /\ model[r] \in K)
      BY <1>1, <1>2, <1>6
    <3>2. SumOver(f, rows)
            = SumOver([k \in K |-> SumOver(f, {r \in rows : model[r] = k})], K)
      BY <1>3, <3>1, SumByClass
    <3>3. QED
      BY <3>2
  <2>5. QED
    BY <1>4, <2>2, <2>3, <2>4
<1>9. L!TotalCalls(bill) = Cardinality(rows)
  <2>1. \A r \in rows : ones[r] = 1 /\ ones[r] \in Int
    OBVIOUS
  <2> HIDE DEF ones
  <2>2. ASSUME NEW k \in K PROVE bill[k].calls = SumOver(ones, Of(k))
    <3> DEFINE part == Of(k)
    <3>1. IsFiniteSet(part) /\ \A r \in part : ones[r] = 1
      BY <1>7, <2>1
    <3>2. bill[k].calls = Cardinality(part)
      BY <1>5, SameCount
    <3> HIDE DEF part
    <3>3. QED
      BY <3>1, <3>2, SumOfOnes DEF part
  <2>3. [k \in DOMAIN bill |-> bill[k].calls] = [k \in K |-> SumOver(ones, Of(k))]
    BY <1>4, <2>2
  <2>4. L!TotalCalls(bill) = SumOver([k \in DOMAIN bill |-> bill[k].calls], DOMAIN bill)
    BY <1>3, <1>4, TotalCallsIs
  <2> HIDE DEF model, K
  <2>5. SumOver(ones, rows) = SumOver([k \in K |-> SumOver(ones, Of(k))], K)
    BY <1>1, <1>3, <1>6, <2>1, SumByClass
  <2>6. SumOver(ones, rows) = Cardinality(rows)
    BY <1>1, <2>1, SumOfOnes
  <2>7. QED
    BY <1>4, <2>3, <2>4, <2>5, <2>6
<1>10. QED
  BY <1>1, <1>8, <1>9 DEF rows, bill

LEMMA BillsOf ==
  ASSUME L!LedgerAssumption, LedgerInv, NEW m \in Merchants, NEW t \in 0 .. MaxTime
  PROVE  LET before == L!ByModel(m, None, t)
             after == L!ByModel(m, t, None)
             settled == {call \in billed :
                           /\ MerchantOf[call.stream] = m
                           /\ call # unpaid[call.stream]
                           /\ \A l \in lost : l.call # call}
         IN  /\ L!TotalCalls(before) + L!TotalCalls(after) = L!Cardinality(settled)
             /\ L!TotalCost(before) + L!TotalCost(after) =
                  L!MapThenSumSet(LAMBDA call :
                      L!EstimateCost(call.model, call.usage), settled)
<1> DEFINE before == L!Selected(m, None, t)
           after == L!Selected(m, t, None)
           all == {r \in ledger : r.merchant = m}
           settled == {call \in billed :
                         /\ MerchantOf[call.stream] = m
                         /\ call # unpaid[call.stream]
                         /\ \A l \in lost : l.call # call}
           cost == [r \in ledger |-> r.cost]
           price == [call \in settled |-> L!EstimateCost(call.model, call.usage)]
           h == [r \in all |-> r.call]
<1>1. IsFiniteSet(all) /\ IsFiniteSet(settled)
  <2>1. IsFiniteSet(ledger) /\ IsFiniteSet(billed)
    BY DEF LedgerInv
  <2>2. all \subseteq ledger /\ settled \subseteq billed
    OBVIOUS
  <2>3. QED
    BY ONLY <2>1, <2>2, FS_Subset
<1>2. before \cup after = all /\ before \cap after = {}
  <2>1. \A r \in ledger : r.at \in Nat
    BY DEF LedgerInv, RowsInv
  <2>2. t # None /\ t \in Int
    BY DEF L!LedgerAssumption
  <2>3. QED
    BY <2>1, <2>2 DEF L!Selected, L!InWindow
<1>3. \A r \in all : h[r] = r.call /\ h[r] \in settled
  BY DEF LedgerInv, RowsInv, GivenUp
<1>4. \A call \in settled : \E r \in all : call = h[r]
  BY DEF LedgerInv, CallsInv, RowsInv, GivenUp, Recorded
<1>5. \A r1, r2 \in all : h[r1] = h[r2] => r1 = r2
  BY DEF LedgerInv
<1>6. \A r \in all : cost[r] \in Int /\ cost[r] = price[h[r]]
  BY <1>3, CostsAreInts DEF LedgerInv, RowsInv
<1>7. Renames(h, all, cost, settled, price)
  BY <1>3, <1>4, <1>5, <1>6 DEF Renames
<1>8. \A r \in before \cup after : cost[r] \in Int
  BY <1>2, <1>6
<1>9. /\ IsFiniteSet(before) /\ IsFiniteSet(after)
      /\ L!TotalCost(L!ByModel(m, None, t)) = SumOver(cost, before)
      /\ L!TotalCost(L!ByModel(m, t, None)) = SumOver(cost, after)
      /\ L!TotalCalls(L!ByModel(m, None, t)) = Cardinality(before)
      /\ L!TotalCalls(L!ByModel(m, t, None)) = Cardinality(after)
  BY ByModelAddsUp
<1>10. L!MapThenSumSet(LAMBDA call : L!EstimateCost(call.model, call.usage), settled)
         = SumOver(price, settled)
  <2> HIDE DEF settled
  <2> QED
    BY <1>1, PricesAre
<1>11. Cardinality(settled) = Cardinality(all)
  <2> DEFINE one == [r \in all |-> 1]
             unit == [call \in settled |-> 1]
  <2>1. Renames(h, all, one, settled, unit)
    <3>1. \A r \in all : one[r] = 1
      OBVIOUS
    <3>2. \A call \in settled : unit[call] = 1
      OBVIOUS
    <3> HIDE DEF all, settled, h, one, unit
    <3>3. \A r \in all : h[r] \in settled /\ one[r] = 1 /\ unit[h[r]] = 1
      BY <1>3, <3>1, <3>2
    <3>4. QED
      BY <1>4, <1>5, <3>3 DEF Renames
  <2>2. (\A r \in all : one[r] = 1) /\ (\A call \in settled : unit[call] = 1)
    OBVIOUS
  <2> HIDE DEF one, unit, all, settled, h
  <2>3. QED
    BY <1>1, <2>1, <2>2, SumImage, SumOfOnes
<1> HIDE DEF before, after, all, settled, cost, price, h
<1>12. SumOver(cost, before) + SumOver(cost, after) = SumOver(price, settled)
  <2>1. SumOver(cost, before \cup after) = SumOver(cost, before) + SumOver(cost, after)
    BY <1>2, <1>8, <1>9, SumDisjoint
  <2>2. SumOver(price, settled) = SumOver(cost, all)
    BY <1>1, <1>7, SumImage
  <2>3. QED
    BY <1>2, <2>1, <2>2
<1>13. Cardinality(before) + Cardinality(after) = Cardinality(settled)
  <2>1. Cardinality(before \cup after)
          = Cardinality(before) + Cardinality(after) - Cardinality(before \cap after)
    BY <1>9, FS_Union
  <2>2. Cardinality(before) \in Nat /\ Cardinality(after) \in Nat
    BY <1>9, FS_CardinalityType
  <2>3. before \cap after = {}
    BY <1>2
  <2>4. Cardinality(before \cap after) = 0
    BY <2>3, FS_EmptySet
  <2>5. Cardinality(before \cup after) = Cardinality(settled)
    BY <1>2, <1>11
  <2>6. QED
    BY ONLY <2>1, <2>2, <2>4, <2>5
<1>14. QED
  BY <1>9, <1>10, <1>12, <1>13, SameCount DEF settled

(* What a merchant reads before an instant and from it on adds up to the   *)
(* calls its streams made and to their prices: none is charged twice, to   *)
(* another merchant, or in two windows.                                    *)
THEOREM EveryCallBilledOnce == L!LedgerAssumption /\ L!Spec => []BillsAddUp
<1> SUFFICES ASSUME L!LedgerAssumption PROVE L!Spec => []BillsAddUp
  OBVIOUS
<1>1. LedgerInv => BillsAddUp
  BY BillsOf DEF BillsAddUp, L!BillsAddUp
<1>2. QED
  BY <1>1, LedgerInit, LedgerStep, PTL DEF L!Spec

-----------------------------------------------------------------------------
(* What the requests of a process share: its thread pool, its models, its  *)
(* clients, and the order it starts and stops in.                          *)
Stage == {"new", "warm", "embedding", "client", "wait", "connect", "search", "permit",
          "ranking", "done", "failed", "broken"}

Clients == {"engine", "mongo", "redis", "weaviate", "bedrock"}

ProcessTypes ==
  /\ lifespan \in {"warming", "clearing", "serving", "closing", "stopped"}
  /\ cached \in SUBSET P!SharedModels /\ loads \in [P!SharedModels -> Nat]
  /\ work \in [P!Tasks -> P!Threads \cup {None}]
  /\ spot \in [P!Tasks -> Stage] /\ \A t \in P!WarmUps : spot[t] = "warm"
  /\ lock \in Callers \cup {None} /\ permit \in Callers \cup {None}
  /\ client \in Callers \cup {None}
  /\ left \in Seq(Clients)

LEMMA ProcessBegins == ASSUME P!ProcessAssumption PROVE P!Init => ProcessTypes
<1> SUFFICES ASSUME P!Init PROVE ProcessTypes
  OBVIOUS
<1>1. \A t \in P!Tasks : P!Get(P!Warms(t)) \in P!Threads
  BY DEF P!Get, P!Warms, P!Threads
<1>2. work \in [P!Tasks -> P!Threads \cup {None}]
  BY <1>1 DEF P!Init
<1>3. left \in Seq(Clients)
  BY DEF P!Init, P!Disposal, Clients
<1>4. \A t \in P!WarmUps : t \in P!Tasks /\ spot[t] = "warm"
  BY DEF P!Init, P!Tasks, P!ProcessAssumption
<1>5. /\ spot \in [P!Tasks -> Stage] /\ loads \in [P!SharedModels -> Nat]
      /\ cached \in SUBSET P!SharedModels
  BY DEF P!Init, Stage
<1>6. QED
  BY <1>2, <1>3, <1>4, <1>5 DEF P!Init, ProcessTypes

LEMMA ProcessTyped ==
  ASSUME P!ProcessAssumption PROVE ProcessTypes /\ [P!Next]_P!vars => ProcessTypes'
<1> SUFFICES ASSUME ProcessTypes, [P!Next]_P!vars PROVE ProcessTypes'
  OBVIOUS
<1> USE DEF ProcessTypes
<1>0. /\ Callers \subseteq P!Tasks /\ P!WarmUps \subseteq P!Tasks
      /\ Callers \cap P!WarmUps = {}
  BY DEF P!Tasks, P!ProcessAssumption
<1>1. CASE UNCHANGED P!vars
  BY <1>1 DEF P!vars, P!models, P!shared, P!clients
<1>2. ASSUME NEW t \in P!Tasks, NEW m \in P!SharedModels, P!GetModel(t, m) \/ P!Loaded(t, m)
      PROVE  ProcessTypes'
  <2>1. m \in P!Threads /\ P!Load(m) \in P!Threads
    BY DEF P!SharedModels, P!Threads, P!Load
  <2>2. work' \in [P!Tasks -> P!Threads \cup {None}]
    BY <1>2, <2>1 DEF P!GetModel, P!Loaded, P!Works
  <2>3. cached' \in SUBSET P!SharedModels /\ loads' \in [P!SharedModels -> Nat]
    BY <1>2 DEF P!GetModel, P!Loaded
  <2>4. QED
    BY <1>2, <2>2, <2>3 DEF P!GetModel, P!Loaded, P!models, P!shared, P!clients
<1>3. ASSUME NEW t \in P!Tasks, P!Encoded(t) \/ P!Predicted(t) PROVE ProcessTypes'
  BY <1>0, <1>3 DEF P!Encoded, P!Predicted, P!Works, P!Goto, Stage, P!models, P!shared,
         P!clients
<1>4. CASE P!Warm \/ P!WarmUpFails \/ P!Clear \/ P!Shutdown \/ P!DisposeFails \/ P!Stopped
  BY <1>4 DEF P!Warm, P!WarmUpFails, P!Clear, P!Shutdown, P!DisposeFails, P!Stopped,
         P!models, P!shared, P!clients
<1>5. CASE P!Dispose
  BY <1>0, <1>5 DEF P!Dispose, P!models, P!shared, P!clients
<1>6. ASSUME NEW r \in Callers, P!Arrive(r) \/ P!Rerank(r)
      PROVE  ProcessTypes'
  BY <1>0, <1>6 DEF P!Arrive, P!Rerank, P!Works, P!Goto, P!Get, P!Threads, Stage,
         P!models, P!shared, P!clients
<1>7. ASSUME NEW r \in Callers, P!GetShared(r) \/ P!Lock(r) \/ P!Connect(r)
      PROVE  ProcessTypes'
  BY <1>0, <1>7 DEF P!GetShared, P!Lock, P!Connect, P!Goto, Stage, P!models, P!shared,
         P!clients
<1>8. ASSUME NEW r \in Callers, P!ConnectFails(r) \/ P!Found(r) \/ P!BreakOff(r)
      PROVE  ProcessTypes'
  BY <1>0, <1>8 DEF P!ConnectFails, P!Found, P!BreakOff, P!Goto, Stage, P!models,
         P!shared, P!clients
<1>9. QED
  BY <1>1, <1>2, <1>3, <1>4, <1>5, <1>6, <1>7, <1>8 DEF P!Next

-----------------------------------------------------------------------------
LEMMA ProcessCounts == \A T : P!Cardinality(T) = Cardinality(T)
BY DEF P!Cardinality, Cardinality

(* One connection.                                                         *)

(* Who connects holds the lock and finds no client.                        *)
ConnectionInv ==
  /\ connections = IF client = None THEN {} ELSE {client}
  /\ \A r \in Callers : spot[r] = "connect" => lock = r /\ client = None
  /\ lock # None => spot[lock] = "connect"

LEMMA StepConnection ==
  ASSUME P!ProcessAssumption
  PROVE  ProcessTypes /\ ConnectionInv /\ [P!Next]_P!vars => ConnectionInv'
<1> SUFFICES ASSUME ProcessTypes, ConnectionInv, [P!Next]_P!vars PROVE ConnectionInv'
  OBVIOUS
<1> USE DEF ProcessTypes, ConnectionInv
<1>0. Callers \subseteq P!Tasks
  BY DEF P!Tasks
<1>1. CASE UNCHANGED P!vars
  BY <1>1 DEF P!vars, P!models, P!shared, P!clients
<1>2. ASSUME NEW t \in P!Tasks, NEW m \in P!SharedModels, P!GetModel(t, m) \/ P!Loaded(t, m)
      PROVE  ConnectionInv'
  BY <1>2 DEF P!GetModel, P!Loaded, P!models, P!shared, P!clients
<1>3. ASSUME NEW t \in P!Tasks, P!Encoded(t) \/ P!Predicted(t) PROVE ConnectionInv'
  BY <1>0, <1>3 DEF P!Encoded, P!Predicted, P!Goto, P!models, P!shared, P!clients
<1>4. CASE P!Warm \/ P!WarmUpFails \/ P!Clear \/ P!Shutdown \/ P!DisposeFails \/ P!Stopped
  BY <1>4 DEF P!Warm, P!WarmUpFails, P!Clear, P!Shutdown, P!DisposeFails, P!Stopped,
         P!models, P!shared, P!clients
<1>5. CASE P!Dispose
  BY <1>5 DEF P!Dispose, P!models, P!shared, P!clients
<1>6. ASSUME NEW r \in Callers, P!Arrive(r) \/ P!Rerank(r)
      PROVE  ConnectionInv'
  BY <1>0, <1>6 DEF P!Arrive, P!Rerank, P!Goto, P!models, P!shared, P!clients
<1>7. ASSUME NEW r \in Callers, P!GetShared(r) \/ P!Lock(r) \/ P!Connect(r)
      PROVE  ConnectionInv'
  BY <1>0, <1>7 DEF P!GetShared, P!Lock, P!StillMissing, P!Connect, P!Goto,
         P!ProcessAssumption,
                   P!models, P!shared, P!clients
<1>8. ASSUME NEW r \in Callers, P!ConnectFails(r) \/ P!Found(r) \/ P!BreakOff(r)
      PROVE  ConnectionInv'
  BY <1>0, <1>8 DEF P!ConnectFails, P!Found, P!BreakOff, P!Goto, P!models, P!shared,
         P!clients
<1>9. QED
  BY <1>1, <1>2, <1>3, <1>4, <1>5, <1>6, <1>7, <1>8 DEF P!Next

(* However the requests race for the shared client, one connects, and its  *)
(* connection is the one that serves them all.                             *)
THEOREM ConnectedOnce == P!ProcessAssumption /\ P!Spec => []P!OneConnection
<1> SUFFICES ASSUME P!ProcessAssumption PROVE P!Spec => []P!OneConnection
  OBVIOUS
<1>1. P!Init => ConnectionInv
  BY DEF P!Init, ConnectionInv, P!Tasks, P!WarmUps, P!ProcessAssumption
<1>2. ConnectionInv => P!OneConnection
  <2> SUFFICES ASSUME ConnectionInv PROVE P!OneConnection
    OBVIOUS
  <2>1. P!Cardinality(connections) <= 1
    <3>1. CASE connections = {}
      BY <3>1, ProcessCounts, FS_EmptySet
    <3>2. CASE connections = {client}
      <4>1. Cardinality({client}) = 1
        BY FS_Singleton
      <4>2. P!Cardinality(connections) = Cardinality({client})
        BY <3>2, ProcessCounts
      <4>3. QED
        BY <4>1, <4>2
    <3>3. QED
      BY <3>1, <3>2 DEF ConnectionInv
  <2>2. QED
    BY <2>1 DEF P!OneConnection, ConnectionInv
<1>3. QED
  BY <1>1, <1>2, ProcessBegins, ProcessTyped, StepConnection, PTL DEF P!Spec

-----------------------------------------------------------------------------
(* A request works while the process serves.                               *)
AtRest == lifespan # "serving" => \A r \in Callers : P!Ended(r)

LEMMA StepAtRest ==
  ASSUME P!ProcessAssumption PROVE ProcessTypes /\ AtRest /\ [P!Next]_P!vars => AtRest'
<1> SUFFICES ASSUME ProcessTypes, AtRest, [P!Next]_P!vars PROVE AtRest'
  OBVIOUS
<1> USE DEF ProcessTypes, AtRest, P!Ended
<1>0. Callers \subseteq P!Tasks
  BY DEF P!Tasks
<1>1. CASE UNCHANGED P!vars
  BY <1>1 DEF P!vars
<1>2. ASSUME NEW t \in P!Tasks, NEW m \in P!SharedModels, P!GetModel(t, m) \/ P!Loaded(t, m)
      PROVE  AtRest'
  BY <1>2 DEF P!GetModel, P!Loaded
<1>3. ASSUME NEW t \in P!Tasks, P!Encoded(t) \/ P!Predicted(t) PROVE AtRest'
  BY <1>0, <1>3 DEF P!Encoded, P!Predicted, P!Goto
<1>4. CASE \/ P!Warm \/ P!WarmUpFails \/ P!Clear \/ P!Shutdown
           \/ P!Dispose \/ P!DisposeFails \/ P!Stopped
  BY <1>4 DEF P!Warm, P!WarmUpFails, P!Clear, P!Shutdown, P!Dispose, P!DisposeFails,
         P!Stopped
<1>5. ASSUME NEW r \in Callers,
             \/ P!Arrive(r) \/ P!Rerank(r) \/ P!GetShared(r) \/ P!Lock(r) \/ P!Connect(r)
             \/ P!ConnectFails(r) \/ P!Found(r) \/ P!BreakOff(r)
      PROVE  AtRest'
  <2>1. lifespan' = lifespan /\ lifespan = "serving"
    BY <1>5 DEF P!Arrive, P!Rerank, P!GetShared, P!Lock, P!Connect, P!ConnectFails,
           P!Found, P!BreakOff
  <2>2. QED
    BY <2>1
<1>6. QED
  BY <1>1, <1>2, <1>3, <1>4, <1>5 DEF P!Next

-----------------------------------------------------------------------------
(* One reranking.                                                          *)

(* Who ranks has the permit, and a thread reranks for the one that awaits  *)
(* it, until a stream breaks off.                                          *)
RankInv ==
  /\ \A r \in Callers : spot[r] = "ranking" => permit = r
  /\ ~ broken => \A r \in P!Reranking : spot[r] = "ranking"

LEMMA StepRank ==
  ASSUME P!ProcessAssumption PROVE ProcessTypes /\ RankInv /\ [P!Next]_P!vars => RankInv'
<1> SUFFICES ASSUME ProcessTypes, RankInv, [P!Next]_P!vars PROVE RankInv'
  OBVIOUS
<1> USE DEF ProcessTypes, RankInv, P!Reranking, P!Get, P!Load
<1>0. Callers \subseteq P!Tasks
  BY DEF P!Tasks
<1>1. CASE UNCHANGED P!vars
  BY <1>1 DEF P!vars, P!shared
<1>2. ASSUME NEW t \in P!Tasks, NEW m \in P!SharedModels, P!GetModel(t, m) \/ P!Loaded(t, m)
      PROVE  RankInv'
  BY <1>0, <1>2 DEF P!GetModel, P!Loaded, P!Works, P!shared, P!SharedModels
<1>3. ASSUME NEW t \in P!Tasks, P!Encoded(t) \/ P!Predicted(t) PROVE RankInv'
  <2>1. \A r \in Callers : work'[r] # None => work'[r] = work[r] /\ r # t
    BY <1>0, <1>3 DEF P!Encoded, P!Predicted, P!Works
  <2>2. None \notin P!Threads
    BY DEF P!ProcessAssumption
  <2>3. \A r \in Callers \ {t} : spot'[r] = spot[r]
    BY <1>0, <1>3 DEF P!Encoded, P!Predicted, P!Goto
  <2>4. broken' = broken /\ \A r \in Callers : r \in P!Reranking' => r \in P!Reranking \ {t}
    BY <1>3, <2>1, <2>2 DEF P!Encoded, P!Predicted, P!Threads
  <2>5. \A r \in Callers : spot'[r] = "ranking" => permit' = r
    <3>1. spot[t] = "ranking" => t \in Callers
      BY DEF P!Tasks
    <3>2. spot'[t] = "ranking" => spot[t] = "ranking" /\ permit' = permit
      BY <1>3 DEF P!Encoded, P!Predicted, P!Goto, P!shared
    <3>3. permit' = permit \/ spot[t] = "ranking"
      BY <1>3 DEF P!Encoded, P!Predicted, P!shared
    <3>4. QED
      BY <2>3, <3>1, <3>2, <3>3
  <2>6. QED
    BY <2>3, <2>4, <2>5
<1>4. CASE \/ P!Warm \/ P!WarmUpFails \/ P!Clear \/ P!Shutdown
           \/ P!Dispose \/ P!DisposeFails \/ P!Stopped
  BY <1>4 DEF P!Warm, P!WarmUpFails, P!Clear, P!Shutdown, P!Dispose, P!DisposeFails,
         P!Stopped, P!shared
<1>5. ASSUME NEW r \in Callers, P!Arrive(r) \/ P!Rerank(r) PROVE RankInv'
  BY <1>0, <1>5 DEF P!Arrive, P!Rerank, P!Works, P!Goto, P!shared, P!ProcessAssumption
<1>6. ASSUME NEW r \in Callers,
             P!GetShared(r) \/ P!Lock(r) \/ P!Connect(r) \/ P!ConnectFails(r) \/ P!Found(r)
      PROVE  RankInv'
  BY <1>0, <1>6 DEF P!GetShared, P!Lock, P!Connect, P!ConnectFails, P!Found, P!Goto,
         P!shared
<1>7. ASSUME NEW r \in Callers, P!BreakOff(r) PROVE RankInv'
  BY <1>0, <1>7 DEF P!BreakOff, P!Goto
<1>8. QED
  BY <1>1, <1>2, <1>3, <1>4, <1>5, <1>6, <1>7 DEF P!Next

(* One product list is reranked at a time, until a stream that breaks off  *)
(* leaves its thread behind.                                               *)
THEOREM RerankedOneByOne == P!ProcessAssumption /\ P!Spec => []P!OneRerank
<1> SUFFICES ASSUME P!ProcessAssumption PROVE P!Spec => []P!OneRerank
  OBVIOUS
<1>1. P!Init => RankInv
  BY DEF P!Init, RankInv, P!Reranking, P!Tasks, P!WarmUps, P!ProcessAssumption, P!Get,
         P!Load, P!Threads
<1>2. RankInv => P!OneRerank
  <2> SUFFICES ASSUME RankInv, ~ broken PROVE P!Cardinality(P!Reranking) <= 1
    BY DEF P!OneRerank
  <2>1. P!Reranking \subseteq {permit}
    BY DEF RankInv, P!Reranking
  <2>2. P!Cardinality({permit}) = 1 /\ IsFiniteSet({permit})
    BY ProcessCounts, FS_Singleton
  <2>3. QED
    BY <2>1, <2>2, ProcessCounts, FS_Subset
<1>3. QED
  BY <1>1, <1>2, ProcessBegins, ProcessTyped, StepRank, PTL DEF P!Spec

-----------------------------------------------------------------------------
(* Each model once.                                                        *)

(* The warm-ups, one for each model, load it; before they are done no      *)
(* request looks for one.                                                  *)
WarmInv ==
  role # "script" =>
    /\ \A t \in P!WarmUps :
         /\ work[t] \in {P!Get(P!Warms(t)), P!Load(P!Warms(t)), P!Warms(t), None}
         /\ loads[P!Warms(t)] = IF work[t] = P!Get(P!Warms(t)) THEN 0 ELSE 1
         /\ P!Warms(t) \in cached <=> work[t] \in {P!Warms(t), None}
    /\ lifespan \in {"clearing", "serving", "closing"}
        => \A t \in P!WarmUps : work[t] = None
    /\ \A r \in Callers :
         work[r] # None => /\ \A m \in P!SharedModels : work[r] # P!Load(m)
                           /\ \A t \in P!WarmUps : work[t] = None

LEMMA WarmUpOf ==
  ASSUME NEW m \in P!SharedModels
  PROVE  /\ \E t \in P!WarmUps : P!Warms(t) = m
         /\ \A t, u \in P!WarmUps : P!Warms(t) = P!Warms(u) => t = u
BY DEF P!SharedModels, P!WarmUps, P!Warms

LEMMA StepWarm ==
  ASSUME P!ProcessAssumption
  PROVE  ProcessTypes /\ AtRest /\ WarmInv /\ [P!Next]_P!vars => WarmInv'
<1> SUFFICES ASSUME ProcessTypes, AtRest, WarmInv, [P!Next]_P!vars PROVE WarmInv'
  OBVIOUS
<1> USE DEF ProcessTypes
<1>0. /\ Callers \subseteq P!Tasks /\ P!WarmUps \subseteq P!Tasks
      /\ Callers \cap P!WarmUps = {}
  BY DEF P!Tasks, P!ProcessAssumption
<1>1. CASE UNCHANGED <<role, P!models, work>> /\ lifespan' \in {lifespan, "stopped"}
  BY <1>1 DEF WarmInv, P!models
<1>2. ASSUME NEW t \in P!Tasks, NEW m \in P!SharedModels, P!GetModel(t, m) PROVE WarmInv'
  <2> SUFFICES ASSUME role # "script" PROVE WarmInv'
    BY <1>2 DEF P!GetModel, WarmInv
  <2>1. CASE t \in Callers
    <3>1. m \in cached
      <4>1. PICK u \in P!WarmUps : P!Warms(u) = m
        BY WarmUpOf
      <4>2. work[u] = None
        BY <1>2, <2>1 DEF P!GetModel, WarmInv, P!Get, P!ProcessAssumption, P!Threads
      <4>3. QED
        BY <4>1, <4>2 DEF WarmInv
    <3>2. /\ \A u \in P!Tasks \ {t} : work'[u] = work[u]
          /\ work'[t] = m /\ UNCHANGED <<role, lifespan, cached, loads>>
      BY <1>2, <3>1 DEF P!GetModel, P!Works
    <3>3. work[t] # None /\ \A n \in P!SharedModels : m # P!Load(n)
      BY <1>2 DEF P!GetModel, P!Get, P!Load, P!SharedModels, P!ProcessAssumption, P!Threads
    <3>4. QED
      BY <1>0, <2>1, <3>2, <3>3 DEF WarmInv
  <2>2. CASE t \in P!WarmUps
    <3>1. work[t] = P!Get(P!Warms(t)) /\ m = P!Warms(t) /\ m \notin cached
      BY <1>2, <2>2 DEF P!GetModel, WarmInv, P!Get, P!Load, P!Warms, P!SharedModels,
             P!ProcessAssumption, P!Threads
    <3>2. /\ \A u \in P!Tasks \ {t} : work'[u] = work[u]
          /\ work'[t] = P!Load(m) /\ UNCHANGED <<role, lifespan, cached>>
          /\ loads' = [loads EXCEPT ![m] = @ + 1]
      BY <1>2, <3>1 DEF P!GetModel, P!Works
    <3>3. work[t] # None /\ P!Load(m) # P!Get(m) /\ P!Load(m) \notin {m, None}
      BY <3>1 DEF P!Get, P!Load, P!SharedModels, P!ProcessAssumption, P!Threads
    <3>4. loads'[m] = 1 /\ \A n \in P!SharedModels \ {m} : loads'[n] = loads[n]
      BY <2>2, <3>1, <3>2 DEF WarmInv
    <3>5. \A u \in P!WarmUps : P!Warms(u) \in P!SharedModels /\ (u # t => P!Warms(u) # m)
      BY <2>2, <3>1, WarmUpOf DEF P!Warms, P!SharedModels
    <3>6. QED
      BY <1>0, <2>2, <3>1, <3>2, <3>3, <3>4, <3>5 DEF WarmInv
  <2>3. QED
    BY <2>1, <2>2 DEF P!Tasks
<1>3. ASSUME NEW t \in P!Tasks, NEW m \in P!SharedModels, P!Loaded(t, m) PROVE WarmInv'
  <2> SUFFICES ASSUME role # "script" PROVE WarmInv'
    BY <1>3 DEF P!Loaded, WarmInv
  <2>1. work[t] = P!Load(m) /\ work[t] # None
    BY <1>3 DEF P!Loaded, P!Load, P!ProcessAssumption, P!Threads
  <2>2. t \in P!WarmUps
    BY <2>1 DEF WarmInv, P!Tasks
  <2>3. m = P!Warms(t)
    BY <2>1, <2>2 DEF WarmInv, P!Get, P!Load, P!Warms, P!SharedModels
  <2>4. /\ \A u \in P!Tasks \ {t} : work'[u] = work[u]
        /\ work'[t] = m /\ UNCHANGED <<role, lifespan, loads>> /\ cached' = cached \cup {m}
    BY <1>3 DEF P!Loaded, P!Works
  <2>5. \A u \in P!WarmUps : u # t => P!Warms(u) # m
    BY <2>2, <2>3, WarmUpOf
  <2>6. m # P!Get(m) /\ P!Load(m) # P!Get(m)
    BY DEF P!Get, P!Load, P!SharedModels
  <2>7. QED
    BY <1>0, <2>1, <2>2, <2>3, <2>4, <2>5, <2>6 DEF WarmInv
<1>4. ASSUME NEW t \in P!Tasks, P!Encoded(t) \/ P!Predicted(t) PROVE WarmInv'
  <2>1. /\ \A u \in P!Tasks \ {t} : work'[u] = work[u]
        /\ work'[t] = None /\ UNCHANGED <<role, lifespan, P!models>>
    BY <1>4 DEF P!Encoded, P!Predicted, P!Works
  <2>2. work[t] \in P!SharedModels
    BY <1>4 DEF P!Encoded, P!Predicted, P!SharedModels
  <2>3. CASE t \in P!WarmUps
    <3>1. role # "script" => work[t] = P!Warms(t)
      BY <2>2, <2>3 DEF WarmInv, P!Get, P!Load, P!SharedModels, P!ProcessAssumption,
             P!Threads
    <3>2. P!Warms(t) # P!Get(P!Warms(t)) /\ None # P!Get(P!Warms(t))
      BY DEF P!Warms, P!Get, P!ProcessAssumption, P!Threads
    <3>3. QED
      BY <1>0, <2>1, <2>3, <3>1, <3>2 DEF WarmInv, P!models
  <2>4. CASE t \in Callers
    BY <1>0, <2>1, <2>4 DEF WarmInv, P!models
  <2>5. QED
    BY <2>3, <2>4 DEF P!Tasks
<1>5. CASE P!Warm \/ P!Clear \/ P!Shutdown
  BY <1>5 DEF P!Warm, P!Clear, P!Shutdown, P!models, WarmInv
<1>6. ASSUME NEW r \in Callers, P!Arrive(r) \/ P!Rerank(r) PROVE WarmInv'
  <2>1. lifespan = "serving" /\ UNCHANGED <<role, lifespan, P!models>>
    BY <1>6 DEF P!Arrive, P!Rerank, AtRest, P!Ended
  <2>2. /\ \A u \in P!Tasks \ {r} : work'[u] = work[u]
        /\ \E m \in P!SharedModels : work'[r] = P!Get(m)
    BY <1>0, <1>6 DEF P!Arrive, P!Rerank, P!Works, P!SharedModels
  <2>3. \A m, n \in P!SharedModels : P!Get(m) # P!Load(n)
    BY DEF P!Get, P!Load, P!SharedModels
  <2>4. QED
    BY <1>0, <2>1, <2>2, <2>3 DEF WarmInv, P!models
<1>7. CASE UNCHANGED P!vars
  BY <1>1, <1>7 DEF P!vars
<1>8. CASE P!WarmUpFails \/ P!Dispose \/ P!DisposeFails \/ P!Stopped
  BY <1>1, <1>8 DEF P!WarmUpFails, P!Dispose, P!DisposeFails, P!Stopped
<1>9. ASSUME NEW r \in Callers,
             \/ P!GetShared(r) \/ P!Lock(r) \/ P!Connect(r) \/ P!ConnectFails(r)
             \/ P!Found(r)
             \/ P!BreakOff(r)
      PROVE  WarmInv'
  BY <1>1, <1>9 DEF P!GetShared, P!Lock, P!Connect, P!ConnectFails, P!Found, P!BreakOff
<1>10. QED
  BY <1>2, <1>3, <1>4, <1>5, <1>6, <1>7, <1>8, <1>9 DEF P!Next

(* Each model is loaded once in the process that warms up.                 *)
THEOREM ModelsLoadedOnce == P!ProcessAssumption /\ P!Spec => []P!LoadedOnce
<1> SUFFICES ASSUME P!ProcessAssumption PROVE P!Spec => []P!LoadedOnce
  OBVIOUS
<1>1. P!Init => WarmInv
  <2> SUFFICES ASSUME P!Init, role # "script" PROVE WarmInv
    BY DEF WarmInv
  <2>1. \A t \in P!WarmUps : work[t] = P!Get(P!Warms(t)) /\ P!Warms(t) \in P!SharedModels
    BY DEF P!Init, P!Tasks, P!Warms, P!SharedModels, P!ProcessAssumption
  <2>2. \A r \in Callers : work[r] = None
    BY DEF P!Init, P!Tasks
  <2>3. \A m \in P!SharedModels : P!Get(m) \notin {m, None}
    BY DEF P!Get, P!SharedModels, P!ProcessAssumption, P!Threads
  <2>4. cached = {} /\ lifespan = "warming" /\ loads = [m \in P!SharedModels |-> 0]
    BY DEF P!Init
  <2>5. QED
    BY <2>1, <2>2, <2>3, <2>4 DEF WarmInv
<1>2. WarmInv => P!LoadedOnce
  <2> SUFFICES ASSUME WarmInv, role # "script", NEW m \in P!SharedModels PROVE loads[m] <= 1
    BY DEF P!LoadedOnce
  <2>1. PICK t \in P!WarmUps : P!Warms(t) = m
    BY WarmUpOf
  <2>2. QED
    BY <2>1 DEF WarmInv
<1>3. P!Init => AtRest
  BY DEF P!Init, AtRest, P!Ended, P!Tasks
<1>4. QED
  BY <1>1, <1>2, <1>3, ProcessBegins, ProcessTyped, StepAtRest, StepWarm, PTL DEF P!Spec

-----------------------------------------------------------------------------
(* Nothing left open.                                                      *)

(* What is open is still to be disposed of.                                *)
OpenInv ==
  /\ open \subseteq Clients \ {"weaviate"}
  /\ lifespan \in {"warming", "clearing", "serving"} => left = P!Disposal
  /\ lifespan = "closing" =>
       open \subseteq P!ToSet(left) /\ (client # None => "weaviate" \in P!ToSet(left))
  /\ lifespan = "stopped" /\ ~ raised => open = {} /\ client = None

LEMMA AllDisposed == P!ToSet(P!Disposal) = Clients
BY DEF P!ToSet, P!Disposal, Clients

LEMMA OneByOne ==
  ASSUME NEW s \in Seq(Clients), s # <<>>, NEW x \in P!ToSet(s)
  PROVE  x = Head(s) \/ x \in P!ToSet(Tail(s))
<1>1. PICK i \in DOMAIN s : x = s[i]
  BY DEF P!ToSet
<1>2. CASE i = 1
  BY <1>1, <1>2
<1>3. CASE i # 1
  <2>1. i - 1 \in DOMAIN Tail(s) /\ Tail(s)[i - 1] = s[i]
    BY <1>1, <1>3
  <2>2. QED
    BY <1>1, <2>1 DEF P!ToSet
<1>4. QED
  BY <1>2, <1>3

LEMMA StepOpen ==
  ASSUME P!ProcessAssumption
  PROVE  ProcessTypes /\ AtRest /\ OpenInv /\ [P!Next]_P!vars => OpenInv'
<1> SUFFICES ASSUME ProcessTypes, AtRest, OpenInv, [P!Next]_P!vars PROVE OpenInv'
  OBVIOUS
<1> USE DEF OpenInv
<1>1. CASE UNCHANGED <<lifespan, open, client, left, raised>>
  BY <1>1
<1>2. ASSUME NEW t \in P!Tasks, NEW m \in P!SharedModels, P!GetModel(t, m) \/ P!Loaded(t, m)
      PROVE  OpenInv'
  BY <1>1, <1>2 DEF P!GetModel, P!Loaded, P!shared, P!clients
<1>3. ASSUME NEW t \in P!Tasks, P!Encoded(t) \/ P!Predicted(t) PROVE OpenInv'
  BY <1>1, <1>3 DEF P!Encoded, P!Predicted, P!shared, P!clients
<1>4. CASE P!Warm \/ P!WarmUpFails \/ P!DisposeFails
  BY <1>4 DEF P!Warm, P!WarmUpFails, P!DisposeFails, P!shared, P!clients
<1>5. CASE P!Clear
  BY <1>5 DEF P!Clear, P!shared, Clients
<1>6. CASE P!Shutdown
  BY <1>6, AllDisposed DEF P!Shutdown, P!shared, P!clients, Clients
<1>7. CASE P!Stopped
  <2>1. P!ToSet(left) = {}
    BY <1>7 DEF P!Stopped, P!ToSet
  <2>2. QED
    BY <1>7, <2>1 DEF P!Stopped, P!shared, P!clients
<1>8. CASE P!Dispose
  <2>1. \A x \in P!ToSet(left) : x = Head(left) \/ x \in P!ToSet(Tail(left))
    BY <1>8, OneByOne DEF P!Dispose, ProcessTypes
  <2>2. QED
    BY <1>8, <2>1 DEF P!Dispose
<1>9. ASSUME NEW r \in Callers, P!Arrive(r) \/ P!Connect(r) PROVE OpenInv'
  <2>1. lifespan = "serving" /\ UNCHANGED <<lifespan, left, raised>>
    BY <1>9 DEF P!Arrive, P!Connect, AtRest, P!Ended
  <2>2. open' \subseteq Clients \ {"weaviate"}
    BY <1>9 DEF P!Arrive, P!Connect, Clients
  <2>3. QED
    BY <2>1, <2>2
<1>10. ASSUME NEW r \in Callers,
              \/ P!GetShared(r) \/ P!Lock(r) \/ P!ConnectFails(r) \/ P!Found(r)
              \/ P!Rerank(r)
              \/ P!BreakOff(r)
       PROVE  OpenInv'
  BY <1>1, <1>10 DEF P!GetShared, P!Lock, P!ConnectFails, P!Found, P!Rerank, P!BreakOff,
         P!shared, P!clients
<1>11. CASE UNCHANGED P!vars
  BY <1>1, <1>11 DEF P!vars, P!shared, P!clients
<1>12. QED
  BY <1>2, <1>3, <1>4, <1>5, <1>6, <1>7, <1>8, <1>9, <1>10, <1>11 DEF P!Next

(* A process whose disposers all succeeded leaves nothing open.            *)
THEOREM EverythingDisposed == P!ProcessAssumption /\ P!Spec => []P!NothingLeftOpen
<1> SUFFICES ASSUME P!ProcessAssumption PROVE P!Spec => []P!NothingLeftOpen
  OBVIOUS
<1>1. P!Init => OpenInv /\ AtRest /\ ConnectionInv
  BY DEF P!Init, OpenInv, AtRest, P!Ended, ConnectionInv, P!Tasks, P!WarmUps,
         P!ProcessAssumption
<1>2. OpenInv /\ ConnectionInv => P!NothingLeftOpen
  BY DEF OpenInv, ConnectionInv, P!NothingLeftOpen
<1>3. QED
  BY <1>1, <1>2, ProcessBegins, ProcessTyped, StepAtRest, StepOpen, StepConnection, PTL
     DEF P!Spec

(* There is never a second Weaviate connection nor a model loaded twice, a *)
(* permit is left to one reranking, and what was opened is disposed of.    *)
THEOREM ProcessSharesOneOfEach == P!ProcessAssumption /\ P!Spec => []OneOfEach
<1>1. P!OneConnection /\ P!LoadedOnce /\ P!OneRerank /\ P!NothingLeftOpen => OneOfEach
  BY DEF OneOfEach, P!OneOfEach
<1>2. QED
  BY <1>1, ConnectedOnce, ModelsLoadedOnce, RerankedOneByOne, EverythingDisposed, PTL

=============================================================================
