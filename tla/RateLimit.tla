----------------------------- MODULE RateLimit -----------------------------
(***************************************************************************)
(* The fixed-window rate limiter of app/rate_limit.py over one Redis key:  *)
(* check_rate_limit as its callers interleave, INCR, EXPIRE and TTL being  *)
(* three calls.  Any of them may fail, and time passes between them.       *)
(***************************************************************************)
EXTENDS Integers, FiniteSetsExt

CONSTANTS
  Callers,
  Limit,
  Window,     \* window_seconds, in ticks
  None,
  MaxCount,   \* bound on the counter: it counts no further, all of it being refused
  MaxFailures   \* bound on failing calls

RateLimitAssumption ==
  /\ Limit \in Nat \ {0} /\ Window \in Nat \ {0}
  /\ None \notin Nat
  /\ MaxCount \in Nat /\ MaxCount > Limit + 1
  /\ MaxFailures \in Nat

VARIABLES
  counter,   \* Redis: the key's value, 0 if there is no key
  ttl,       \* Redis: the ticks it has left, 0 if it has no expiry
  pc,        \* where each caller is
  count,     \* what INCR answered it
  admitted,  \* history: how many of those counted n ticks ago pass, n < Window
  promised,  \* history: the least wait left of those the counter's refusals told
  orphaned,  \* history: the counter's EXPIRE failed
  failures

redis == <<counter, ttl>>
vars == <<redis, pc, count, admitted, promised, orphaned, failures>>

Goto(c, stage) == pc' = [pc EXCEPT ![c] = stage]

(* Mutant: the expiry is pushed out by every request.                      *)
SetsExpiryAlways(n) == TRUE

(* Only the request that creates the counter sets its expiry.              *)
SetsExpiry(n) == n = 1

(* Mutant: off by one.                                                     *)
AllowsOneMore(n) == n <= Limit + 1

Allows(n) == n <= Limit

Incr(c) ==
  /\ pc[c] = "idle"
  /\ counter' = Min({counter + 1, MaxCount})
  /\ count' = [count EXCEPT ![c] = counter']
  /\ admitted' = [admitted EXCEPT ![0] = @ + IF Allows(counter') THEN 1 ELSE 0]
  /\ Goto(c, IF SetsExpiry(counter') THEN "expire" ELSE "judge")
  /\ UNCHANGED <<ttl, promised, orphaned, failures>>

Expire(c) ==
  /\ pc[c] = "expire"
  /\ ttl' = IF counter = 0 THEN 0 ELSE Window
  /\ Goto(c, "judge")
  /\ UNCHANGED <<counter, count, admitted, promised, orphaned, failures>>

(* The request is admitted and the caller may come again.                  *)
Allow(c) ==
  /\ pc[c] = "judge" /\ Allows(count[c])
  /\ Goto(c, "idle")
  /\ UNCHANGED <<redis, count, admitted, promised, orphaned, failures>>

(* A key without expiry or without existence answers a whole window.       *)
RetryAfter == IF ttl > 0 THEN ttl ELSE Window

(* 429 with the TTL as Retry-After.                                        *)
Refuse(c) ==
  /\ pc[c] = "judge" /\ ~ Allows(count[c])
  /\ promised' = IF ttl = 0 THEN promised
                 ELSE IF promised = None \/ RetryAfter < promised THEN RetryAfter
                 ELSE promised
  /\ Goto(c, "idle")
  /\ UNCHANGED <<redis, count, admitted, orphaned, failures>>

(* A call raises, having taken effect or not: the request fails.           *)
Fails(c) ==
  /\ pc[c] # "idle" /\ failures < MaxFailures /\ failures' = failures + 1
  /\ orphaned' = (orphaned \/ (pc[c] = "expire" /\ counter # 0))
  /\ Goto(c, "idle")
  /\ UNCHANGED <<redis, count, admitted, promised>>

(* A second passes; Redis drops a key whose time has come.                 *)
Tick ==
  /\ ttl' = IF ttl = 0 THEN 0 ELSE ttl - 1
  /\ counter' = IF ttl = 1 THEN 0 ELSE counter
  /\ admitted' = [n \in 0 .. Window - 1 |-> IF n = 0 THEN 0 ELSE admitted[n - 1]]
  /\ promised' = IF promised = None \/ ttl = 1 THEN None
                 ELSE IF promised = 0 THEN 0 ELSE promised - 1
  /\ orphaned' = (orphaned /\ ttl # 1)
  /\ UNCHANGED <<pc, count, failures>>

Init ==
  /\ counter = 0 /\ ttl = 0
  /\ pc = [c \in Callers |-> "idle"]
  /\ count = [c \in Callers |-> 0]
  /\ admitted = [n \in 0 .. Window - 1 |-> 0]
  /\ promised = None
  /\ orphaned = FALSE
  /\ failures = 0

Proceed(c) == Expire(c) \/ Allow(c) \/ Refuse(c)

Next == (\E c \in Callers : Incr(c) \/ Proceed(c) \/ Fails(c)) \/ Tick

Spec == Init /\ [][Next]_vars

(* Calls return and time passes.                                           *)
Fairness == (\A c \in Callers : WF_vars(Proceed(c))) /\ WF_vars(Tick)

FairSpec == Spec /\ Fairness

-----------------------------------------------------------------------------
(* Every variable has its type.                                            *)
TypeOK ==
  /\ counter \in Nat /\ ttl \in 0 .. Window
  /\ pc \in [Callers -> {"idle", "expire", "judge"}]
  /\ count \in [Callers -> Nat]
  /\ admitted \in [0 .. Window - 1 -> Nat]
  /\ promised \in 0 .. Window \cup {None}
  /\ orphaned \in BOOLEAN
  /\ failures \in 0 .. MaxFailures

(* A caller that waits as long as its 429 said finds the counter that      *)
(* refused it gone.  (One refused before the counter had an expiry is told *)
(* a whole window, which may be too short by what the EXPIRE was late.)    *)
RetryAfterSuffices == promised # None => ttl > 0 /\ promised >= ttl

(* "A steady trickle of requests could keep one window open indefinitely   *)
(* and the limit would never actually reset": every counter goes, unless   *)
(* the one EXPIRE it gets failed.                                          *)
WindowsEnd == counter > 0 ~> counter = 0 \/ orphaned

(* "A caller can burst up to ~2x the limit right at a window boundary",    *)
(* and never beyond: of the requests counted in any span of Window ticks   *)
(* at most that many pass, however late EXPIRE follows INCR.               *)
TwiceTheLimitAtMost == MapThenSumSet(LAMBDA n : admitted[n], 0 .. Window - 1) <= 2 * Limit

=============================================================================
