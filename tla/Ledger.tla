------------------------------- MODULE Ledger -------------------------------
(***************************************************************************)
(* The LLM cost ledger: chat streams that write a row per Bedrock call     *)
(* (record_llm_usage of app/llm/cost_tracking.py) through the connection   *)
(* pool of app/database.py, and the usage endpoint that adds the rows up.  *)
(*                                                                         *)
(* A stream keeps the connection its authentication took until             *)
(* session_scope ends, after the last event was sent; a ledger row takes a *)
(* second one.  Costs are in 1/20 of a millionth of a dollar, so that the  *)
(* cache multipliers are whole numbers.                                    *)
(***************************************************************************)
EXTENDS Integers, FiniteSetsExt

CONSTANTS
  Streams,
  Merchants,
  MerchantOf,    \* whose stream it is
  LongIds,       \* streams whose conversation_id is longer than its column
  Models,
  Priced,        \* PRICING: a model to its dollars per million [input, output]
  Usages,        \* what a call may use: [input, output, cached, created]
  None,
  PoolSize,      \* pool_size + max_overflow
  MaxCalls,      \* bound on the calls of a stream
  MaxFaults,     \* bound on failing calls
  MaxTime        \* bound on the clock

(* What a call was for, and what it used.                                  *)
Usage == [input : Nat, output : Nat, cached : Nat, created : Nat]
Call == [stream : Streams, n : Nat, model : Models, usage : Usages]

LedgerAssumption ==
  /\ MerchantOf \in [Streams -> Merchants] /\ LongIds \subseteq Streams
  /\ DOMAIN Priced \subseteq Models
  /\ \A model \in DOMAIN Priced : Priced[model] \in [input : Nat, output : Nat]
  /\ Usages \subseteq Usage
  /\ None \notin Models /\ None \notin Nat /\ None \notin Call
  /\ PoolSize \in Nat \ {0}
  /\ MaxCalls \in Nat /\ MaxFaults \in Nat /\ MaxTime \in Nat

VARIABLES
  phase,       \* where each stream is
  calls,    \* how many of its calls have returned
  unpaid,   \* the call it is recording: [model, usage], or None
  ledger,   \* Postgres: llm_usage
  lost,     \* history: the calls whose row was given up, and why
  billed,   \* history: the calls that returned
  now, faults

vars == <<phase, calls, unpaid, ledger, lost, billed, now, faults>>

Stage == {"idle", "open", "call", "record", "insert", "done"}
Cause == {"unpriced", "pool", "long", "fault", "cancelled"}

Holding(s) == CASE phase[s] \in {"call", "record"} -> 1
                [] phase[s] = "insert" -> 2
                [] OTHER -> 0

PoolIsFull == MapThenSumSet(Holding, Streams) >= PoolSize

Goto(s, stage) == phase' = [phase EXCEPT ![s] = stage]

Spend == faults < MaxFaults /\ faults' = faults + 1

-----------------------------------------------------------------------------
(* estimate_cost_usd, for a priced model.                                  *)
EstimateCost(model, usage) ==
  Priced[model].input * (20 * usage.input + 2 * usage.cached + 25 * usage.created)
    + Priced[model].output * 20 * usage.output

Open(s) ==
  /\ phase[s] = "idle"
  /\ Goto(s, "open")
  /\ UNCHANGED <<calls, unpaid, ledger, lost, billed, now, faults>>

Authenticate(s) ==
  /\ phase[s] = "open" /\ ~ PoolIsFull
  /\ Goto(s, "call")
  /\ UNCHANGED <<calls, unpaid, ledger, lost, billed, now, faults>>

(* The pool has no connection for pool_timeout seconds: a 500.             *)
TurnedAway(s) ==
  /\ phase[s] = "open" /\ PoolIsFull
  /\ Goto(s, "done")
  /\ UNCHANGED <<calls, unpaid, ledger, lost, billed, now, faults>>

(* A call of the agent returns with its usage.                             *)
CallReturns(s) ==
  /\ phase[s] = "call" /\ calls[s] < MaxCalls
  /\ calls' = [calls EXCEPT ![s] = @ + 1]
  /\ \E model \in Models, usage \in Usages :
       LET call == [stream |-> s, n |-> calls[s] + 1, model |-> model, usage |-> usage]
       IN /\ billed' = billed \cup {call}
          /\ IF model \in DOMAIN Priced
             THEN /\ unpaid' = [unpaid EXCEPT ![s] = call]
                  /\ Goto(s, "record")
                  /\ UNCHANGED lost
             ELSE /\ lost' = lost \cup {[call |-> call, cause |-> "unpriced"]}
                  /\ UNCHANGED <<phase, unpaid>>
  /\ UNCHANGED <<ledger, now, faults>>

(* Checks a second connection out for the row.                             *)
TakeConnection(s) ==
  /\ phase[s] = "record" /\ ~ PoolIsFull
  /\ Goto(s, "insert")
  /\ UNCHANGED <<calls, unpaid, ledger, lost, billed, now, faults>>

(* The row is given up with a warning and the turn goes on.                *)
GiveUp(s, cause) ==
  /\ lost' = lost \cup {[call |-> unpaid[s], cause |-> cause]}
  /\ unpaid' = [unpaid EXCEPT ![s] = None]
  /\ Goto(s, "call")

(* Mutant: no pool_timeout, a row that must not be lost waits its turn.    *)
WaitsOn(s) == FALSE

(* pool_timeout: what every stream waits for, none gives back.             *)
TimesOut(s) == phase[s] = "record" /\ PoolIsFull

RecordTimesOut(s) ==
  /\ TimesOut(s)
  /\ GiveUp(s, "pool")
  /\ UNCHANGED <<calls, ledger, billed, now, faults>>

Row(s) == [merchant |-> MerchantOf[s], call |-> unpaid[s], at |-> now,
           cost |-> EstimateCost(unpaid[s].model, unpaid[s].usage)]

Insert(s) ==
  /\ phase[s] = "insert" /\ s \notin LongIds
  /\ ledger' = ledger \cup {Row(s)}
  /\ unpaid' = [unpaid EXCEPT ![s] = None]
  /\ Goto(s, "call")
  /\ UNCHANGED <<calls, lost, billed, now, faults>>

(* Postgres refuses a conversation_id its column is too short for.         *)
InsertRefused(s) ==
  /\ phase[s] = "insert" /\ s \in LongIds
  /\ GiveUp(s, "long")
  /\ UNCHANGED <<calls, ledger, billed, now, faults>>

(* The commit fails.                                                       *)
InsertFails(s) ==
  /\ phase[s] = "insert" /\ Spend
  /\ GiveUp(s, "fault")
  /\ UNCHANGED <<calls, ledger, billed, now>>

Close(s) ==
  /\ phase[s] = "call"
  /\ Goto(s, "done")
  /\ UNCHANGED <<calls, unpaid, ledger, lost, billed, now, faults>>

(* The client goes away: CancelledError is not an Exception, so nothing    *)
(* even warns of the row that was being written.                           *)
Cancelled(s) ==
  /\ phase[s] \in {"open", "call", "record", "insert"} /\ Spend
  /\ lost' = IF unpaid[s] = None THEN lost
             ELSE lost \cup {[call |-> unpaid[s], cause |-> "cancelled"]}
  /\ unpaid' = [unpaid EXCEPT ![s] = None]
  /\ Goto(s, "done")
  /\ UNCHANGED <<calls, ledger, billed, now>>

Tick ==
  /\ now < MaxTime /\ now' = now + 1
  /\ UNCHANGED <<phase, calls, unpaid, ledger, lost, billed, faults>>

Init ==
  /\ phase = [s \in Streams |-> "idle"]
  /\ calls = [s \in Streams |-> 0]
  /\ unpaid = [s \in Streams |-> None]
  /\ ledger = {} /\ lost = {} /\ billed = {}
  /\ now = 0 /\ faults = 0

Proceed(s) ==
  \/ Authenticate(s) \/ TurnedAway(s)
  \/ TakeConnection(s) \/ RecordTimesOut(s)
  \/ Insert(s) \/ InsertRefused(s)
  \/ Close(s)

Next ==
  \/ \E s \in Streams : Open(s) \/ CallReturns(s) \/ Proceed(s)
                        \/ InsertFails(s) \/ Cancelled(s)
  \/ Tick

Spec == Init /\ [][Next]_vars

(* Connections, timeouts and commits come; a chat turn has a last call.    *)
Fairness == \A s \in Streams : WF_vars(Proceed(s))

FairSpec == Spec /\ Fairness

-----------------------------------------------------------------------------
(* get_usage: a merchant's rows of a window, by model.                     *)

(* Mutant: until is inclusive, as since is.                                *)
InClosedWindow(row, since, until) ==
  (since # None => row.at >= since) /\ (until # None => row.at <= until)

InWindow(row, since, until) ==
  (since # None => row.at >= since) /\ (until # None => row.at < until)

Selected(m, since, until) ==
  {row \in ledger : row.merchant = m /\ InWindow(row, since, until)}

Cost(rows) == MapThenSumSet(LAMBDA row : row.cost, rows)

ByModel(m, since, until) ==
  LET rows == Selected(m, since, until)
      Of(model) == {row \in rows : row.call.model = model}
  IN [model \in {row.call.model : row \in rows} |->
        [calls |-> Cardinality(Of(model)), cost |-> Cost(Of(model))]]

TotalCost(by_model) == MapThenSumSet(LAMBDA model : by_model[model].cost, DOMAIN by_model)

TotalCalls(by_model) == MapThenSumSet(LAMBDA model : by_model[model].calls, DOMAIN by_model)

-----------------------------------------------------------------------------
(* Every variable has its type.                                            *)
TypeOK ==
  /\ phase \in [Streams -> Stage]
  /\ calls \in [Streams -> 0 .. MaxCalls]
  /\ \A s \in Streams : unpaid[s] # None <=> phase[s] \in {"record", "insert"}
  /\ \A l \in lost : l.cause \in Cause
  /\ \A row \in ledger : row.at \in 0 .. now
  /\ now \in 0 .. MaxTime /\ faults \in 0 .. MaxFaults

(* What a merchant reads before an instant and from it on adds up to the   *)
(* calls its streams made and to their prices, but for those whose row was *)
(* given up or is being written: no call is charged twice, to another      *)
(* merchant, or in two windows.                                            *)
BillsAddUp ==
  \A m \in Merchants, t \in 0 .. MaxTime :
    LET before == ByModel(m, None, t)
        after == ByModel(m, t, None)
        settled == {call \in billed :
                      /\ MerchantOf[call.stream] = m
                      /\ call # unpaid[call.stream]
                      /\ \A l \in lost : l.call # call}
    IN /\ TotalCalls(before) + TotalCalls(after) = Cardinality(settled)
       /\ TotalCost(before) + TotalCost(after) =
            MapThenSumSet(LAMBDA call : EstimateCost(call.model, call.usage), settled)

(* Streams that all hold a connection and all wait for a second one do not *)
(* wait for ever.                                                          *)
StreamsEnd == \A s \in Streams : phase[s] # "idle" ~> phase[s] = "done"

=============================================================================
