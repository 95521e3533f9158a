----------------------------- MODULE Enrichment -----------------------------
(***************************************************************************)
(* The paid category enrichment of scripts/enrich_categories.py: batches   *)
(* classified by a model, a wave of them at a time, each appended to a     *)
(* file as one line; a run that fails or is killed is run again and skips  *)
(* the keys the file already has.                                          *)
(***************************************************************************)
EXTENDS Integers, FiniteSetsExt, SequencesExt

CONSTANTS
  Feed,        \* the identity key of every row of the feed, None if it has none
  None,
  Taxonomy,
  Uncategorized,
  BatchSize,
  WaveSize,    \* ENRICH_CONCURRENCY_LIMIT
  Attempts,    \* of a call
  Pilots,      \* the --pilot values the script is run with, None for none
  MaxStops     \* bound on the runs that fail or are killed

Keys == ToSet(Feed) \ {None}

EnrichmentAssumption ==
  /\ Feed \in Seq(Keys \cup {None})
  /\ Uncategorized \in Taxonomy
  /\ BatchSize \in Nat \ {0} /\ WaveSize \in Nat \ {0} /\ Attempts \in Nat \ {0}
  /\ MaxStops \in Nat

VARIABLES
  file,      \* its whole lines, each a classification of the keys of a batch
  torn,      \* "cut" when its last line is cut short, "spoilt" once another
             \* was appended to it, "not" otherwise
  running,
  batches,   \* those of this run that no wave has taken yet
  calling,   \* the batches of the wave waiting for the model, and their attempts
  writing,   \* the classifications of the wave waiting to be appended
  paid,      \* history: how often a classification of each key was billed
  wasted,    \* history: how often one was and never reached the file
  retried,   \* history: the attempts that were followed by another
  stops

vars == <<file, torn, running, batches, calling, writing, paid, wasted, retried, stops>>

-----------------------------------------------------------------------------
(* load_work_items: the place of every item in the feed.  Rows without a  *)
(* key are skipped, a repeated key keeps its place.                        *)
WorkItems == {n \in DOMAIN Feed : Feed[n] # None /\ \A m \in 1 .. n - 1 : Feed[m] # Feed[n]}

(* _prepare_output: the keys of every line.                                *)
AlreadyDone == UNION {DOMAIN line : line \in ToSet(file)}

(* Mutant: every run starts over.                                          *)
RemainingAll == WorkItems

Remaining == {n \in WorkItems : Feed[n] \notin AlreadyDone}

(* The index of an item among the others, which are in the feed's order.   *)
Index(n, items) == Cardinality({m \in items : m < n})

Piloted(pilot, items) ==
  IF pilot = None THEN items ELSE {n \in items : Index(n, items) < pilot}

(* Slices of BatchSize items; the keys of each.                            *)
Batches(items) ==
  [b \in 1 .. (Cardinality(items) + BatchSize - 1) \div BatchSize |->
     {Feed[n] : n \in {m \in items : Index(m, items) \div BatchSize = b - 1}}]

(* _extract_result: what the model left out, or answered outside the       *)
(* taxonomy, is uncategorized.                                             *)
ExtractResult(batch, answers) ==
  [key \in batch |-> IF key \in DOMAIN answers THEN answers[key] ELSE Uncategorized]

-----------------------------------------------------------------------------
(* History of what a step has billed, and of what it has lost.             *)
Plus(count, keys) == [key \in Keys |-> count[key] + IF key \in keys THEN 1 ELSE 0]

BatchKeys(calls) == UNION {c.batch : c \in calls}
LineKeys(lines) == UNION {DOMAIN line : line \in lines}

(* enrich reads the file and plans its batches; a line that does not parse *)
(* ends it before any call.                                                *)
Begin ==
  /\ ~ running /\ writing = {} /\ torn = "not"
  /\ running' = TRUE
  /\ \E pilot \in Pilots : batches' = Batches(Piloted(pilot, Remaining))
  /\ UNCHANGED <<file, torn, calling, writing, paid, wasted, retried, stops>>

(* gather: the next wave, once the last one is done with.                  *)
StartWave ==
  /\ running /\ calling = {} /\ writing = {} /\ batches # <<>>
  /\ LET n == Min({WaveSize, Len(batches)})
     IN /\ calling' = {[batch |-> batches[i], attempt |-> 1] : i \in 1 .. n}
        /\ batches' = SubSeq(batches, n + 1, Len(batches))
  /\ UNCHANGED <<file, torn, running, writing, paid, wasted, retried, stops>>

(* The model classifies some of the batch, and the append is submitted.    *)
CallReturns(c) ==
  /\ calling' = calling \ {c}
  /\ \E answered \in SUBSET c.batch : \E answers \in [answered -> Taxonomy \ {Uncategorized}] :
       writing' = writing \cup {ExtractResult(c.batch, answers)}
  /\ paid' = Plus(paid, c.batch)
  /\ UNCHANGED <<file, torn, running, batches, wasted, retried, stops>>

(* A timeout, or a dropped connection, may have been billed all the same.  *)
CallRetried(c) ==
  /\ c.attempt < Attempts
  /\ calling' = (calling \ {c}) \cup {[c EXCEPT !.attempt = @ + 1]}
  /\ retried' = retried + 1
  /\ \E billed \in {{}, c.batch} : /\ paid' = Plus(paid, billed)
                                  /\ wasted' = Plus(wasted, billed)
  /\ UNCHANGED <<file, torn, running, batches, writing, stops>>

(* The run ends early.  Any of the calls under way may have been billed;   *)
(* of the appends, the dropped ones never complete, and the last of them   *)
(* may have left a part of its line.                                       *)
Break(dropped) ==
  /\ stops < MaxStops /\ stops' = stops + 1
  /\ running' = FALSE
  /\ batches' = <<>> /\ calling' = {}
  /\ writing' = writing \ dropped
  /\ torn' \in {torn} \cup {"cut" : line \in dropped}
  /\ \E billed \in SUBSET calling :
       /\ paid' = Plus(paid, BatchKeys(billed))
       /\ wasted' = Plus(wasted, BatchKeys(billed) \cup LineKeys(dropped))
  /\ UNCHANGED <<file, retried>>

(* A call raises, on its last attempt, at once, or over an answer it has   *)
(* paid for and cannot read; or an append raises.  The error leaves        *)
(* gather, and with it the run: the other calls are cancelled, and the     *)
(* appends that no thread has begun.                                       *)
RunFails == running /\ \E dropped \in SUBSET writing : Break(dropped)

(* The process is killed, maybe while the threads of a failed run write.   *)
Kill == (running \/ writing # {}) /\ Break(writing)

(* _append.  A line that follows a cut one is part of it, and lost.        *)
Write(line) ==
  /\ writing' = writing \ {line}
  /\ IF torn = "cut"
     THEN torn' = "spoilt" /\ wasted' = Plus(wasted, DOMAIN line) /\ UNCHANGED file
     ELSE file' = Append(file, line) /\ UNCHANGED <<torn, wasted>>
  /\ UNCHANGED <<running, batches, calling, paid, retried, stops>>

(* An append of a run that has failed raises: nobody is there to see it.   *)
WriteFails(line) ==
  /\ ~ running
  /\ writing' = writing \ {line}
  /\ torn' \in {torn, "cut"}
  /\ wasted' = Plus(wasted, DOMAIN line)
  /\ UNCHANGED <<file, running, batches, calling, paid, retried, stops>>

Finish ==
  /\ running /\ batches = <<>> /\ calling = {} /\ writing = {}
  /\ running' = FALSE
  /\ UNCHANGED <<file, torn, batches, calling, writing, paid, wasted, retried, stops>>

Init ==
  /\ file = <<>> /\ torn = "not" /\ running = FALSE
  /\ batches = <<>> /\ calling = {} /\ writing = {}
  /\ paid = [key \in Keys |-> 0]
  /\ wasted = [key \in Keys |-> 0]
  /\ retried = 0 /\ stops = 0

Next ==
  \/ Begin \/ StartWave \/ RunFails \/ Kill \/ Finish
  \/ \E c \in calling : CallReturns(c) \/ CallRetried(c)
  \/ \E line \in writing : Write(line) \/ WriteFails(line)

Spec == Init /\ [][Next]_vars

-----------------------------------------------------------------------------
(* "A re-run skips identity keys already present": no key is in two lines  *)
(* of the file, and every classification that was billed is in its line,   *)
(* about to be, or wasted.  Waste takes an attempt that was retried, which *)
(* costs its batch at most, or a run that failed or was killed, which      *)
(* costs a wave at most, whether its calls, its answers or its appends     *)
(* were lost (and not "only the in-flight batch").                         *)
PaidForOnce ==
  /\ \A key \in Keys :
       LET Has(line) == key \in DOMAIN line
           recorded == Cardinality({n \in DOMAIN file : Has(file[n])})
       IN /\ recorded <= 1
          /\ paid[key] = recorded + wasted[key]
                         + IF \E line \in writing : Has(line) THEN 1 ELSE 0
  /\ MapThenSumSet(LAMBDA key : wasted[key], Keys)
       <= (retried + stops * WaveSize) * BatchSize

=============================================================================
