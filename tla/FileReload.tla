----------------------------- MODULE FileReload -----------------------------
(***************************************************************************)
(* Two caches of files other programs write, kept fresh by the file's      *)
(* mtime: the tuned alphas of AlphaRouter (app/retrieval/alpha_router.py,  *)
(* written by eval/sweep_alpha.py) and the enrichment map of               *)
(* load_enrichment_map (app/ingestion/taxonomy.py, written by              *)
(* scripts/enrich_categories.py).  The writer is another process, so a     *)
(* write may fall between any two calls of a reader, and a read may fall   *)
(* into the middle of a write.                                             *)
(*                                                                         *)
(* One file stands for both: each reader has its own cache of it.          *)
(***************************************************************************)
EXTENDS Integers

CONSTANTS
  Routers,    \* AlphaRouters: priors stand in for what cannot be read
  Maps,       \* callers of load_enrichment_map: what cannot be read raises
  None,       \* no file, its mtime, and what is served for want of one
  Torn,       \* the content of a file in the middle of a write
  MaxWrites,  \* bound on the writer's runs
  MaxTime     \* bound on the clock, whose tick is the mtime's grain

Readers == Routers \cup Maps

FileReloadAssumption ==
  /\ Routers \cap Maps = {}
  /\ None # Torn /\ None \notin Nat /\ Torn \notin Nat
  /\ MaxWrites \in Nat /\ MaxTime \in Nat

VARIABLES
  file,     \* the version in it, Torn, or None
  mtime,    \* when that was written
  writes,   \* how many runs have begun
  changed,  \* when the file last changed
  clock,
  step,       \* where each reader is
  stat,     \* the mtime its running call has read
  seen,     \* the mtime it keeps with what it holds
  holds,    \* the version it serves; None: the priors, the empty map
  checked,  \* history: a call has ended since the file last changed
  gap,      \* history: the file changed between what it holds and its mtime
  shared    \* history: the file changed twice within one tick

disk == <<file, mtime, writes, changed, shared>>
vars == <<disk, clock, step, stat, seen, holds, checked, gap>>

Goto(r, stage) == step' = [step EXCEPT ![r] = stage]

-----------------------------------------------------------------------------
(* The file becomes v; the calls under way are no evidence of it.          *)
Becomes(v) ==
  /\ file' = v
  /\ mtime' = IF v = None THEN None ELSE clock
  /\ changed' = clock /\ shared' = (changed = clock)
  /\ checked' = [r \in Readers |-> FALSE]
  /\ gap' = [r \in Readers |-> gap[r] \/ step[r] = "stat_after"]

(* write_text truncates first; an append may be seen half-written.         *)
BeginWrite ==
  /\ file # Torn /\ writes < MaxWrites
  /\ writes' = writes + 1
  /\ Becomes(Torn)
  /\ UNCHANGED <<clock, step, stat, seen, holds>>

EndWrite ==
  /\ file = Torn
  /\ Becomes(writes)
  /\ UNCHANGED <<writes, clock, step, stat, seen, holds>>

(* The file is deleted.                                                    *)
Delete ==
  /\ file \notin {None, Torn} /\ writes < MaxWrites
  /\ writes' = writes + 1
  /\ Becomes(None)
  /\ UNCHANGED <<clock, step, stat, seen, holds>>

Tick ==
  /\ clock < MaxTime /\ clock' = clock + 1
  /\ UNCHANGED <<disk, step, stat, seen, holds, checked, gap>>

-----------------------------------------------------------------------------
(* _load_tuned_alpha: the priors for no file and for an unreadable one.    *)
Loaded == IF file = Torn THEN None ELSE file

(* AlphaRouter.__init__ loads before it reads the mtime.                   *)
Construct(r) ==
  /\ r \in Routers /\ step[r] = "new"
  /\ holds' = [holds EXCEPT ![r] = Loaded]
  /\ Goto(r, "stat_after")
  /\ UNCHANGED <<disk, clock, stat, seen, checked, gap>>

StatAfter(r) ==
  /\ step[r] = "stat_after"
  /\ seen' = [seen EXCEPT ![r] = mtime]
  /\ Goto(r, "idle")
  /\ UNCHANGED <<disk, clock, stat, holds, checked, gap>>

(* resolve, and load_enrichment_map: the mtime first, then the file if it  *)
(* differs from the one kept.                                              *)
Serve(r) ==
  /\ checked' = [checked EXCEPT ![r] = TRUE]
  /\ Goto(r, "idle")

(* Mutant: lru_cache, and the router before it was fixed: loaded once.     *)
LoadedOnce(r) == seen[r] # None

Unchanged(r) == mtime = seen[r]

Stat(r) ==
  /\ step[r] = "idle" /\ (r \in Maps => file # None)
  /\ stat' = [stat EXCEPT ![r] = mtime]
  /\ IF Unchanged(r) THEN Serve(r) ELSE Goto(r, "load") /\ UNCHANGED checked
  /\ UNCHANGED <<disk, clock, seen, holds, gap>>

(* path.exists() says no: the cache entry goes.                            *)
Forget(r) ==
  /\ r \in Maps /\ step[r] = "idle" /\ file = None
  /\ holds' = [holds EXCEPT ![r] = None]
  /\ seen' = [seen EXCEPT ![r] = None]
  /\ Serve(r)
  /\ UNCHANGED <<disk, clock, stat, gap>>

(* A write since the stat leaves the mtime kept behind the file's: the     *)
(* next call loads again.                                                  *)
Load(r) ==
  /\ step[r] = "load" /\ (r \in Maps => file \notin {None, Torn})
  /\ holds' = [holds EXCEPT ![r] = Loaded]
  /\ seen' = [seen EXCEPT ![r] = stat[r]]
  /\ gap' = [gap EXCEPT ![r] = stat[r] # mtime]
  /\ checked' = [checked EXCEPT ![r] = stat[r] = mtime]
  /\ Goto(r, "idle")
  /\ UNCHANGED <<disk, clock, stat>>

(* The file is gone, or its last line is cut: the error reaches the caller *)
(* and the cache keeps what it had.                                        *)
LoadRaises(r) ==
  /\ r \in Maps /\ step[r] = "load" /\ file \in {None, Torn}
  /\ Goto(r, "idle")
  /\ UNCHANGED <<disk, clock, stat, seen, holds, checked, gap>>

Init ==
  /\ file = None /\ mtime = None
  /\ writes = 0 /\ clock = 0 /\ changed = None
  /\ step = [r \in Readers |-> IF r \in Routers THEN "new" ELSE "idle"]
  /\ stat = [r \in Readers |-> None]
  /\ seen = [r \in Readers |-> None]
  /\ holds = [r \in Readers |-> None]
  /\ checked = [r \in Readers |-> FALSE]
  /\ gap = [r \in Readers |-> FALSE]
  /\ shared = FALSE

Next ==
  \/ BeginWrite \/ EndWrite \/ Delete \/ Tick
  \/ \E r \in Readers : \/ Construct(r) \/ StatAfter(r)
                        \/ Stat(r) \/ Forget(r)
                        \/ Load(r) \/ LoadRaises(r)

Spec == Init /\ [][Next]_vars

-----------------------------------------------------------------------------
(* "Serves fresh data automatically when the file changes": a call that    *)
(* began after the last change serves what the file says, unless two       *)
(* changes share a tick, or one fell between a load and the stat its       *)
(* mtime is from.  After the former, and after __init__'s load before its  *)
(* stat, it may serve the older file for ever.  _reload_if_changed's order *)
(* errs the other way: only a file that comes while its absence is loaded, *)
(* and goes again, is served after it is gone.                             *)
StaleNeedsABadMoment ==
  \A r \in Readers :
    checked[r] /\ step[r] = "idle" /\ ~ shared /\ ~ gap[r] => holds[r] = Loaded

=============================================================================
