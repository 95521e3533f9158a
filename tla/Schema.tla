------------------------------- MODULE Schema -------------------------------
(***************************************************************************)
(* ensure_schema of app/retrieval/weaviate_client.py: the collection of    *)
(* all tenants is created, or given the properties it lacks, by whoever    *)
(* provisions a merchant.  Nothing locks it: callers of one process or of  *)
(* several interleave at every call of Weaviate, while a new release is    *)
(* rolled out next to an older one.                                        *)
(***************************************************************************)
EXTENDS Naturals, Sequences, FiniteSetsExt, Functions

CONSTANTS
  Callers,
  Older,      \* those of them that run the release before `gender`
  MaxFaults   \* bound on calls of Weaviate that fail

SchemaAssumption == Older \subseteq Callers /\ MaxFaults \in Nat

-----------------------------------------------------------------------------
(* The names in product_properties, in order.                              *)
Names ==
  <<"sku", "title", "description", "brand", "category_path", "gender", "price",
    "original_price", "currency", "in_stock", "rating", "review_count", "attributes_text",
    "attributes_json", "image_url", "product_url", "content_hash", "updated_at">>

Filterable == Range(Names) \ {"attributes_json", "image_url", "product_url"}

Searchable == {"sku", "title", "description", "brand", "attributes_text"}

Property(name, searchable) ==
  [name |-> name, filterable |-> name \in Filterable, searchable |-> name \in searchable]

(* The older release had no gender, and category_path was searchable.      *)
NoGender == {i \in DOMAIN Names : Names[i] # "gender"}
OlderProperty(i) == Property(Names[i], Searchable \cup {"category_path"})

(* product_properties of a release, by their places in the list.           *)
ProductProperties(c) ==
  IF c \in Older THEN [i \in NoGender |-> OlderProperty(i)]
  ELSE [i \in DOMAIN Names |-> Property(Names[i], Searchable)]

(* What _build_filters, stats and delta detection filter and read by.      *)
FilteredBy(c) ==
  {"sku", "brand", "category_path", "price", "in_stock", "rating", "content_hash"}
    \cup IF c \in Older THEN {} ELSE {"gender"}

NamesOf(properties) == {p.name : p \in properties}

-----------------------------------------------------------------------------
VARIABLES
  collection,  \* its properties, none of them until it is created
  step,        \* where each caller's ensure_schema is
  todo,        \* the properties it still has to add, by their places
  created,     \* what it returned
  met,         \* history: the callers that had one under way at once with it
  hit,         \* history: a fault befell it
  faults

vars == <<collection, step, todo, created, met, hit, faults>>

Idle(c) == step[c] \in {"idle", "returned", "raised"}
Goto(c, stage) == step' = [step EXCEPT ![c] = stage]
Keep == UNCHANGED <<created, met, hit, faults>>

Begin(c) ==
  /\ Idle(c)
  /\ LET others == {d \in Callers \ {c} : ~Idle(d)}
     IN met' = [d \in Callers |-> IF d = c THEN others
                                  ELSE IF d \in others THEN met[d] \cup {c} ELSE met[d]]
  /\ hit' = [hit EXCEPT ![c] = FALSE]
  /\ Goto(c, "exists")
  /\ UNCHANGED <<collection, todo, created, faults>>

Exists(c) ==
  /\ step[c] = "exists"
  /\ Goto(c, IF collection = {} THEN "create" ELSE "config")
  /\ UNCHANGED <<collection, todo>> /\ Keep

Return(c, fresh) ==
  /\ Goto(c, "returned")
  /\ created' = [created EXCEPT ![c] = fresh]

(* Weaviate refuses to create a collection a second time.                  *)
Create(c) ==
  /\ step[c] = "create"
  /\ IF collection = {}
     THEN collection' = Range(ProductProperties(c)) /\ Return(c, TRUE)
     ELSE Goto(c, "raised") /\ UNCHANGED <<collection, created>>
  /\ UNCHANGED <<todo, met, hit, faults>>

(* Mutant: an existing collection is taken as it is.                       *)
LacksNothing(c) == {}

(* Told by name: a property whose settings changed is not missing.         *)
Missing(c) ==
  {i \in DOMAIN ProductProperties(c) :
     ProductProperties(c)[i].name \notin NamesOf(collection)}

Config(c) ==
  /\ step[c] = "config"
  /\ todo' = [todo EXCEPT ![c] = Missing(c)]
  /\ IF Missing(c) = {} THEN Return(c, FALSE) ELSE Goto(c, "add") /\ UNCHANGED created
  /\ UNCHANGED <<collection, met, hit, faults>>

(* The first that is missing, in the order of the list.                    *)
Added(c) == ProductProperties(c)[Min(todo[c])]

(* Weaviate refuses a property that another caller has added meanwhile.    *)
AddProperty(c) ==
  /\ step[c] = "add"
  /\ IF Added(c).name \in NamesOf(collection)
     THEN Goto(c, "raised") /\ UNCHANGED <<collection, todo, created>>
     ELSE /\ collection' = collection \cup {Added(c)}
          /\ todo' = [todo EXCEPT ![c] = @ \ {Min(@)}]
          /\ IF todo'[c] = {} THEN Return(c, FALSE) ELSE UNCHANGED <<step, created>>
  /\ UNCHANGED <<met, hit, faults>>

(* A call of Weaviate fails, or its caller dies; what had effect stays.    *)
Fails(c) ==
  /\ ~Idle(c) /\ faults < MaxFaults
  /\ faults' = faults + 1 /\ hit' = [hit EXCEPT ![c] = TRUE]
  /\ \/ UNCHANGED collection
     \/ step[c] = "create" /\ collection = {} /\ collection' = Range(ProductProperties(c))
     \/ /\ step[c] = "add" /\ Added(c).name \notin NamesOf(collection)
        /\ collection' = collection \cup {Added(c)}
  /\ Goto(c, "raised")
  /\ UNCHANGED <<todo, created, met>>

(* No collection yet, or the older release's, with the last properties of  *)
(* its list still missing where its own migration was cut.                 *)
Init ==
  /\ collection \in
       {{}} \cup {{OlderProperty(i) : i \in NoGender \cap 1 .. n}
                     : n \in Len(Names) - 1 .. Len(Names)}
  /\ step = [c \in Callers |-> "idle"]
  /\ todo = [c \in Callers |-> {}]
  /\ created = [c \in Callers |-> FALSE]
  /\ met = [c \in Callers |-> {}]
  /\ hit = [c \in Callers |-> FALSE]
  /\ faults = 0

Next ==
  \E c \in Callers : \/ Begin(c) \/ Exists(c) \/ Create(c) \/ Config(c) \/ AddProperty(c)
                     \/ Fails(c)

Spec == Init /\ [][Next]_vars

-----------------------------------------------------------------------------
(* A call that returned leaves a collection with every property its        *)
(* release writes, and an index for each it filters by, whoever else was   *)
(* at work.                                                                *)
Complete(c) ==
  step[c] = "returned" =>
    /\ collection # {}
    /\ NamesOf(Range(ProductProperties(c))) \subseteq NamesOf(collection)
    /\ FilteredBy(c) \subseteq NamesOf({p \in collection : p.filterable})

(* "Safe to run unconditionally on every call": only a fault, or another   *)
(* call at the same time, makes one fail, and only one of those at work on *)
(* the same collection ever says that it created it.                       *)
SafeToRepeat ==
  /\ \A c \in Callers : step[c] = "raised" => hit[c] \/ met[c] # {}
  /\ \A c, d \in Callers : created[c] /\ created[d] => c = d

(* "Additive schema migration".                                            *)
SchemaSettles == (\A c \in Callers : Complete(c)) /\ SafeToRepeat

=============================================================================
