--------------------------- MODULE ScriptsProofs ----------------------------
(***************************************************************************)
(* Proofs about the scripts of MCServices and the schema they provision    *)
(* on, for every value of their constants.                                 *)
(***************************************************************************)
EXTENDS MCServices, SequenceTheorems, Lemmas

(* The schema: what a property is, and which a release filters by.         *)
LEMMA AreListed ==
  ASSUME NEW c
  PROVE  LET list == S!ProductProperties(c)
         IN  /\ DOMAIN list \subseteq 1 .. 18 /\ 1 \in DOMAIN list
             /\ \A i \in DOMAIN list :
                  /\ list[i].name = S!Names[i]
                  /\ list[i].filterable = (list[i].name \in S!Filterable)
             /\ \A i, k \in DOMAIN list : list[i].name = list[k].name => i = k
<1>1. DOMAIN S!Names = 1 .. 18 /\ S!Names[1] = "sku"
  BY DEF S!Names
<1>2. \A i, k \in 1 .. 18 : S!Names[i] = S!Names[k] => i = k
  BY DEF S!Names
<1>3. DOMAIN S!ProductProperties(c) \subseteq 1 .. 18 /\ 1 \in DOMAIN S!ProductProperties(c)
  BY <1>1 DEF S!ProductProperties, S!NoGender
<1>4. ASSUME NEW i \in DOMAIN S!ProductProperties(c)
      PROVE  /\ S!ProductProperties(c)[i].name = S!Names[i]
             /\ S!ProductProperties(c)[i].filterable =
                  (S!ProductProperties(c)[i].name \in S!Filterable)
  <2>1. PICK searchable : S!ProductProperties(c)[i] = S!Property(S!Names[i], searchable)
    BY <1>4 DEF S!ProductProperties, S!OlderProperty
  <2>2. QED
    BY <2>1 DEF S!Property
<1>5. QED
  BY <1>2, <1>3, <1>4

LEMMA FiltersAreListed ==
  ASSUME NEW c
  PROVE  \A name \in S!FilteredBy(c) :
           /\ name \in S!Filterable
           /\ \E i \in DOMAIN S!ProductProperties(c) : S!Names[i] = name
<1>1. DOMAIN S!Names = 1 .. 18
  BY DEF S!Names
<1>2. \A name \in S!FilteredBy(c) :
        \E i \in 1 .. 18 : S!Names[i] = name /\ (c \in Older => name # "gender")
  <2>1. /\ S!Names[1] = "sku" /\ S!Names[4] = "brand" /\ S!Names[5] = "category_path"
        /\ S!Names[6] = "gender" /\ S!Names[7] = "price" /\ S!Names[10] = "in_stock"
        /\ S!Names[11] = "rating" /\ S!Names[17] = "content_hash"
    BY DEF S!Names
  <2>2. QED
    BY <2>1 DEF S!FilteredBy
<1>3. \A name \in S!FilteredBy(c) : name \in S!Filterable
  BY <1>1, <1>2 DEF S!Filterable, S!Range, S!FilteredBy
<1>4. QED
  BY <1>1, <1>2, <1>3 DEF S!ProductProperties, S!NoGender

(* What the collection has of c's properties, and what c has still to add. *)
Carries(properties, c, i) == S!ProductProperties(c)[i].name \in S!NamesOf(properties)
Listing(c) == DOMAIN S!ProductProperties(c)

(* What each stage of ensure_schema has established.                       *)
StageInv(c) ==
  /\ at[c] \in {"idle", "exists", "create", "config", "add", "returned", "raised"}
  /\ at[c] = "create" /\ collection # {} => met[c] # {}
  /\ at[c] = "config" => collection # {}
  /\ at[c] = "add" =>
       /\ collection # {} /\ todo[c] # {} /\ todo[c] \subseteq Listing(c)
       /\ \A i \in Listing(c) \ todo[c] : Carries(collection, c, i)
       /\ met[c] = {} => \A i \in todo[c] : ~Carries(collection, c, i)
  /\ at[c] = "returned" => collection # {} /\ \A i \in Listing(c) : Carries(collection, c, i)
  /\ at[c] = "raised" => hit[c] \/ met[c] # {}
  /\ created[c] => collection # {}

MeetInv == \A c, d \in Callers : c # d /\ ~S!Idle(c) /\ ~S!Idle(d) => d \in met[c]

SchemaInv ==
  /\ DOMAIN at = Callers /\ DOMAIN todo = Callers /\ DOMAIN created = Callers
  /\ DOMAIN met = Callers /\ DOMAIN hit = Callers
  /\ \A p \in collection : p.filterable = (p.name \in S!Filterable)
  /\ \A c, d \in Callers : created[c] = TRUE /\ created[d] = TRUE => c = d
  /\ \A c \in Callers : created[c] \in BOOLEAN /\ StageInv(c)
  /\ MeetInv

LEMMA SchemaStart == S!Init => SchemaInv
<1> SUFFICES ASSUME S!Init PROVE SchemaInv
  OBVIOUS
<1>1. \A p \in collection : p.filterable = (p.name \in S!Filterable)
  <2>1. collection = {} \/ \E T : collection = {S!OlderProperty(i) : i \in T}
    BY DEF S!Init
  <2>2. \A i : S!OlderProperty(i).filterable = (S!OlderProperty(i).name \in S!Filterable)
    BY DEF S!OlderProperty, S!Property
  <2>3. QED
    BY <2>1, <2>2
<1>2. QED
  BY <1>1 DEF S!Init, SchemaInv, StageInv, MeetInv, S!Idle

(* What a step of another leaves alone, and what it may add.               *)
Bystander(c, d) ==
  /\ at'[d] = at[d] /\ todo'[d] = todo[d] /\ created'[d] = created[d] /\ hit'[d] = hit[d]
  /\ met[d] \subseteq met'[d]
  /\ collection \subseteq collection'
  /\ collection' = collection \/ ~S!Idle(c)

LEMMA StepBystander ==
  ASSUME SchemaInv, NEW c \in Callers, NEW d \in Callers, c # d, Bystander(c, d)
  PROVE  StageInv(d)'
<1>1. StageInv(d)
  BY DEF SchemaInv
<1>2. \A i : Carries(collection, d, i) => Carries(collection', d, i)
  BY DEF Carries, S!NamesOf, Bystander
<1>3. CASE collection' = collection
  <2>1. \A i : Carries(collection', d, i) <=> Carries(collection, d, i)
    BY <1>3 DEF Carries, S!NamesOf
  <2>2. QED
    BY <1>1, <1>3, <2>1 DEF StageInv, Bystander, Listing
<1>4. CASE ~S!Idle(c)
  <2>1. ~S!Idle(d) => met'[d] # {}
    BY <1>4 DEF SchemaInv, MeetInv, Bystander
  <2>2. QED
    BY <1>1, <1>2, <2>1 DEF StageInv, Bystander, Listing, S!Idle
<1>5. QED
  BY <1>3, <1>4 DEF Bystander

LEMMA StepBegin ==
  ASSUME SchemaInv, NEW c \in Callers, S!Begin(c)
  PROVE  SchemaInv'
<1>1. /\ S!Idle(c) /\ at' = [at EXCEPT ![c] = "exists"] /\ hit' = [hit EXCEPT ![c] = FALSE]
      /\ met' = [d \in Callers |-> IF d = c THEN {e \in Callers \ {c} : ~S!Idle(e)}
                                   ELSE IF d \in {e \in Callers \ {c} : ~S!Idle(e)}
                                        THEN met[d] \cup {c} ELSE met[d]]
      /\ UNCHANGED <<collection, todo, created>>
  BY DEF S!Begin, S!Goto
<1>2. ASSUME NEW d \in Callers, d # c PROVE Bystander(c, d)
  BY <1>1, <1>2 DEF Bystander, SchemaInv
<1>3. StageInv(c)'
  BY <1>1 DEF SchemaInv, StageInv
<1>4. MeetInv'
  BY <1>1 DEF SchemaInv, MeetInv, S!Idle
<1>5. \A d \in Callers : StageInv(d)'
  BY <1>2, <1>3, StepBystander
<1>6. QED
  BY <1>1, <1>4, <1>5 DEF SchemaInv

(* A step of c in its call of ensure_schema.                               *)
LEMMA StepWithin ==
  ASSUME SchemaInv, NEW c \in Callers, NEW stage,
         ~S!Idle(c), at' \in {at, [at EXCEPT ![c] = stage]}, met' = met, StageInv(c)',
         \A d \in Callers \ {c} : Bystander(c, d),
         DOMAIN todo' = Callers, DOMAIN created' = Callers, DOMAIN hit' = Callers,
         \A p \in collection' : p.filterable = (p.name \in S!Filterable),
         created'[c] \in BOOLEAN, created'[c] = TRUE => created[c] = TRUE \/ collection = {}
  PROVE  SchemaInv'
<1>1. \A d \in Callers : StageInv(d)'
  BY StepBystander
<1>2. MeetInv'
  BY DEF SchemaInv, MeetInv, S!Idle
<1>3. \A d, e \in Callers : created'[d] = TRUE /\ created'[e] = TRUE => d = e
  <2>1. \A d \in Callers : created[d] = TRUE => collection # {}
    BY DEF SchemaInv, StageInv
  <2>2. \A d \in Callers \ {c} : created'[d] = created[d]
    BY DEF Bystander
  <2>3. QED
    BY <2>1, <2>2 DEF SchemaInv
<1>4. \A d \in Callers : created'[d] \in BOOLEAN
  BY DEF SchemaInv, Bystander
<1>5. QED
  BY <1>1, <1>2, <1>3, <1>4 DEF SchemaInv

LEMMA StepExists ==
  ASSUME SchemaInv, NEW c \in Callers, S!Exists(c)
  PROVE  SchemaInv'
<1>1. /\ at[c] = "exists" /\ ~S!Idle(c)
      /\ at' = [at EXCEPT ![c] = IF collection = {} THEN "create" ELSE "config"]
      /\ UNCHANGED <<collection, todo, created, met, hit, setbacks>>
  BY DEF S!Exists, S!Goto, S!Keep, S!Idle
<1>2. \A d \in Callers \ {c} : Bystander(c, d)
  BY <1>1 DEF Bystander, SchemaInv
<1>3. StageInv(c)'
  BY <1>1 DEF SchemaInv, StageInv
<1>4. QED
  BY <1>1, <1>2, <1>3, StepWithin DEF SchemaInv

(* The properties of a list, and what having them all means.               *)
LEMMA Whole ==
  ASSUME NEW c, collection' = S!Range(S!ProductProperties(c))
  PROVE  /\ collection' # {} /\ \A i \in Listing(c) : Carries(collection', c, i)
         /\ \A p \in collection' : p.filterable = (p.name \in S!Filterable)
BY AreListed DEF S!Range, Listing, Carries, S!NamesOf

LEMMA StepCreate ==
  ASSUME SchemaInv, NEW c \in Callers, S!Create(c)
  PROVE  SchemaInv'
<1>1. at[c] = "create" /\ ~S!Idle(c) /\ met' = met /\ hit' = hit /\ todo' = todo
  BY DEF S!Create, S!Idle
<1>2. CASE collection = {}
  <2>1. /\ collection' = S!Range(S!ProductProperties(c))
        /\ at' = [at EXCEPT ![c] = "returned"] /\ created' = [created EXCEPT ![c] = TRUE]
    BY <1>2 DEF S!Create, S!Return, S!Goto
  <2>2. \A d \in Callers \ {c} : Bystander(c, d)
    BY <1>1, <1>2, <2>1 DEF Bystander, SchemaInv
  <2>3. StageInv(c)'
    BY <1>1, <2>1, Whole DEF SchemaInv, StageInv
  <2>4. QED
    BY <1>1, <1>2, <2>1, <2>2, <2>3, Whole, StepWithin DEF SchemaInv
<1>3. CASE collection # {}
  <2>1. at' = [at EXCEPT ![c] = "raised"] /\ UNCHANGED <<collection, created>>
    BY <1>3 DEF S!Create, S!Goto
  <2>2. \A d \in Callers \ {c} : Bystander(c, d)
    BY <1>1, <2>1 DEF Bystander, SchemaInv
  <2>3. StageInv(c)'
    BY <1>1, <1>3, <2>1 DEF SchemaInv, StageInv
  <2>4. QED
    BY <1>1, <2>1, <2>2, <2>3, StepWithin DEF SchemaInv
<1>4. QED
  BY <1>2, <1>3

LEMMA StepConfig ==
  ASSUME SchemaInv, NEW c \in Callers, S!Config(c)
  PROVE  SchemaInv'
<1>1. /\ at[c] = "config" /\ ~S!Idle(c) /\ collection # {}
      /\ todo' = [todo EXCEPT ![c] = S!Missing(c)]
      /\ UNCHANGED <<collection, met, hit>>
  BY DEF S!Config, S!Idle, SchemaInv, StageInv
<1>2. S!Missing(c) = {i \in Listing(c) : ~Carries(collection, c, i)}
  BY DEF S!Missing, Listing, Carries
<1>3. \A i : Carries(collection', c, i) <=> Carries(collection, c, i)
  BY <1>1 DEF Carries, S!NamesOf
<1>4. CASE S!Missing(c) = {}
  <2>1. at' = [at EXCEPT ![c] = "returned"] /\ created' = [created EXCEPT ![c] = FALSE]
    BY <1>4 DEF S!Config, S!Return, S!Goto
  <2>2. \A d \in Callers \ {c} : Bystander(c, d)
    BY <1>1, <2>1 DEF Bystander, SchemaInv
  <2>3. StageInv(c)'
    BY <1>1, <1>2, <1>3, <1>4, <2>1 DEF SchemaInv, StageInv, Listing
  <2>4. QED
    BY <1>1, <2>1, <2>2, <2>3, StepWithin DEF SchemaInv
<1>5. CASE S!Missing(c) # {}
  <2>1. at' = [at EXCEPT ![c] = "add"] /\ created' = created
    BY <1>5 DEF S!Config, S!Goto
  <2>2. \A d \in Callers \ {c} : Bystander(c, d)
    BY <1>1, <2>1 DEF Bystander, SchemaInv
  <2>3. StageInv(c)'
    BY <1>1, <1>2, <1>3, <1>5, <2>1 DEF SchemaInv, StageInv, Listing
  <2>4. QED
    BY <1>1, <2>1, <2>2, <2>3, StepWithin DEF SchemaInv
<1>6. QED
  BY <1>4, <1>5

LEMMA FirstIsOne ==
  ASSUME NEW T, T # {}, T \subseteq Nat
  PROVE  S!Min(T) \in T
BY Smallest DEF S!Min

(* Adding the first of what is missing.                                    *)
LEMMA Adding ==
  ASSUME SchemaInv, NEW c \in Callers, at[c] = "add"
  PROVE  LET first == S!Min(todo[c])
         IN  /\ first \in todo[c] /\ S!Added(c) = S!ProductProperties(c)[first]
             /\ S!Added(c).filterable = (S!Added(c).name \in S!Filterable)
             /\ collection' = collection \cup {S!Added(c)} =>
                  /\ Carries(collection', c, first)
                      /\ \A i \in Listing(c) : Carries(collection, c, i)
                          => Carries(collection', c, i)
                  /\ \A i \in Listing(c) \ {first} : Carries(collection', c, i)
                      => Carries(collection, c, i)
                  /\ \A p \in collection' : p.filterable = (p.name \in S!Filterable)
<1> DEFINE first == S!Min(todo[c])
<1>1. todo[c] # {} /\ todo[c] \subseteq Listing(c) /\ Listing(c) \subseteq 1 .. 18
  BY AreListed DEF SchemaInv, StageInv, Listing
<1>2. first \in todo[c]
  BY <1>1, FirstIsOne
<1> HIDE DEF first
<1>3. S!Added(c) = S!ProductProperties(c)[first] /\ first \in Listing(c)
  BY <1>1, <1>2 DEF S!Added, first
<1>4. S!Added(c).filterable = (S!Added(c).name \in S!Filterable)
  BY <1>3, AreListed DEF Listing
<1>5. ASSUME collection' = collection \cup {S!Added(c)}
      PROVE  S!NamesOf(collection') = S!NamesOf(collection) \cup {S!Added(c).name}
  BY <1>5 DEF S!NamesOf
<1>6. \A i \in Listing(c) \ {first} : S!ProductProperties(c)[i].name # S!Added(c).name
  BY <1>3, AreListed DEF Listing
<1>7. ASSUME collection' = collection \cup {S!Added(c)}
      PROVE  /\ Carries(collection', c, first) /\ \A i \in Listing(c) : Carries(collection, c, i)
                 => Carries(collection', c, i)
             /\ \A i \in Listing(c) \ {first} : Carries(collection', c, i)
                 => Carries(collection, c, i)
             /\ \A p \in collection' : p.filterable = (p.name \in S!Filterable)
  <2>2. Carries(collection', c, first) /\ \A i \in Listing(c) : Carries(collection, c, i)
          => Carries(collection', c, i)
    BY <1>3, <1>5, <1>7 DEF Carries
  <2>3. \A i \in Listing(c) \ {first} : Carries(collection', c, i) => Carries(collection, c, i)
    BY <1>5, <1>6, <1>7 DEF Carries
  <2>4. \A p \in collection' : p.filterable = (p.name \in S!Filterable)
    BY <1>4, <1>7 DEF SchemaInv
  <2>5. QED
    BY <2>2, <2>3, <2>4
<1>8. QED
  BY <1>2, <1>3, <1>4, <1>7 DEF first

LEMMA StepAdd ==
  ASSUME SchemaInv, NEW c \in Callers, S!AddProperty(c)
  PROVE  SchemaInv'
<1> DEFINE first == S!Min(todo[c])
<1>1. at[c] = "add" /\ ~S!Idle(c) /\ met' = met /\ hit' = hit
  BY DEF S!AddProperty, S!Idle
<1>2. CASE S!Added(c).name \in S!NamesOf(collection)
  <2>1. at' = [at EXCEPT ![c] = "raised"] /\ UNCHANGED <<collection, todo, created>>
    BY <1>2 DEF S!AddProperty, S!Goto
  <2>2. \A d \in Callers \ {c} : Bystander(c, d)
    BY <1>1, <2>1 DEF Bystander, SchemaInv
  <2>3. first \in todo[c] /\ Carries(collection, c, first)
    BY <1>1, <1>2, Adding DEF Carries
  <2>4. StageInv(c)'
    BY <1>1, <2>1, <2>3 DEF SchemaInv, StageInv
  <2>5. QED
    BY <1>1, <2>1, <2>2, <2>4, StepWithin DEF SchemaInv
<1>3. CASE S!Added(c).name \notin S!NamesOf(collection)
  <2>1. /\ collection' = collection \cup {S!Added(c)}
        /\ todo' = [todo EXCEPT ![c] = todo[c] \ {first}]
        /\ IF todo'[c] = {} THEN S!Return(c, FALSE) ELSE UNCHANGED <<at, created>>
    BY <1>3 DEF S!AddProperty
  <2>2. /\ first \in todo[c] /\ Carries(collection', c, first)
            /\ \A i \in Listing(c) : Carries(collection, c, i) => Carries(collection', c, i)
        /\ \A i \in Listing(c) \ {first} : Carries(collection', c, i) => Carries(collection, c, i)
        /\ \A p \in collection' : p.filterable = (p.name \in S!Filterable)
    BY <1>1, <2>1, Adding
  <2> HIDE DEF first
  <2>3. todo'[c] = todo[c] \ {first} /\ collection' # {} /\ DOMAIN todo' = Callers
    BY <2>1 DEF SchemaInv
  <2>4. CASE todo'[c] = {}
    <3>1. at' = [at EXCEPT ![c] = "returned"] /\ created' = [created EXCEPT ![c] = FALSE]
      BY <2>1, <2>4 DEF S!Return, S!Goto
    <3>2. \A d \in Callers \ {c} : Bystander(c, d)
      BY <1>1, <2>1, <3>1 DEF Bystander, SchemaInv
    <3>3. \A i \in Listing(c) : Carries(collection', c, i)
      BY <1>1, <2>2, <2>3, <2>4 DEF SchemaInv, StageInv
    <3>5. at'[c] = "returned" /\ created'[c] = FALSE
      BY <3>1 DEF SchemaInv
    <3>6. StageInv(c)'
      BY <2>3, <3>3, <3>5 DEF StageInv, Listing
    <3>4. QED
      BY <1>1, <2>2, <2>3, <3>1, <3>2, <3>6, StepWithin DEF SchemaInv
  <2>5. CASE todo'[c] # {}
    <3>1. at' = at /\ created' = created
      BY <2>1, <2>5
    <3>2. \A d \in Callers \ {c} : Bystander(c, d)
      BY <1>1, <2>1, <3>1 DEF Bystander, SchemaInv
    <3>3. StageInv(c)
      BY DEF SchemaInv
    <3>4. /\ at'[c] = "add" /\ todo'[c] \subseteq Listing(c)
          /\ \A i \in Listing(c) \ todo'[c] : Carries(collection', c, i)
          /\ met'[c] = {} => \A i \in todo'[c] : ~Carries(collection', c, i)
      BY <1>1, <2>2, <2>3, <3>1, <3>3 DEF StageInv
    <3>5. StageInv(c)'
      BY <2>3, <2>5, <3>1, <3>3, <3>4 DEF StageInv, Listing
    <3>6. QED
      BY <1>1, <2>2, <2>3, <3>1, <3>2, <3>5, StepWithin DEF SchemaInv
  <2>6. QED
    BY <2>4, <2>5
<1>4. QED
  BY <1>2, <1>3

LEMMA StepFails ==
  ASSUME SchemaInv, NEW c \in Callers, S!Fails(c)
  PROVE  SchemaInv'
<1>1. /\ ~S!Idle(c) /\ at' = [at EXCEPT ![c] = "raised"] /\ hit' = [hit EXCEPT ![c] = TRUE]
      /\ UNCHANGED <<todo, created, met>>
  BY DEF S!Fails, S!Goto
<1>2. /\ collection \subseteq collection'
      /\ \A p \in collection' : p.filterable = (p.name \in S!Filterable)
  <2>1. CASE collection' = collection
    BY <2>1 DEF SchemaInv
  <2>2. CASE collection = {} /\ collection' = S!Range(S!ProductProperties(c))
    BY <2>2, Whole
  <2>3. CASE at[c] = "add" /\ collection' = collection \cup {S!Added(c)}
    BY <2>3, Adding
  <2>4. QED
    BY <2>1, <2>2, <2>3 DEF S!Fails
<1>3. \A d \in Callers \ {c} : Bystander(c, d)
  BY <1>1, <1>2 DEF Bystander, SchemaInv
<1>4. StageInv(c)'
  BY <1>1, <1>2 DEF SchemaInv, StageInv
<1>5. QED
  BY <1>1, <1>2, <1>3, <1>4, StepWithin DEF SchemaInv

LEMMA SchemaStep == SchemaInv /\ [S!Next]_S!vars => SchemaInv'
<1> SUFFICES ASSUME SchemaInv, [S!Next]_S!vars PROVE SchemaInv'
  OBVIOUS
<1>1. CASE UNCHANGED S!vars
  BY <1>1 DEF S!vars, SchemaInv, StageInv, MeetInv, S!Idle, Carries, Listing, S!NamesOf
<1>2. CASE S!Next
  BY <1>2, StepBegin, StepExists, StepCreate, StepConfig, StepAdd, StepFails DEF S!Next
<1>3. QED
  BY <1>1, <1>2

(* A call of ensure_schema that returns leaves every property its release  *)
(* writes, and an index for each it filters by, whoever else was at work;  *)
(* only a fault or another call makes one fail, and one creates.           *)
THEOREM OneFullSchema == S!Spec => []SchemaSettles
<1>1. SchemaInv => SchemaSettles
  <2> SUFFICES ASSUME SchemaInv PROVE SchemaSettles
    OBVIOUS
  <2>1. ASSUME NEW c \in Callers, at[c] = "returned"
        PROVE  /\ S!NamesOf(S!Range(S!ProductProperties(c))) \subseteq S!NamesOf(collection)
               /\ S!FilteredBy(c) \subseteq S!NamesOf({p \in collection : p.filterable})
    <3>1. \A i \in Listing(c) : Carries(collection, c, i)
      BY <2>1 DEF SchemaInv, StageInv
    <3>2. S!NamesOf(S!Range(S!ProductProperties(c))) \subseteq S!NamesOf(collection)
      BY <3>1 DEF Listing, Carries, S!NamesOf, S!Range
    <3>3. ASSUME NEW name \in S!FilteredBy(c)
          PROVE  \E p \in collection : p.filterable /\ p.name = name
      <4>1. PICK i \in Listing(c) : S!ProductProperties(c)[i].name = name
        BY FiltersAreListed, AreListed DEF Listing
      <4>2. PICK p \in collection : p.name = name
        BY <3>1, <4>1 DEF Carries, S!NamesOf
      <4>3. QED
        BY <4>2, FiltersAreListed DEF SchemaInv
    <3>4. QED
      BY <3>2, <3>3 DEF S!NamesOf
  <2>2. \A c \in Callers : S!Complete(c)
    BY <2>1 DEF S!Complete, SchemaInv, StageInv
  <2>3. S!SafeToRepeat
    BY DEF S!SafeToRepeat, SchemaInv, StageInv
  <2>4. QED
    BY <2>2, <2>3 DEF SchemaSettles, S!SchemaSettles
<1>2. QED
  BY <1>1, SchemaStart, SchemaStep, PTL DEF S!Spec

-----------------------------------------------------------------------------
(* The scripts, step by step.                                              *)
LEMMA Places ==
  /\ Len(O!Script["seed"]) = 6 /\ Len(O!Seed) = 6
  /\ O!Script["seed"] = O!Seed /\ O!Script["gate"] = O!Gate /\ O!Script["bench"] = O!Bench
  /\ O!Seed[1] = "select" /\ O!Seed[2] = "insert" /\ O!Seed[3] = "exists"
  /\ O!Seed[4] = "create" /\ O!Seed[5] = "delta" /\ O!Seed[6] = "write"
  /\ Len(O!Script["gate"]) = 8
  /\ O!Gate[1] = "erase" /\ O!Gate[2] = "insert" /\ O!Gate[3] = "exists"
  /\ O!Gate[4] = "remove" /\ O!Gate[5] = "create" /\ O!Gate[6] = "delta"
  /\ O!Gate[7] = "write" /\ O!Gate[8] = "measure"
  /\ Len(O!Script["bench"]) = 6
  /\ O!Bench[1] = "exists" /\ O!Bench[2] = "create" /\ O!Bench[3] = "remove"
  /\ O!Bench[4] = "create" /\ O!Bench[5] = "write" /\ O!Bench[6] = "remove"
BY DEF O!Script, O!Seed, O!Gate, O!Bench

Length == IF script = "gate" THEN 8 ELSE 6

Running(r) == fate[r] = "running"

(* What a run that has the tenant for itself finds at each place of its    *)
(* script.                                                                 *)
AloneInv(r) ==
  Running(r) /\ alongside[r] = {} =>
    /\ script = "seed" =>
         /\ place[r] = 2 => ~row
         /\ place[r] = 5 => shard # None \/ stranded
    /\ script = "gate" =>
         /\ place[r] = 2 => ~row
         /\ place[r] > 2 => row
         /\ place[r] = 5 => shard = None
         /\ place[r] = 6 => shard = {}
         /\ place[r] = 7 => shard = {} /\ changes[r] = Wares
         /\ place[r] = 8 => shard = Wares
    /\ script = "bench" => (place[r] = 5 => shard # None)

(* What the seeds have done to a tenant that none of them removes.         *)
SeedInv ==
  script = "seed" =>
    /\ \A r \in Callers :
         /\ Running(r) /\ place[r] = 6
             => shard # None /\ Wares \subseteq shard \cup changes[r]
         /\ fate[r] = "done" => shard # None /\ Wares \subseteq shard
    /\ row /\ shard = None =>
         stranded \/ \E r \in Callers : Running(r) /\ place[r] \in {3, 4}

RunsType ==
  /\ script \in {"seed", "gate", "bench"} /\ row \in BOOLEAN /\ stranded \in BOOLEAN
  /\ shard = None \/ shard \subseteq Wares \cup {Stale}
  /\ DOMAIN place = Callers /\ DOMAIN fate = Callers /\ DOMAIN changes = Callers
  /\ DOMAIN measured = Callers /\ DOMAIN alongside = Callers
  /\ \A r \in Callers :
       /\ Running(r) => place[r] \in 1 .. Length
       /\ changes[r] \subseteq Wares
       /\ fate[r] = "idle" => measured[r] = None

Together ==
  \A r, o \in Callers : r # o /\ Running(r) /\ Running(o) => o \in alongside[r]

RunsInv ==
  /\ RunsType /\ Together /\ SeedInv
  /\ \A r \in Callers :
       /\ AloneInv(r)
       /\ fate[r] = "raised" /\ alongside[r] = {} => r \in died \/ stranded
       /\ measured[r] # None /\ alongside[r] = {} => measured[r] = Wares

LEMMA RunsStart == O!Init => RunsInv
<1> SUFFICES ASSUME O!Init PROVE RunsInv
  OBVIOUS
<1>1. script \in {"seed", "gate", "bench"}
  BY DEF O!Init, O!Script
<1>2. RunsType
  BY <1>1 DEF O!Init, RunsType, Running, Length
<1>3. SeedInv
  BY DEF O!Init, SeedInv, Running
<1>4. QED
  BY <1>2, <1>3 DEF O!Init, RunsInv, Together, AloneInv, Running

LEMMA RunBegins ==
  ASSUME RunsInv, NEW r \in Callers, O!Begin(r)
  PROVE  RunsInv'
<1> DEFINE others == {o \in Callers : fate[o] = "running"}
<1>1. /\ fate[r] = "idle" /\ measured[r] = None /\ ~Running(r)
      /\ fate' = [fate EXCEPT ![r] = "running"] /\ place' = [place EXCEPT ![r] = 1]
      /\ alongside' = [o \in Callers |-> IF o = r THEN others
                                         ELSE IF o \in others THEN alongside[o] \cup {r}
                                         ELSE alongside[o]]
      /\ UNCHANGED <<script, row, shard, changes, measured, died, stranded>>
  BY DEF O!Begin, RunsInv, RunsType, Running
<1>2. RunsType'
  BY <1>1 DEF RunsInv, RunsType, Running, Length
<1>3. Together'
  BY <1>1 DEF RunsInv, RunsType, Together, Running
<1>4. SeedInv'
  <2>1. \A o \in Callers : Running(o) => Running(o)' /\ place'[o] = place[o]
    BY <1>1 DEF RunsInv, RunsType, Running
  <2>2. \A o \in Callers : fate'[o] = "done" => fate[o] = "done"
    BY <1>1 DEF RunsInv, RunsType
  <2>3. \A o \in Callers : Running(o)' /\ place'[o] = 6 => Running(o) /\ place[o] = 6
    BY <1>1 DEF RunsInv, RunsType, Running
  <2>4. QED
    BY <1>1, <2>1, <2>2, <2>3 DEF RunsInv, SeedInv
<1>5. ASSUME NEW o \in Callers
      PROVE  /\ AloneInv(o)'
             /\ fate'[o] = "raised" /\ alongside'[o] = {} => o \in died' \/ stranded'
             /\ measured'[o] # None /\ alongside'[o] = {} => measured'[o] = Wares
  <2>1. CASE o = r
    BY <1>1, <2>1 DEF AloneInv, RunsInv, RunsType
  <2>2. CASE o # r
    BY <1>1, <2>2 DEF AloneInv, RunsInv, RunsType, Running
  <2>3. QED
    BY <2>1, <2>2
<1>6. QED
  BY <1>2, <1>3, <1>4, <1>5 DEF RunsInv

(* A step of a run: the others stay as they are.                           *)
Runs(r) ==
  /\ Running(r) /\ fate'[r] \in {"running", "done", "raised"}
  /\ \A o \in Callers \ {r} : /\ place'[o] = place[o] /\ fate'[o] = fate[o]
                              /\ changes'[o] = changes[o] /\ measured'[o] = measured[o]
  /\ alongside' = alongside /\ script' = script /\ died \subseteq died'
  /\ stranded => stranded'

RunsOn(r) ==
  /\ AloneInv(r)'
  /\ fate'[r] = "raised" /\ alongside[r] = {} => r \in died' \/ stranded'
  /\ measured'[r] # None /\ alongside[r] = {} => measured'[r] = Wares

LEMMA StepRun ==
  ASSUME RunsInv, NEW r \in Callers, Runs(r), RunsOn(r), RunsType', SeedInv'
  PROVE  RunsInv'
<1>1. Together'
  BY DEF Runs, RunsInv, Together, Running
<1>2. ASSUME NEW o \in Callers, o # r
      PROVE  /\ AloneInv(o)'
             /\ fate'[o] = "raised" /\ alongside'[o] = {} => o \in died' \/ stranded'
             /\ measured'[o] # None /\ alongside'[o] = {} => measured'[o] = Wares
  <2>1. Running(o) => alongside[o] # {}
    BY <1>2 DEF Runs, RunsInv, Together
  <2>2. QED
    BY <1>2, <2>1 DEF Runs, RunsInv, AloneInv, Running
<1>3. QED
  BY <1>1, <1>2 DEF Runs, RunsOn, RunsInv

(* Which steps the scripts take where.                                     *)
LEMMA StepsOf ==
  ASSUME RunsInv, NEW r \in Callers, Running(r)
  PROVE  /\ O!Is(r, "select") <=> script = "seed" /\ place[r] = 1
         /\ O!Is(r, "erase") <=> script = "gate" /\ place[r] = 1
         /\ O!Is(r, "insert") <=> script # "bench" /\ place[r] = 2
         /\ O!Is(r, "exists") <=> place[r] = IF script = "bench" THEN 1 ELSE 3
         /\ O!Is(r, "remove") <=>
              (script = "gate" /\ place[r] = 4) \/ (script = "bench" /\ place[r] \in {3, 6})
         /\ O!Is(r, "create") <=>
              \/ script = "seed" /\ place[r] = 4
              \/ script = "gate" /\ place[r] = 5
              \/ script = "bench" /\ place[r] \in {2, 4}
         /\ O!Is(r, "delta") <=>
              (script = "seed" /\ place[r] = 5) \/ (script = "gate" /\ place[r] = 6)
         /\ O!Is(r, "write") <=>
              \/ script = "seed" /\ place[r] = 6
              \/ script = "gate" /\ place[r] = 7
              \/ script = "bench" /\ place[r] = 5
         /\ O!Is(r, "measure") <=> script = "gate" /\ place[r] = 8
<1>1. \A name : O!Is(r, name) <=> O!Script[script][place[r]] = name
  BY DEF O!Is, O!Step, Running, RunsInv, RunsType, Length
<1>2. CASE script = "seed"
  <2>1. place[r] \in 1 .. 6
    BY <1>2 DEF RunsInv, RunsType, Length
  <2>2. QED
    BY <1>1, <1>2, <2>1, Places
<1>3. CASE script = "gate"
  <2>1. place[r] \in 1 .. 8
    BY <1>3 DEF RunsInv, RunsType, Length
  <2>2. QED
    BY <1>1, <1>3, <2>1, Places
<1>4. CASE script = "bench"
  <2>1. place[r] \in 1 .. 6
    BY <1>4 DEF RunsInv, RunsType, Length
  <2>2. QED
    BY <1>1, <1>4, <2>1, Places
<1>5. QED
  BY <1>2, <1>3, <1>4 DEF RunsInv, RunsType

(* Where r goes, and that all others stay.                                 *)
Goes(r, n) ==
  /\ place' = [place EXCEPT ![r] = place[r] + n]
  /\ fate' = [fate EXCEPT ![r] = IF place[r] + n > Length THEN "done" ELSE "running"]

LEMMA Going ==
  ASSUME RunsInv, NEW r \in Callers, Running(r), NEW n \in Nat, O!Advance(r, n)
  PROVE  Goes(r, n)
<1>1. Len(O!Script[script]) = Length
  BY Places DEF RunsInv, RunsType, Length
<1>2. QED
  BY <1>1 DEF O!Advance, Goes, Running

LEMMA GoingType ==
  ASSUME RunsInv, NEW r \in Callers, Running(r), NEW n \in Nat, Goes(r, n),
         script' = script, alongside' = alongside, row' \in BOOLEAN, stranded' \in BOOLEAN,
         shard' = None \/ shard' \subseteq Wares \cup {Stale},
         DOMAIN changes' = Callers, \A o \in Callers : changes'[o] \subseteq Wares,
         DOMAIN measured' = Callers, \A o \in Callers \ {r} : measured'[o] = measured[o]
  PROVE  RunsType'
<1>1. Length' = Length /\ Length \in Nat
  BY DEF Length
<1>2. ASSUME NEW o \in Callers
      PROVE  (Running(o)' => place'[o] \in 1 .. Length) /\
             (fate'[o] = "idle" => measured'[o] = None)
  <2>1. CASE o = r
    BY <2>1, <1>1 DEF Goes, RunsInv, RunsType, Running
  <2>2. CASE o # r
    BY <2>2 DEF Goes, RunsInv, RunsType, Running
  <2>3. QED
    BY <2>1, <2>2
<1>3. DOMAIN place' = Callers /\ DOMAIN fate' = Callers
  BY DEF Goes, RunsInv, RunsType
<1>4. QED
  BY <1>1, <1>2, <1>3 DEF RunsInv, RunsType

(* The steps that only move r on.                                          *)
LEMMA RunSelects ==
  ASSUME RunsInv, NEW r \in Callers, O!Select(r)
  PROVE  RunsInv'
<1>1. Running(r) /\ script = "seed" /\ place[r] = 1
  BY StepsOf DEF O!Select, O!Is, Running
<1>2. Goes(r, IF row THEN 4 ELSE 1)
  BY <1>1, Going DEF O!Select
<1>3. UNCHANGED <<script, row, shard, changes, measured, alongside, died, stranded>>
  BY DEF O!Select
<1>4. Runs(r)
  BY <1>1, <1>2, <1>3 DEF Runs, Goes, RunsInv, RunsType
<1>5. RunsType'
  BY <1>1, <1>2, <1>3, GoingType DEF RunsInv, RunsType
<1>6. RunsOn(r)
  <2>1. alongside[r] = {} /\ row => shard # None \/ stranded
    BY <1>1 DEF RunsInv, SeedInv, Together
  <2>2. QED
    BY <1>1, <1>2, <1>3, <2>1 DEF Goes, RunsOn, AloneInv, RunsInv, RunsType, Length
<1>7. SeedInv'
  <2>1. \A o \in Callers : Running(o) /\ place[o] \in {3, 4}
          => Running(o)' /\ place'[o] = place[o]
    BY <1>1, <1>2 DEF Goes, RunsInv, RunsType, Running
  <2>2. \A o \in Callers :
          /\ fate'[o] = "done" => fate[o] = "done"
          /\ Running(o)' /\ place'[o] = 6 => Running(o) /\ place[o] = 6
    BY <1>1, <1>2 DEF Goes, RunsInv, RunsType, Running, Length
  <2>3. QED
    BY <1>3, <2>1, <2>2 DEF RunsInv, SeedInv
<1>8. QED
  BY <1>4, <1>5, <1>6, <1>7, StepRun

LEMMA RunErases ==
  ASSUME RunsInv, NEW r \in Callers, O!Erase(r)
  PROVE  RunsInv'
<1>1. Running(r) /\ script = "gate" /\ place[r] = 1
  BY StepsOf DEF O!Erase, O!Is, Running
<1>2. Goes(r, 1)
  BY <1>1, Going DEF O!Erase
<1>3. row' = FALSE /\ UNCHANGED <<script, shard, changes, measured, alongside, died,
        stranded>>
  BY DEF O!Erase
<1>4. Runs(r)
  BY <1>1, <1>2, <1>3 DEF Runs, Goes, RunsInv, RunsType
<1>5. RunsType'
  BY <1>1, <1>2, <1>3, GoingType DEF RunsInv, RunsType
<1>6. RunsOn(r)
  BY <1>1, <1>2, <1>3 DEF Goes, RunsOn, AloneInv, RunsInv, RunsType, Length
<1>7. SeedInv'
  BY <1>1, <1>3 DEF SeedInv
<1>8. QED
  BY <1>4, <1>5, <1>6, <1>7, StepRun

(* A run that a call of another's or of an earlier one's has in its way.   *)
Raises(r) == fate' = [fate EXCEPT ![r] = "raised"] /\ place' = place

LEMMA RunRaises ==
  ASSUME RunsInv, NEW r \in Callers, Running(r), Raises(r),
         alongside[r] = {} => r \in died' \/ stranded', RunsType', SeedInv',
         died \subseteq died', stranded => stranded',
         UNCHANGED <<script, changes, measured, alongside>>
  PROVE  RunsInv'
<1>1. Runs(r)
  BY DEF Runs, Raises, RunsInv, RunsType
<1>2. RunsOn(r)
  BY DEF RunsOn, Raises, AloneInv, RunsInv, RunsType, Running
<1>3. QED
  BY <1>1, <1>2, StepRun

LEMMA RunInserts ==
  ASSUME RunsInv, NEW r \in Callers, O!Insert(r)
  PROVE  RunsInv'
<1>1. Running(r) /\ script # "bench" /\ place[r] = 2
  BY StepsOf DEF O!Insert, O!Is, Running
<1>2. row' = TRUE /\ UNCHANGED <<script, shard, changes, measured, alongside, died,
        stranded>>
  BY DEF O!Insert
<1>3. CASE row
  <2>1. Raises(r)
    BY <1>3 DEF O!Insert, O!Raise, Raises
  <2>2. alongside[r] # {}
    BY <1>1, <1>3 DEF RunsInv, RunsType, AloneInv
  <2>3. RunsType'
    BY <1>1, <1>2, <2>1 DEF Raises, RunsInv, RunsType, Running, Length
  <2>4. SeedInv'
    <3>1. \A o \in Callers : Running(o) /\ place[o] \in {3, 4}
            => Running(o)' /\ place'[o] = place[o]
      BY <1>1, <2>1 DEF Raises, RunsInv, RunsType, Running
    <3>2. \A o \in Callers :
            /\ fate'[o] = "done" => fate[o] = "done"
            /\ Running(o)' /\ place'[o] = 6 => Running(o) /\ place[o] = 6
      BY <1>1, <2>1 DEF Raises, RunsInv, RunsType, Running
    <3>3. QED
      BY <1>2, <1>3, <3>1, <3>2 DEF RunsInv, SeedInv
  <2>5. QED
    BY <1>1, <1>2, <2>1, <2>2, <2>3, <2>4, RunRaises
<1>4. CASE ~row
  <2>1. Goes(r, 1)
    BY <1>1, <1>4, Going DEF O!Insert
  <2>2. Runs(r)
    BY <1>1, <1>2, <2>1 DEF Runs, Goes, RunsInv, RunsType
  <2>3. RunsType'
    BY <1>1, <1>2, <2>1, GoingType DEF RunsInv, RunsType
  <2>4. RunsOn(r)
    BY <1>1, <1>2, <2>1 DEF Goes, RunsOn, AloneInv, RunsInv, RunsType, Length
  <2>5. SeedInv'
    <3>1. Running(r)' /\ place'[r] = 3
      BY <1>1, <2>1 DEF Goes, RunsInv, RunsType, Running, Length
    <3>2. \A o \in Callers :
            /\ fate'[o] = "done" => fate[o] = "done"
            /\ Running(o)' /\ place'[o] = 6 => Running(o) /\ place[o] = 6
      BY <1>1, <2>1 DEF Goes, RunsInv, RunsType, Running, Length
    <3>3. QED
      BY <1>2, <3>1, <3>2 DEF RunsInv, SeedInv
  <2>6. QED
    BY <2>2, <2>3, <2>4, <2>5, StepRun
<1>5. QED
  BY <1>3, <1>4

(* What a step of r has to leave of a tenant that is being seeded.         *)
Seeds(r) ==
  script = "seed" =>
    /\ row' => row
    /\ shard # None => shard' # None /\ shard \subseteq shard'
    /\ Running(r)' /\ place'[r] = 6
        => shard' # None /\ Wares \subseteq shard' \cup changes'[r]
    /\ fate'[r] = "done" => shard' # None /\ Wares \subseteq shard'
    /\ row' /\ shard' = None /\ place[r] \in {3, 4} =>
         stranded' \/ (Running(r)' /\ place'[r] \in {3, 4})

LEMMA SeedKept ==
  ASSUME RunsInv, NEW r \in Callers, Runs(r), Seeds(r)
  PROVE  SeedInv'
<1> SUFFICES ASSUME script = "seed" PROVE SeedInv'
  BY DEF SeedInv, Runs
<1>1. ASSUME NEW o \in Callers
      PROVE  /\ Running(o)' /\ place'[o] = 6 =>
                  shard' # None /\ Wares \subseteq shard' \cup changes'[o]
             /\ fate'[o] = "done" => shard' # None /\ Wares \subseteq shard'
  <2>1. CASE o = r
    BY <2>1 DEF Seeds
  <2>2. CASE o # r
    BY <2>2 DEF Seeds, Runs, RunsInv, SeedInv, Running
  <2>3. QED
    BY <2>1, <2>2
<1>2. ASSUME row', shard' = None
      PROVE  stranded' \/ \E o \in Callers : Running(o)' /\ place'[o] \in {3, 4}
  <2>1. row /\ shard = None
    BY <1>2 DEF Seeds
  <2>2. stranded \/ \E o \in Callers : Running(o) /\ place[o] \in {3, 4}
    BY <2>1 DEF RunsInv, SeedInv
  <2>3. ASSUME NEW o \in Callers, Running(o), place[o] \in {3, 4}
        PROVE  stranded' \/ \E q \in Callers : Running(q)' /\ place'[q] \in {3, 4}
    <3>1. CASE o = r
      BY <1>2, <2>3, <3>1 DEF Seeds
    <3>2. CASE o # r
      BY <2>3, <3>2 DEF Runs, Running
    <3>3. QED
      BY <3>1, <3>2
  <2>4. QED
    BY <2>2, <2>3 DEF Runs
<1>3. QED
  BY <1>1, <1>2 DEF SeedInv, Runs

(* A step that moves r on.                                                 *)
LEMMA StepOn ==
  ASSUME RunsInv, NEW r \in Callers, Running(r), NEW n \in Nat, Goes(r, n),
         script' = script, alongside' = alongside, died' = died, stranded' = stranded,
         row' \in BOOLEAN, shard' = None \/ shard' \subseteq Wares \cup {Stale},
         DOMAIN changes' = Callers, \A o \in Callers : changes'[o] \subseteq Wares,
         \A o \in Callers \ {r} : changes'[o] = changes[o],
         DOMAIN measured' = Callers, \A o \in Callers \ {r} : measured'[o] = measured[o],
         measured'[r] # None /\ alongside[r] = {} => measured'[r] = Wares,
         AloneInv(r)', Seeds(r)
  PROVE  RunsInv'
<1>1. Runs(r)
  BY DEF Runs, Goes, RunsInv, RunsType
<1>2. RunsType'
  BY GoingType DEF RunsInv, RunsType
<1>3. RunsOn(r)
  BY DEF RunsOn, Goes, RunsInv, RunsType
<1>4. QED
  BY <1>1, <1>2, <1>3, SeedKept, StepRun

(* A step that stops r.                                                    *)
LEMMA StepOff ==
  ASSUME RunsInv, NEW r \in Callers, Running(r), Raises(r),
         alongside[r] = {} => r \in died' \/ stranded',
         row' = row, shard' = None \/ shard' \subseteq Wares \cup {Stale},
         died \subseteq died', stranded' \in BOOLEAN, stranded => stranded',
         UNCHANGED <<script, changes, measured, alongside>>, Seeds(r)
  PROVE  RunsInv'
<1>1. Runs(r)
  BY DEF Runs, Raises, RunsInv, RunsType
<1>2. \A o \in Callers : Running(o)' => Running(o)
  BY DEF Runs, Raises, RunsInv, RunsType, Running
<1>3. \A o \in Callers : fate'[o] = "idle" => fate[o] = "idle"
  BY DEF Raises, RunsInv, RunsType
<1>4. RunsType'
  BY <1>2, <1>3 DEF Raises, RunsInv, RunsType, Length
<1>5. QED
  BY <1>1, <1>4, SeedKept, RunRaises

LEMMA RunLooks ==
  ASSUME RunsInv, NEW r \in Callers, O!Exists(r)
  PROVE  RunsInv'
<1> DEFINE n == IF (shard # None) <=> (script = "gate") THEN 1 ELSE 2
<1>1. Running(r) /\ place[r] = IF script = "bench" THEN 1 ELSE 3
  BY StepsOf DEF O!Exists, O!Is, Running
<1>2. (O!Step(r, 1) = "remove") <=> (script = "gate")
  <2>1. O!Step(r, 1) = O!Script[script][IF script = "bench" THEN 2 ELSE 4]
    BY <1>1 DEF O!Step
  <2>2. QED
    BY <2>1, Places DEF RunsInv, RunsType
<1>3. Goes(r, n)
  <2>1. O!Advance(r, n)
    BY <1>2 DEF O!Exists
  <2>2. n \in Nat
    OBVIOUS
  <2> HIDE DEF n
  <2>3. QED
    BY <1>1, <2>1, <2>2, Going
<1>4. UNCHANGED <<script, row, shard, changes, measured, alongside, died, stranded>>
  BY DEF O!Exists
<1>5. place'[r] = place[r] + n
  BY <1>3 DEF Goes, RunsInv, RunsType
<1>6. AloneInv(r)'
  BY <1>1, <1>4, <1>5 DEF RunsInv, RunsType, AloneInv
<1>7. Seeds(r)
  BY <1>1, <1>3, <1>4, <1>5 DEF Seeds, Goes, RunsInv, RunsType, Running, Length
<1>8. n \in Nat
  OBVIOUS
<1> HIDE DEF n
<1>9. QED
  BY <1>1, <1>3, <1>4, <1>6, <1>7, <1>8, StepOn DEF RunsInv, RunsType

LEMMA RunRemoves ==
  ASSUME RunsInv, NEW r \in Callers, O!Remove(r)
  PROVE  RunsInv'
<1>1. /\ Running(r)
      /\ (script = "gate" /\ place[r] = 4) \/ (script = "bench" /\ place[r] \in {3, 6})
  BY StepsOf DEF O!Remove, O!Is, Running
<1>2. Goes(r, 1)
  BY <1>1, Going DEF O!Remove
<1>3. shard' = None /\ UNCHANGED <<script, row, changes, measured, alongside, died,
        stranded>>
  BY DEF O!Remove
<1>4. place'[r] = place[r] + 1
  BY <1>2 DEF Goes, RunsInv, RunsType
<1>5. (script = "bench" /\ place[r] = 6) => ~Running(r)'
  BY <1>2 DEF Goes, RunsInv, RunsType, Running, Length
<1>6. AloneInv(r)'
  BY <1>1, <1>3, <1>4, <1>5 DEF RunsInv, RunsType, AloneInv
<1>7. Seeds(r)
  BY <1>1 DEF Seeds
<1>8. QED
  BY <1>1, <1>2, <1>3, <1>6, <1>7, StepOn DEF RunsInv, RunsType

LEMMA RunCreates ==
  ASSUME O!ProvisioningAssumption, RunsInv, NEW r \in Callers, O!Create(r)
  PROVE  RunsInv'
<1>1. /\ Running(r)
      /\ \/ script = "seed" /\ place[r] = 4
         \/ script = "gate" /\ place[r] = 5
         \/ script = "bench" /\ place[r] \in {2, 4}
  BY StepsOf DEF O!Create, O!Is, Running
<1>2. Goes(r, 1)
  BY <1>1, Going DEF O!Create
<1>3. /\ shard' = IF shard = None THEN {} ELSE shard
      /\ UNCHANGED <<script, row, changes, measured, alongside, died, stranded>>
  BY DEF O!Create
<1>4. shard' # None /\ shard' \subseteq Wares \cup {Stale}
  BY <1>3 DEF RunsInv, RunsType, O!ProvisioningAssumption
<1>5. place'[r] = place[r] + 1 /\ Running(r)'
  BY <1>1, <1>2 DEF Goes, RunsInv, RunsType, Running, Length
<1>6. AloneInv(r)'
  BY <1>1, <1>3, <1>4, <1>5 DEF RunsInv, RunsType, AloneInv
<1>7. Seeds(r)
  BY <1>1, <1>3, <1>4, <1>5 DEF Seeds, Running
<1>8. QED
  BY <1>1, <1>2, <1>3, <1>4, <1>6, <1>7, StepOn DEF RunsInv, RunsType

LEMMA RunDeltas ==
  ASSUME O!ProvisioningAssumption, RunsInv, NEW r \in Callers, O!Delta(r)
  PROVE  RunsInv'
<1>1. /\ Running(r)
      /\ (script = "seed" /\ place[r] = 5) \/ (script = "gate" /\ place[r] = 6)
  BY StepsOf DEF O!Delta, O!Is, Running
<1>2. UNCHANGED <<script, row, shard, measured, alongside, died, stranded>>
  BY DEF O!Delta
<1>3. CASE shard = None \/ (script = "gate" /\ ~row)
  <2>1. Raises(r) /\ UNCHANGED changes
    BY <1>3 DEF O!Delta, O!Raise, Raises
  <2>2. alongside[r] = {} => stranded
    BY <1>1, <1>3 DEF RunsInv, AloneInv, O!ProvisioningAssumption
  <2>3. Seeds(r)
    BY <1>1, <1>2, <2>1 DEF Seeds, Raises, Running, RunsInv, RunsType
  <2>4. QED
    BY <1>1, <1>2, <2>1, <2>2, <2>3, StepOff DEF RunsInv, RunsType
<1>4. CASE ~(shard = None \/ (script = "gate" /\ ~row))
  <2>1. changes' = [changes EXCEPT ![r] = Wares \ shard] /\ O!Advance(r, 1)
    BY <1>4 DEF O!Delta
  <2>2. Goes(r, 1)
    BY <1>1, <2>1, Going
  <2>3. place'[r] = place[r] + 1 /\ Running(r)' /\ changes'[r] = Wares \ shard
    BY <1>1, <2>1, <2>2 DEF Goes, RunsInv, RunsType, Running, Length
  <2>4. AloneInv(r)'
    BY <1>1, <1>2, <2>3 DEF RunsInv, RunsType, AloneInv
  <2>5. Seeds(r)
    BY <1>1, <1>2, <1>4, <2>3 DEF Seeds, Running
  <2>6. QED
    BY <1>1, <1>2, <2>1, <2>2, <2>4, <2>5, StepOn DEF RunsInv, RunsType
<1>5. QED
  BY <1>3, <1>4

LEMMA RunWrites ==
  ASSUME O!ProvisioningAssumption, RunsInv, NEW r \in Callers, O!Write(r)
  PROVE  RunsInv'
<1>1. /\ Running(r)
      /\ \/ script = "seed" /\ place[r] = 6
         \/ script = "gate" /\ place[r] = 7
         \/ script = "bench" /\ place[r] = 5
  BY StepsOf DEF O!Write, O!Is, Running
<1>2. UNCHANGED <<script, row, changes, measured, alongside, died, stranded>>
  BY DEF O!Write
<1>3. script = "seed" => shard # None /\ Wares \subseteq shard \cup changes[r]
  BY <1>1 DEF RunsInv, SeedInv
<1>4. alongside[r] = {} => shard # None
  BY <1>1, <1>3 DEF RunsInv, AloneInv, O!ProvisioningAssumption
<1> DEFINE written == O!Written(r)
<1>5. written \subseteq Wares /\ (script # "bench" => written = changes[r])
  BY DEF O!Written, RunsInv, RunsType
<1>6. /\ shard = None /\ written # {} => Raises(r) /\ UNCHANGED shard
      /\ ~(shard = None /\ written # {}) =>
           /\ shard' = IF shard = None THEN None ELSE shard \cup written
           /\ O!Advance(r, 1)
  BY DEF O!Write, O!Raise, Raises
<1> HIDE DEF written
<1>7. CASE shard = None /\ written # {}
  <2>1. Raises(r) /\ UNCHANGED shard
    BY <1>6, <1>7
  <2>2. Seeds(r)
    BY <1>3, <1>7 DEF Seeds
  <2>3. QED
    BY <1>1, <1>2, <1>4, <1>7, <2>1, <2>2, StepOff DEF RunsInv, RunsType
<1>8. CASE ~(shard = None /\ written # {})
  <2>1. shard' = IF shard = None THEN None ELSE shard \cup written
    BY <1>6, <1>8
  <2>2. Goes(r, 1)
    BY <1>1, <1>6, <1>8, Going
  <2>3. place'[r] = place[r] + 1
    BY <2>2 DEF Goes, RunsInv, RunsType
  <2>4. shard' = None \/ shard' \subseteq Wares \cup {Stale}
    BY <1>5, <2>1 DEF RunsInv, RunsType
  <2>5. shard # None => shard' # None /\ shard \subseteq shard'
    <3>1. shard # None => shard \cup written \in SUBSET (Wares \cup {Stale})
      BY <1>5 DEF RunsInv, RunsType
    <3>2. QED
      BY <2>1, <3>1 DEF O!ProvisioningAssumption
  <2>6. AloneInv(r)'
    <3>1. script = "gate" /\ alongside[r] = {} => shard = {} /\ changes[r] = Wares /\ row
      BY <1>1 DEF RunsInv, AloneInv
    <3>2. script = "gate" /\ alongside[r] = {} => shard' = Wares
      BY <1>4, <1>5, <2>1, <3>1
    <3>3. QED
      BY <1>1, <1>2, <2>3, <3>1, <3>2 DEF AloneInv
  <2>7. Seeds(r)
    BY <1>1, <1>2, <1>3, <1>5, <2>1, <2>3, <2>5 DEF Seeds
  <2>8. QED
    BY <1>1, <1>2, <2>2, <2>4, <2>6, <2>7, StepOn DEF RunsInv, RunsType
<1>9. QED
  BY <1>7, <1>8

LEMMA RunMeasures ==
  ASSUME O!ProvisioningAssumption, RunsInv, NEW r \in Callers, O!Measure(r)
  PROVE  RunsInv'
<1>1. Running(r) /\ script = "gate" /\ place[r] = 8
  BY StepsOf DEF O!Measure, O!Is, Running
<1>2. UNCHANGED <<script, row, shard, changes, alongside, died, stranded>>
  BY DEF O!Measure
<1>3. alongside[r] = {} => shard = Wares /\ shard # None
  BY <1>1 DEF RunsInv, AloneInv, O!ProvisioningAssumption
<1>4. Seeds(r)
  BY <1>1 DEF Seeds
<1>5. CASE shard = None
  <2>1. Raises(r) /\ UNCHANGED measured
    BY <1>5 DEF O!Measure, O!Raise, Raises
  <2>2. QED
    BY <1>1, <1>2, <1>3, <1>4, <1>5, <2>1, StepOff DEF RunsInv, RunsType
<1>6. CASE shard # None
  <2>1. measured' = [measured EXCEPT ![r] = shard] /\ Goes(r, 1)
    BY <1>1, <1>6, Going DEF O!Measure
  <2>2. ~Running(r)'
    BY <1>1, <2>1 DEF Goes, RunsInv, RunsType, Running, Length
  <2>3. AloneInv(r)'
    BY <2>2 DEF AloneInv
  <2>4. QED
    BY <1>1, <1>2, <1>3, <1>4, <2>1, <2>3, StepOn DEF RunsInv, RunsType
<1>7. QED
  BY <1>5, <1>6

LEMMA RunDies ==
  ASSUME O!ProvisioningAssumption, RunsInv, NEW r \in Callers, O!Die(r)
  PROVE  RunsInv'
<1>1. Running(r) /\ Raises(r) /\ died' = died \cup {r}
  BY DEF O!Die, O!Raise, Raises, Running
<1>2. UNCHANGED <<script, row, changes, measured, alongside>>
  BY DEF O!Die
<1>3. /\ shard' = None \/ shard' \subseteq Wares \cup {Stale}
      /\ shard # None => shard' # None /\ shard \subseteq shard'
      /\ shard = None => shard' = None
  <2>1. CASE shard' = shard
    BY <2>1 DEF RunsInv, RunsType
  <2>2. CASE shard # None /\ \E done \in SUBSET O!Written(r) : shard' = shard \cup done
    <3>1. O!Written(r) \subseteq Wares
      BY DEF O!Written, RunsInv, RunsType
    <3>2. shard' \in SUBSET (Wares \cup {Stale}) /\ shard \subseteq shard'
      BY <2>2, <3>1 DEF RunsInv, RunsType
    <3>3. QED
      BY <2>2, <3>2 DEF O!ProvisioningAssumption
  <2>3. QED
    BY <2>1, <2>2 DEF O!Die
<1>4. /\ stranded' \in BOOLEAN /\ (stranded => stranded')
      /\ script = "seed" /\ place[r] \in {3, 4} => stranded'
  <2>1. stranded' = (stranded \/ (script = "seed" /\ O!Step(r, 0) \in {"exists", "create"}))
    BY DEF O!Die
  <2>2. script = "seed" /\ place[r] \in {3, 4} => O!Step(r, 0) \in {"exists", "create"}
    BY <1>1, StepsOf DEF O!Is
  <2>3. QED
    BY <2>1, <2>2 DEF RunsInv, RunsType
<1>5. Seeds(r)
  BY <1>1, <1>2, <1>3, <1>4 DEF Seeds, Raises, Running, RunsInv, RunsType
<1>6. QED
  BY <1>1, <1>2, <1>3, <1>4, <1>5, StepOff

LEMMA RunsStep == O!ProvisioningAssumption /\ RunsInv /\ [O!Next]_O!vars => RunsInv'
<1> SUFFICES ASSUME O!ProvisioningAssumption, RunsInv, [O!Next]_O!vars PROVE RunsInv'
  OBVIOUS
<1>1. ASSUME NEW r \in Callers,
             \/ O!Begin(r) \/ O!Select(r) \/ O!Erase(r) \/ O!Insert(r) \/ O!Exists(r)
             \/ O!Remove(r) \/ O!Create(r) \/ O!Delta(r) \/ O!Write(r) \/ O!Measure(r)
             \/ O!Die(r)
      PROVE  RunsInv'
  BY <1>1, RunBegins, RunSelects, RunErases, RunInserts, RunLooks, RunRemoves, RunCreates,
     RunDeltas, RunWrites, RunMeasures, RunDies
<1>2. CASE UNCHANGED O!vars
  <2>1. UNCHANGED <<script, row, shard, place, fate, changes, measured, alongside, died,
                    stranded>>
    BY <1>2 DEF O!vars
  <2>2. RunsType' /\ Together' /\ SeedInv'
    BY <2>1 DEF RunsInv, RunsType, Together, SeedInv, Running, Length
  <2>3. QED
    BY <2>1, <2>2 DEF RunsInv, AloneInv, Running
<1>3. QED
  BY <1>1, <1>2 DEF O!Next

LEMMA RunsHealed == O!ProvisioningAssumption /\ RunsInv => ReRunsHeal
<1> SUFFICES ASSUME O!ProvisioningAssumption, RunsInv PROVE ReRunsHeal
  OBVIOUS
<1>1. O!ReRunsSucceed
  BY DEF RunsInv, O!ReRunsSucceed, O!Alone
<1>2. O!SeedsFill
  <2>1. ASSUME NEW r \in Callers, script = "seed", Running(r), place[r] \in {3, 4}
        PROVE  fate[r] = "running" /\ O!Step(r, 0) \in {"exists", "create"}
    BY <2>1, StepsOf DEF O!Is, Running
  <2>2. QED
    BY <2>1 DEF RunsInv, SeedInv, O!SeedsFill
<1>3. O!GatesMeasureTheFixture
  BY DEF RunsInv, O!GatesMeasureTheFixture, O!Alone
<1>4. QED
  BY <1>1, <1>2, <1>3 DEF ReRunsHeal, O!ReRunsHeal

(* Re-running a script mends what an earlier run left half-done: a run     *)
(* that has its tenant for itself fails only if it was killed or a seed    *)
(* died between its row and its tenant, a seed that ends leaves its feed   *)
(* indexed, and the gate measures its fixture alone.                       *)
THEOREM ReRunsMend == O!ProvisioningAssumption /\ O!Spec => []ReRunsHeal
<1> SUFFICES ASSUME O!ProvisioningAssumption PROVE O!Spec => []ReRunsHeal
  OBVIOUS
<1>1. RunsInv /\ [O!Next]_O!vars => RunsInv'
  BY RunsStep
<1>2. RunsInv => ReRunsHeal
  BY RunsHealed
<1>3. QED
  BY <1>1, <1>2, RunsStart, PTL DEF O!Spec

-----------------------------------------------------------------------------
(* What the paid enrichment plans: slices of distinct keys.                *)
LEMMA Ranks ==
  ASSUME NEW I, IsFiniteSet(I), I \subseteq Nat, NEW m \in I, NEW n \in I, m < n
  PROVE  Cardinality({i \in I : i < m}) < Cardinality({i \in I : i < n})
<1> DEFINE Below(k) == {i \in I : i < k}
<1>1. IsFiniteSet(Below(m)) /\ IsFiniteSet(Below(n))
  BY FS_Subset
<1>2. Below(m) \in SUBSET Below(n) /\ Below(m) # Below(n)
  <2>1. m \in Below(n) /\ m \notin Below(m)
    OBVIOUS
  <2>2. \A i \in I : i < m => i < n
    OBVIOUS
  <2>3. QED
    BY <2>1, <2>2
<1> HIDE DEF Below
<1>3. Cardinality(Below(m)) < Cardinality(Below(n))
  BY <1>1, <1>2, FS_Subset, FS_CardinalityType
<1>4. QED
  BY <1>3 DEF Below

LEMMA Division ==
  ASSUME NEW k \in Nat, NEW size \in Nat \ {0}
  PROVE  k = size * (k \div size) + (k % size) /\ k % size \in 0 .. size - 1
OBVIOUS

(* No more of a set are in a slice of its ranks than the slice is wide.    *)
LEMMA Slice ==
  ASSUME NEW I, IsFiniteSet(I), NEW rank \in [I -> Nat],
         \A m, n \in I : m # n => rank[m] # rank[n], NEW size \in Nat \ {0}, NEW b \in Int,
         NEW slice \in SUBSET I, \A n \in slice : rank[n] \div size = b - 1
  PROVE  IsFiniteSet(slice) /\ Cardinality(slice) <= size
<1> DEFINE low == (b - 1) * size
           f == [n \in slice |-> rank[n]]
<1>1. IsFiniteSet(slice)
  BY FS_Subset
<1>2. low \in Int /\ low + size - 1 \in Int
  OBVIOUS
<1>3. ASSUME NEW n \in slice PROVE rank[n] \in low .. low + size - 1
  <2>1. rank[n] \in Nat /\ rank[n] \div size = b - 1
    OBVIOUS
  <2>2. rank[n] = size * (b - 1) + (rank[n] % size) /\ rank[n] % size \in 0 .. size - 1
    BY <2>1, Division
  <2>3. low = size * (b - 1)
    OBVIOUS
  <2> HIDE DEF low
  <2>4. QED
    BY <1>2, <2>1, <2>2, <2>3
<1>4. f \in Injection(slice, low .. low + size - 1)
  BY <1>3 DEF Injection, IsInjective
<1> HIDE DEF low, f
<1>5. IsFiniteSet(low .. low + size - 1) /\ Cardinality(low .. low + size - 1) = size
  BY <1>2, FS_Interval
<1>6. Cardinality(slice) <= size
  BY <1>4, <1>5, FS_Injection
<1>7. QED
  BY <1>1, <1>6

LEMMA Counts == \A T : E!Cardinality(T) = Cardinality(T)
BY DEF E!Cardinality, Cardinality

LEMMA ItemsAreRanks ==
  ASSUME E!EnrichmentAssumption
  PROVE  /\ IsFiniteSet(E!Keys) /\ E!WorkItems \subseteq Nat /\ IsFiniteSet(E!WorkItems)
         /\ \A n \in E!WorkItems : Feed[n] \in E!Keys
         /\ \A m, n \in E!WorkItems : m # n => Feed[m] # Feed[n]
         /\ None \notin E!Keys
<1>1. Len(Feed) \in Nat /\ DOMAIN Feed = 1 .. Len(Feed)
  BY DEF E!EnrichmentAssumption
<1>2. IsFiniteSet(DOMAIN Feed)
  BY <1>1, FS_Interval
<1>3. IsFiniteSet(E!Keys)
  <2> DEFINE Held == {Feed[n] : n \in DOMAIN Feed}
             f == [n \in DOMAIN Feed |-> Feed[n]]
  <2>1. f \in Surjection(DOMAIN Feed, Held)
    BY DEF Surjection
  <2>2. IsFiniteSet(Held)
    BY <1>2, <2>1, FS_Surjection
  <2>3. E!Keys \in SUBSET Held
    BY DEF E!Keys, E!ToSet
  <2>4. QED
    BY <2>2, <2>3, FS_Subset
<1>4. E!WorkItems \in SUBSET DOMAIN Feed /\ E!WorkItems \subseteq Nat
  BY <1>1 DEF E!WorkItems
<1>5. \A m, n \in E!WorkItems : m < n => Feed[m] # Feed[n]
  BY <1>1, <1>4 DEF E!WorkItems
<1>6. \A m, n \in E!WorkItems : m # n => Feed[m] # Feed[n]
  <2> TAKE m, n \in E!WorkItems
  <2>1. m \in Nat /\ n \in Nat
    BY <1>4
  <2>2. QED
    BY <1>5, <2>1
<1>7. QED
  BY <1>2, <1>3, <1>4, <1>6, FS_Subset DEF E!WorkItems, E!Keys, E!ToSet

(* A sound plan: disjoint batches no larger than BatchSize.                *)
Sound(plan) ==
  /\ plan \in Seq(SUBSET E!Keys)
  /\ \A i \in DOMAIN plan : IsFiniteSet(plan[i]) /\ Cardinality(plan[i]) <= BatchSize
  /\ \A i, j \in DOMAIN plan : i # j => plan[i] \cap plan[j] = {}

LEMMA Plans ==
  ASSUME E!EnrichmentAssumption, NEW I \in SUBSET E!WorkItems
  PROVE  /\ Sound(E!Batches(I))
         /\ \A i \in DOMAIN E!Batches(I) : \A key \in E!Batches(I)[i] :
              \E n \in I : key = Feed[n]
<1> DEFINE rank == [n \in I |-> Cardinality({m \in I : m < n})]
           plans == (Cardinality(I) + BatchSize - 1) \div BatchSize
           slice(b) == {n \in I : rank[n] \div BatchSize = b - 1}
<1>1. IsFiniteSet(I) /\ I \subseteq Nat /\ BatchSize \in Nat \ {0}
  BY ItemsAreRanks, FS_Subset DEF E!EnrichmentAssumption
<1>2. rank \in [I -> Nat]
  <2>1. \A n \in I : Cardinality({m \in I : m < n}) \in Nat
    BY <1>1, FS_Subset, FS_CardinalityType
  <2>2. QED
    BY <2>1
<1>3. \A m, n \in I : m # n => rank[m] # rank[n]
  <2> TAKE m, n \in I
  <2>1. m \in Nat /\ n \in Nat /\ rank[m] \in Nat /\ rank[n] \in Nat
    BY <1>1, <1>2
  <2>2. m < n => rank[m] < rank[n]
    BY <1>1, Ranks
  <2>3. n < m => rank[n] < rank[m]
    BY <1>1, Ranks
  <2>4. QED
    BY <2>1, <2>2, <2>3
<1>4. E!Batches(I) = [b \in 1 .. plans |-> {Feed[n] : n \in slice(b)}]
  BY Counts DEF E!Batches, E!Index
<1>5. \A b \in 1 .. plans : IsFiniteSet(slice(b)) /\ Cardinality(slice(b)) <= BatchSize
  <2> TAKE b \in 1 .. plans
  <2>1. b \in Int /\ slice(b) \in SUBSET I
          /\ \A n \in slice(b) : rank[n] \div BatchSize = b - 1
    OBVIOUS
  <2> HIDE DEF rank, plans, slice
  <2>2. QED
    BY <1>1, <1>2, <1>3, <2>1, Slice
<1>6. \A b \in 1 .. plans : LET batch == {Feed[n] : n \in slice(b)}
                            IN  IsFiniteSet(batch) /\ Cardinality(batch) <= BatchSize
  <2> TAKE b \in 1 .. plans
  <2> DEFINE batch == {Feed[n] : n \in slice(b)}
             f == [n \in slice(b) |-> Feed[n]]
  <2> HIDE DEF slice
  <2>1. f \in Surjection(slice(b), batch)
    BY DEF Surjection
  <2>2. IsFiniteSet(batch) /\ Cardinality(batch) <= Cardinality(slice(b))
    BY <1>5, <2>1, FS_Surjection
  <2>3. Cardinality(slice(b)) \in Nat /\ Cardinality(batch) \in Nat
    BY <1>5, <2>2, FS_CardinalityType
  <2>4. QED
    BY <1>1, <1>5, <2>2, <2>3
<1>7. plans \in Nat
  BY <1>1, FS_CardinalityType
<1> HIDE DEF plans
<1>8. E!Batches(I) \in Seq(SUBSET E!Keys)
  <2>1. \A b \in 1 .. plans : {Feed[n] : n \in slice(b)} \in SUBSET E!Keys
    BY ItemsAreRanks
  <2>2. E!Batches(I) \in [1 .. plans -> SUBSET E!Keys]
    BY <1>4, <2>1
  <2>3. QED
    BY <1>7, <2>2, SeqDef
<1>9. \A i, j \in 1 .. plans : i # j => E!Batches(I)[i] \cap E!Batches(I)[j] = {}
  <2>1. \A i, j \in 1 .. plans : i # j => slice(i) \cap slice(j) = {}
    BY <1>7
  <2>2. \A m, n \in I : Feed[m] = Feed[n] => m = n
    BY ItemsAreRanks
  <2> HIDE DEF slice
  <2>3. \A i \in 1 .. plans : slice(i) \subseteq I
    BY DEF slice
  <2>4. QED
    BY <1>4, <2>1, <2>2, <2>3
<1>10. DOMAIN E!Batches(I) = 1 .. plans
  BY <1>4
<1>11. \A i \in 1 .. plans : \A key \in E!Batches(I)[i] : \E n \in I : key = Feed[n]
  <2>1. \A i \in 1 .. plans : slice(i) \subseteq I
    OBVIOUS
  <2> HIDE DEF slice
  <2>2. QED
    BY <1>4, <2>1
<1>12. \A i \in 1 .. plans : IsFiniteSet(E!Batches(I)[i])
         /\ Cardinality(E!Batches(I)[i]) <= BatchSize
  BY <1>4, <1>6
<1>13. QED
  BY <1>8, <1>9, <1>10, <1>11, <1>12 DEF Sound

(* Where a key is, and that it is in one place at most.                    *)
InPlan(key, plan) == \E i \in DOMAIN plan : key \in plan[i]
InCalls(key, wave) == \E c \in wave : key \in c.batch
InFlight(key, results) == \E r \in results : key \in DOMAIN r
InFile(key, saved) == \E n \in DOMAIN saved : key \in DOMAIN saved[n]

Apart(plan, wave, results, saved) ==
  \A key \in E!Keys :
    /\ InPlan(key, plan) =>
         ~InCalls(key, wave) /\ ~InFlight(key, results) /\ ~InFile(key, saved)
    /\ InCalls(key, wave) => ~InFlight(key, results) /\ ~InFile(key, saved)
    /\ InFlight(key, results) => ~InFile(key, saved)

Batch(b) == b \subseteq E!Keys /\ IsFiniteSet(b) /\ Cardinality(b) <= BatchSize

(* The file holds the classifications of disjoint batches.                 *)
Classified == UNION {[b -> Taxonomy] : b \in SUBSET E!Keys}

FileOnce(saved) ==
  /\ saved \in Seq(Classified)
  /\ \A m, n \in DOMAIN saved : m # n => DOMAIN saved[m] \cap DOMAIN saved[n] = {}

(* What is in flight is one wave at most.                                  *)
OneWave(wave, results) ==
  /\ IsFiniteSet(wave) /\ IsFiniteSet(results)
  /\ Cardinality(wave) + Cardinality(results) <= WaveSize
  /\ \A c \in wave : c \in [batch : SUBSET E!Keys, attempt : Nat] /\ Batch(c.batch)
  /\ \A r \in results : r \in Classified /\ Batch(DOMAIN r)
  /\ \A c, d \in wave : c # d => c.batch \cap d.batch = {}
  /\ \A r, q \in results : r # q => DOMAIN r \cap DOMAIN q = {}

(* What was paid for is in flight, in the file or wasted.                   *)
Accounts(results, saved, bought, void) ==
  /\ bought \in [E!Keys -> Nat] /\ void \in [E!Keys -> Nat]
  /\ \A key \in E!Keys :
       bought[key] = void[key] + IF InFlight(key, results) \/ InFile(key, saved)
                                    THEN 1 ELSE 0

(* What a wave may cost and what a retried attempt may: a run that has      *)
(* ended has lost what it was to lose but for the appends still under way. *)
KeysIn(results) == {key \in E!Keys : InFlight(key, results)}

Bound(again, ended) == again * BatchSize + ended * (WaveSize * BatchSize)

Waste(void, results, going, again, ended) ==
  /\ again \in Nat /\ ended \in Nat
  /\ SumOver(void, E!Keys) <= Bound(again, ended)
  /\ ~going =>
       SumOver(void, E!Keys) + Cardinality(KeysIn(results)) <= Bound(again, ended)

EnrichmentInv ==
  /\ Sound(batches) /\ OneWave(calling, writing) /\ FileOnce(lines)
  /\ Apart(batches, calling, writing, lines)
  /\ Accounts(writing, lines, paid, wasted)
  /\ Waste(wasted, writing, running, retried, stops)
  /\ running \/ (batches = <<>> /\ calling = {})
  /\ running => torn = "not"

LEMMA NothingPlanned == Sound(<<>>) /\ \A key : ~InPlan(key, <<>>)
BY DEF Sound, InPlan

LEMMA BoundGrows ==
  ASSUME E!EnrichmentAssumption, NEW again \in Nat, NEW ended \in Nat
  PROVE  /\ Bound(again, ended) \in Nat /\ WaveSize * BatchSize \in Nat
         /\ Bound(again + 1, ended) = Bound(again, ended) + BatchSize
         /\ Bound(again, ended + 1) = Bound(again, ended) + WaveSize * BatchSize
         /\ Bound(again, ended) = (again + ended * WaveSize) * BatchSize
<1>1. BatchSize \in Nat /\ WaveSize \in Nat
  BY DEF E!EnrichmentAssumption
<1>2. \A a, b, c, d \in Nat : /\ a * b \in Nat /\ (a + 1) * b = a * b + b
                             /\ (a + c * d) * b = a * b + c * (d * b)
  OBVIOUS
<1> DEFINE size == WaveSize * BatchSize
<1>3. size \in Nat
  BY <1>1, <1>2
<1>4. Bound(again, ended) = (again + ended * WaveSize) * BatchSize
  BY <1>1, <1>2 DEF Bound
<1> HIDE DEF size
<1>5. /\ again * BatchSize \in Nat /\ (again + 1) * BatchSize = again * BatchSize + BatchSize
      /\ ended * size \in Nat /\ (ended + 1) * size = ended * size + size
  BY <1>1, <1>2, <1>3
<1>6. Bound(again, ended) = again * BatchSize + ended * size
      /\ Bound(again + 1, ended) = (again + 1) * BatchSize + ended * size
      /\ Bound(again, ended + 1) = again * BatchSize + (ended + 1) * size
  BY DEF Bound, size
<1>7. QED
  BY <1>1, <1>3, <1>4, <1>5, <1>6 DEF size

(* One more for each of some keys.                                         *)
LEMMA Pluses ==
  ASSUME E!EnrichmentAssumption, NEW tally \in [E!Keys -> Nat], NEW K \in SUBSET E!Keys
  PROVE  /\ E!Plus(tally, K) \in [E!Keys -> Nat]
         /\ \A key \in E!Keys :
              E!Plus(tally, K)[key] = tally[key] + IF key \in K THEN 1 ELSE 0
         /\ IsFiniteSet(K) /\ Cardinality(K) \in Nat /\ SumOver(tally, E!Keys) \in Nat
         /\ SumOver(E!Plus(tally, K), E!Keys) = SumOver(tally, E!Keys) + Cardinality(K)
<1> DEFINE more == [key \in E!Keys |-> IF key \in K THEN 1 ELSE 0]
           after == E!Plus(tally, K)
           rest == E!Keys \ K
<1>1. after = [key \in E!Keys |-> tally[key] + IF key \in K THEN 1 ELSE 0]
  BY DEF E!Plus
<1>2. \A key \in E!Keys : /\ tally[key] \in Nat /\ more[key] \in 0 .. 1
                          /\ after[key] = tally[key] + more[key]
                          /\ after[key] = tally[key] + IF key \in K THEN 1 ELSE 0
  BY <1>1
<1>3. after \in [E!Keys -> Nat]
  BY <1>1
<1>4. /\ IsFiniteSet(E!Keys) /\ IsFiniteSet(K) /\ IsFiniteSet(rest)
      /\ Cardinality(K) \in Nat /\ Cardinality(rest) \in Nat
  BY ItemsAreRanks, FS_Subset, FS_CardinalityType
<1>5. SumOver(tally, E!Keys) \in Nat
  BY <1>2, <1>4, SumNat
<1>6. /\ \A key \in K \cup rest : more[key] \in Int
      /\ \A key \in K : more[key] = 1
      /\ \A key \in rest : more[key] \in 0 .. 0
      /\ E!Keys = K \cup rest /\ K \cap rest = {}
  OBVIOUS
<1> HIDE DEF after, more, rest
<1>7. SumOver(after, E!Keys) = SumOver(tally, E!Keys) + SumOver(more, E!Keys)
  BY <1>2, <1>4, SumPlus
<1>8. SumOver(more, K \cup rest) = SumOver(more, K) + SumOver(more, rest)
  BY <1>4, <1>6, SumDisjoint
<1>9. SumOver(more, K) = Cardinality(K)
  BY <1>4, <1>6, SumOfOnes
<1>10. SumOver(more, rest) \in Nat /\ SumOver(more, rest) <= 0 * Cardinality(rest)
  BY <1>4, <1>6, SumBound
<1>11. SumOver(more, E!Keys) = Cardinality(K)
  BY <1>4, <1>6, <1>8, <1>9, <1>10
<1>12. QED
  BY <1>2, <1>3, <1>4, <1>5, <1>7, <1>11 DEF after

LEMMA EnrichmentStart == E!EnrichmentAssumption /\ E!Init => EnrichmentInv
<1> SUFFICES ASSUME E!EnrichmentAssumption, E!Init PROVE EnrichmentInv
  OBVIOUS
<1>1. OneWave({}, {})
  BY FS_EmptySet DEF OneWave, E!EnrichmentAssumption
<1>2. FileOnce(<<>>)
  BY DEF FileOnce
<1>3. Apart(<<>>, {}, {}, <<>>)
  BY DEF Apart, InPlan, InCalls, InFlight, InFile
<1>4. Accounts({}, <<>>, paid, wasted)
  BY DEF E!Init, Accounts, InFlight, InFile
<1>5. Waste(wasted, {}, FALSE, 0, 0)
  <2>1. IsFiniteSet(E!Keys) /\ \A key \in E!Keys : wasted[key] \in 0 .. 0
    BY ItemsAreRanks DEF E!Init
  <2>2. SumOver(wasted, E!Keys) \in Nat
          /\ SumOver(wasted, E!Keys) <= 0 * Cardinality(E!Keys)
    BY <2>1, SumBound
  <2>3. Cardinality(E!Keys) \in Nat /\ Bound(0, 0) \in Nat
    BY <2>1, FS_CardinalityType, BoundGrows
  <2>4. KeysIn({}) = {} /\ Cardinality({}) = 0
    BY FS_EmptySet DEF KeysIn, InFlight
  <2>5. SumOver(wasted, E!Keys) = 0
    BY <2>2, <2>3
  <2>6. SumOver(wasted, E!Keys) <= Bound(0, 0)
          /\ SumOver(wasted, E!Keys) + Cardinality(KeysIn({})) <= Bound(0, 0)
    BY <2>3, <2>4, <2>5
  <2>7. QED
    BY <2>6 DEF Waste
<1>6. QED
  BY <1>1, <1>2, <1>3, <1>4, <1>5, NothingPlanned DEF EnrichmentInv, E!Init

LEMMA EnrichmentBegins ==
  ASSUME E!EnrichmentAssumption, EnrichmentInv, E!Begin
  PROVE  EnrichmentInv'
<1>1. /\ writing = {} /\ calling = {} /\ running' /\ torn = "not"
      /\ UNCHANGED <<lines, torn, calling, writing, paid, wasted, retried, stops>>
  BY DEF E!Begin, EnrichmentInv
<1>2. PICK pilot \in Pilots : batches' = E!Batches(E!Piloted(pilot, E!Remaining))
  BY DEF E!Begin
<1> DEFINE items == E!Piloted(pilot, E!Remaining)
<1>3. items \in SUBSET E!Remaining
  BY DEF E!Piloted
<1>4. E!Remaining \in SUBSET E!WorkItems
  BY DEF E!Remaining
<1>5. /\ Sound(E!Batches(items))
      /\ \A i \in DOMAIN E!Batches(items) : \A key \in E!Batches(items)[i] :
          \E n \in items : key = Feed[n]
  <2>1. items \in SUBSET E!WorkItems
    BY <1>3, <1>4
  <2> HIDE DEF items
  <2>2. QED
    BY <2>1, Plans
<1>6. \A n \in E!Remaining : ~InFile(Feed[n], lines)
  BY DEF E!Remaining, E!AlreadyDone, E!ToSet, InFile
<1> HIDE DEF items
<1>7. \A key : InPlan(key, batches') => ~InFile(key, lines)
  BY <1>2, <1>3, <1>5, <1>6 DEF InPlan, items
<1>8. Apart(batches', calling, writing, lines)
  BY <1>1, <1>7 DEF Apart, InCalls, InFlight
<1>9. Sound(batches')
  BY <1>2, <1>5 DEF items
<1>10. Waste(wasted, writing, running', retried, stops)
  BY <1>1 DEF EnrichmentInv, Waste
<1>11. QED
  BY <1>1, <1>8, <1>9, <1>10 DEF EnrichmentInv

LEMMA EnrichmentStarts ==
  ASSUME E!EnrichmentAssumption, EnrichmentInv, E!StartWave
  PROVE  EnrichmentInv'
<1> DEFINE n == E!Min({WaveSize, Len(batches)})
           first == {[batch |-> batches[i], attempt |-> 1] : i \in 1 .. n}
           rest == SubSeq(batches, n + 1, Len(batches))
<1>1. /\ calling = {} /\ writing = {} /\ running /\ batches # <<>>
      /\ UNCHANGED <<lines, torn, running, writing, paid, wasted, retried, stops>>
      /\ calling' = first /\ batches' = rest
  BY DEF E!StartWave
<1>2. /\ batches \in Seq(SUBSET E!Keys) /\ Len(batches) \in Nat
      /\ DOMAIN batches = 1 .. Len(batches)
  BY DEF EnrichmentInv, Sound
<1>3. n \in Nat /\ n <= WaveSize /\ n <= Len(batches)
  <2>1. n \in {WaveSize, Len(batches)} /\ \A k \in {WaveSize, Len(batches)} : n <= k
    <3>1. WaveSize \in Nat
      BY DEF E!EnrichmentAssumption
    <3>2. \E k \in {WaveSize, Len(batches)} : \A i \in {WaveSize, Len(batches)} : k <= i
      BY <1>2, <3>1
    <3>3. QED
      BY <3>2 DEF E!Min
  <2>2. QED
    BY <1>2, <2>1 DEF E!EnrichmentAssumption
<1> HIDE DEF n
<1>4. /\ rest \in Seq(SUBSET E!Keys) /\ DOMAIN rest = 1 .. Len(batches) - n
      /\ \A i \in 1 .. Len(batches) - n : n + i \in DOMAIN batches
          /\ rest[i] = batches[n + i]
  BY <1>2, <1>3
<1> HIDE DEF rest
<1>5. Sound(rest)
  <2>1. \A i, j \in 1 .. Len(batches) - n : i # j => n + i # n + j
    BY <1>2, <1>3
  <2>2. QED
    BY <1>4, <2>1 DEF EnrichmentInv, Sound
<1>6. OneWave(first, {})
  <2> DEFINE f == [i \in 1 .. n |-> [batch |-> batches[i], attempt |-> 1]]
  <2>1. f \in Surjection(1 .. n, first)
    BY DEF Surjection
  <2>2. IsFiniteSet(1 .. n) /\ Cardinality(1 .. n) = n
    BY <1>3, FS_Interval
  <2>3. IsFiniteSet(first) /\ Cardinality(first) <= n
    BY <2>1, <2>2, FS_Surjection
  <2>4. Cardinality(first) + Cardinality({}) <= WaveSize
    BY <1>3, <2>3, FS_EmptySet, FS_CardinalityType DEF E!EnrichmentAssumption
  <2>5. \A i \in 1 .. n : i \in DOMAIN batches /\ Batch(batches[i])
    BY <1>2, <1>3 DEF EnrichmentInv, Sound, Batch
  <2>6. \A i, j \in 1 .. n : i # j => batches[i] \cap batches[j] = {}
    BY <2>5 DEF EnrichmentInv, Sound
  <2>7. \A c \in first : \E i \in 1 .. n : c.batch = batches[i]
          /\ c = [batch |-> batches[i], attempt |-> 1]
    OBVIOUS
  <2> HIDE DEF first
  <2>8. /\ \A c \in first : Batch(c.batch)
        /\ \A c, d \in first : c # d => c.batch \cap d.batch = {}
    BY <2>5, <2>6, <2>7
  <2>10. \A c \in first : c \in [batch : SUBSET E!Keys, attempt : Nat]
    <3>1. \A i \in 1 .. n : batches[i] \in SUBSET E!Keys
      BY <2>5 DEF Batch
    <3>2. QED
      BY <2>7, <3>1
  <2>9. QED
    BY <2>3, <2>4, <2>8, <2>10, FS_EmptySet DEF OneWave
<1>7. Apart(rest, first, {}, lines)
  <2>1. \A key : InPlan(key, rest)
          => \E i \in 1 .. Len(batches) - n : key \in batches[n + i]
    BY <1>4 DEF InPlan
  <2>2. \A key : InCalls(key, first) => \E i \in 1 .. n : key \in batches[i]
    BY DEF InCalls
  <2>3. \A i \in 1 .. Len(batches) - n : \A j \in 1 .. n :
          n + i \in DOMAIN batches /\ j \in DOMAIN batches /\ n + i # j
    BY <1>2, <1>3
  <2>4. \A key : InPlan(key, rest) => InPlan(key, batches) /\ ~InCalls(key, first)
    <3>1. ASSUME NEW key, NEW i \in 1 .. Len(batches) - n, key \in batches[n + i]
          PROVE  InPlan(key, batches) /\ \A j \in 1 .. n : key \notin batches[j]
      <4>1. \A p, q \in DOMAIN batches : p # q => batches[p] \cap batches[q] = {}
        BY DEF EnrichmentInv, Sound
      <4>2. \A j \in 1 .. n : key \notin batches[j]
        BY <2>3, <3>1, <4>1
      <4>3. n + i \in DOMAIN batches
        BY <1>4
      <4>4. QED
        BY <3>1, <4>2, <4>3 DEF InPlan
    <3> HIDE DEF first
    <3>2. QED
      BY <2>1, <2>2, <3>1
  <2>5. \A key : InCalls(key, first) => InPlan(key, batches)
    BY <1>2, <1>3, <2>2 DEF InPlan
  <2>6. QED
    BY <1>1, <2>4, <2>5 DEF EnrichmentInv, Apart, InFlight
<1>8. QED
  BY <1>1, <1>5, <1>6, <1>7 DEF EnrichmentInv

LEMMA EnrichmentReturns ==
  ASSUME E!EnrichmentAssumption, EnrichmentInv, NEW c \in calling, E!CallReturns(c)
  PROVE  EnrichmentInv'
<1>0. PICK answered \in SUBSET c.batch :
        \E answers \in [answered -> Taxonomy \ {Uncategorized}] :
        writing' = writing \cup {E!ExtractResult(c.batch, answers)}
  BY DEF E!CallReturns
<1>1. PICK answers \in [answered -> Taxonomy \ {Uncategorized}] :
        writing' = writing \cup {E!ExtractResult(c.batch, answers)}
  BY <1>0
<1> DEFINE result == E!ExtractResult(c.batch, answers)
<1>2. /\ calling' = calling \ {c}
      /\ paid' = E!Plus(paid, c.batch)
      /\ UNCHANGED <<lines, torn, running, batches, wasted, retried, stops>>
  BY DEF E!CallReturns
<1>3. Batch(c.batch)
  BY DEF EnrichmentInv, OneWave
<1>4. DOMAIN result = c.batch /\ result \in Classified
  <2>1. result \in [c.batch -> Taxonomy]
    BY DEF E!ExtractResult, E!EnrichmentAssumption
  <2>2. QED
    BY <1>3, <2>1 DEF Classified, Batch
<1> HIDE DEF result
<1>5. writing' = writing \cup {result}
  BY <1>1 DEF result
<1>6. \A key \in E!Keys : key \in c.batch =>
        ~InPlan(key, batches) /\ ~InFlight(key, writing) /\ ~InFile(key, lines)
  BY DEF EnrichmentInv, Apart, InCalls
<1>7. OneWave(calling', writing')
  <2>1. /\ IsFiniteSet(calling') /\ IsFiniteSet(writing')
        /\ Cardinality(calling') = Cardinality(calling) - 1
        /\ Cardinality(writing') <= Cardinality(writing) + 1
    <3>1. IsFiniteSet(calling) /\ IsFiniteSet(writing)
      BY DEF EnrichmentInv, OneWave
    <3>2. IsFiniteSet(calling') /\ Cardinality(calling') = Cardinality(calling) - 1
      BY <1>2, <3>1, FS_RemoveElement
    <3>3. /\ IsFiniteSet(writing')
          /\ Cardinality(writing') = IF result \in writing THEN Cardinality(writing)
                                     ELSE Cardinality(writing) + 1
      BY <1>5, <3>1, FS_AddElement
    <3>4. Cardinality(writing) \in Nat
      BY <3>1, FS_CardinalityType
    <3>5. QED
      BY <3>2, <3>3, <3>4
  <2>2. Cardinality(calling') + Cardinality(writing') <= WaveSize
    BY <2>1, FS_CardinalityType DEF EnrichmentInv, OneWave, E!EnrichmentAssumption
  <2>3. \A r \in writing : DOMAIN r \cap DOMAIN result = {}
    BY <1>3, <1>4, <1>6 DEF Batch, InFlight
  <2>4. QED
    BY <1>2, <1>3, <1>4, <1>5, <2>1, <2>2, <2>3 DEF EnrichmentInv, OneWave
<1>8. \A key : InFlight(key, writing') <=> InFlight(key, writing) \/ key \in c.batch
  BY <1>4, <1>5 DEF InFlight
<1>9. Apart(batches, calling', writing', lines)
  <2>1. \A key : InCalls(key, calling') => InCalls(key, calling) /\ key \notin c.batch
    BY <1>2 DEF InCalls, EnrichmentInv, OneWave
  <2>2. QED
    BY <1>6, <1>8, <2>1 DEF EnrichmentInv, Apart
<1>10. Accounts(writing', lines, paid', wasted)
  <2>1. paid \in [E!Keys -> Nat] /\ c.batch \in SUBSET E!Keys
    BY <1>3 DEF EnrichmentInv, Accounts, Batch
  <2>2. /\ paid' \in [E!Keys -> Nat]
        /\ \A key \in E!Keys : paid'[key] = paid[key] + IF key \in c.batch THEN 1 ELSE 0
    BY <1>2, <2>1, Pluses
  <2>3. ASSUME NEW key \in E!Keys
        PROVE  paid'[key] = wasted[key]
                 + IF InFlight(key, writing') \/ InFile(key, lines) THEN 1 ELSE 0
    <3>1. /\ paid[key] \in Nat /\ wasted[key] \in Nat
          /\ paid[key] = wasted[key]
                        + IF InFlight(key, writing) \/ InFile(key, lines) THEN 1 ELSE 0
          /\ paid'[key] = paid[key] + IF key \in c.batch THEN 1 ELSE 0
      BY <2>2 DEF EnrichmentInv, Accounts
    <3>2. QED
      BY <1>6, <1>8, <3>1
  <2>4. QED
    BY <2>2, <2>3 DEF EnrichmentInv, Accounts
<1>11. running
  BY DEF EnrichmentInv
<1>12. Waste(wasted, writing', running', retried, stops)
  BY <1>2, <1>11 DEF EnrichmentInv, Waste
<1>13. QED
  BY <1>2, <1>7, <1>9, <1>10, <1>11, <1>12 DEF EnrichmentInv

LEMMA EnrichmentRetries ==
  ASSUME E!EnrichmentAssumption, EnrichmentInv, NEW c \in calling, E!CallRetried(c)
  PROVE  EnrichmentInv'
<1> DEFINE again == [c EXCEPT !.attempt = c.attempt + 1]
<1>1. /\ calling' = (calling \ {c}) \cup {again}
      /\ retried' = retried + 1
      /\ UNCHANGED <<lines, torn, running, batches, writing, stops>>
  BY DEF E!CallRetried
<1>2. again.batch = c.batch /\ again \in [batch : SUBSET E!Keys, attempt : Nat]
  <2>1. c \in [batch : SUBSET E!Keys, attempt : Nat]
    BY DEF EnrichmentInv, OneWave
  <2>2. QED
    BY <2>1
<1> HIDE DEF again
<1>3. OneWave(calling', writing)
  <2>1. /\ IsFiniteSet(calling') /\ Cardinality(calling') <= Cardinality(calling)
    <3>1. IsFiniteSet(calling)
      BY DEF EnrichmentInv, OneWave
    <3>2. IsFiniteSet(calling \ {c})
            /\ Cardinality(calling \ {c}) = Cardinality(calling) - 1
      BY <3>1, FS_RemoveElement
    <3>3. /\ IsFiniteSet(calling')
          /\ Cardinality(calling')
              = IF again \in calling \ {c} THEN Cardinality(calling \ {c})
                                     ELSE Cardinality(calling \ {c}) + 1
      BY <1>1, <3>2, FS_AddElement
    <3>4. Cardinality(calling) \in Nat
      BY <3>1, FS_CardinalityType
    <3>5. QED
      BY <3>2, <3>3, <3>4
  <2>2. Cardinality(calling') + Cardinality(writing) <= WaveSize
    BY <2>1, FS_CardinalityType DEF EnrichmentInv, OneWave, E!EnrichmentAssumption
  <2>3. QED
    BY <1>1, <1>2, <2>1, <2>2 DEF EnrichmentInv, OneWave
<1>4. \A key : InCalls(key, calling') => InCalls(key, calling)
  BY <1>1, <1>2 DEF InCalls
<1>5. Apart(batches, calling', writing, lines)
  BY <1>4 DEF EnrichmentInv, Apart
<1>6. PICK charged \in {{}, c.batch} : /\ paid' = E!Plus(paid, charged)
                                      /\ wasted' = E!Plus(wasted, charged)
  BY DEF E!CallRetried
<1>7. paid \in [E!Keys -> Nat] /\ wasted \in [E!Keys -> Nat] /\ charged \in SUBSET E!Keys
  BY DEF EnrichmentInv, Accounts, OneWave, Batch
<1>8. Accounts(writing, lines, paid', wasted')
  <2>1. /\ paid' \in [E!Keys -> Nat] /\ wasted' \in [E!Keys -> Nat]
        /\ \A key \in E!Keys :
             /\ paid'[key] = paid[key] + IF key \in charged THEN 1 ELSE 0
             /\ wasted'[key] = wasted[key] + IF key \in charged THEN 1 ELSE 0
    BY <1>6, <1>7, Pluses
  <2>2. QED
    BY <1>7, <2>1 DEF EnrichmentInv, Accounts
<1>9. running
  BY DEF EnrichmentInv
<1>10. Waste(wasted', writing, running, retried', stops)
  <2> DEFINE before == SumOver(wasted, E!Keys)
             after == SumOver(wasted', E!Keys)
             gone == Cardinality(charged)
             allowed == Bound(retried, stops)
  <2>1. before \in Nat /\ gone \in Nat /\ after = before + gone
    BY <1>6, <1>7, Pluses
  <2>2. gone <= BatchSize
    <3>1. Batch(c.batch) /\ Cardinality({}) = 0 /\ BatchSize \in Nat
      BY FS_EmptySet DEF EnrichmentInv, OneWave, E!EnrichmentAssumption
    <3>2. QED
      BY <3>1 DEF Batch
  <2>3. retried \in Nat /\ stops \in Nat /\ before <= allowed
    BY DEF EnrichmentInv, Waste
  <2>4. allowed \in Nat /\ Bound(retried', stops) = allowed + BatchSize
    BY <1>1, <2>3, BoundGrows
  <2> HIDE DEF before, after, gone, allowed
  <2>5. BatchSize \in Nat
    BY DEF E!EnrichmentAssumption
  <2>6. after <= Bound(retried', stops)
    BY <2>1, <2>2, <2>3, <2>4, <2>5
  <2>7. QED
    BY <1>1, <1>9, <2>3, <2>6 DEF Waste, after
<1>11. QED
  BY <1>1, <1>3, <1>5, <1>8, <1>9, <1>10 DEF EnrichmentInv

(* A line leaves the appends under way.                                    *)
LEMMA LineLeaves ==
  ASSUME E!EnrichmentAssumption, EnrichmentInv, NEW r \in writing
  PROVE  /\ OneWave(calling, writing \ {r}) /\ DOMAIN r \in SUBSET E!Keys
         /\ \A key : InFlight(key, writing \ {r}) <=> InFlight(key, writing)
                                                    /\ key \notin DOMAIN r
         /\ \A key \in DOMAIN r : InFlight(key, writing)
         /\ Cardinality(DOMAIN r) \in Nat /\ Cardinality(KeysIn(writing \ {r})) \in Nat
         /\ Cardinality(KeysIn(writing))
              = Cardinality(KeysIn(writing \ {r})) + Cardinality(DOMAIN r)
<1> DEFINE others == writing \ {r}
<1>1. DOMAIN r \in SUBSET E!Keys /\ IsFiniteSet(DOMAIN r)
  BY DEF EnrichmentInv, OneWave, Batch
<1>2. \A key : InFlight(key, others) <=> InFlight(key, writing) /\ key \notin DOMAIN r
  BY DEF InFlight, EnrichmentInv, OneWave
<1>3. \A key \in DOMAIN r : InFlight(key, writing)
  BY DEF InFlight
<1>4. OneWave(calling, others)
  <2>1. IsFiniteSet(writing) /\ IsFiniteSet(calling)
    BY DEF EnrichmentInv, OneWave
  <2>2. IsFiniteSet(others) /\ Cardinality(others) = Cardinality(writing) - 1
    BY <2>1, FS_RemoveElement
  <2>3. Cardinality(calling) + Cardinality(others) <= WaveSize
    BY <2>1, <2>2, FS_CardinalityType DEF EnrichmentInv, OneWave, E!EnrichmentAssumption
  <2>4. QED
    BY <2>1, <2>2, <2>3 DEF EnrichmentInv, OneWave
<1>5. IsFiniteSet(KeysIn(others))
  BY ItemsAreRanks, FS_Subset DEF KeysIn
<1> HIDE DEF others
<1>6. KeysIn(writing) = KeysIn(others) \cup DOMAIN r /\ KeysIn(others) \cap DOMAIN r = {}
  BY <1>1, <1>2, <1>3 DEF KeysIn
<1>7. Cardinality(KeysIn(others) \cup DOMAIN r)
        = Cardinality(KeysIn(others)) + Cardinality(DOMAIN r)
  <2>1. Cardinality(KeysIn(others) \cup DOMAIN r)
          = Cardinality(KeysIn(others)) + Cardinality(DOMAIN r)
            - Cardinality(KeysIn(others) \cap DOMAIN r)
    BY <1>1, <1>5, FS_Union
  <2>2. Cardinality(KeysIn(others) \cap DOMAIN r) = 0
    BY <1>6, FS_EmptySet
  <2>3. QED
    BY <1>1, <1>5, <2>1, <2>2, FS_CardinalityType
<1>8. QED
  BY <1>1, <1>2, <1>3, <1>4, <1>5, <1>6, <1>7, FS_CardinalityType DEF others

(* It is lost: the run has ended, and this loss was allowed for.           *)
LEMMA LineLost ==
  ASSUME E!EnrichmentAssumption, EnrichmentInv, NEW r \in writing, ~running,
         writing' = writing \ {r}, wasted' = E!Plus(wasted, DOMAIN r),
         UNCHANGED <<lines, running, batches, calling, paid, retried, stops>>
  PROVE  EnrichmentInv'
<1>1. wasted \in [E!Keys -> Nat] /\ DOMAIN r \in SUBSET E!Keys
  BY LineLeaves DEF EnrichmentInv, Accounts
<1>2. /\ wasted' \in [E!Keys -> Nat]
      /\ \A key \in E!Keys : wasted'[key] = wasted[key] + IF key \in DOMAIN r THEN 1 ELSE 0
      /\ SumOver(wasted, E!Keys) \in Nat
      /\ SumOver(wasted', E!Keys) = SumOver(wasted, E!Keys) + Cardinality(DOMAIN r)
  BY <1>1, Pluses
<1>3. /\ \A key : InFlight(key, writing') <=> InFlight(key, writing) /\ key \notin DOMAIN r
      /\ \A key \in DOMAIN r : InFlight(key, writing)
  BY LineLeaves
<1>4. Apart(batches, calling, writing', lines)
  BY <1>3 DEF EnrichmentInv, Apart
<1>5. Accounts(writing', lines, paid, wasted')
  <2>1. ASSUME NEW key \in E!Keys
        PROVE  paid[key] = wasted'[key]
                 + IF InFlight(key, writing') \/ InFile(key, lines) THEN 1 ELSE 0
    <3>1. /\ paid[key] \in Nat /\ wasted[key] \in Nat
          /\ paid[key] = wasted[key]
                        + IF InFlight(key, writing) \/ InFile(key, lines) THEN 1 ELSE 0
          /\ InFlight(key, writing) => ~InFile(key, lines)
      BY DEF EnrichmentInv, Accounts, Apart
    <3>2. QED
      BY <1>2, <1>3, <3>1
  <2>2. QED
    BY <1>2, <2>1 DEF EnrichmentInv, Accounts
<1>6. Waste(wasted', writing', running, retried, stops)
  <2> DEFINE before == SumOver(wasted, E!Keys)
             after == SumOver(wasted', E!Keys)
             rest == Cardinality(KeysIn(writing'))
             gone == Cardinality(DOMAIN r)
             allowed == Bound(retried, stops)
  <2>1. /\ gone \in Nat /\ rest \in Nat /\ before \in Nat /\ after = before + gone
        /\ Cardinality(KeysIn(writing)) = rest + gone
    BY <1>2, LineLeaves
  <2>2. before + Cardinality(KeysIn(writing)) <= allowed /\ allowed \in Nat
        /\ retried \in Nat /\ stops \in Nat
    BY BoundGrows DEF EnrichmentInv, Waste
  <2> HIDE DEF before, after, rest, gone, allowed
  <2>3. after <= allowed /\ after + rest <= allowed
    BY <2>1, <2>2
  <2>4. QED
    BY <2>2, <2>3 DEF Waste, after, rest, allowed
<1>7. OneWave(calling, writing')
  BY LineLeaves
<1>8. QED
  BY <1>4, <1>5, <1>6, <1>7 DEF EnrichmentInv

LEMMA EnrichmentWrites ==
  ASSUME E!EnrichmentAssumption, EnrichmentInv, NEW r \in writing, E!Write(r), torn # "cut"
  PROVE  EnrichmentInv'
<1>1. /\ lines' = Append(lines, r) /\ writing' = writing \ {r}
      /\ UNCHANGED <<torn, running, batches, calling, paid, wasted, retried, stops>>
  BY DEF E!Write
<1>2. /\ lines \in Seq(Classified) /\ Len(lines) \in Nat /\ DOMAIN lines = 1 .. Len(lines)
      /\ r \in Classified /\ DOMAIN r \subseteq E!Keys
  BY DEF EnrichmentInv, FileOnce, OneWave, Batch
<1>3. /\ lines' \in Seq(Classified) /\ DOMAIN lines' = 1 .. Len(lines) + 1
      /\ \A n \in DOMAIN lines : n \in DOMAIN lines' /\ lines'[n] = lines[n]
      /\ lines'[Len(lines) + 1] = r
  BY <1>1, <1>2
<1>4. \A n \in DOMAIN lines' : n \in DOMAIN lines \/ n = Len(lines) + 1
  BY <1>2, <1>3
<1>5. \A n \in DOMAIN lines : DOMAIN lines[n] \cap DOMAIN r = {}
  BY <1>2 DEF EnrichmentInv, Apart, InFlight, InFile
<1>6. FileOnce(lines')
  BY <1>2, <1>3, <1>4, <1>5 DEF EnrichmentInv, FileOnce
<1>7. \A key : InFile(key, lines') <=> InFile(key, lines) \/ key \in DOMAIN r
  <2>1. Len(lines) + 1 \in DOMAIN lines'
    BY <1>2, <1>3
  <2>2. QED
    BY <1>3, <1>4, <2>1 DEF InFile
<1>8. \A key : /\ InFlight(key, writing') => InFlight(key, writing) /\ key \notin DOMAIN r
               /\ InFlight(key, writing) => InFlight(key, writing') \/ key \in DOMAIN r
               /\ key \in DOMAIN r => InFlight(key, writing)
  BY <1>1, LineLeaves
<1>9. OneWave(calling, writing')
  BY <1>1, LineLeaves
<1>10. Apart(batches, calling, writing', lines')
  BY <1>7, <1>8 DEF EnrichmentInv, Apart
<1>11. Accounts(writing', lines', paid, wasted)
  <2>1. \A key : InFlight(key, writing') \/ InFile(key, lines') <=>
                 InFlight(key, writing) \/ InFile(key, lines)
    BY <1>7, <1>8
  <2>2. QED
    BY <2>1 DEF EnrichmentInv, Accounts
<1>12. Waste(wasted, writing', running, retried, stops)
  <2>1. SumOver(wasted, E!Keys) \in Nat
    BY ItemsAreRanks, SumNat DEF EnrichmentInv, Accounts
  <2>2. retried \in Nat /\ stops \in Nat /\ Bound(retried, stops) \in Nat
    BY BoundGrows DEF EnrichmentInv, Waste
  <2>3. /\ Cardinality(KeysIn(writing')) \in Nat /\ Cardinality(DOMAIN r) \in Nat
        /\ Cardinality(KeysIn(writing))
             = Cardinality(KeysIn(writing')) + Cardinality(DOMAIN r)
    BY <1>1, LineLeaves
  <2>4. QED
    BY <2>1, <2>2, <2>3 DEF EnrichmentInv, Waste
<1>13. QED
  BY <1>1, <1>6, <1>9, <1>10, <1>11, <1>12 DEF EnrichmentInv

(* Batches hold no more keys than as many full ones.                       *)
LEMMA KeysOf ==
  ASSUME E!EnrichmentAssumption, NEW R, IsFiniteSet(R), \A b \in R : Batch(b)
  PROVE  IsFiniteSet(UNION R) /\ Cardinality(UNION R) <= BatchSize * Cardinality(R)
<1> DEFINE T == {U \in SUBSET R : Cardinality(UNION U) <= BatchSize * Cardinality(U)}
<1>1. \A U \in SUBSET R : IsFiniteSet(UNION U) /\ Cardinality(UNION U) \in Nat
  <2>1. \A U \in SUBSET R : UNION U \subseteq E!Keys
    BY DEF Batch
  <2>2. QED
    BY <2>1, ItemsAreRanks, FS_Subset, FS_CardinalityType
<1>2. {} \in T
  <2>1. UNION {} = {}
    OBVIOUS
  <2>2. Cardinality({}) = 0 /\ BatchSize * 0 = 0
    BY FS_EmptySet DEF E!EnrichmentAssumption
  <2>3. QED
    BY <2>1, <2>2
<1>3. ASSUME NEW U \in SUBSET R, NEW x \in R \ U, U \in T PROVE U \cup {x} \in T
  <2>1. IsFiniteSet(U) /\ Cardinality(U) \in Nat
          /\ Cardinality(U \cup {x}) = Cardinality(U) + 1
    BY FS_Subset, FS_AddElement, FS_CardinalityType
  <2>2. UNION (U \cup {x}) = (UNION U) \cup x
    OBVIOUS
  <2>3. IsFiniteSet(x) /\ Cardinality(x) \in Nat /\ Cardinality(x) <= BatchSize
    BY FS_CardinalityType DEF Batch
  <2>4. /\ Cardinality(UNION U) \in Nat /\ IsFiniteSet(UNION U)
        /\ Cardinality(UNION U) <= BatchSize * Cardinality(U)
    BY <1>1, <1>3
  <2>5. /\ Cardinality((UNION U) \cap x) \in Nat
        /\ Cardinality((UNION U) \cup x)
             = Cardinality(UNION U) + Cardinality(x) - Cardinality((UNION U) \cap x)
    BY <2>3, <2>4, FS_Union, FS_Intersection, FS_CardinalityType
  <2>6. /\ BatchSize * (Cardinality(U) + 1) = BatchSize * Cardinality(U) + BatchSize
        /\ BatchSize * Cardinality(U) \in Nat /\ BatchSize \in Nat
    BY <2>1 DEF E!EnrichmentAssumption
  <2>7. Cardinality(UNION (U \cup {x})) <= BatchSize * Cardinality(U \cup {x})
    <3> DEFINE a == Cardinality(UNION U)
               d == Cardinality(x)
               i == Cardinality((UNION U) \cap x)
               u == BatchSize * Cardinality(U)
    <3>1. Cardinality(UNION (U \cup {x})) = a + d - i
      BY <2>2, <2>5
    <3>2. BatchSize * Cardinality(U \cup {x}) = u + BatchSize
      BY <2>1, <2>6
    <3>3. /\ a \in Nat /\ d \in Nat /\ i \in Nat /\ u \in Nat /\ BatchSize \in Nat
          /\ a <= u /\ d <= BatchSize
      BY <2>3, <2>4, <2>5, <2>6
    <3> HIDE DEF a, d, i, u
    <3>4. a + d - i <= u + BatchSize
      BY <3>3
    <3>5. QED
      BY <3>1, <3>2, <3>4
  <2>8. QED
    BY <2>7
<1>4. R \in T
  <2> HIDE DEF T
  <2>1. QED
    BY <1>2, <1>3, SetInduction
<1>5. QED
  BY <1>1, <1>4

InWave == {key \in E!Keys : InCalls(key, calling) \/ InFlight(key, writing)}

LEMMA WavesAreSmall ==
  ASSUME E!EnrichmentAssumption, EnrichmentInv
  PROVE  IsFiniteSet(InWave) /\ Cardinality(InWave) \in Nat
         /\ Cardinality(InWave) <= WaveSize * BatchSize
<1> DEFINE called == {c.batch : c \in calling}
           answered == {DOMAIN r : r \in writing}
<1>1. /\ IsFiniteSet(calling) /\ IsFiniteSet(writing)
      /\ Cardinality(calling) \in Nat /\ Cardinality(writing) \in Nat
      /\ Cardinality(calling) + Cardinality(writing) <= WaveSize
  BY FS_CardinalityType DEF EnrichmentInv, OneWave
<1>2. IsFiniteSet(called) /\ Cardinality(called) <= Cardinality(calling)
  <2> DEFINE f == [c \in calling |-> c.batch]
  <2>1. f \in Surjection(calling, called)
    BY DEF Surjection
  <2>2. QED
    BY <1>1, <2>1, FS_Surjection
<1>3. IsFiniteSet(answered) /\ Cardinality(answered) <= Cardinality(writing)
  <2> DEFINE f == [r \in writing |-> DOMAIN r]
  <2>1. f \in Surjection(writing, answered)
    BY DEF Surjection
  <2>2. QED
    BY <1>1, <2>1, FS_Surjection
<1>4. \A b \in called \cup answered : Batch(b)
  BY DEF EnrichmentInv, OneWave
<1>5. InWave \subseteq UNION (called \cup answered)
  BY DEF InWave, InCalls, InFlight
<1> HIDE DEF called, answered
<1>6. /\ IsFiniteSet(called \cup answered) /\ Cardinality(called \cup answered) \in Nat
      /\ Cardinality(called \cup answered) <= Cardinality(called) + Cardinality(answered)
      /\ Cardinality(called) \in Nat /\ Cardinality(answered) \in Nat
  <2>1. /\ IsFiniteSet(called \cup answered) /\ IsFiniteSet(called \cap answered)
        /\ Cardinality(called \cup answered)
             = Cardinality(called) + Cardinality(answered) - Cardinality(called \cap answered)
    BY <1>2, <1>3, FS_Union, FS_Intersection
  <2>2. /\ Cardinality(called) \in Nat /\ Cardinality(answered) \in Nat
        /\ Cardinality(called \cup answered) \in Nat
        /\ Cardinality(called \cap answered) \in Nat
    BY <1>2, <1>3, <2>1, FS_CardinalityType
  <2>3. QED
    BY <2>1, <2>2
<1>7. Cardinality(called \cup answered) \in 0 .. WaveSize
  BY <1>1, <1>2, <1>3, <1>6 DEF E!EnrichmentAssumption
<1>8. /\ IsFiniteSet(UNION (called \cup answered))
      /\ Cardinality(UNION (called \cup answered))
           <= BatchSize * Cardinality(called \cup answered)
  BY <1>4, <1>6, KeysOf
<1>9. \A w \in 0 .. WaveSize : BatchSize * w <= WaveSize * BatchSize /\ BatchSize * w \in Nat
  BY DEF E!EnrichmentAssumption
<1>10. /\ IsFiniteSet(InWave)
       /\ Cardinality(InWave) <= Cardinality(UNION (called \cup answered))
       /\ Cardinality(InWave) \in Nat /\ Cardinality(UNION (called \cup answered)) \in Nat
  BY <1>5, <1>8, FS_Subset, FS_CardinalityType
<1>11. WaveSize * BatchSize \in Nat
  BY DEF E!EnrichmentAssumption
<1>12. BatchSize * Cardinality(called \cup answered) <= WaveSize * BatchSize
         /\ BatchSize * Cardinality(called \cup answered) \in Nat
  BY <1>7, <1>9
<1>13. QED
  BY <1>8, <1>10, <1>11, <1>12

(* A run ends early, with what was called, answered and not yet appended.  *)
LEMMA EnrichmentBreaks ==
  ASSUME E!EnrichmentAssumption, EnrichmentInv, NEW dropped \in SUBSET writing,
         E!Break(dropped)
  PROVE  EnrichmentInv'
<1>1. /\ running' = FALSE /\ batches' = <<>> /\ calling' = {} /\ stops' = stops + 1
      /\ writing' = writing \ dropped /\ UNCHANGED <<lines, retried>>
  BY DEF E!Break
<1>2. PICK charged \in SUBSET calling :
        /\ paid' = E!Plus(paid, E!BatchKeys(charged))
        /\ wasted' = E!Plus(wasted, E!BatchKeys(charged) \cup E!LineKeys(dropped))
  BY DEF E!Break
<1> DEFINE bought == E!BatchKeys(charged)
           void == bought \cup E!LineKeys(dropped)
<1>3. \A key \in bought : InCalls(key, calling) /\ key \in E!Keys
  BY DEF E!BatchKeys, InCalls, EnrichmentInv, OneWave, Batch
<1>4. \A key : key \in E!LineKeys(dropped) <=> InFlight(key, dropped)
  BY DEF E!LineKeys, InFlight
<1>5. \A key : InFlight(key, writing') <=> InFlight(key, writing) /\ ~InFlight(key, dropped)
  BY <1>1 DEF InFlight, EnrichmentInv, OneWave
<1>6. \A key : InFlight(key, dropped) => InFlight(key, writing) /\ key \in E!Keys
  BY DEF InFlight, EnrichmentInv, OneWave, Batch
<1>7. /\ paid \in [E!Keys -> Nat] /\ wasted \in [E!Keys -> Nat]
      /\ bought \in SUBSET E!Keys /\ void \in SUBSET E!Keys
  BY <1>3, <1>4, <1>6 DEF EnrichmentInv, Accounts
<1>8. void \cup KeysIn(writing') \subseteq InWave /\ void \cap KeysIn(writing') = {}
  <2>1. \A key \in void : key \in E!Keys /\ (InCalls(key, calling) \/ InFlight(key, dropped))
    BY <1>3, <1>4, <1>7
  <2>2. \A key \in E!Keys : InCalls(key, calling) => ~InFlight(key, writing)
    BY DEF EnrichmentInv, Apart
  <2> HIDE DEF void
  <2>3. QED
    BY <1>5, <1>6, <2>1, <2>2 DEF KeysIn, InWave
<1>9. /\ paid' \in [E!Keys -> Nat] /\ wasted' \in [E!Keys -> Nat]
      /\ \A key \in E!Keys : /\ paid'[key] = paid[key] + IF key \in bought THEN 1 ELSE 0
                             /\ wasted'[key] = wasted[key] + IF key \in void THEN 1 ELSE 0
      /\ IsFiniteSet(void) /\ Cardinality(void) \in Nat /\ SumOver(wasted, E!Keys) \in Nat
      /\ SumOver(wasted', E!Keys) = SumOver(wasted, E!Keys) + Cardinality(void)
  <2> HIDE DEF bought, void
  <2>1. paid' = E!Plus(paid, bought) /\ wasted' = E!Plus(wasted, void)
    BY <1>2 DEF bought, void
  <2>2. QED
    BY <1>7, <2>1, Pluses
<1>10. Accounts(writing', lines, paid', wasted')
  <2>1. ASSUME NEW key \in E!Keys
        PROVE  paid'[key] = wasted'[key]
                 + IF InFlight(key, writing') \/ InFile(key, lines) THEN 1 ELSE 0
    <3>1. /\ paid[key] \in Nat /\ wasted[key] \in Nat
          /\ paid[key] = wasted[key]
                        + IF InFlight(key, writing) \/ InFile(key, lines) THEN 1 ELSE 0
          /\ InFlight(key, writing) => ~InFile(key, lines)
          /\ InCalls(key, calling) => ~InFlight(key, writing) /\ ~InFile(key, lines)
      BY DEF EnrichmentInv, Accounts, Apart
    <3>2. key \in void <=> key \in bought \/ InFlight(key, dropped)
      BY <1>4
    <3>3. key \in bought => InCalls(key, calling)
      BY <1>3
    <3> HIDE DEF bought, void
    <3>4. QED
      BY <1>5, <1>6, <1>9, <3>1, <3>2, <3>3
  <2>2. QED
    BY <1>9, <2>1 DEF Accounts
<1>11. Waste(wasted', writing', running', retried', stops')
  <2> DEFINE before == SumOver(wasted, E!Keys)
             after == SumOver(wasted', E!Keys)
             gone == Cardinality(void)
             rest == Cardinality(KeysIn(writing'))
             size == WaveSize * BatchSize
             allowed == Bound(retried, stops)
  <2>1. before \in Nat /\ gone \in Nat /\ after = before + gone
    BY <1>9
  <2>2. rest \in Nat /\ gone + rest <= size
    <3> HIDE DEF void
    <3>1. IsFiniteSet(KeysIn(writing'))
      BY ItemsAreRanks, FS_Subset DEF KeysIn
    <3>2. Cardinality(void \cup KeysIn(writing')) = Cardinality(void) + rest
      <4>1. Cardinality(void \cup KeysIn(writing'))
              = Cardinality(void) + Cardinality(KeysIn(writing'))
                - Cardinality(void \cap KeysIn(writing'))
        BY <1>9, <3>1, FS_Union
      <4>2. Cardinality(void \cap KeysIn(writing')) = 0
        BY <1>8, FS_EmptySet
      <4>3. QED
        BY <1>9, <3>1, <4>1, <4>2, FS_CardinalityType
    <3>3. /\ Cardinality(void \cup KeysIn(writing')) <= Cardinality(InWave)
          /\ Cardinality(InWave) <= WaveSize * BatchSize /\ Cardinality(InWave) \in Nat
          /\ Cardinality(void \cup KeysIn(writing')) \in Nat
      BY <1>8, WavesAreSmall, FS_Subset, FS_CardinalityType
    <3>4. WaveSize * BatchSize \in Nat
      BY DEF E!EnrichmentAssumption
    <3>5. QED
      BY <1>9, <3>1, <3>2, <3>3, <3>4, FS_CardinalityType
  <2>3. retried \in Nat /\ stops \in Nat /\ before <= allowed
    BY DEF EnrichmentInv, Waste
  <2>4. allowed \in Nat /\ size \in Nat /\ Bound(retried', stops') = allowed + size
    BY <1>1, <2>3, BoundGrows
  <2> HIDE DEF before, after, gone, rest, size, allowed
  <2>5. after <= Bound(retried', stops') /\ after + rest <= Bound(retried', stops')
    BY <2>1, <2>2, <2>3, <2>4
  <2>6. QED
    BY <1>1, <2>3, <2>5 DEF Waste, after, rest
<1>12. OneWave({}, writing')
  <2>1. /\ IsFiniteSet(writing) /\ IsFiniteSet(calling) /\ IsFiniteSet(writing')
        /\ Cardinality(writing') <= Cardinality(writing)
    BY <1>1, FS_Subset DEF EnrichmentInv, OneWave
  <2>2. Cardinality({}) + Cardinality(writing') <= WaveSize
    BY <2>1, FS_EmptySet, FS_CardinalityType DEF EnrichmentInv, OneWave,
        E!EnrichmentAssumption
  <2>3. QED
    BY <1>1, <2>1, <2>2, FS_EmptySet DEF EnrichmentInv, OneWave
<1>13. Apart(<<>>, {}, writing', lines)
  BY <1>5 DEF EnrichmentInv, Apart, InPlan, InCalls
<1>14. QED
  BY <1>1, <1>10, <1>11, <1>12, <1>13, NothingPlanned DEF EnrichmentInv

LEMMA EnrichmentStep ==
  ASSUME E!EnrichmentAssumption PROVE EnrichmentInv /\ [E!Next]_E!vars => EnrichmentInv'
<1> SUFFICES ASSUME EnrichmentInv, [E!Next]_E!vars PROVE EnrichmentInv'
  OBVIOUS
<1>1. CASE E!Begin
  BY <1>1, EnrichmentBegins
<1>2. CASE E!StartWave
  BY <1>2, EnrichmentStarts
<1>3. CASE E!RunFails \/ E!Kill
  <2>1. PICK dropped \in SUBSET writing : E!Break(dropped)
    BY <1>3 DEF E!RunFails, E!Kill
  <2>2. QED
    BY <2>1, EnrichmentBreaks
<1>4. CASE E!Finish
  <2>1. /\ running /\ writing = {} /\ batches = <<>> /\ calling = {} /\ running' = FALSE
        /\ UNCHANGED <<lines, batches, calling, writing, paid, wasted, retried, stops>>
    BY <1>4 DEF E!Finish
  <2>2. Cardinality(KeysIn(writing)) = 0
    <3>1. KeysIn(writing) = {}
      BY <2>1 DEF KeysIn, InFlight
    <3>2. QED
      BY <3>1, FS_EmptySet
  <2>3. SumOver(wasted, E!Keys) \in Nat
    BY ItemsAreRanks, SumNat DEF EnrichmentInv, Accounts
  <2>4. /\ SumOver(wasted, E!Keys) <= Bound(retried, stops)
        /\ retried \in Nat /\ stops \in Nat
    BY DEF EnrichmentInv, Waste
  <2>6. SumOver(wasted, E!Keys) + Cardinality(KeysIn(writing)) <= Bound(retried, stops)
    BY <2>2, <2>3, <2>4
  <2>7. Waste(wasted, writing, running', retried, stops)
    BY <2>4, <2>6 DEF Waste
  <2>5. QED
    BY <2>1, <2>7 DEF EnrichmentInv
<1>5. ASSUME NEW c \in calling, E!CallReturns(c) \/ E!CallRetried(c)
      PROVE  EnrichmentInv'
  BY <1>5, EnrichmentReturns, EnrichmentRetries
<1>6. ASSUME NEW r \in writing, E!Write(r) \/ E!WriteFails(r) PROVE EnrichmentInv'
  <2>1. CASE E!Write(r) /\ torn = "cut"
    <3>1. ~running
      BY <2>1 DEF EnrichmentInv
    <3>2. QED
      BY <2>1, <3>1, LineLost DEF E!Write
  <2>2. CASE E!Write(r) /\ torn # "cut"
    BY <2>2, EnrichmentWrites
  <2>3. CASE E!WriteFails(r)
    BY <2>3, LineLost DEF E!WriteFails
  <2>4. QED
    BY <1>6, <2>1, <2>2, <2>3
<1>7. CASE UNCHANGED E!vars
  BY <1>7 DEF E!vars, EnrichmentInv
<1>8. QED
  BY <1>1, <1>2, <1>3, <1>4, <1>5, <1>6, <1>7 DEF E!Next

LEMMA EnrichmentPaid == E!EnrichmentAssumption /\ EnrichmentInv => PaidForOnce
<1> SUFFICES ASSUME E!EnrichmentAssumption, EnrichmentInv PROVE PaidForOnce
  OBVIOUS
<1>1. ASSUME NEW key \in E!Keys
      PROVE  LET recorded == E!Cardinality({n \in DOMAIN lines : key \in DOMAIN lines[n]})
             IN  /\ recorded <= 1
                 /\ paid[key] = recorded + wasted[key]
                                + IF \E r \in writing : key \in DOMAIN r THEN 1 ELSE 0
  <2> DEFINE places == {n \in DOMAIN lines : key \in DOMAIN lines[n]}
  <2>1. Cardinality(places) = IF InFile(key, lines) THEN 1 ELSE 0
    <3>1. CASE InFile(key, lines)
      <4>1. PICK n \in DOMAIN lines : key \in DOMAIN lines[n]
        BY <3>1 DEF InFile
      <4>2. places = {n}
        BY <4>1 DEF EnrichmentInv, FileOnce
      <4>3. QED
        BY <3>1, <4>2, FS_Singleton
    <3>2. CASE ~InFile(key, lines)
      <4>1. places = {}
        BY <3>2 DEF InFile
      <4>2. QED
        BY <3>2, <4>1, FS_EmptySet
    <3>3. QED
      BY <3>1, <3>2
  <2>2. E!Cardinality(places) = Cardinality(places)
    BY Counts
  <2>3. /\ paid[key] \in Nat /\ wasted[key] \in Nat
        /\ paid[key] = wasted[key]
                      + IF InFlight(key, writing) \/ InFile(key, lines) THEN 1 ELSE 0
        /\ InFlight(key, writing) => ~InFile(key, lines)
    BY DEF EnrichmentInv, Accounts, Apart
  <2>4. InFlight(key, writing) <=> \E r \in writing : key \in DOMAIN r
    BY DEF InFlight
  <2> HIDE DEF places
  <2>5. /\ E!Cardinality(places) <= 1
        /\ paid[key] = E!Cardinality(places) + wasted[key]
                       + IF \E r \in writing : key \in DOMAIN r THEN 1 ELSE 0
    BY <2>1, <2>2, <2>3, <2>4
  <2>6. QED
    BY <2>5 DEF places
<1>2. E!MapThenSumSet(LAMBDA key : wasted[key], E!Keys) = SumOver(wasted, E!Keys)
  BY DEF SumOver, E!MapThenSumSet, E!MapThenFoldSet, MapThenSumSet, MapThenFoldSet
<1>3. SumOver(wasted, E!Keys) <= (retried + stops * WaveSize) * BatchSize
  <2>1. retried \in Nat /\ stops \in Nat /\ SumOver(wasted, E!Keys) <= Bound(retried, stops)
    BY DEF EnrichmentInv, Waste
  <2>2. QED
    BY <2>1, BoundGrows
<1>4. QED
  BY <1>1, <1>2, <1>3 DEF PaidForOnce, E!PaidForOnce

(* However the calls and appends of the enrichment are retried, fail or    *)
(* are killed and its runs started again, every classification bought is   *)
(* in one line of the file, about to be, or wasted, and the waste is a     *)
(* batch at most for each retried attempt and a wave at most for each run  *)
(* that failed or was killed.                                              *)
THEOREM NothingPaidTwice == E!EnrichmentAssumption /\ E!Spec => []PaidForOnce
<1> SUFFICES ASSUME E!EnrichmentAssumption PROVE E!Spec => []PaidForOnce
  OBVIOUS
<1>1. E!Init => EnrichmentInv
  BY EnrichmentStart
<1>2. EnrichmentInv => PaidForOnce
  BY EnrichmentPaid
<1>3. QED
  BY <1>1, <1>2, EnrichmentStep, PTL DEF E!Spec

=============================================================================
