------------------------------- MODULE Lemmas -------------------------------
(***************************************************************************)
(* Lemmas about what the pure parts are built from: sums, folds, ratios,   *)
(* and the texts that prices are written in.                               *)
(***************************************************************************)
EXTENDS Normalise, Quality, SequenceTheorems, FiniteSetTheorems, TLAPS

(* A property of sets that adding an element keeps is one of every finite *)
(* set: induction with the property given as a set of sets, which the     *)
(* provers can instantiate.                                               *)
LEMMA SetInduction ==
  ASSUME NEW S, IsFiniteSet(S), NEW T,
         {} \in T, \A U \in SUBSET S : \A x \in S \ U : U \in T => U \cup {x} \in T
  PROVE  \A U \in SUBSET S : U \in T
<1> DEFINE Bad == {U \in SUBSET S : U \notin T}
<1> SUFFICES ASSUME Bad # {} PROVE FALSE
  OBVIOUS
<1>1. Bad \subseteq FiniteSubsetsOf(S)
  BY FS_Subset DEF FiniteSubsetsOf
<1>2. PICK U \in Bad : \A V \in Bad : ~(<<V, U>> \in StrictSubsetOrdering(S))
  <2> HIDE DEF Bad
  <2> QED BY <1>1, FS_StrictSubsetOrderingWellFounded, WFMin
<1>3. PICK x \in U : TRUE
  OBVIOUS
<1>4. U \ {x} \in SUBSET S /\ U \ {x} \notin Bad
  BY <1>1, <1>2 DEF StrictSubsetOrdering
<1>5. U \ {x} \in T /\ x \in S \ (U \ {x}) /\ (U \ {x}) \cup {x} = U
  BY <1>4
<1> QED BY <1>4, <1>5

LEMMA Upward ==
  ASSUME NEW T, 0 \in T, \A n \in Nat : n \in T => n + 1 \in T, NEW n \in Nat
  PROVE  n \in T
<1> DEFINE I == 1 .. n
           Sized == {U \in SUBSET I : Cardinality(U) \in T}
<1>1. IsFiniteSet(I) /\ Cardinality(I) = n
  BY FS_Interval
<1>2. {} \in Sized
  BY FS_EmptySet
<1>3. ASSUME NEW U \in SUBSET I, NEW x \in I \ U, U \in Sized
      PROVE  U \cup {x} \in Sized
  <2>1. IsFiniteSet(U) /\ Cardinality(U) \in Nat
    BY <1>1, FS_Subset, FS_CardinalityType
  <2>2. Cardinality(U \cup {x}) = Cardinality(U) + 1
    BY <2>1, FS_AddElement
  <2> QED BY <1>3, <2>1, <2>2
<1>4. I \in Sized
  <2> HIDE DEF Sized
  <2>1. IsFiniteSet(I) BY <1>1
  <2> HIDE DEF I
  <2> QED BY <2>1, <1>2, <1>3, SetInduction
<1> QED BY <1>1, <1>4

LEMMA Smallest ==
  ASSUME NEW T, T # {}, T \subseteq Nat
  PROVE  \E i \in T : \A k \in T : i <= k
<1> SUFFICES ASSUME \A i \in T : \E k \in T : ~(i <= k) PROVE FALSE
  OBVIOUS
<1> DEFINE Below == {n \in Nat : \A k \in T : k > n}
<1>1. 0 \in Below
  OBVIOUS
<1>2. ASSUME NEW n \in Nat, n \in Below PROVE n + 1 \in Below
  <2>1. \A k \in T : k > n
    BY <1>2
  <2>2. n + 1 \notin T
    BY <2>1
  <2> QED BY <2>1, <2>2
<1>3. PICK k \in T : TRUE
  OBVIOUS
<1>4. k \in Below
  <2> HIDE DEF Below
  <2> QED BY <1>1, <1>2, Upward
<1> QED BY <1>4

SumOver(f, S) == MapThenSumSet(LAMBDA x : f[x], S)

Rest(f, S, g) ==
   g = [s \in SUBSET S |-> IF s = {} THEN 0
                                    ELSE LET x == CHOOSE x \in s : TRUE IN f[x] + g[s \ {x}]]

LEMMA Exists ==
  ASSUME NEW S, IsFiniteSet(S), NEW f
  PROVE  \E g : Rest(f, S, g)
<1> DEFINE Step(g, s) == IF s = {} THEN 0
                              ELSE LET x == CHOOSE x \in s : TRUE IN f[x] + g[s \ {x}]
           Level(n) == {s \in SUBSET S : Cardinality(s) <= n}
           Is(g, n) == DOMAIN g = Level(n) /\ g = [s \in DOMAIN g |-> g[s]]
               /\ \A s \in Level(n) : g[s] = Step(g, s)
           T == {n \in Nat : \E g : Is(g, n)}
<1>0. ASSUME NEW s \in SUBSET S
      PROVE Cardinality(s) \in Nat /\ IsFiniteSet(s) /\ Cardinality(s) <= Cardinality(S)
  BY FS_Subset, FS_CardinalityType
<1>1. 0 \in T
  <2>1. \A s \in Level(0) : s = {}
    BY <1>0, FS_EmptySet
  <2> DEFINE g == [s \in Level(0) |-> 0]
  <2>2. Is(g, 0) BY <2>1
  <2> QED BY <2>2
<1>2. ASSUME NEW n \in Nat, n \in T PROVE n + 1 \in T
  <2>1. PICK g : Is(g, n)
    BY <1>2
  <2> DEFINE h == [s \in Level(n + 1) |-> Step(g, s)]
  <2>2. ASSUME NEW s \in Level(n) PROVE s \in Level(n+1) /\ h[s] = g[s]
    <3>2. s \in Level(n+1) BY <1>0
    <3>3. g[s] = Step(g, s) BY <2>1
    <3> QED BY <3>2, <3>3
  <2>3. ASSUME NEW s \in Level(n + 1) PROVE Step(h, s) = Step(g, s)
    <3>1. CASE s = {} BY <3>1
    <3>2. CASE s # {}
      <4> DEFINE x == CHOOSE x \in s : TRUE
      <4>1. x \in s BY <3>2
      <4>2. s \ {x} \in Level(n)
        <5>1. s \in SUBSET S /\ IsFiniteSet(s) /\ Cardinality(s) <= n + 1
          BY <1>0
        <5>2. Cardinality(s \ {x}) = Cardinality(s) - 1
          BY <4>1, <5>1, FS_RemoveElement
        <5> QED BY <1>0, <5>1, <5>2
      <4>3. h[s \ {x}] = g[s \ {x}] BY <2>2, <4>2
      <4> QED BY <4>3
    <3> QED BY <3>1, <3>2
  <2>4. DOMAIN h = Level(n + 1) /\ h = [s \in DOMAIN h |-> h[s]]
    OBVIOUS
  <2>5. \A s \in Level(n + 1) : h[s] = Step(h, s)
    BY <2>3
  <2>6. n + 1 \in Nat
    OBVIOUS
  <2> HIDE DEF h, Level, Step
  <2> QED BY <2>4, <2>5, <2>6
<1>3. PICK g : Is(g, Cardinality(S))
  <2>1. Cardinality(S) \in T
    <3> HIDE DEF T
    <3> QED BY <1>1, <1>2, Upward, FS_CardinalityType
  <2> QED BY <2>1
<1>4. Level(Cardinality(S)) = SUBSET S
  BY <1>0
<1>5. g = [s \in SUBSET S |-> Step(g, s)]
  BY <1>3, <1>4
<1> QED BY <1>5 DEF Rest

LEMMA SumRec ==
  ASSUME NEW S, IsFiniteSet(S), NEW f
  PROVE  \E g : Rest(f, S, g) /\ SumOver(f, S) = g[S]
<1> DEFINE i == CHOOSE g : Rest(f, S, g)
<1>1. Rest(f, S, i)
  BY Exists
<1>2. SumOver(f, S) = i[S]
  BY DEF SumOver, Rest, MapThenSumSet, MapThenFoldSet
<1> HIDE DEF i
<1> QED BY <1>1, <1>2

LEMMA StrongSetInduction ==
  ASSUME NEW S, IsFiniteSet(S), NEW T,
         \A U \in SUBSET S : (\A V \in SUBSET U : V # U => V \in T) => U \in T
  PROVE  \A U \in SUBSET S : U \in T
<1> DEFINE Bad == {U \in SUBSET S : U \notin T}
<1> SUFFICES ASSUME Bad # {} PROVE FALSE
  OBVIOUS
<1>1. Bad \subseteq FiniteSubsetsOf(S)
  BY FS_Subset DEF FiniteSubsetsOf
<1>2. PICK U \in Bad : \A V \in Bad : ~(<<V, U>> \in StrictSubsetOrdering(S))
  <2> HIDE DEF Bad
  <2> QED BY <1>1, FS_StrictSubsetOrderingWellFounded, WFMin
<1>3. ASSUME NEW V \in SUBSET U, V # U PROVE V \in T
  <2>1. V \in SUBSET S /\ <<V, U>> \in StrictSubsetOrdering(S)
    BY <1>3 DEF StrictSubsetOrdering
  <2> QED BY <1>2, <2>1
<1> QED BY <1>3

LEMMA RestAgrees ==
  ASSUME NEW S, IsFiniteSet(S), NEW f, NEW g, NEW h, NEW R \in SUBSET S,
         Rest(f, S, g), Rest(f, R, h)
  PROVE  h[R] = g[R]
<1> DEFINE T == {U \in SUBSET R : h[U] = g[U]}
<1>1. IsFiniteSet(R)
  BY FS_Subset
<1>2. ASSUME NEW U \in SUBSET R, \A V \in SUBSET U : V # U => V \in T PROVE U \in T
  <2>1. CASE U = {}
    BY <2>1 DEF Rest
  <2>2. CASE U # {}
    <3> DEFINE x == CHOOSE x \in U : TRUE
    <3>1. x \in U BY <2>2
    <3>2. h[U \ {x}] = g[U \ {x}]
      <4>1. U \ {x} \in SUBSET U /\ U \ {x} # U BY <3>1
      <4> QED BY <4>1, <1>2
    <3>3. h[U] = f[x] + h[U \ {x}] BY <2>2 DEF Rest
    <3>4. U \in SUBSET S /\ g[U] = f[x] + g[U \ {x}] BY <2>2 DEF Rest
    <3> QED BY <3>2, <3>3, <3>4
  <2> QED BY <2>1, <2>2
<1>3. R \in T
  <2> HIDE DEF T
  <2> QED BY <1>1, <1>2, StrongSetInduction
<1> QED BY <1>3

LEMMA SumStep ==
  ASSUME NEW S, IsFiniteSet(S), NEW f
  PROVE  /\ S = {} => SumOver(f, S) = 0
         /\ S # {} => \E x \in S : SumOver(f, S) = f[x] + SumOver(f, S \ {x})
<1>1. PICK g : Rest(f, S, g) /\ SumOver(f, S) = g[S]
  BY SumRec
<1>2. CASE S = {}
  BY <1>1, <1>2 DEF Rest
<1>3. CASE S # {}
  <2> DEFINE x == CHOOSE x \in S : TRUE
  <2>1. x \in S BY <1>3
  <2>2. IsFiniteSet(S \ {x}) /\ S \ {x} \in SUBSET S BY FS_Subset
  <2>3. PICK h : Rest(f, S \ {x}, h) /\ SumOver(f, S \ {x}) = h[S \ {x}]
    BY <2>2, SumRec
  <2>4. h[S \ {x}] = g[S \ {x}] BY <1>1, <2>2, <2>3, RestAgrees
  <2>5. g[S] = f[x] + g[S \ {x}] BY <1>1, <1>3 DEF Rest
  <2> QED BY <1>1, <2>1, <2>3, <2>4, <2>5
<1> QED BY <1>2, <1>3

LEMMA SumRemove ==
  ASSUME NEW S, IsFiniteSet(S), NEW f, \A x \in S : f[x] \in Int
  PROVE  /\ SumOver(f, S) \in Int
         /\ \A x \in S : SumOver(f, S) = f[x] + SumOver(f, S \ {x})
<1> DEFINE Good(U) == /\ SumOver(f, U) \in Int
                     /\ \A x \in U : SumOver(f, U) = f[x] + SumOver(f, U \ {x})
           T == {U \in SUBSET S : Good(U)}
<1>1. ASSUME NEW U \in SUBSET S, \A V \in SUBSET U : V # U => V \in T PROVE U \in T
  <2>0. IsFiniteSet(U) BY FS_Subset
  <2>1. CASE U = {}
    BY <2>0, <2>1, SumStep
  <2>2. CASE U # {}
    <3>1. PICK c \in U : SumOver(f, U) = f[c] + SumOver(f, U \ {c})
      BY <2>0, <2>2, SumStep
    <3>2. \A x \in U : Good(U \ {x})
      <4> TAKE x \in U
      <4>1. U \ {x} \in SUBSET U /\ U \ {x} # U OBVIOUS
      <4> QED BY <4>1, <1>1
    <3>3. SumOver(f, U) \in Int BY <3>1, <3>2
    <3>4. ASSUME NEW x \in U PROVE SumOver(f, U) = f[x] + SumOver(f, U \ {x})
      <4>1. CASE x = c BY <4>1, <3>1
      <4>2. CASE x # c
        <5> DEFINE V == (U \ {c}) \ {x}
        <5>1. SumOver(f, U \ {x}) = f[c] + SumOver(f, V)
          <6>1. V = (U \ {x}) \ {c} /\ c \in U \ {x} BY <4>2
          <6> QED BY <6>1, <3>2
        <5>2. SumOver(f, U \ {c}) = f[x] + SumOver(f, V)
          BY <4>2, <3>2
        <5>3. SumOver(f, V) \in Int
          <6>1. V \in SUBSET U /\ V # U OBVIOUS
          <6> QED BY <6>1, <1>1
        <5>4. f[x] \in Int /\ f[c] \in Int BY <1>1
        <5> HIDE DEF V, Good
        <5> QED BY <3>1, <5>1, <5>2, <5>3, <5>4
      <4> QED BY <4>1, <4>2
    <3> QED BY <3>3, <3>4
  <2> QED BY <2>1, <2>2
<1>2. S \in T
  <2> HIDE DEF T
  <2> QED BY <1>1, StrongSetInduction
<1> QED BY <1>2

LEMMA SumAdd ==
  ASSUME NEW S, IsFiniteSet(S), NEW f, NEW x, x \notin S, \A y \in S \cup {x} : f[y] \in Int
  PROVE  SumOver(f, S \cup {x}) = f[x] + SumOver(f, S)
<1>1. IsFiniteSet(S \cup {x}) BY FS_AddElement
<1>2. (S \cup {x}) \ {x} = S OBVIOUS
<1> QED BY <1>1, <1>2, SumRemove

LEMMA SumEmpty == \A f : SumOver(f, {}) = 0
BY FS_EmptySet, SumStep

LEMMA SumEqual ==
  ASSUME NEW S, IsFiniteSet(S), NEW f, NEW g, \A x \in S : f[x] = g[x] /\ f[x] \in Int
  PROVE  SumOver(f, S) = SumOver(g, S)
<1> DEFINE T == {U \in SUBSET S : SumOver(f, U) = SumOver(g, U)}
<1>1. {} \in T BY SumEmpty
<1>2. ASSUME NEW U \in SUBSET S, NEW x \in S \ U, U \in T PROVE U \cup {x} \in T
  <2>1. IsFiniteSet(U) BY FS_Subset
  <2>2. SumOver(f, U \cup {x}) = f[x] + SumOver(f, U) BY <2>1, SumAdd
  <2>3. SumOver(g, U \cup {x}) = g[x] + SumOver(g, U) BY <2>1, SumAdd
  <2> QED BY <1>2, <2>2, <2>3
<1>3. S \in T
  <2> HIDE DEF T
  <2> QED BY <1>1, <1>2, SetInduction
<1> QED BY <1>3

LEMMA SumDisjoint ==
  ASSUME NEW S, IsFiniteSet(S), NEW R, IsFiniteSet(R), S \cap R = {},
         NEW f, \A x \in S \cup R : f[x] \in Int
  PROVE  SumOver(f, S \cup R) = SumOver(f, S) + SumOver(f, R)
<1> DEFINE T == {U \in SUBSET R : SumOver(f, S \cup U) = SumOver(f, S) + SumOver(f, U)}
<1>0. SumOver(f, S) \in Int BY SumRemove
<1>1. {} \in T
  <2>1. S \cup {} = S OBVIOUS
  <2> QED BY <1>0, <2>1, SumEmpty
<1>2. ASSUME NEW U \in SUBSET R, NEW x \in R \ U, U \in T PROVE U \cup {x} \in T
  <2>1. IsFiniteSet(U) /\ IsFiniteSet(S \cup U) BY FS_Subset, FS_Union
  <2>2. SumOver(f, U \cup {x}) = f[x] + SumOver(f, U) BY <2>1, SumAdd
  <2>3. SumOver(f, (S \cup U) \cup {x}) = f[x] + SumOver(f, S \cup U) BY <2>1, SumAdd
  <2>4. (S \cup U) \cup {x} = S \cup (U \cup {x}) OBVIOUS
  <2>5. SumOver(f, U) \in Int /\ f[x] \in Int BY <2>1, SumRemove
  <2>6. SumOver(f, S \cup U) = SumOver(f, S) + SumOver(f, U) BY <1>2
  <2>7. SumOver(f, S \cup (U \cup {x})) = SumOver(f, S) + SumOver(f, U \cup {x})
    <3>1. SumOver(f, S \cup (U \cup {x})) = f[x] + SumOver(f, S \cup U) BY <2>3, <2>4
    <3> QED BY <1>0, <2>2, <2>5, <2>6, <3>1
  <2> QED BY <2>7
<1>3. R \in T
  <2> HIDE DEF T
  <2> QED BY <1>1, <1>2, SetInduction
<1> QED BY <1>3

(* h is one to one from S to R, and takes each x to what has its summand.  *)
Renames(h, S, g, R, f) ==
  /\ \A x \in S : h[x] \in R /\ g[x] \in Int /\ g[x] = f[h[x]]
  /\ \A y \in R : \E x \in S : y = h[x]
  /\ \A x, y \in S : h[x] = h[y] => x = y

(* Renaming what is summed.                                                *)
LEMMA SumImage ==
  ASSUME NEW S, IsFiniteSet(S), NEW f, NEW g, NEW h, NEW R, Renames(h, S, g, R, f)
  PROVE  IsFiniteSet(R) /\ SumOver(f, R) = SumOver(g, S)
<1> DEFINE Im(U) == {h[x] : x \in U}
           T == {U \in SUBSET S : IsFiniteSet(Im(U)) /\ SumOver(f, Im(U)) = SumOver(g, U)}
<1> USE DEF Renames
<1>1. {} \in T
  <2>1. Im({}) = {} OBVIOUS
  <2> QED BY <2>1, SumEmpty, FS_EmptySet
<1>2. ASSUME NEW U \in SUBSET S, NEW x \in S \ U, U \in T PROVE U \cup {x} \in T
  <2>1. IsFiniteSet(U) BY FS_Subset
  <2>2. \A y \in S : g[y] = f[h[y]] /\ g[y] \in Int OBVIOUS
  <2>3. SumOver(g, U \cup {x}) = g[x] + SumOver(g, U)
    BY <2>1, <2>2, SumAdd
  <2>4. Im(U \cup {x}) = Im(U) \cup {h[x]} /\ h[x] \notin Im(U) OBVIOUS
  <2>5. \A y \in Im(U) \cup {h[x]} : f[y] \in Int OBVIOUS
  <2>6. IsFiniteSet(Im(U)) /\ SumOver(f, Im(U)) = SumOver(g, U) BY <1>2
  <2>7. IsFiniteSet(Im(U \cup {x}))
    <3>1. IsFiniteSet(Im(U) \cup {h[x]})
      <4> HIDE DEF Im
      <4> QED BY <2>6, FS_AddElement
    <3> QED BY <2>4, <3>1
  <2>8. SumOver(f, Im(U) \cup {h[x]}) = f[h[x]] + SumOver(f, Im(U))
    <3> HIDE DEF Im
    <3> QED BY <2>4, <2>5, <2>6, SumAdd
  <2>9. SumOver(f, Im(U \cup {x})) = SumOver(g, U \cup {x})
    BY <2>2, <2>3, <2>4, <2>6, <2>8
  <2> QED BY <2>7, <2>9
<1>3. S \in T
  <2> HIDE DEF T
  <2> QED BY <1>1, <1>2, SetInduction
<1>4. Im(S) = R OBVIOUS
<1> QED BY <1>3, <1>4

(* What has no more than b for each of its elements.                       *)
LEMMA SumBound ==
  ASSUME NEW S, IsFiniteSet(S), NEW f, NEW b \in Nat, \A x \in S : f[x] \in 0 .. b
  PROVE  SumOver(f, S) \in Nat /\ SumOver(f, S) <= b * Cardinality(S)
<1> DEFINE T == {U \in SUBSET S : SumOver(f, U) \in Nat
      /\ SumOver(f, U) <= b * Cardinality(U)}
<1>1. {} \in T
  BY SumEmpty, FS_EmptySet
<1>2. ASSUME NEW U \in SUBSET S, NEW x \in S \ U, U \in T PROVE U \cup {x} \in T
  <2>1. IsFiniteSet(U) BY FS_Subset
  <2>2. SumOver(f, U \cup {x}) = f[x] + SumOver(f, U) BY <2>1, SumAdd
  <2>3. Cardinality(U \cup {x}) = Cardinality(U) + 1 /\ Cardinality(U) \in Nat
    BY <2>1, FS_AddElement, FS_CardinalityType
  <2>4. b * (Cardinality(U) + 1) = b * Cardinality(U) + b BY <2>3
  <2>5. f[x] \in 0 .. b /\ b * Cardinality(U) \in Nat BY <2>3
  <2>6. SumOver(f, U) \in Nat /\ SumOver(f, U) <= b * Cardinality(U) BY <1>2
  <2>7. SumOver(f, U \cup {x}) \in Nat
          /\ SumOver(f, U \cup {x}) <= b * Cardinality(U \cup {x})
    BY <2>2, <2>3, <2>4, <2>5, <2>6
  <2> QED BY <2>7
<1>3. S \in T
  <2> HIDE DEF T
  <2> QED BY <1>1, <1>2, SetInduction
<1> QED BY <1>3

LEMMA SumOfOnes ==
  ASSUME NEW S, IsFiniteSet(S), NEW f, \A x \in S : f[x] = 1
  PROVE  SumOver(f, S) = Cardinality(S)
<1> DEFINE T == {U \in SUBSET S : SumOver(f, U) = Cardinality(U)}
<1>1. {} \in T
  BY SumEmpty, FS_EmptySet
<1>2. ASSUME NEW U \in SUBSET S, NEW x \in S \ U, U \in T PROVE U \cup {x} \in T
  <2>0. x \notin U /\ \A y \in U \cup {x} : f[y] \in Int OBVIOUS
  <2>1. IsFiniteSet(U) BY FS_Subset
  <2>2. SumOver(f, U \cup {x}) = f[x] + SumOver(f, U) BY ONLY <2>0, <2>1, SumAdd
  <2>3. Cardinality(U \cup {x}) = Cardinality(U) + 1 /\ Cardinality(U) \in Nat
    BY <2>1, FS_AddElement, FS_CardinalityType
  <2> QED BY <1>2, <2>2, <2>3
<1>3. S \in T
  <2> HIDE DEF T
  <2> QED BY <1>1, <1>2, SetInduction
<1> QED BY <1>3

(* Summing class by class.                                                 *)
LEMMA SumByClass ==
  ASSUME NEW S, IsFiniteSet(S), NEW f, \A x \in S : f[x] \in Int, NEW c,
         NEW K, IsFiniteSet(K), \A x \in S : c[x] \in K
  PROVE  SumOver(f, S) = SumOver([k \in K |-> SumOver(f, {x \in S : c[x] = k})], K)
<1> DEFINE g == [k \in K |-> SumOver(f, {x \in S : c[x] = k})]
           T == {U \in SUBSET K : SumOver(f, {x \in S : c[x] \in U}) = SumOver(g, U)}
<1>0. \A k \in K : g[k] \in Int
  <2> TAKE k \in K
  <2>1. IsFiniteSet({x \in S : c[x] = k}) BY FS_Subset
  <2> QED BY <2>1, SumRemove
<1>1. {} \in T
  <2>1. {x \in S : c[x] \in {}} = {} OBVIOUS
  <2> QED BY <2>1, SumEmpty
<1>2. ASSUME NEW U \in SUBSET K, NEW k \in K \ U, U \in T PROVE U \cup {k} \in T
  <2> DEFINE A == {x \in S : c[x] \in U}
             B == {x \in S : c[x] = k}
  <2>1. IsFiniteSet(U) /\ IsFiniteSet(A) /\ IsFiniteSet(B) BY FS_Subset
  <2>2. {x \in S : c[x] \in U \cup {k}} = A \cup B /\ A \cap B = {} OBVIOUS
  <2>3. SumOver(f, A \cup B) = SumOver(f, A) + SumOver(f, B)
    <3>1. \A x \in A \cup B : f[x] \in Int OBVIOUS
    <3> HIDE DEF A, B
    <3> QED BY <2>1, <2>2, <3>1, SumDisjoint
  <2>4. SumOver(g, U \cup {k}) = g[k] + SumOver(g, U)
    <3> HIDE DEF g
    <3> QED BY <1>0, <2>1, SumAdd
  <2>5. g[k] = SumOver(f, B) OBVIOUS
  <2>6. SumOver(f, A) = SumOver(g, U) BY <1>2
  <2>7. SumOver(f, A) \in Int /\ SumOver(f, B) \in Int
    <3>1. (\A x \in A : f[x] \in Int) /\ (\A x \in B : f[x] \in Int) OBVIOUS
    <3> HIDE DEF A, B
    <3> QED BY <2>1, <3>1, SumRemove
  <2>8. SumOver(f, {x \in S : c[x] \in U \cup {k}}) = SumOver(g, U \cup {k})
    <3>1. SumOver(f, {x \in S : c[x] \in U \cup {k}}) = SumOver(f, A \cup B) BY <2>2
    <3> HIDE DEF g, A, B
    <3> QED BY <3>1, <2>3, <2>4, <2>5, <2>6, <2>7
  <2> QED BY <2>8
<1>3. K \in T
  <2> HIDE DEF T
  <2> QED BY <1>1, <1>2, SetInduction
<1>4. {x \in S : c[x] \in K} = S OBVIOUS
<1> QED BY <1>3, <1>4

(* One of the summands changes.                                            *)
LEMMA SumChange ==
  ASSUME NEW S, IsFiniteSet(S), NEW f, NEW g, NEW x \in S,
         \A y \in S : f[y] \in Int /\ g[y] \in Int, \A y \in S \ {x} : g[y] = f[y]
  PROVE  SumOver(g, S) = SumOver(f, S) + g[x] - f[x]
<1>1. IsFiniteSet(S \ {x}) BY FS_Subset
<1>2. SumOver(f, S \ {x}) = SumOver(g, S \ {x}) BY <1>1, SumEqual
<1>3. SumOver(f, S \ {x}) \in Int BY <1>1, SumRemove
<1>4. SumOver(f, S) = f[x] + SumOver(f, S \ {x})
        /\ SumOver(g, S) = g[x] + SumOver(g, S \ {x})
  BY SumRemove
<1> QED BY <1>2, <1>3, <1>4

LEMMA SumNat ==
  ASSUME NEW S, IsFiniteSet(S), NEW f, \A x \in S : f[x] \in Nat
  PROVE  SumOver(f, S) \in Nat
<1> DEFINE T == {U \in SUBSET S : SumOver(f, U) \in Nat}
<1>1. {} \in T
  BY SumEmpty
<1>2. ASSUME NEW U \in SUBSET S, NEW x \in S \ U, U \in T PROVE U \cup {x} \in T
  <2>1. IsFiniteSet(U) /\ \A y \in U \cup {x} : f[y] \in Int BY FS_Subset
  <2>2. SumOver(f, U \cup {x}) = f[x] + SumOver(f, U) BY <2>1, SumAdd
  <2> QED BY <1>2, <2>2
<1>3. S \in T
  <2> HIDE DEF T
  <2> QED BY <1>1, <1>2, SetInduction
<1> QED BY <1>3

LEMMA SumPlus ==
  ASSUME NEW S, IsFiniteSet(S), NEW f, NEW g, NEW h,
         \A x \in S : f[x] \in Int /\ g[x] \in Int /\ h[x] = f[x] + g[x]
  PROVE  SumOver(h, S) = SumOver(f, S) + SumOver(g, S)
<1> DEFINE T == {U \in SUBSET S : SumOver(h, U) = SumOver(f, U) + SumOver(g, U)}
<1>1. {} \in T
  BY SumEmpty
<1>2. ASSUME NEW U \in SUBSET S, NEW x \in S \ U, U \in T PROVE U \cup {x} \in T
  <2>1. IsFiniteSet(U) BY FS_Subset
  <2>2. SumOver(f, U \cup {x}) = f[x] + SumOver(f, U) BY <2>1, SumAdd
  <2>3. SumOver(g, U \cup {x}) = g[x] + SumOver(g, U) BY <2>1, SumAdd
  <2>4. SumOver(h, U \cup {x}) = h[x] + SumOver(h, U)
    <3>1. \A y \in U \cup {x} : h[y] \in Int OBVIOUS
    <3> QED BY <2>1, <3>1, SumAdd
  <2>5. SumOver(f, U) \in Int /\ SumOver(g, U) \in Int BY <2>1, SumRemove
  <2>6. SumOver(h, U) = SumOver(f, U) + SumOver(g, U) BY <1>2
  <2>7. SumOver(h, U \cup {x}) = SumOver(f, U \cup {x}) + SumOver(g, U \cup {x})
    BY <2>2, <2>3, <2>4, <2>5, <2>6
  <2> QED BY <2>7
<1>3. S \in T
  <2> HIDE DEF T
  <2> QED BY <1>1, <1>2, SetInduction
<1> QED BY <1>3

LEMMA SumShift ==
  ASSUME NEW W \in Nat \ {0}, NEW f \in [0 .. W - 1 -> Nat],
         NEW g, \A n \in 0 .. W - 1 : g[n] = IF n = 0 THEN 0 ELSE f[n - 1]
  PROVE  SumOver(g, 0 .. W - 1) <= SumOver(f, 0 .. W - 1)
<1> DEFINE A == 1 .. W - 1
           B == 0 .. W - 2
           h == [n \in A |-> n - 1]
<1>1. IsFiniteSet(A) /\ IsFiniteSet(B) BY FS_Interval
<1>2. B = {h[n] : n \in A}
  <2>1. \A m \in B : m + 1 \in A /\ h[m + 1] = m OBVIOUS
  <2>2. \A n \in A : h[n] \in B OBVIOUS
  <2> HIDE DEF A, B, h
  <2> QED BY <2>1, <2>2
<1>3. \A n \in A : f[h[n]] \in Int /\ f[h[n]] = g[n]
  <2> TAKE n \in A
  <2>1. h[n] = n - 1 /\ n - 1 \in 0 .. W - 1 OBVIOUS
  <2>2. f[n - 1] \in Int /\ g[n] = f[n - 1] BY <2>1
  <2> QED BY <2>1, <2>2
<1>4. \A m, n \in A : h[m] = h[n] => m = n
  OBVIOUS
<1>5. SumOver(f, B) = SumOver(g, A)
  <2> HIDE DEF A, B, h
  <2>1. \A n \in A : h[n] \in B BY <1>2
  <2>2. \A m \in B : \E n \in A : m = h[n] BY <1>2
  <2>3. \A n \in A : g[n] \in Int /\ g[n] = f[h[n]] BY <1>3
  <2>4. Renames(h, A, g, B, f) BY <1>4, <2>1, <2>2, <2>3 DEF Renames
  <2> QED BY <1>1, <2>4, SumImage
<1>6. SumOver(g, A \cup {0}) = g[0] + SumOver(g, A)
  <2>1. 0 \notin A /\ \A n \in A \cup {0} : g[n] \in Int OBVIOUS
  <2> HIDE DEF A
  <2> QED BY <1>1, <2>1, SumAdd
<1>7. SumOver(f, B \cup {W - 1}) = f[W - 1] + SumOver(f, B)
  <2>1. W - 1 \notin B /\ \A n \in B \cup {W - 1} : f[n] \in Int OBVIOUS
  <2> HIDE DEF B
  <2> QED BY <1>1, <2>1, SumAdd
<1>8. A \cup {0} = 0 .. W - 1 /\ B \cup {W - 1} = 0 .. W - 1 /\ g[0] = 0 /\ f[W - 1] \in Nat
  OBVIOUS
<1>9. SumOver(f, B) \in Nat
  <2>1. \A n \in B : f[n] \in Nat OBVIOUS
  <2> HIDE DEF B
  <2> QED BY <1>1, <2>1, SumNat
<1>10. SumOver(g, 0 .. W - 1) = SumOver(g, A)
         /\ SumOver(f, 0 .. W - 1) = f[W - 1] + SumOver(g, A)
  <2>1. SumOver(g, A) \in Nat BY <1>5, <1>9
  <2>2. A \cup {0} = 0 .. W - 1 BY <1>8
  <2>3. B \cup {W - 1} = 0 .. W - 1 BY <1>8
  <2>4. SumOver(g, 0 .. W - 1) = 0 + SumOver(g, A)
    <3> HIDE DEF A, B
    <3> QED BY <1>6, <1>8, <2>2
  <2>5. SumOver(f, 0 .. W - 1) = f[W - 1] + SumOver(f, B)
    <3> HIDE DEF A, B
    <3> QED BY <1>7, <2>3
  <2> QED BY <1>5, <2>1, <2>4, <2>5
<1> HIDE DEF A, B
<1> QED BY <1>5, <1>8, <1>9, <1>10

-----------------------------------------------------------------------------
(* Folds over a sequence: what the recursive function inside FoldLeft is,  *)
(* by steps, for a step that stays within a set of accumulators.           *)
Top(s) == CHOOSE x \in s : \A y \in s : x >= y

LEMMA Largest ==
  ASSUME NEW n \in Nat, NEW I \in SUBSET (1 .. n), I # {}
  PROVE  Top(I) \in I /\ \A i \in I : i <= Top(I)
<1>1. I \subseteq Nat
  OBVIOUS
<1>2. PICK m \in {n - k : k \in I} : \A k \in {n - q : q \in I} : m <= k
  <2>1. \A k \in I : n - k \in Nat
    OBVIOUS
  <2>2. {n - k : k \in I} \subseteq Nat /\ {n - k : k \in I} # {}
    BY <2>1
  <2>3. QED
    BY <2>2, Smallest
<1>3. PICK j \in I : m = n - j
  OBVIOUS
<1>4. \A k \in I : j >= k
  <2> TAKE k \in I
  <2>1. n - k \in {n - q : q \in I}
    OBVIOUS
  <2>2. n - j <= n - k
    BY <1>2, <1>3, <2>1
  <2>3. j \in Nat /\ k \in Nat
    BY <1>1
  <2>4. QED
    BY <2>2, <2>3
<1>5. Top(I) \in I /\ \A k \in I : Top(I) >= k
  BY <1>4 DEF Top
<1>6. Top(I) \in Nat
  BY <1>1, <1>5
<1>7. QED
  BY <1>1, <1>5, <1>6

LEMMA TopOfFirst ==
  ASSUME NEW k \in Nat \ {0}
  PROVE  Top(1 .. k) = k /\ (1 .. k) \ {k} = 1 .. k - 1 /\ 1 .. k # {}
<1>1. 1 .. k # {} /\ k \in 1 .. k
  OBVIOUS
<1>2. Top(1 .. k) \in 1 .. k /\ k <= Top(1 .. k)
  BY <1>1, Largest
<1>3. QED
  BY <1>1, <1>2

FoldOf(g, n, base, step) ==
  g = [s \in SUBSET (1 .. n) |->
         IF s = {} THEN base ELSE step[<<g[s \ {Top(s)}], Top(s)>>]]

LEMMA FoldExists ==
  ASSUME NEW n \in Nat, NEW Acc, NEW base \in Acc, NEW step \in [Acc \X (1 .. n) -> Acc]
  PROVE  \E g \in [SUBSET (1 .. n) -> Acc] : FoldOf(g, n, base, step)
<1> DEFINE Good(k) == \E g \in [SUBSET (1 .. k) -> Acc] : FoldOf(g, k, base, step)
           T == {k \in Nat : k <= n => Good(k)}
<1>1. Good(0)
  <2> DEFINE g == [s \in SUBSET (1 .. 0) |-> base]
  <2>1. \A s \in SUBSET (1 .. 0) : s = {}
    OBVIOUS
  <2>2. FoldOf(g, 0, base, step)
    BY <2>1 DEF FoldOf
  <2>3. g \in [SUBSET (1 .. 0) -> Acc]
    OBVIOUS
  <2>4. QED
    BY <2>2, <2>3
<1>2. ASSUME NEW k \in Nat, k + 1 <= n, Good(k) PROVE Good(k + 1)
  <2>1. PICK g \in [SUBSET (1 .. k) -> Acc] : FoldOf(g, k, base, step)
    BY <1>2
  <2>0. k + 1 \in Nat
    OBVIOUS
  <2> DEFINE h == [s \in SUBSET (1 .. k + 1) |->
                     IF k + 1 \in s THEN step[<<g[s \ {k + 1}], k + 1>>] ELSE g[s]]
  <2>2. ASSUME NEW s \in SUBSET (1 .. k + 1), k + 1 \in s
        PROVE  s \ {k + 1} \in SUBSET (1 .. k) /\ Top(s) = k + 1
               /\ h[s \ {k + 1}] = g[s \ {k + 1}]
    <3>1. s \ {k + 1} \in SUBSET (1 .. k)
      OBVIOUS
    <3>2. Top(s) \in s /\ k + 1 <= Top(s)
      <4>1. s # {}
        BY <2>2
      <4>2. QED
        BY <2>0, <2>2, <4>1, Largest
    <3>3. Top(s) = k + 1
      <4>1. Top(s) \in 1 .. k + 1
        BY <3>2
      <4>2. QED
        BY <2>0, <3>2, <4>1
    <3>4. s \ {k + 1} \in SUBSET (1 .. k + 1) /\ k + 1 \notin s \ {k + 1}
      OBVIOUS
    <3>5. QED
      BY <3>1, <3>3, <3>4
  <2>3. ASSUME NEW s \in SUBSET (1 .. k + 1), k + 1 \notin s
        PROVE  s \in SUBSET (1 .. k) /\ h[s] = g[s]
    BY <2>3
  <2>4. ASSUME NEW s \in SUBSET (1 .. k + 1)
        PROVE  h[s] \in Acc
               /\ h[s] = IF s = {} THEN base ELSE step[<<h[s \ {Top(s)}], Top(s)>>]
    <3>1. CASE k + 1 \in s
      <4>1. h[s] = step[<<g[s \ {k + 1}], k + 1>>]
        BY <3>1
      <4>2. g[s \ {k + 1}] \in Acc /\ k + 1 \in 1 .. n
        <5>1. g[s \ {k + 1}] \in Acc
          BY <2>2, <3>1
        <5>2. k + 1 \in 1 .. n
          BY <1>2
        <5>3. QED
          BY <5>1, <5>2
      <4>3. step[<<g[s \ {k + 1}], k + 1>>] \in Acc
        BY <4>2
      <4>4. QED
        BY <2>2, <3>1, <4>1, <4>3
    <3>2. CASE k + 1 \notin s
      <4>1. s \in SUBSET (1 .. k) /\ h[s] = g[s]
        BY <2>3, <3>2
      <4>2. g[s] = IF s = {} THEN base ELSE step[<<g[s \ {Top(s)}], Top(s)>>]
        BY <2>1, <4>1 DEF FoldOf
      <4>3. h[s \ {Top(s)}] = g[s \ {Top(s)}]
        <5>1. s \ {Top(s)} \in SUBSET (1 .. k + 1) /\ k + 1 \notin s \ {Top(s)}
          BY <3>2
        <5>2. QED
          BY <2>3, <5>1
      <4>4. QED
        BY <4>1, <4>2, <4>3
    <3>3. QED
      BY <3>1, <3>2
  <2>5. h \in [SUBSET (1 .. k + 1) -> Acc] /\ DOMAIN h = SUBSET (1 .. k + 1)
    <3> SUFFICES \A s \in SUBSET (1 .. k + 1) : h[s] \in Acc
      OBVIOUS
    <3>1. QED
      BY <2>4
  <2>6. FoldOf(h, k + 1, base, step)
    <3> HIDE DEF h
    <3>1. h = [s \in SUBSET (1 .. k + 1) |-> h[s]]
      BY <2>5
    <3>2. QED
      BY <2>4, <3>1 DEF FoldOf
  <2>7. QED
    BY <2>5, <2>6
<1> HIDE DEF Good
<1>3. 0 \in T /\ \A k \in Nat : k \in T => k + 1 \in T
  BY <1>1, <1>2
<1>4. n \in T
  <2> HIDE DEF T
  <2>1. QED
    BY <1>3, Upward
<1>5. Good(n)
  BY <1>4
<1>6. QED
  BY <1>5 DEF Good

(* Each of f at least c below the same of g.                               *)
LEMMA SumBelow ==
  ASSUME NEW S, IsFiniteSet(S), NEW f, NEW g, NEW c \in Int,
         \A x \in S : f[x] \in Int /\ g[x] \in Int /\ f[x] + c <= g[x]
  PROVE  /\ SumOver(f, S) \in Int /\ SumOver(g, S) \in Int
         /\ SumOver(f, S) + c * Cardinality(S) <= SumOver(g, S)
<1> DEFINE T == {U \in SUBSET S : SumOver(f, U) + c * Cardinality(U) <= SumOver(g, U)}
<1>1. {} \in T
  BY SumEmpty, FS_EmptySet
<1>2. ASSUME NEW U \in SUBSET S, NEW x \in S \ U, U \in T PROVE U \cup {x} \in T
  <2>1. IsFiniteSet(U) BY FS_Subset
  <2>2. SumOver(f, U \cup {x}) = f[x] + SumOver(f, U) BY <2>1, SumAdd
  <2>3. SumOver(g, U \cup {x}) = g[x] + SumOver(g, U) BY <2>1, SumAdd
  <2>4. Cardinality(U \cup {x}) = Cardinality(U) + 1 /\ Cardinality(U) \in Nat
    BY <2>1, FS_AddElement, FS_CardinalityType
  <2>5. c * (Cardinality(U) + 1) = c * Cardinality(U) + c /\ c * Cardinality(U) \in Int
    BY <2>4
  <2>6. SumOver(f, U) \in Int /\ SumOver(g, U) \in Int
    BY <2>1, SumRemove
  <2>7. SumOver(f, U) + c * Cardinality(U) <= SumOver(g, U)
    BY <1>2
  <2>8. f[x] \in Int /\ g[x] \in Int /\ f[x] + c <= g[x]
    OBVIOUS
  <2>9. SumOver(f, U \cup {x}) + c * Cardinality(U \cup {x}) <= SumOver(g, U \cup {x})
    BY <2>2, <2>3, <2>4, <2>5, <2>6, <2>7, <2>8
  <2> QED BY <2>9
<1>3. S \in T
  <2> HIDE DEF T
  <2> QED BY <1>1, <1>2, SetInduction
<1>4. SumOver(f, S) \in Int /\ SumOver(g, S) \in Int
  BY SumRemove
<1> QED BY <1>3, <1>4

-----------------------------------------------------------------------------
(* Fractions of positive denominators, as pairs.                           *)
Ratios == Int \X (Nat \ {0})
LowerThan(a, b) == a[1] * b[2] < b[1] * a[2]
Plus(a, b) == <<a[1] * b[2] + b[1] * a[2], a[2] * b[2]>>

LEMMA Scaled ==
  ASSUME NEW x \in Int, NEW y \in Int, NEW z \in Nat \ {0}
  PROVE  /\ x * z \in Int /\ y * z \in Int
         /\ x < y <=> x * z < y * z
<1>1. x * z \in Int /\ y * z \in Int
  OBVIOUS
<1>2. ASSUME x < y PROVE x * z < y * z
  <2>1. PICK d \in Nat \ {0} : y = x + d
    <3>1. y - x \in Nat \ {0} /\ y = x + (y - x)
      BY <1>2
    <3> QED BY <3>1
  <2>2. y * z = x * z + d * z
    BY <2>1
  <2>3. d * z > 0
    OBVIOUS
  <2> QED BY <1>1, <2>2, <2>3
<1>3. ASSUME y <= x PROVE y * z <= x * z
  <2>1. PICK d \in Nat : x = y + d
    <3>1. x - y \in Nat /\ x = y + (x - y)
      BY <1>3
    <3> QED BY <3>1
  <2>2. x * z = y * z + d * z
    BY <2>1
  <2>3. d * z >= 0 /\ d * z \in Int
    OBVIOUS
  <2> QED BY <1>1, <2>2, <2>3
<1> QED BY <1>1, <1>2, <1>3

(* More than three hundredths of the mean lost by each, if by four or more. *)
LEMMA FarBelow ==
  ASSUME NEW n \in Nat \ {0}, NEW a \in Int, NEW b \in Int, a + 4 * n <= b
  PROVE  b * n - a * n > 3 * (n * n)
<1>1. 0 <= b - (a + 4 * n) /\ b - (a + 4 * n) \in Int
  OBVIOUS
<1>2. PICK d \in Nat : b = a + 4 * n + d
  <2>1. b = a + 4 * n + (b - (a + 4 * n))
    OBVIOUS
  <2> QED BY <1>1, <2>1
<1>3. b * n = a * n + 4 * (n * n) + d * n
  BY <1>2
<1>4. n * n > 0 /\ d * n >= 0 /\ n * n \in Int /\ d * n \in Int /\ a * n \in Int
  OBVIOUS
<1> QED BY <1>3, <1>4

LEMMA BelowPasses ==
  ASSUME NEW a \in Ratios, NEW b \in Ratios, NEW c \in Ratios
  PROVE  /\ ~LowerThan(a, a) /\ (LowerThan(a, b) => ~LowerThan(b, a))
         /\ ~LowerThan(b, a) /\ ~LowerThan(c, b) => ~LowerThan(c, a)
         /\ LowerThan(a, b) /\ ~LowerThan(c, b) => LowerThan(a, c)
         /\ ~LowerThan(b, a) /\ LowerThan(b, c) => LowerThan(a, c)
<1> DEFINE p == a[1]  q == a[2]  r == b[1]  s == b[2]  t == c[1]  u == c[2]
<1>1. /\ p \in Int /\ r \in Int /\ t \in Int
      /\ q \in Nat \ {0} /\ s \in Nat \ {0} /\ u \in Nat \ {0}
  BY DEF Ratios
<1>2. /\ LowerThan(a, b) <=> p * s < r * q
      /\ LowerThan(b, a) <=> r * q < p * s
      /\ LowerThan(b, c) <=> r * u < t * s
      /\ LowerThan(c, b) <=> t * s < r * u
      /\ LowerThan(a, c) <=> p * u < t * q
      /\ LowerThan(c, a) <=> t * q < p * u
      /\ LowerThan(a, a) <=> p * q < p * q
  BY DEF LowerThan
<1> HIDE DEF p, q, r, s, t, u
<1>3. /\ p * s \in Int /\ r * q \in Int /\ r * u \in Int /\ t * s \in Int
      /\ p * u \in Int /\ t * q \in Int /\ p * q \in Int
  BY <1>1
<1>4. /\ p * s < r * q <=> (p * s) * u < (r * q) * u
      /\ r * q < p * s <=> (r * q) * u < (p * s) * u
  BY <1>1, <1>3, Scaled
<1>5. /\ r * u < t * s <=> (r * u) * q < (t * s) * q
      /\ t * s < r * u <=> (t * s) * q < (r * u) * q
  BY <1>1, <1>3, Scaled
<1>6. /\ p * u < t * q <=> (p * u) * s < (t * q) * s
      /\ t * q < p * u <=> (t * q) * s < (p * u) * s
  BY <1>1, <1>3, Scaled
<1>7. (p * s) * u = (p * u) * s /\ (r * q) * u = (r * u) * q /\ (t * s) * q = (t * q) * s
  BY <1>1
<1>8. (p * u) * s \in Int /\ (r * u) * q \in Int /\ (t * q) * s \in Int
  BY <1>1
<1> QED BY <1>2, <1>3, <1>4, <1>5, <1>6, <1>7, <1>8

LEMMA PlusKeeps ==
  ASSUME NEW a \in Ratios, NEW b \in Ratios, NEW c \in Ratios, NEW d \in Ratios,
         ~LowerThan(b, a), ~LowerThan(d, c)
  PROVE  /\ Plus(a, c) \in Ratios /\ ~LowerThan(Plus(b, d), Plus(a, c))
         /\ LowerThan(a, b) \/ LowerThan(c, d) => LowerThan(Plus(a, c), Plus(b, d))
<1> DEFINE p == a[1]  q == a[2]  r == b[1]  s == b[2]
           t == c[1]  u == c[2]  v == d[1]  w == d[2]
<1>1. /\ p \in Int /\ r \in Int /\ t \in Int /\ v \in Int
      /\ q \in Nat \ {0} /\ s \in Nat \ {0} /\ u \in Nat \ {0} /\ w \in Nat \ {0}
  BY DEF Ratios
<1>2. /\ LowerThan(a, b) <=> p * s < r * q
      /\ LowerThan(c, d) <=> t * w < v * u
      /\ ~ (r * q < p * s) /\ ~ (v * u < t * w)
  BY DEF LowerThan
<1>3. Plus(a, c) = <<p * u + t * q, q * u>> /\ Plus(b, d) = <<r * w + v * s, s * w>>
  BY DEF Plus
<1>4. /\ LowerThan(Plus(a, c), Plus(b, d)) <=>
           (p * u + t * q) * (s * w) < (r * w + v * s) * (q * u)
      /\ LowerThan(Plus(b, d), Plus(a, c)) <=>
           (r * w + v * s) * (q * u) < (p * u + t * q) * (s * w)
  BY <1>3 DEF LowerThan
<1>5. Plus(a, c) \in Ratios
  <2>1. p * u + t * q \in Int /\ q * u \in Int /\ q * u > 0
    BY <1>1
  <2> QED BY <1>3, <2>1 DEF Ratios
<1> HIDE DEF p, q, r, s, t, u, v, w
<1>6. /\ u * w \in Nat \ {0} /\ q * s \in Nat \ {0}
      /\ p * s \in Int /\ r * q \in Int /\ t * w \in Int /\ v * u \in Int
  <2>1. u * w \in Int /\ u * w > 0 /\ q * s \in Int /\ q * s > 0
    BY <1>1
  <2> QED BY <1>1, <2>1
<1>7. /\ (p * s) * (u * w) \in Int /\ (r * q) * (u * w) \in Int
      /\ p * s < r * q <=> (p * s) * (u * w) < (r * q) * (u * w)
      /\ r * q < p * s <=> (r * q) * (u * w) < (p * s) * (u * w)
  BY <1>6, Scaled
<1>8. /\ (t * w) * (q * s) \in Int /\ (v * u) * (q * s) \in Int
      /\ t * w < v * u <=> (t * w) * (q * s) < (v * u) * (q * s)
      /\ v * u < t * w <=> (v * u) * (q * s) < (t * w) * (q * s)
  BY <1>6, Scaled
<1>9. /\ (p * u + t * q) * (s * w) = (p * s) * (u * w) + (t * w) * (q * s)
      /\ (r * w + v * s) * (q * u) = (r * q) * (u * w) + (v * u) * (q * s)
  BY <1>1
<1> QED BY <1>2, <1>4, <1>5, <1>7, <1>8, <1>9

-----------------------------------------------------------------------------
(* The sum of fractions over a finite set, and what it is by steps.        *)
Total(f, S) == FoldSet(LAMBDA x, sum : Plus(f[x], sum), <<0, 1>>, S)

Folded(f, S, g) ==
  g = [s \in SUBSET S |-> IF s = {} THEN <<0, 1>>
                          ELSE LET x == CHOOSE x \in s : TRUE IN Plus(f[x], g[s \ {x}])]

LEMMA MacroExists ==
  ASSUME NEW S, IsFiniteSet(S), NEW f
  PROVE  \E g : Folded(f, S, g)
<1> DEFINE Step(g, s) == IF s = {} THEN <<0, 1>>
                              ELSE LET x == CHOOSE x \in s : TRUE IN Plus(f[x], g[s \ {x}])
           Level(n) == {s \in SUBSET S : Cardinality(s) <= n}
           Is(g, n) == DOMAIN g = Level(n) /\ g = [s \in DOMAIN g |-> g[s]]
               /\ \A s \in Level(n) : g[s] = Step(g, s)
           T == {n \in Nat : \E g : Is(g, n)}
<1>0. ASSUME NEW s \in SUBSET S
      PROVE Cardinality(s) \in Nat /\ IsFiniteSet(s) /\ Cardinality(s) <= Cardinality(S)
  BY FS_Subset, FS_CardinalityType
<1>1. 0 \in T
  <2>1. \A s \in Level(0) : s = {}
    BY <1>0, FS_EmptySet
  <2> DEFINE g == [s \in Level(0) |-> <<0, 1>>]
  <2>2. Is(g, 0) BY <2>1
  <2> QED BY <2>2
<1>2. ASSUME NEW n \in Nat, n \in T PROVE n + 1 \in T
  <2>1. PICK g : Is(g, n)
    BY <1>2
  <2> DEFINE h == [s \in Level(n + 1) |-> Step(g, s)]
  <2>2. ASSUME NEW s \in Level(n) PROVE s \in Level(n+1) /\ h[s] = g[s]
    <3>2. s \in Level(n+1) BY <1>0
    <3>3. g[s] = Step(g, s) BY <2>1
    <3> QED BY <3>2, <3>3
  <2>3. ASSUME NEW s \in Level(n + 1) PROVE Step(h, s) = Step(g, s)
    <3>1. CASE s = {} BY <3>1
    <3>2. CASE s # {}
      <4> DEFINE x == CHOOSE x \in s : TRUE
      <4>1. x \in s BY <3>2
      <4>2. s \ {x} \in Level(n)
        <5>1. s \in SUBSET S /\ IsFiniteSet(s) /\ Cardinality(s) <= n + 1
          BY <1>0
        <5>2. Cardinality(s \ {x}) = Cardinality(s) - 1
          BY <4>1, <5>1, FS_RemoveElement
        <5> QED BY <1>0, <5>1, <5>2
      <4>3. h[s \ {x}] = g[s \ {x}] BY <2>2, <4>2
      <4> QED BY <4>3
    <3> QED BY <3>1, <3>2
  <2>4. DOMAIN h = Level(n + 1) /\ h = [s \in DOMAIN h |-> h[s]]
    OBVIOUS
  <2>5. \A s \in Level(n + 1) : h[s] = Step(h, s)
    BY <2>3
  <2>6. n + 1 \in Nat
    OBVIOUS
  <2> HIDE DEF h, Level, Step
  <2> QED BY <2>4, <2>5, <2>6
<1>3. PICK g : Is(g, Cardinality(S))
  <2>1. Cardinality(S) \in T
    <3> HIDE DEF T
    <3> QED BY <1>1, <1>2, Upward, FS_CardinalityType
  <2> QED BY <2>1
<1>4. Level(Cardinality(S)) = SUBSET S
  BY <1>0
<1>5. g = [s \in SUBSET S |-> Step(g, s)]
  BY <1>3, <1>4
<1> QED BY <1>5 DEF Folded

LEMMA TotalRec ==
  ASSUME NEW S, IsFiniteSet(S), NEW f
  PROVE  \E g : Folded(f, S, g) /\ Total(f, S) = g[S]
<1> DEFINE i == CHOOSE g : Folded(f, S, g)
<1>1. Folded(f, S, i)
  BY MacroExists
<1>2. Total(f, S) = i[S]
  BY DEF Total, Folded, FoldSet, MapThenFoldSet
<1> HIDE DEF i
<1> QED BY <1>1, <1>2

(* A sum of summands none of which is above is not above, and is below if  *)
(* one of them is.                                                         *)
LEMMA TotalKeeps ==
  ASSUME NEW S, IsFiniteSet(S), NEW f \in [S -> Ratios], NEW g \in [S -> Ratios],
         \A x \in S : ~LowerThan(g[x], f[x])
  PROVE  /\ Total(f, S) \in Ratios /\ Total(g, S) \in Ratios
         /\ ~LowerThan(Total(g, S), Total(f, S))
         /\ (\E x \in S : LowerThan(f[x], g[x])) => LowerThan(Total(f, S), Total(g, S))
<1>1. PICK h : Folded(f, S, h) /\ Total(f, S) = h[S]
  BY TotalRec
<1>2. PICK k : Folded(g, S, k) /\ Total(g, S) = k[S]
  BY TotalRec
<1> DEFINE Good(U) == /\ h[U] \in Ratios /\ k[U] \in Ratios
                      /\ ~LowerThan(k[U], h[U])
                      /\ (\E x \in U : LowerThan(f[x], g[x])) => LowerThan(h[U], k[U])
           T == {U \in SUBSET S : Good(U)}
<1>3. ASSUME NEW U \in SUBSET S, \A V \in SUBSET U : V # U => V \in T PROVE U \in T
  <2>1. CASE U = {}
    <3>1. h[U] = <<0, 1>> /\ k[U] = <<0, 1>>
      BY <1>1, <1>2, <2>1 DEF Folded
    <3>2. <<0, 1>> \in Ratios /\ ~LowerThan(<<0, 1>>, <<0, 1>>)
      BY DEF Ratios, LowerThan
    <3> QED BY <2>1, <3>1, <3>2
  <2>2. CASE U # {}
    <3> DEFINE x == CHOOSE x \in U : TRUE
               V == U \ {x}
    <3>1. x \in U /\ x \in S /\ V \in SUBSET U /\ V # U
      BY <2>2
    <3>2. Good(V)
      BY <1>3, <3>1
    <3>3. h[U] = Plus(f[x], h[V])
      BY <1>1, <2>2 DEF Folded
    <3>4. k[U] = Plus(g[x], k[V])
      BY <1>2, <2>2 DEF Folded
    <3>5. f[x] \in Ratios /\ g[x] \in Ratios /\ ~LowerThan(g[x], f[x])
      BY <3>1
    <3>6. \A y \in U : y = x \/ y \in V
      BY <3>1
    <3> HIDE DEF x, V
    <3>7. /\ h[U] \in Ratios /\ ~LowerThan(k[U], h[U])
          /\ LowerThan(f[x], g[x]) \/ LowerThan(h[V], k[V]) => LowerThan(h[U], k[U])
      BY ONLY <3>2, <3>3, <3>4, <3>5, PlusKeeps
    <3>8. k[U] \in Ratios
      <4>1. ~LowerThan(g[x], g[x]) /\ ~LowerThan(k[V], k[V])
        BY ONLY <3>2, <3>5, BelowPasses
      <4> QED BY ONLY <3>2, <3>4, <3>5, <4>1, PlusKeeps
    <3>9. (\E y \in U : LowerThan(f[y], g[y])) => LowerThan(h[U], k[U])
      BY <3>2, <3>6, <3>7
    <3> QED BY <3>7, <3>8, <3>9
  <2> QED BY <2>1, <2>2
<1>4. S \in T
  <2> HIDE DEF T
  <2> QED BY <1>3, StrongSetInduction
<1> QED BY <1>1, <1>2, <1>4

(* The first of the numbers in A whose value is not below another's.       *)
FirstBest(A, v, a) ==
  \A b \in A : ~LowerThan(v[a], v[b]) /\ (b < a => LowerThan(v[b], v[a]))

LEMMA SomeFirstBest ==
  ASSUME NEW A \in SUBSET Nat, IsFiniteSet(A), A # {}, NEW v \in [A -> Ratios]
  PROVE  \E a \in A : FirstBest(A, v, a)
<1> DEFINE Best(U) == \E a \in U : \A b \in U : ~LowerThan(v[a], v[b])
           T == {U \in SUBSET A : U = {} \/ Best(U)}
<1>1. {} \in T
  OBVIOUS
<1>2. ASSUME NEW U \in SUBSET A, NEW x \in A \ U, U \in T PROVE U \cup {x} \in T
  <2>1. v[x] \in Ratios /\ ~LowerThan(v[x], v[x])
    BY BelowPasses
  <2>2. CASE U = {}
    BY <2>1, <2>2
  <2>3. CASE U # {}
    <3>1. PICK a \in U : \A b \in U : ~LowerThan(v[a], v[b])
      BY <1>2, <2>3
    <3>2. CASE ~LowerThan(v[a], v[x])
      BY <3>1, <3>2
    <3>3. CASE LowerThan(v[a], v[x])
      <4>1. ASSUME NEW b \in U PROVE ~LowerThan(v[x], v[b])
        <5>1. v[a] \in Ratios /\ v[b] \in Ratios
          OBVIOUS
        <5>2. ~LowerThan(v[a], v[b])
          BY <3>1
        <5> QED BY ONLY <2>1, <3>3, <5>1, <5>2, BelowPasses
      <4> QED BY <2>1, <4>1
    <3> QED BY <3>2, <3>3
  <2> QED BY <2>2, <2>3
<1>3. PICK m \in A : \A b \in A : ~LowerThan(v[m], v[b])
  <2>1. A \in T
    <3> HIDE DEF T
    <3> QED BY <1>1, <1>2, SetInduction
  <2> QED BY <2>1
<1> DEFINE M == {a \in A : \A b \in A : ~LowerThan(v[a], v[b])}
<1>4. PICK a \in M : \A b \in M : a <= b
  <2>1. M \subseteq Nat /\ M # {}
    BY <1>3
  <2> HIDE DEF M
  <2> QED BY <2>1, Smallest
<1>5. ASSUME NEW b \in A, b < a PROVE LowerThan(v[b], v[a])
  <2>1. b \notin M
    <3>1. a \in Nat /\ b \in Nat
      OBVIOUS
    <3> QED BY <1>4, <1>5, <3>1
  <2>2. PICK c \in A : LowerThan(v[b], v[c])
    BY <2>1
  <2>3. /\ v[a] \in Ratios /\ v[b] \in Ratios /\ v[c] \in Ratios
        /\ ~LowerThan(v[a], v[c])
    BY <1>4
  <2> QED BY ONLY <2>2, <2>3, BelowPasses
<1> QED BY <1>4, <1>5 DEF FirstBest

(* A table of scores by class and number, the first best of each class and *)
(* of all, and what they add up to.                                        *)
SweepOf(grid, C, A, choice, totals, a, best) ==
  /\ IsFiniteSet(C) /\ A \in SUBSET Nat /\ grid \in [C -> [A -> Ratios]]
  /\ choice \in [C -> A] /\ \A c \in C : FirstBest(A, grid[c], choice[c])
  /\ totals = [b \in A |-> Total([c \in C |-> grid[c][b]], C)]
  /\ a \in A /\ FirstBest(A, totals, a)
  /\ best = Total([c \in C |-> grid[c][choice[c]]], C)

LEMMA EachItsBest ==
  ASSUME NEW grid, NEW C, NEW A, NEW choice, NEW totals, NEW a, NEW best,
         SweepOf(grid, C, A, choice, totals, a, best)
  PROVE  /\ ~LowerThan(best, totals[a])
         /\ LowerThan(totals[a], best) <=>
              \A b \in A : \E c \in C : ~(\A d \in A : ~LowerThan(grid[c][b], grid[c][d]))
<1> USE DEF SweepOf
<1> DEFINE own == [c \in C |-> grid[c][choice[c]]]
           of(b) == [c \in C |-> grid[c][b]]
<1>1. own \in [C -> Ratios] /\ \A b \in A : of(b) \in [C -> Ratios]
  OBVIOUS
<1>2. \A b \in A : \A c \in C : ~LowerThan(own[c], of(b)[c])
  BY DEF FirstBest
<1>3. \A b \in A : /\ Total(of(b), C) \in Ratios /\ Total(own, C) \in Ratios
                   /\ ~LowerThan(Total(own, C), Total(of(b), C))
  <2> TAKE b \in A
  <2>1. of(b) \in [C -> Ratios] /\ \A c \in C : ~LowerThan(own[c], of(b)[c])
    BY <1>1, <1>2
  <2> HIDE DEF own, of
  <2> QED BY <1>1, <2>1, TotalKeeps
<1>4. \A b \in A : totals[b] = Total(of(b), C)
  OBVIOUS
<1>5. best = Total(own, C)
  OBVIOUS
<1>6. ASSUME \A b \in A : \E c \in C : ~(\A d \in A : ~LowerThan(grid[c][b], grid[c][d]))
      PROVE  LowerThan(totals[a], best)
  <2>1. PICK c \in C, d \in A : LowerThan(grid[c][a], grid[c][d])
    BY <1>6
  <2>2. LowerThan(of(a)[c], own[c])
    <3>1. /\ grid[c][a] \in Ratios /\ grid[c][d] \in Ratios
          /\ grid[c][choice[c]] \in Ratios
          /\ ~LowerThan(grid[c][choice[c]], grid[c][d])
      BY DEF FirstBest
    <3>2. LowerThan(grid[c][a], grid[c][choice[c]])
      BY ONLY <2>1, <3>1, BelowPasses
    <3> QED BY <3>2
  <2>3. of(a) \in [C -> Ratios] /\ \A e \in C : ~LowerThan(own[e], of(a)[e])
    BY <1>1, <1>2
  <2>4. LowerThan(Total(of(a), C), Total(own, C))
    <3> HIDE DEF own, of
    <3> QED BY <1>1, <2>2, <2>3, TotalKeeps
  <2> QED BY <1>4, <1>5, <2>4
<1>7. ASSUME NEW b \in A, \A c \in C : \A d \in A : ~LowerThan(grid[c][b], grid[c][d])
      PROVE  ~LowerThan(totals[a], best)
  <2>1. of(b) \in [C -> Ratios] /\ \A c \in C : ~LowerThan(of(b)[c], own[c])
    BY <1>1, <1>7
  <2>2. ~LowerThan(Total(of(b), C), Total(own, C))
    <3> HIDE DEF own, of
    <3> QED BY <1>1, <2>1, TotalKeeps
  <2>3. ~LowerThan(totals[a], totals[b])
    BY DEF FirstBest
  <2>4. /\ totals[a] \in Ratios /\ totals[b] \in Ratios /\ best \in Ratios
        /\ ~LowerThan(totals[b], best)
    BY <1>3, <1>4, <1>5, <2>2
  <2> QED BY ONLY <2>3, <2>4, BelowPasses
<1>8. ~LowerThan(best, totals[a])
  BY <1>3, <1>4, <1>5
<1> QED BY <1>6, <1>7, <1>8

(* No set of summands exceeds as many of the first, if none grows.         *)
LEMMA TopSums ==
  ASSUME NEW n \in Nat, NEW c \in [1 .. n -> Nat],
         \A i, j \in 1 .. n : i < j => c[i] >= c[j]
  PROVE  \A J \in SUBSET (1 .. n) : SumOver(c, J) <= SumOver(c, 1 .. Cardinality(J))
<1> DEFINE T == {q \in Nat : \A J \in SUBSET (1 .. n) :
                               Cardinality(J) = q => SumOver(c, J) <= SumOver(c, 1 .. q)}
<1>0. IsFiniteSet(1 .. n) /\ \A J \in SUBSET (1 .. n) : IsFiniteSet(J) /\ Cardinality(J) \in Nat
  <2>1. IsFiniteSet(1 .. n)
    BY FS_Interval
  <2>2. \A J \in SUBSET (1 .. n) : IsFiniteSet(J)
    BY <2>1, FS_Subset
  <2> QED BY <2>1, <2>2, FS_CardinalityType
<1>1. 0 \in T
  <2> SUFFICES ASSUME NEW J \in SUBSET (1 .. n), Cardinality(J) = 0
               PROVE  SumOver(c, J) <= SumOver(c, 1 .. 0)
    OBVIOUS
  <2>1. J = {} /\ 1 .. 0 = {}
    BY <1>0, FS_EmptySet
  <2> QED BY <2>1, SumEmpty
<1>2. ASSUME NEW q \in Nat, q \in T PROVE q + 1 \in T
  <2> SUFFICES ASSUME NEW J \in SUBSET (1 .. n), Cardinality(J) = q + 1
               PROVE  SumOver(c, J) <= SumOver(c, 1 .. q + 1)
    OBVIOUS
  <2>1. J # {}
    BY <1>0, FS_EmptySet
  <2>2. PICK j \in J : \A i \in J : i <= j
    BY <2>1, Largest
  <2>3. j \in 1 .. n /\ q + 1 <= j
    <3>1. J \subseteq 1 .. j
      BY <2>2
    <3>2. IsFiniteSet(1 .. j) /\ Cardinality(1 .. j) = j
      BY FS_Interval
    <3>3. Cardinality(J) <= Cardinality(1 .. j)
      BY <3>1, <3>2, FS_Subset
    <3> QED BY <3>2, <3>3
  <2>4. Cardinality(J \ {j}) = q
    <3>1. IsFiniteSet(J)
      BY <1>0
    <3>2. Cardinality(J \ {j}) = Cardinality(J) - 1
      BY <3>1, FS_RemoveElement
    <3> QED BY <3>2
  <2>5. SumOver(c, J \ {j}) <= SumOver(c, 1 .. q)
    BY <1>2, <2>4
  <2>6. SumOver(c, J) = c[j] + SumOver(c, J \ {j})
    <3>1. IsFiniteSet(J) /\ \A i \in J : c[i] \in Int
      BY <1>0
    <3> QED BY <3>1, SumRemove
  <2>7. /\ 1 .. q + 1 = (1 .. q) \cup {q + 1} /\ q + 1 \notin 1 .. q
        /\ 1 .. q \subseteq 1 .. n /\ q + 1 \in 1 .. n
    BY <2>3
  <2>8. SumOver(c, 1 .. q + 1) = c[q + 1] + SumOver(c, 1 .. q)
    <3>1. IsFiniteSet(1 .. q) /\ \A i \in (1 .. q) \cup {q + 1} : c[i] \in Int
      BY <1>0, <2>7
    <3> QED BY <2>7, <3>1, SumAdd
  <2>9. c[j] <= c[q + 1] /\ c[j] \in Nat /\ c[q + 1] \in Nat
    BY <2>3, <2>7
  <2>10. SumOver(c, J \ {j}) \in Int /\ SumOver(c, 1 .. q) \in Int
    <3>1. /\ IsFiniteSet(J \ {j}) /\ \A i \in J \ {j} : c[i] \in Int
          /\ IsFiniteSet(1 .. q) /\ \A i \in 1 .. q : c[i] \in Int
      BY <1>0, <2>7
    <3> QED BY <3>1, SumRemove
  <2> QED BY <2>5, <2>6, <2>8, <2>9, <2>10
<1>3. \A q \in Nat : q \in T
  <2> HIDE DEF T
  <2> QED BY <1>1, <1>2, Upward
<1> QED BY <1>0, <1>3

(* What is discounted more and more: if the first summands of x never add  *)
(* up to more than those of y, neither do they once discounted, and they   *)
(* only add up to as much when they are the same.                          *)
LeadsOf(y, yd, x, xd, d, m) ==
  /\ \A i \in 1 .. m : d[i] \in Nat \ {0}
  /\ \A i, j \in 1 .. m : i < j => d[i] > d[j]
  /\ \A i \in 1 .. m : x[i] \in Int /\ y[i] \in Int
  /\ \A q \in 0 .. m : SumOver(x, 1 .. q) <= SumOver(y, 1 .. q)
  /\ \A i \in 1 .. m : xd[i] = x[i] * d[i] /\ yd[i] = y[i] * d[i]

LEMMA Discounted ==
  ASSUME NEW m \in Nat, NEW d, NEW x, NEW y, NEW xd, NEW yd, LeadsOf(y, yd, x, xd, d, m)
  PROVE  /\ SumOver(xd, 1 .. m) <= SumOver(yd, 1 .. m)
         /\ SumOver(xd, 1 .. m) = SumOver(yd, 1 .. m) => \A i \in 1 .. m : x[i] = y[i]
<1> USE DEF LeadsOf
<1> DEFINE X(q) == SumOver(x, 1 .. q)
           Y(q) == SumOver(y, 1 .. q)
           XD(q) == SumOver(xd, 1 .. q)
           YD(q) == SumOver(yd, 1 .. q)
           Good(q) == /\ q = 0 \/ (Y(q) - X(q)) * d[q] <= YD(q) - XD(q)
                      /\ YD(q) = XD(q) => \A i \in 1 .. q : x[i] = y[i]
           T == {q \in Nat : q <= m => Good(q)}
<1>1. \A i \in 1 .. m : xd[i] \in Int /\ yd[i] \in Int
  OBVIOUS
<1>2. \A q \in 0 .. m : /\ X(q) \in Int /\ Y(q) \in Int /\ XD(q) \in Int /\ YD(q) \in Int
                        /\ X(q) <= Y(q)
  <2> TAKE q \in 0 .. m
  <2>1. IsFiniteSet(1 .. q) /\ 1 .. q \subseteq 1 .. m
    BY FS_Interval
  <2>2. \A i \in 1 .. q : x[i] \in Int /\ y[i] \in Int /\ xd[i] \in Int /\ yd[i] \in Int
    BY <1>1, <2>1
  <2> QED BY <2>1, <2>2, SumRemove
<1>3. ASSUME NEW q \in Nat, q + 1 <= m
      PROVE  /\ X(q + 1) = x[q + 1] + X(q) /\ Y(q + 1) = y[q + 1] + Y(q)
             /\ XD(q + 1) = x[q + 1] * d[q + 1] + XD(q)
             /\ YD(q + 1) = y[q + 1] * d[q + 1] + YD(q)
  <2>1. /\ 1 .. q + 1 = (1 .. q) \cup {q + 1} /\ q + 1 \notin 1 .. q
        /\ 1 .. q \subseteq 1 .. m /\ q + 1 \in 1 .. m
    <3>1. q + 1 <= m
      BY <1>3
    <3> QED BY ONLY <3>1, q \in Nat, m \in Nat
  <2>2. IsFiniteSet(1 .. q)
    BY FS_Interval
  <2>3. \A i \in (1 .. q) \cup {q + 1} :
          x[i] \in Int /\ y[i] \in Int /\ xd[i] \in Int /\ yd[i] \in Int
    BY <1>1, <2>1
  <2>4. /\ X(q + 1) = x[q + 1] + X(q) /\ Y(q + 1) = y[q + 1] + Y(q)
        /\ XD(q + 1) = xd[q + 1] + XD(q) /\ YD(q + 1) = yd[q + 1] + YD(q)
    BY <2>1, <2>2, <2>3, SumAdd
  <2> QED BY <2>1, <2>4
<1>4. 0 \in T
  <2>1. 1 .. 0 = {}
    OBVIOUS
  <2> QED BY <2>1
<1>5. ASSUME NEW q \in Nat, q \in T PROVE q + 1 \in T
  <2> SUFFICES ASSUME q + 1 <= m PROVE Good(q + 1)
    OBVIOUS
  <2>1. Good(q) /\ q \in 0 .. m /\ q + 1 \in 0 .. m /\ q + 1 \in 1 .. m
    BY <1>5
  <2> DEFINE e == y[q + 1] - x[q + 1]
             D == d[q + 1]
             gap == Y(q) - X(q)
             gapD == YD(q) - XD(q)
  <2>2. e \in Int /\ D \in Nat \ {0} /\ gap \in Nat /\ gapD \in Int /\ gap + e \in Nat
    <3>1. e \in Int /\ D \in Nat \ {0}
      BY <2>1
    <3>2. gap \in Nat /\ gapD \in Int
      BY <1>2, <2>1
    <3>3. Y(q + 1) - X(q + 1) \in Nat
      <4>1. Y(q + 1) \in Int /\ X(q + 1) \in Int /\ X(q + 1) <= Y(q + 1)
        BY <1>2, <2>1
      <4> HIDE DEF X, Y
      <4> QED BY <4>1
    <3>4. Y(q + 1) - X(q + 1) = gap + e
      <4>1. X(q) \in Int /\ Y(q) \in Int /\ x[q + 1] \in Int /\ y[q + 1] \in Int
        BY <1>2, <2>1
      <4>2. X(q + 1) = x[q + 1] + X(q) /\ Y(q + 1) = y[q + 1] + Y(q)
        BY <1>3, <2>1
      <4> HIDE DEF X, Y
      <4> QED BY <4>1, <4>2
    <3> QED BY <3>1, <3>2, <3>3, <3>4
  <2>3. Y(q + 1) - X(q + 1) = gap + e /\ YD(q + 1) - XD(q + 1) = gapD + e * D
    <3>1. Y(q + 1) - X(q + 1) = gap + e
      <4>1. X(q) \in Int /\ Y(q) \in Int /\ x[q + 1] \in Int /\ y[q + 1] \in Int
        BY <1>2, <2>1
      <4>2. X(q + 1) = x[q + 1] + X(q) /\ Y(q + 1) = y[q + 1] + Y(q)
        BY <1>3, <2>1
      <4> HIDE DEF X, Y
      <4> QED BY <4>1, <4>2
    <3>2. e * D = y[q + 1] * D - x[q + 1] * D
      BY <2>1
    <3>3. YD(q + 1) = y[q + 1] * D + YD(q) /\ XD(q + 1) = x[q + 1] * D + XD(q)
      BY <1>3, <2>1
    <3>4. y[q + 1] * D \in Int /\ x[q + 1] * D \in Int /\ YD(q) \in Int /\ XD(q) \in Int
      <4>1. YD(q) \in Int /\ XD(q) \in Int
        BY <1>2, <2>1
      <4>2. y[q + 1] \in Int /\ x[q + 1] \in Int /\ D \in Int
        BY <2>1
      <4> HIDE DEF D, YD, XD
      <4> QED BY <4>1, <4>2
    <3> HIDE DEF e, D, X, Y, XD, YD
    <3> QED BY <3>1, <3>2, <3>3, <3>4
  <2>4. gap * D <= gapD /\ (gap * D = gapD => gap = 0)
    <3>1. CASE q = 0
      <4>1. 1 .. q = {}
        BY <3>1
      <4>2. X(q) = 0 /\ Y(q) = 0 /\ XD(q) = 0 /\ YD(q) = 0
        BY <4>1, SumEmpty
      <4>3. gap = 0 /\ gapD = 0
        BY <4>2
      <4> QED BY <2>2, <4>3
    <3>2. CASE q # 0
      <4>1. gap * d[q] <= gapD
        BY <2>1, <3>2
      <4>2. d[q] \in Nat \ {0} /\ d[q] > D
        BY <2>1, <3>2
      <4> HIDE DEF gap, D, gapD
      <4>3. PICK r \in Nat \ {0} : d[q] = D + r
        <5>0. D \in Nat
          BY <2>2
        <5>1. d[q] - D \in Nat \ {0} /\ d[q] = D + (d[q] - D)
          BY ONLY <4>2, <5>0
        <5> QED BY <5>1
      <4>4. gap * D + gap * r <= gapD
        BY <2>2, <4>1, <4>3
      <4>5. gap * D \in Int /\ gap * r \in Nat /\ (gap * r = 0 => gap = 0)
        BY <2>2
      <4> DEFINE u == gap * D  v == gap * r
      <4> HIDE DEF u, v
      <4>6. u + v <= gapD /\ u \in Int /\ v \in Nat /\ (v = 0 => gap = 0)
        BY <4>4, <4>5 DEF u, v
      <4>7. u <= gapD /\ (u = gapD => gap = 0)
        BY <2>2, <4>6
      <4> QED BY <4>7 DEF u
    <3> QED BY <3>1, <3>2
  <2>5. (gap + e) * D <= gapD + e * D
    <3> HIDE DEF gap, e, D, gapD
    <3>1. (gap + e) * D = gap * D + e * D /\ gap * D \in Int /\ e * D \in Int
      BY <2>2
    <3> QED BY <2>2, <2>4, <3>1
  <2>6. ASSUME gapD + e * D = 0 PROVE e = 0 /\ gapD = 0
    <3> HIDE DEF gap, e, D, gapD
    <3>1. (gap + e) * D = gap * D + e * D /\ gap * D \in Int /\ e * D \in Int
      BY <2>2
    <3>2. (gap + e) * D >= 0
      BY <2>2
    <3>3. gap * D = gapD
      BY <2>2, <2>4, <2>6, <3>1, <3>2
    <3>4. gap = 0
      BY <2>4, <3>3
    <3>5. gapD = 0 /\ e * D = 0
      BY <2>2, <2>6, <3>1, <3>3, <3>4
    <3> QED BY <2>2, <3>5
  <2>7. (Y(q + 1) - X(q + 1)) * d[q + 1] <= YD(q + 1) - XD(q + 1)
    <3>1. (Y(q + 1) - X(q + 1)) * D <= YD(q + 1) - XD(q + 1)
      <4> HIDE DEF gap, e, D, gapD, X, Y, XD, YD
      <4> QED BY <2>3, <2>5
    <3> QED BY <3>1
  <2>8. ASSUME YD(q + 1) = XD(q + 1) PROVE \A i \in 1 .. q + 1 : x[i] = y[i]
    <3>1. gapD + e * D = 0
      <4>1. YD(q + 1) \in Int /\ XD(q + 1) \in Int
        BY <1>2, <2>1
      <4> HIDE DEF gap, e, D, gapD, XD, YD
      <4> QED BY <2>3, <2>8, <4>1
    <3>2. e = 0 /\ gapD = 0
      BY <2>6, <3>1
    <3>3. x[q + 1] = y[q + 1]
      BY <2>1, <3>2
    <3>4. YD(q) = XD(q)
      <4>1. YD(q) \in Int /\ XD(q) \in Int
        BY <1>2, <2>1
      <4> HIDE DEF XD, YD
      <4> QED BY <3>2, <4>1
    <3>5. \A i \in 1 .. q : x[i] = y[i]
      BY <2>1, <3>4
    <3> QED BY <3>3, <3>5
  <2> QED BY <2>7, <2>8
<1>6. m \in T
  <2> HIDE DEF T
  <2> QED BY <1>4, <1>5, Upward
<1>7. Good(m)
  BY <1>6
<1>8. XD(m) <= YD(m)
  <2>1. CASE m = 0
    <3>1. 1 .. m = {}
      BY <2>1
    <3>2. XD(m) = 0 /\ YD(m) = 0
      BY <3>1, SumEmpty
    <3> QED BY <3>2
  <2>2. CASE m # 0
    <3>1. m \in 0 .. m /\ m \in 1 .. m
      BY <2>2
    <3>2. Y(m) - X(m) \in Nat /\ d[m] \in Nat /\ YD(m) \in Int /\ XD(m) \in Int
      BY <1>2, <3>1
    <3>3. (Y(m) - X(m)) * d[m] <= YD(m) - XD(m)
      BY <1>7, <2>2
    <3> HIDE DEF X, Y, XD, YD
    <3>4. (Y(m) - X(m)) * d[m] >= 0
      BY <3>2
    <3>5. (Y(m) - X(m)) * d[m] \in Int
      BY <3>2
    <3> QED BY <3>2, <3>3, <3>4, <3>5
  <2> QED BY <2>1, <2>2
<1> QED BY <1>7, <1>8

(* The place of i among the members of F.                                  *)
Place(F, i) == Cardinality({h \in F : h <= i})

LEMMA PlaceIn ==
  ASSUME NEW F \in SUBSET Nat, IsFiniteSet(F)
  PROVE  /\ \A i \in F : Place(F, i) \in 1 .. Cardinality(F)
         /\ \A i, j \in F : i < j => Place(F, i) < Place(F, j)
         /\ \A i, j \in F : Place(F, i) = Place(F, j) => i = j
<1> DEFINE upTo(i) == {h \in F : h <= i}
<1>1. \A i \in F : IsFiniteSet(upTo(i)) /\ Cardinality(upTo(i)) \in Nat
                   /\ Cardinality(upTo(i)) <= Cardinality(F)
  BY FS_Subset, FS_CardinalityType
<1>2. Cardinality(F) \in Nat
  BY FS_CardinalityType
<1>3. ASSUME NEW i \in F PROVE Place(F, i) \in 1 .. Cardinality(F)
  <2>1. i \in upTo(i)
    OBVIOUS
  <2>2. Cardinality(upTo(i)) # 0
    <3> HIDE DEF upTo
    <3> QED BY <1>1, <2>1, FS_EmptySet
  <2> QED BY <1>1, <1>2, <2>2 DEF Place
<1>4. ASSUME NEW i \in F, NEW j \in F, i < j PROVE Place(F, i) < Place(F, j)
  <2>1. upTo(i) \in SUBSET upTo(j) /\ j \in upTo(j) /\ j \notin upTo(i)
    <3>1. i \in Nat /\ j \in Nat /\ i < j
      BY <1>4
    <3>2. \A h \in F : h \in Nat /\ (h <= i => h <= j)
      BY <3>1
    <3>3. ~(j <= i) /\ j <= j
      BY <3>1
    <3> QED BY <3>2, <3>3
  <2>2. Cardinality(upTo(i)) <= Cardinality(upTo(j))
        /\ Cardinality(upTo(i)) # Cardinality(upTo(j))
    <3>1. IsFiniteSet(upTo(j))
      BY <1>1
    <3> HIDE DEF upTo
    <3> QED BY <2>1, <3>1, FS_Subset
  <2>3. Cardinality(upTo(i)) \in Nat /\ Cardinality(upTo(j)) \in Nat
    BY <1>1
  <2> HIDE DEF upTo
  <2>4. Cardinality(upTo(i)) < Cardinality(upTo(j))
    BY <2>2, <2>3
  <2> QED BY <2>4 DEF Place, upTo
<1>5. ASSUME NEW i \in F, NEW j \in F, Place(F, i) = Place(F, j) PROVE i = j
  <2>1. Place(F, i) \in Nat /\ Place(F, j) \in Nat
    BY <1>3
  <2>2. ~(i < j) /\ ~(j < i)
    BY <1>4, <1>5, <2>1
  <2> QED BY <2>2
<1> QED BY <1>3, <1>4, <1>5

(* A growing renaming keeps the places.                                    *)
LEMMA PlacesKept ==
  ASSUME NEW F \in SUBSET Nat, IsFiniteSet(F), NEW G \in SUBSET Nat, NEW h \in [F -> G],
         \A y \in G : \E x \in F : y = h[x],
         \A x, y \in F : x < y => h[x] < h[y]
  PROVE  IsFiniteSet(G) /\ \A i \in F : Place(G, h[i]) = Place(F, i)
<1>1. \A x, y \in F : /\ x \in Nat /\ y \in Nat /\ h[x] \in Nat /\ h[y] \in Nat
                      /\ h[x] <= h[y] <=> x <= y
                      /\ h[x] = h[y] => x = y
  <2> TAKE x, y \in F
  <2>1. x \in Nat /\ y \in Nat /\ h[x] \in Nat /\ h[y] \in Nat
    OBVIOUS
  <2>2. (x < y => h[x] < h[y]) /\ (y < x => h[y] < h[x])
    OBVIOUS
  <2> QED BY <2>1, <2>2
<1>2. h \in Bijection(F, G)
  BY <1>1 DEF Bijection, Injection, Surjection, IsInjective
<1>3. IsFiniteSet(G)
  <2>1. ExistsBijection(F, G)
    BY <1>2 DEF ExistsBijection
  <2> QED BY <2>1, FS_Bijection
<1>4. ASSUME NEW i \in F PROVE Place(G, h[i]) = Place(F, i)
  <2> DEFINE A == {x \in F : x <= i}
             B == {y \in G : y <= h[i]}
             r == [x \in A |-> h[x]]
  <2>1. r \in Bijection(A, B)
    <3>1. r \in [A -> B]
      BY <1>1
    <3>2. \A x, y \in A : r[x] = r[y] => x = y
      BY <1>1
    <3>3. \A y \in B : \E x \in A : r[x] = y
      <4> TAKE y \in B
      <4>1. PICK x \in F : y = h[x]
        OBVIOUS
      <4>2. x \in A
        BY <1>1, <4>1
      <4> QED BY <4>1, <4>2
    <3> HIDE DEF A, B, r
    <3> QED BY <3>1, <3>2, <3>3 DEF Bijection, Injection, Surjection, IsInjective
  <2>2. IsFiniteSet(A)
    BY FS_Subset
  <2>3. Cardinality(A) = Cardinality(B)
    <3> HIDE DEF A, B, r
    <3>1. ExistsBijection(A, B)
      BY <2>1 DEF ExistsBijection
    <3> QED BY <2>2, <3>1, FS_Bijection
  <2> QED BY <2>3 DEF Place
<1> QED BY <1>3, <1>4

(* Each summand of f is that of x at its rank, and the others are zero.    *)
RankedAs(rank, S, f, R, x) ==
  /\ \A i \in S : rank[i] \in R /\ f[i] \in Int /\ x[rank[i]] = f[i]
  /\ \A i, j \in S : rank[i] = rank[j] => i = j
  /\ \A n \in R : (\A i \in S : rank[i] # n) => x[n] = 0

LEMMA SumByRank ==
  ASSUME NEW S, IsFiniteSet(S), NEW R, IsFiniteSet(R), NEW rank, NEW f, NEW x,
         RankedAs(rank, S, f, R, x)
  PROVE  SumOver(x, R) = SumOver(f, S)
<1> USE DEF RankedAs
<1> DEFINE I == {rank[i] : i \in S}
           J == R \ I
<1>1. Renames(rank, S, f, I, x)
  BY DEF Renames
<1>2. IsFiniteSet(I) /\ SumOver(x, I) = SumOver(f, S)
  <2> HIDE DEF I
  <2> QED BY <1>1, SumImage
<1>3. I \cup J = R /\ I \cap J = {} /\ IsFiniteSet(J)
  <2>1. J \in SUBSET R
    OBVIOUS
  <2>2. IsFiniteSet(J)
    BY <2>1, FS_Subset
  <2> QED BY <2>2
<1>4. \A n \in J : x[n] = 0
  OBVIOUS
<1>5. \A n \in I : x[n] \in Int
  OBVIOUS
<1> HIDE DEF I, J
<1>6. SumOver(x, I \cup J) = SumOver(x, I) + SumOver(x, J)
  BY <1>2, <1>3, <1>4, <1>5, SumDisjoint
<1>7. SumOver(x, J) = 0 /\ SumOver(x, I) \in Int
  <2>1. SumOver(x, I) \in Int
    BY <1>2, <1>5, SumRemove
  <2>2. SumOver(x, J) \in Nat /\ SumOver(x, J) <= 0 * Cardinality(J)
    <3>1. \A n \in J : x[n] \in 0 .. 0
      BY <1>4
    <3> QED BY <1>3, <3>1, SumBound
  <2>3. 0 * Cardinality(J) = 0
    BY <1>3, FS_CardinalityType
  <2> QED BY <2>1, <2>2, <2>3
<1>8. SumOver(x, R) = SumOver(x, I)
  <2>1. SumOver(x, I \cup J) = SumOver(x, I)
    BY <1>6, <1>7
  <2> QED BY <1>3, <2>1
<1> QED BY <1>2, <1>8

(* What is ranked: the positions of S, each of its rank and gain; what     *)
(* gains anything has its place in the ideal c.                            *)
Ranking(k, d, S, rank, gain, M, c, at) ==
  /\ k \in Nat /\ M \in Nat /\ IsFiniteSet(S)
  /\ \A n \in 1 .. k : d[n] \in Nat \ {0}
  /\ \A m, n \in 1 .. k : m < n => d[m] > d[n]
  /\ \A i \in S : rank[i] \in 1 .. k /\ gain[i] \in Nat
  /\ \A i, j \in S : rank[i] = rank[j] => i = j
  /\ c \in [1 .. M -> Nat \ {0}]
  /\ \A m, n \in 1 .. M : m < n => c[m] >= c[n]
  /\ \A i \in S : gain[i] # 0 => at[i] \in 1 .. M /\ gain[i] = c[at[i]]
  /\ \A i, j \in S : gain[i] # 0 /\ gain[j] # 0 /\ at[i] = at[j] => i = j

(* It gains at most what the ideal does, and as much only if the first of  *)
(* both gain the same.                                                     *)
GainsAtMost(got, S, most, R, rank, gain, c) ==
  /\ SumOver(got, S) <= SumOver(most, R)
  /\ SumOver(got, S) \in Nat /\ SumOver(most, R) \in Nat
  /\ SumOver(got, S) = SumOver(most, R) <=>
       \A n \in R : \E i \in S : rank[i] = n /\ gain[i] = c[n]

LEMMA IdealGains ==
  ASSUME NEW k, NEW d, NEW S, NEW rank, NEW gain, NEW M, NEW c, NEW at,
         Ranking(k, d, S, rank, gain, M, c, at),
         NEW got, got = [i \in S |-> gain[i] * d[rank[i]]],
         NEW R, R = {n \in 1 .. M : n <= k},
         NEW most, most = [n \in R |-> c[n] * d[n]]
  PROVE  GainsAtMost(got, S, most, R, rank, gain, c)
<1> USE DEF Ranking, GainsAtMost
<1> DEFINE x == [n \in 1 .. k |-> IF \E i \in S : rank[i] = n
                                  THEN gain[CHOOSE i \in S : rank[i] = n] ELSE 0]
           y == [n \in 1 .. k |-> IF n <= M THEN c[n] ELSE 0]
           xd == [n \in 1 .. k |-> x[n] * d[n]]
           yd == [n \in 1 .. k |-> y[n] * d[n]]
<1>1. \A n \in 1 .. k : x[n] \in Nat /\ y[n] \in Nat
  OBVIOUS
<1>2. \A i \in S : rank[i] \in 1 .. k /\ x[rank[i]] = gain[i]
  <2> TAKE i \in S
  <2>1. i = CHOOSE j \in S : rank[j] = rank[i]
    OBVIOUS
  <2> QED BY <2>1
<1>3. \A n \in 1 .. k : (\A i \in S : rank[i] # n) => x[n] = 0
  OBVIOUS
<1>4. R \subseteq 1 .. k /\ IsFiniteSet(1 .. k) /\ IsFiniteSet(R)
  <2>1. R \subseteq 1 .. k
    OBVIOUS
  <2>2. IsFiniteSet(1 .. k)
    BY FS_Interval
  <2> QED BY <2>1, <2>2, FS_Subset
<1>5. SumOver(xd, 1 .. k) = SumOver(got, S)
  <2>1. \A i \in S : got[i] \in Int /\ xd[rank[i]] = got[i]
    BY <1>2
  <2>2. \A n \in 1 .. k : (\A i \in S : rank[i] # n) => xd[n] = 0
    <3> TAKE n \in 1 .. k
    <3>1. d[n] \in Nat /\ 0 * d[n] = 0
      OBVIOUS
    <3> QED BY <1>3, <3>1
  <2>3. RankedAs(rank, S, got, 1 .. k, xd)
    BY <2>1, <2>2 DEF RankedAs
  <2> HIDE DEF xd, x
  <2> QED BY <1>4, <2>3, SumByRank
<1>6. SumOver(yd, 1 .. k) = SumOver(most, R)
  <2> DEFINE id == [n \in R |-> n]
  <2>1. id \in [R -> 1 .. k] /\ \A i, j \in R : id[i] = id[j] => i = j
    BY <1>4
  <2>2. \A i \in R : most[i] \in Int /\ yd[id[i]] = most[i]
    BY <1>4
  <2>3. \A n \in 1 .. k : (\A i \in R : id[i] # n) => yd[n] = 0
    <3> TAKE n \in 1 .. k
    <3>1. d[n] \in Nat /\ 0 * d[n] = 0
      OBVIOUS
    <3>2. n \in R \/ ~(n <= M)
      OBVIOUS
    <3> QED BY <3>1, <3>2
  <2> HIDE DEF yd, y, id
  <2>4. RankedAs(id, R, most, 1 .. k, yd)
    BY <2>1, <2>2, <2>3 DEF RankedAs
  <2> QED BY <1>4, <2>4, SumByRank
<1>7. ASSUME NEW q \in 0 .. k PROVE SumOver(x, 1 .. q) <= SumOver(y, 1 .. q)
  <2> DEFINE U == {i \in S : rank[i] <= q /\ gain[i] # 0}
             J == {at[i] : i \in U}
             rk == [i \in U |-> rank[i]]
             p == Cardinality(J)
  <2>1. IsFiniteSet(U) /\ IsFiniteSet(1 .. q) /\ Cardinality(1 .. q) = q
    <3>1. U \in SUBSET S
      OBVIOUS
    <3> QED BY <3>1, FS_Subset, FS_Interval
  <2>2. SumOver(x, 1 .. q) = SumOver(gain, U)
    <3>1. rk \in [U -> 1 .. q] /\ \A i, j \in U : rk[i] = rk[j] => i = j
      OBVIOUS
    <3>2. \A i \in U : gain[i] \in Int /\ x[rk[i]] = gain[i]
      BY <1>2
    <3>3. \A n \in 1 .. q : (\A i \in U : rk[i] # n) => x[n] = 0
      <4> TAKE n \in 1 .. q
      <4>1. n \in 1 .. k /\ n <= q
        OBVIOUS
      <4> SUFFICES ASSUME \A i \in U : rk[i] # n, NEW i \in S, rank[i] = n PROVE x[n] = 0
        BY <1>3, <4>1
      <4>2. gain[i] = 0
        BY <4>1
      <4> QED BY <1>2, <4>2
    <3> HIDE DEF U, rk, x
    <3>4. RankedAs(rk, U, gain, 1 .. q, x)
      BY <3>1, <3>2, <3>3 DEF RankedAs
    <3> QED BY <2>1, <3>4, SumByRank
  <2>3. SumOver(gain, U) = SumOver(c, J) /\ IsFiniteSet(J) /\ J \subseteq 1 .. M
    <3>1. Renames(at, U, gain, J, c)
      BY DEF Renames
    <3>2. J \subseteq 1 .. M
      OBVIOUS
    <3> HIDE DEF U, J
    <3> QED BY <2>1, <3>1, <3>2, SumImage
  <2>4. p \in Nat /\ p <= M /\ p <= q
    <3>1. IsFiniteSet(1 .. M) /\ Cardinality(1 .. M) = M
      BY FS_Interval
    <3>2. p <= M /\ p \in Nat
      <4> HIDE DEF J
      <4>1. Cardinality(J) <= Cardinality(1 .. M)
        BY ONLY <2>3, <3>1, FS_Subset
      <4>2. Cardinality(J) \in Nat
        BY ONLY <2>3, FS_CardinalityType
      <4> QED BY <3>1, <4>1, <4>2
    <3>3. Cardinality(U) \in Nat /\ Cardinality(U) <= q
      <4>1. rk \in Injection(U, 1 .. q)
        <5>1. rk \in [U -> 1 .. q] /\ \A i, j \in U : rk[i] = rk[j] => i = j
          OBVIOUS
        <5> HIDE DEF rk, U
        <5> QED BY <5>1 DEF Injection, IsInjective
      <4> HIDE DEF U, rk
      <4> QED BY <2>1, <4>1, FS_Injection, FS_CardinalityType
    <3>4. p <= Cardinality(U)
      <4> DEFINE f == [i \in U |-> at[i]]
      <4>1. f \in Surjection(U, J)
        <5>1. f \in [U -> J] /\ \A j \in J : \E i \in U : f[i] = j
          OBVIOUS
        <5> HIDE DEF f, U, J
        <5> QED BY <5>1 DEF Surjection
      <4> HIDE DEF U, J, f
      <4> QED BY <2>1, <4>1, FS_Surjection
    <3> QED BY <3>2, <3>3, <3>4
  <2>5. SumOver(c, J) <= SumOver(c, 1 .. p)
    <3>1. c \in [1 .. M -> Nat]
      OBVIOUS
    <3>2. \A K \in SUBSET (1 .. M) : SumOver(c, K) <= SumOver(c, 1 .. Cardinality(K))
      BY <3>1, TopSums
    <3> HIDE DEF J
    <3> QED BY <2>3, <3>2
  <2>6. SumOver(c, 1 .. p) <= SumOver(y, 1 .. q)
    <3> DEFINE A == 1 .. p
               B == p + 1 .. q
    <3>1. A \cup B = 1 .. q /\ A \cap B = {} /\ A \subseteq 1 .. k /\ B \subseteq 1 .. k
      <4> HIDE DEF p
      <4> QED BY <2>4
    <3>2. IsFiniteSet(A) /\ IsFiniteSet(B)
      <4> HIDE DEF p
      <4> QED BY <2>4, FS_Interval
    <3>3. \A n \in A : c[n] = y[n] /\ c[n] \in Int
      <4> HIDE DEF p
      <4> QED BY <2>4
    <3> HIDE DEF A, B, y, p, J
    <3>4. SumOver(c, A) = SumOver(y, A)
      BY <3>2, <3>3, SumEqual
    <3>5. SumOver(y, A \cup B) = SumOver(y, A) + SumOver(y, B)
      <4>1. \A n \in A \cup B : y[n] \in Int
        <5>1. \A n \in 1 .. k : y[n] \in Int
          BY ONLY <1>1
        <5>2. A \cup B \subseteq 1 .. k
          BY <3>1
        <5> QED BY ONLY <5>1, <5>2
      <4> QED BY <3>1, <3>2, <4>1, SumDisjoint
    <3>6. SumOver(y, A) \in Nat /\ SumOver(y, B) \in Nat
      <4>1. (\A n \in A : y[n] \in Nat) /\ (\A n \in B : y[n] \in Nat)
        BY <1>1, <3>1
      <4> QED BY <3>2, <4>1, SumNat
    <3>7. SumOver(y, A) <= SumOver(y, A \cup B)
      BY <3>5, <3>6
    <3> QED BY <3>1, <3>4, <3>7 DEF A
  <2>7. /\ SumOver(x, 1 .. q) \in Int /\ SumOver(c, 1 .. p) \in Int
        /\ SumOver(y, 1 .. q) \in Int
    <3>1. \A n \in 1 .. q : x[n] \in Int /\ y[n] \in Int
      BY <1>1
    <3>2. (\A n \in 1 .. p : c[n] \in Int) /\ IsFiniteSet(1 .. p)
      <4> HIDE DEF p
      <4> QED BY <2>4, FS_Interval
    <3> HIDE DEF x, y, p
    <3> QED BY <2>1, <3>1, <3>2, SumRemove
  <2> HIDE DEF x, y, p, J, U
  <2> QED BY <2>2, <2>3, <2>5, <2>6, <2>7
<1>8. /\ SumOver(xd, 1 .. k) <= SumOver(yd, 1 .. k)
      /\ SumOver(xd, 1 .. k) = SumOver(yd, 1 .. k) => \A n \in 1 .. k : x[n] = y[n]
  <2>1. \A n \in 1 .. k : x[n] \in Int /\ y[n] \in Int
    BY <1>1
  <2>2. \A n \in 1 .. k : xd[n] = x[n] * d[n] /\ yd[n] = y[n] * d[n]
    OBVIOUS
  <2>3. /\ k \in Nat /\ \A n \in 1 .. k : d[n] \in Nat \ {0}
        /\ \A m, n \in 1 .. k : m < n => d[m] > d[n]
    OBVIOUS
  <2> HIDE DEF x, y, xd, yd
  <2>4. LeadsOf(y, yd, x, xd, d, k)
    BY <1>7, <2>1, <2>2, <2>3 DEF LeadsOf
  <2> QED BY <2>4, Discounted
<1>9. \A n \in 1 .. k : xd[n] \in Nat /\ yd[n] \in Nat
  <2> TAKE n \in 1 .. k
  <2>1. x[n] \in Nat /\ y[n] \in Nat /\ d[n] \in Nat
    BY <1>1
  <2>2. xd[n] = x[n] * d[n] /\ yd[n] = y[n] * d[n]
    OBVIOUS
  <2> HIDE DEF x, y, xd, yd
  <2> QED BY <2>1, <2>2
<1>10. SumOver(xd, 1 .. k) \in Nat /\ SumOver(yd, 1 .. k) \in Nat
  <2> HIDE DEF xd, yd
  <2> QED BY <1>4, <1>9, SumNat
<1>11. ASSUME \A n \in 1 .. k : x[n] = y[n], NEW n \in R
       PROVE  \E i \in S : rank[i] = n /\ gain[i] = c[n]
  <2>1. n \in 1 .. k /\ y[n] = c[n] /\ c[n] # 0
    BY <1>4
  <2>2. x[n] = c[n]
    BY <1>11, <2>1
  <2>3. PICK i \in S : rank[i] = n
    BY <1>3, <2>1, <2>2
  <2> QED BY <1>2, <2>2, <2>3
<1>12. ASSUME \A n \in R : \E i \in S : rank[i] = n /\ gain[i] = c[n]
       PROVE  SumOver(yd, 1 .. k) <= SumOver(xd, 1 .. k)
  <2>1. ASSUME NEW n \in 1 .. k PROVE yd[n] <= xd[n]
    <3>1. CASE n \in R
      <4>1. PICK i \in S : rank[i] = n /\ gain[i] = c[n]
        BY <1>12, <3>1
      <4>2. x[n] = c[n] /\ y[n] = c[n]
        BY <1>2, <3>1, <4>1
      <4>3. xd[n] = yd[n]
        BY <4>2
      <4> HIDE DEF xd, yd
      <4> QED BY <1>9, <4>3
    <3>2. CASE n \notin R
      <4>1. y[n] = 0 /\ d[n] \in Nat /\ 0 * d[n] = 0
        BY <3>2
      <4>2. yd[n] = 0
        BY <4>1
      <4> HIDE DEF xd, yd
      <4> QED BY <1>9, <4>2
    <3> QED BY <3>1, <3>2
  <2>2. \A n \in 1 .. k : yd[n] \in Int /\ xd[n] \in Int /\ yd[n] + 0 <= xd[n]
    <3> HIDE DEF xd, yd
    <3> QED BY <1>9, <2>1
  <2>3. SumOver(yd, 1 .. k) + 0 * Cardinality(1 .. k) <= SumOver(xd, 1 .. k)
    <3> HIDE DEF xd, yd
    <3>1. 0 \in Int /\ IsFiniteSet(1 .. k)
      BY <1>4
    <3> QED BY ONLY <2>2, <3>1, SumBelow
  <2>4. 0 * Cardinality(1 .. k) = 0
    BY <1>4, FS_CardinalityType
  <2> HIDE DEF xd, yd
  <2> QED BY <1>10, <2>3, <2>4
<1> HIDE DEF x, y, xd, yd
<1>13. SumOver(xd, 1 .. k) = SumOver(yd, 1 .. k) <=>
         \A n \in R : \E i \in S : rank[i] = n /\ gain[i] = c[n]
  <2>1. \A u, v \in Nat : u <= v /\ v <= u => u = v
    OBVIOUS
  <2>2. SumOver(xd, 1 .. k) = SumOver(yd, 1 .. k) =>
         \A n \in R : \E i \in S : rank[i] = n /\ gain[i] = c[n]
    BY <1>8, <1>11
  <2>3. (\A n \in R : \E i \in S : rank[i] = n /\ gain[i] = c[n])
          => SumOver(xd, 1 .. k) = SumOver(yd, 1 .. k)
    BY ONLY <1>8, <1>10, <1>12, <2>1
  <2> QED BY ONLY <2>2, <2>3
<1> QED BY <1>5, <1>6, <1>8, <1>10, <1>13

(* An order of S by falling w.                                             *)
Falling(best, S, w) ==
  /\ best \in [1 .. Cardinality(S) -> S]
  /\ \A i, h \in DOMAIN best : i < h => best[i] # best[h] /\ w[best[i]] >= w[best[h]]

LEMMA SomeFalling ==
  ASSUME NEW S, IsFiniteSet(S), NEW w, \A d \in S : w[d] \in Nat
  PROVE  \E best : Falling(best, S, w)
<1> DEFINE T == {U \in SUBSET S : \E best : Falling(best, U, w)}
<1>1. ASSUME NEW U \in SUBSET S, \A V \in SUBSET U : V # U => V \in T PROVE U \in T
  <2>1. IsFiniteSet(U) /\ Cardinality(U) \in Nat
    BY FS_Subset, FS_CardinalityType
  <2>2. CASE U = {}
    <3> DEFINE e == [i \in 1 .. 0 |-> 0]
    <3>1. Cardinality(U) = 0 /\ 1 .. 0 = {}
      BY <2>2, FS_EmptySet
    <3>2. Falling(e, U, w)
      BY <3>1 DEF Falling
    <3> QED BY <3>2
  <2>3. CASE U # {}
    <3>1. PICK x \in U : \A y \in U : w[x] <= w[y]
      <4> DEFINE W == {w[y] : y \in U}
      <4>1. W # {} /\ W \subseteq Nat
        BY <2>3
      <4>2. \E m \in W : \A v \in W : m <= v
        <5> HIDE DEF W
        <5> QED BY <4>1, Smallest
      <4> QED BY <4>2
    <3> DEFINE V == U \ {x}
               n == Cardinality(V)
    <3>2. V \in SUBSET U /\ V # U
      OBVIOUS
    <3>3. PICK e : Falling(e, V, w)
      BY <1>1, <3>2
    <3>4. Cardinality(U) = n + 1 /\ n \in Nat
      <4>1. n = Cardinality(U) - 1
        BY <2>1, FS_RemoveElement
      <4>2. IsFiniteSet(V)
        BY <2>1, FS_Subset
      <4>3. n \in Nat
        BY <4>2, FS_CardinalityType
      <4> HIDE DEF n
      <4> QED BY <2>1, <4>1, <4>3
    <3> DEFINE b == [i \in 1 .. n + 1 |-> IF i = n + 1 THEN x ELSE e[i]]
    <3>5. e \in [1 .. n -> V]
          /\ \A i, h \in 1 .. n : i < h => e[i] # e[h] /\ w[e[i]] >= w[e[h]]
      BY <3>3 DEF Falling
    <3> HIDE DEF n
    <3>6. b \in [1 .. n + 1 -> U]
      <4>1. \A i \in 1 .. n + 1 : i = n + 1 \/ i \in 1 .. n
        BY <3>4
      <4> QED BY <3>5, <4>1
    <3>7. ASSUME NEW i \in 1 .. n + 1, NEW h \in 1 .. n + 1, i < h
          PROVE  b[i] # b[h] /\ w[b[i]] >= w[b[h]]
      <4>1. i \in 1 .. n /\ b[i] = e[i] /\ e[i] \in V
        BY <3>4, <3>5, <3>7
      <4>2. CASE h = n + 1
        <5>1. b[h] = x /\ e[i] # x /\ w[x] <= w[e[i]] /\ w[x] \in Nat /\ w[e[i]] \in Nat
          BY <3>1, <4>1, <4>2
        <5> QED BY <4>1, <5>1
      <4>3. CASE h # n + 1
        <5>1. h \in 1 .. n /\ b[h] = e[h]
          BY <3>4, <4>3
        <5> QED BY <3>5, <3>7, <4>1, <5>1
      <4> QED BY <4>2, <4>3
    <3>8. Falling(b, U, w)
      <4>1. DOMAIN b = 1 .. n + 1
        OBVIOUS
      <4> HIDE DEF b
      <4> QED BY <3>4, <3>6, <3>7, <4>1 DEF Falling
    <3> QED BY <3>8
  <2> QED BY <2>2, <2>3
<1>2. S \in T
  <2> HIDE DEF T
  <2> QED BY <1>1, StrongSetInduction
<1> QED BY <1>2

(* It has each member of S once.                                           *)
LEMMA FallingHasAll ==
  ASSUME NEW S, IsFiniteSet(S), NEW w, NEW best, Falling(best, S, w)
  PROVE  \A d \in S : \E h \in DOMAIN best : best[h] = d
<1> DEFINE n == Cardinality(S)
<1>1. n \in Nat /\ IsFiniteSet(1 .. n) /\ Cardinality(1 .. n) = n
  BY FS_CardinalityType, FS_Interval
<1>2. best \in [1 .. n -> S]
  BY DEF Falling
<1>3. \A i, h \in 1 .. n : best[i] = best[h] => i = h
  <2> TAKE i, h \in 1 .. n
  <2>1. DOMAIN best = 1 .. n
    BY <1>2
  <2>2. (i < h => best[i] # best[h]) /\ (h < i => best[h] # best[i])
    BY <2>1 DEF Falling
  <2>3. i \in Nat /\ h \in Nat
    BY <1>1
  <2> QED BY <2>2, <2>3
<1>4. best \in Injection(1 .. n, S)
  BY <1>2, <1>3 DEF Injection, IsInjective
<1>5. best \in Surjection(1 .. n, S)
  BY <1>1, <1>4, FS_Injection
<1> QED BY <1>2, <1>5 DEF Surjection

-----------------------------------------------------------------------------
(* What sorting by a key does, for any sequence.                           *)
LEMMA LeastOf ==
  \A m \in Int, n \in Int : Min({m, n}) = (IF m <= n THEN m ELSE n)
                            /\ Max({m, n}) = (IF m <= n THEN n ELSE m)
<1> TAKE m \in Int, n \in Int
<1>1. Min({m, n}) = CHOOSE x \in {m, n} : \A y \in {m, n} : x <= y
  BY DEF Min
<1>2. Max({m, n}) = CHOOSE x \in {m, n} : \A y \in {m, n} : x >= y
  BY DEF Max
<1>3. (\E x \in {m, n} : \A y \in {m, n} : x <= y) /\ (\E x \in {m, n} : \A y \in {m, n} : x >= y)
  OBVIOUS
<1>4. /\ Min({m, n}) \in {m, n} /\ \A y \in {m, n} : Min({m, n}) <= y
      /\ Max({m, n}) \in {m, n} /\ \A y \in {m, n} : Max({m, n}) >= y
  BY <1>1, <1>2, <1>3
<1>5. QED
  BY <1>4

Before(i, j, key) == key[i] < key[j] \/ (key[i] = key[j] /\ i < j)

LEMMA RankGrows ==
  ASSUME NEW I \in SUBSET Int, IsFiniteSet(I), NEW key, \A i \in I : key[i] \in Int
  PROVE  /\ \A i \in I : Cardinality(UpTo(i, I, key)) \in 1 .. Cardinality(I)
         /\ \A i, j \in I : Before(i, j, key) =>
              Cardinality(UpTo(i, I, key)) < Cardinality(UpTo(j, I, key))
<1> DEFINE up(i) == UpTo(i, I, key)
<1>1. \A i \in I : up(i) = {j \in I : key[j] < key[i] \/ (key[j] = key[i] /\ j <= i)}
  BY DEF UpTo
<1>2. \A i \in I : up(i) \in SUBSET I /\ i \in up(i)
  BY <1>1
<1>3. ASSUME NEW i \in I, NEW j \in I, Before(i, j, key)
      PROVE  up(i) \cup {j} \in SUBSET up(j) /\ j \notin up(i)
  <2>1. i \in Int /\ j \in Int /\ key[i] \in Int /\ key[j] \in Int
    OBVIOUS
  <2>2. ASSUME NEW k \in up(i) PROVE k \in up(j)
    <3>1. k \in I /\ k \in Int /\ key[k] \in Int
      BY <1>1
    <3>2. QED
      BY <1>1, <1>3, <2>1, <2>2, <3>1 DEF Before
  <2>3. j \notin up(i)
    BY <1>1, <1>3, <2>1 DEF Before
  <2>4. QED
    BY <1>2, <2>2, <2>3
<1> HIDE DEF up
<1>4. \A i \in I : IsFiniteSet(up(i)) /\ Cardinality(up(i)) \in Nat
                   /\ Cardinality(up(i)) <= Cardinality(I)
  BY <1>2, FS_Subset, FS_CardinalityType
<1>5. ASSUME NEW i \in I PROVE Cardinality(up(i)) \in 1 .. Cardinality(I)
  <2>1. Cardinality({i}) = 1 /\ Cardinality({i}) <= Cardinality(up(i))
    <3>1. {i} \in SUBSET up(i) /\ IsFiniteSet(up(i)) /\ Cardinality({i}) = 1
      BY <1>2, <1>4, FS_Singleton
    <3>2. QED
      BY <3>1, FS_Subset
  <2>2. QED
    BY <1>4, <2>1, FS_CardinalityType
<1>6. ASSUME NEW i \in I, NEW j \in I, Before(i, j, key)
      PROVE  Cardinality(up(i)) < Cardinality(up(j))
  <2>1. Cardinality(up(i) \cup {j}) = Cardinality(up(i)) + 1
    BY <1>3, <1>4, <1>6, FS_AddElement
  <2>2. Cardinality(up(i) \cup {j}) <= Cardinality(up(j))
    BY <1>3, <1>4, <1>6, FS_Subset
  <2>3. QED
    BY <1>4, <2>1, <2>2
<1>7. QED
  BY <1>5, <1>6 DEF up

(* Every rank is that of one position.                                     *)
LEMMA OneOfEachRank ==
  ASSUME NEW I \in SUBSET Int, IsFiniteSet(I), NEW key, \A i \in I : key[i] \in Int,
         NEW k \in 1 .. Cardinality(I)
  PROVE  \E i \in I : Cardinality(UpTo(i, I, key)) = k
<1> DEFINE rank == [i \in I |-> Cardinality(UpTo(i, I, key))]
           n == Cardinality(I)
<1>1. rank \in [I -> 1 .. n]
  BY RankGrows
<1>2. ASSUME NEW i \in I, NEW j \in I, rank[i] = rank[j] PROVE i = j
  <2>1. rank[i] \in Int /\ rank[j] \in Int
    BY <1>1
  <2>2. ~ Before(i, j, key) /\ ~ Before(j, i, key)
    BY <1>2, <2>1, RankGrows
  <2>3. QED
    BY <2>2 DEF Before
<1>3. rank \in Injection(I, 1 .. n)
  BY <1>1, <1>2 DEF Injection, IsInjective
<1>4. n \in Nat /\ IsFiniteSet(1 .. n) /\ Cardinality(1 .. n) = n
  BY FS_CardinalityType, FS_Interval
<1>5. rank \in Surjection(I, 1 .. n)
  BY <1>3, <1>4, FS_Injection
<1>6. QED
  BY <1>5 DEF Surjection

(* Sorting takes each position once, the smaller keys first.               *)
LEMMA Arranges ==
  ASSUME NEW s, NEW I \in SUBSET Int, IsFiniteSet(I), NEW key, \A i \in I : key[i] \in Int,
         NEW sorted, sorted = Arranged(s, I, key), NEW n, n = Cardinality(I)
  PROVE  \E from \in [1 .. n -> I] :
           /\ sorted = [k \in 1 .. n |-> s[from[k]]]
           /\ \A k, m \in 1 .. n : k < m => Before(from[k], from[m], key)
           /\ \A i \in I : \E k \in 1 .. n : from[k] = i
<1> DEFINE rank(i) == Cardinality(UpTo(i, I, key))
           from == [k \in 1 .. n |-> CHOOSE i \in I : rank(i) = k]
<1>0. /\ Cardinality(I) = n
      /\ \A i \in I : rank(i) = Cardinality(UpTo(i, I, key))
  OBVIOUS
<1>1. \A k \in 1 .. n : \E i \in I : rank(i) = k
  BY <1>0, OneOfEachRank
<1>2. \A k \in 1 .. n : from[k] \in I /\ rank(from[k]) = k
  BY <1>1
<1>3. sorted = [k \in 1 .. n |-> s[from[k]]]
  BY <1>0 DEF Arranged
<1>9. /\ \A i \in I : rank(i) \in 1 .. n
      /\ \A i, j \in I : Before(i, j, key) => rank(i) < rank(j)
  BY <1>0, RankGrows
<1> HIDE DEF from, rank
<1>5. ASSUME NEW k \in 1 .. n, NEW m \in 1 .. n, k < m PROVE Before(from[k], from[m], key)
  <2>1. ~ Before(from[m], from[k], key)
    <3> SUFFICES ASSUME Before(from[m], from[k], key) PROVE FALSE
      OBVIOUS
    <3>1. rank(from[m]) < rank(from[k])
      BY <1>2, <1>9
    <3>2. QED
      BY <1>2, <1>5, <3>1
  <2>2. from[k] \in Int /\ from[m] \in Int /\ key[from[k]] \in Int /\ key[from[m]] \in Int
    BY <1>2
  <2>3. from[k] # from[m]
    <3> SUFFICES ASSUME from[k] = from[m] PROVE FALSE
      OBVIOUS
    <3>1. rank(from[k]) = rank(from[m])
      OBVIOUS
    <3>2. QED
      BY <1>2, <1>5, <3>1
  <2>4. QED
    BY <2>1, <2>2, <2>3 DEF Before
<1>6. ASSUME NEW i \in I PROVE \E k \in 1 .. n : from[k] = i
  <2>1. PICK k \in 1 .. n : k = rank(i)
    BY <1>9
  <2>2. PICK j \in I : j = from[k]
    BY <1>2
  <2>3. rank(j) = k
    BY <1>2, <2>2
  <2>4. ~ Before(i, j, key) /\ ~ Before(j, i, key)
    <3>1. ~ (rank(i) < rank(j)) /\ ~ (rank(j) < rank(i))
      BY <2>1, <2>3
    <3>2. QED
      BY <1>9, <3>1
  <2>5. i \in Int /\ j \in Int /\ key[i] \in Int /\ key[j] \in Int
    OBVIOUS
  <2>6. i = j
    BY <2>4, <2>5 DEF Before
  <2>7. QED
    BY <2>2, <2>6
<1>7. from \in [1 .. n -> I]
  BY <1>2 DEF from
<1>8. QED
  BY <1>3, <1>5, <1>6, <1>7

(* Each of the places of one sequence is that of another, each once.       *)
PlacesIn(n, I) == {from \in [1 .. n -> I] : \A k, m \in 1 .. n : from[k] = from[m] => k = m}

LEMMA ArrangedKeeps ==
  ASSUME NEW T, NEW s, NEW I \in SUBSET Int, IsFiniteSet(I), NEW key,
         \A i \in I : key[i] \in Int /\ s[i] \in T,
         NEW kept, kept = Arranged(s, I, key), NEW n, n = Cardinality(I)
  PROVE  /\ kept \in Seq(T) /\ Len(kept) = n /\ n \in Nat
         /\ \E from \in PlacesIn(n, I) :
              /\ \A k \in 1 .. n : kept[k] = s[from[k]]
              /\ \A k, m \in 1 .. n : k < m => key[from[k]] <= key[from[m]]
              /\ \A i \in I : \E k \in 1 .. n : from[k] = i
<1>1. n \in Nat
  BY FS_CardinalityType
<1>2. \A i \in I : key[i] \in Int
  OBVIOUS
<1>3. PICK from \in [1 .. n -> I] :
        /\ kept = [k \in 1 .. n |-> s[from[k]]]
        /\ \A k, m \in 1 .. n : k < m => Before(from[k], from[m], key)
        /\ \A i \in I : \E k \in 1 .. n : from[k] = i
  BY ONLY I \in SUBSET Int, IsFiniteSet(I), <1>2, kept = Arranged(s, I, key),
          n = Cardinality(I), Arranges
<1>5. /\ \A k \in 1 .. n : kept[k] = s[from[k]]
      /\ \A k, m \in 1 .. n : k < m => Before(from[k], from[m], key)
      /\ \A i \in I : \E k \in 1 .. n : from[k] = i
  BY <1>3
<1>6. \A i \in I : ~ Before(i, i, key)
  BY <1>2 DEF Before
<1>7. from \in PlacesIn(n, I)
  <2> SUFFICES ASSUME NEW k \in 1 .. n, NEW m \in 1 .. n, from[k] = from[m] PROVE k = m
    BY <1>5 DEF PlacesIn
  <2>1. ~ (k < m) /\ ~ (m < k)
    BY <1>5, <1>6
  <2>2. QED
    BY <2>1
<1>8. kept \in Seq(T) /\ Len(kept) = n
  <2>1. \A k \in 1 .. n : kept[k] \in T
    <3> TAKE k \in 1 .. n
    <3>1. from[k] \in I /\ kept[k] = s[from[k]]
      BY <1>5
    <3>2. QED
      BY <3>1
  <2>2. kept \in [1 .. n -> T]
    BY <1>3, <2>1
  <2>3. QED
    BY <1>1, <2>2
<1>9. \A k, m \in 1 .. n : k < m => key[from[k]] <= key[from[m]]
  <2> SUFFICES ASSUME NEW k \in 1 .. n, NEW m \in 1 .. n, k < m
               PROVE  key[from[k]] <= key[from[m]]
    OBVIOUS
  <2>1. from[k] \in I /\ from[m] \in I /\ Before(from[k], from[m], key)
    BY <1>5
  <2>2. key[from[k]] \in Int /\ key[from[m]] \in Int
    BY <1>2, <2>1
  <2>3. QED
    BY <2>1, <2>2 DEF Before
<1>10. QED
  BY <1>1, <1>5, <1>7, <1>8, <1>9

LEMMA OnlyKeeps ==
  ASSUME NEW T, NEW s \in Seq(T), NEW I \in SUBSET (DOMAIN s),
         NEW kept, kept = Only(s, I), NEW n, n = Cardinality(I)
  PROVE  /\ kept \in Seq(T) /\ Len(kept) = n /\ n \in Nat
         /\ \E from \in PlacesIn(n, I) :
              /\ \A k \in 1 .. n : kept[k] = s[from[k]]
              /\ \A i \in I : \E k \in 1 .. n : from[k] = i
<1>1. I \in SUBSET Int /\ IsFiniteSet(I)
  <2>1. IsFiniteSet(DOMAIN s) /\ DOMAIN s \subseteq Int
    BY FS_Interval
  <2>2. QED
    BY <2>1, FS_Subset
<1>2. PICK key : key = [i \in I |-> i]
  OBVIOUS
<1>3. kept = Arranged(s, I, key) /\ \A i \in I : key[i] \in Int /\ s[i] \in T
  BY <1>1, <1>2 DEF Only
<1>4. QED
  BY <1>1, <1>3, ArrangedKeeps

(* Sorting a sequence permutes it.                                         *)
InOrder(sorted, s, key, n) ==
  \E from \in PlacesIn(n, 1 .. n) :
    /\ \A k \in 1 .. n : sorted[k] = s[from[k]]
    /\ \A k, m \in 1 .. n : k < m => key[from[k]] <= key[from[m]]
    /\ \A i \in 1 .. n : \E k \in 1 .. n : from[k] = i

LEMMA SortedPermutes ==
  ASSUME NEW T, NEW s \in Seq(T), NEW key, \A i \in DOMAIN s : key[i] \in Int,
         NEW sorted, sorted = Sorted(s, key), NEW n, n = Len(s)
  PROVE  sorted \in Seq(T) /\ Len(sorted) = n /\ InOrder(sorted, s, key, n)
<1>1. PICK I : I = DOMAIN s
  OBVIOUS
<1>2. n \in Nat /\ I = 1 .. n
  BY <1>1
<1>3. I \in SUBSET Int /\ IsFiniteSet(I) /\ n = Cardinality(I)
  <2>1. 1 \in Int /\ n \in Int
    BY <1>2
  <2>2. IsFiniteSet(1 .. n) /\ Cardinality(1 .. n) = (IF 1 > n THEN 0 ELSE n - 1 + 1)
    BY ONLY <2>1, FS_Interval
  <2>3. Cardinality(1 .. n) = n
    BY ONLY <1>2, <2>2
  <2>4. 1 .. n \subseteq Int
    BY <1>2
  <2>5. QED
    BY ONLY <1>2, <2>2, <2>3, <2>4
<1>4. sorted = Arranged(s, I, key) /\ \A i \in I : key[i] \in Int /\ s[i] \in T
  BY <1>1 DEF Sorted
<1>5. /\ sorted \in Seq(T) /\ Len(sorted) = n
      /\ \E from \in PlacesIn(n, I) :
           /\ \A k \in 1 .. n : sorted[k] = s[from[k]]
           /\ \A k, m \in 1 .. n : k < m => key[from[k]] <= key[from[m]]
           /\ \A i \in I : \E k \in 1 .. n : from[k] = i
  BY ONLY <1>3, <1>4, ArrangedKeeps
<1>6. QED
  BY ONLY <1>2, <1>5 DEF InOrder

-----------------------------------------------------------------------------
(* The prices: what keeping some positions of a text gives, what a written *)
(* number is spelled like, and what it is read as.                         *)
(* A set listed in increasing order.                                       *)
Lists(t, n, I) ==
  /\ t \in [1 .. n -> Int]
  /\ \A j, k \in 1 .. n : j < k => t[j] < t[k]
  /\ I = {t[k] : k \in 1 .. n}

(* It has as many members as the list.                                     *)
LEMMA ListCounts ==
  ASSUME NEW n \in Nat, NEW t, NEW I, Lists(t, n, I)
  PROVE  IsFiniteSet(I) /\ Cardinality(I) = n
<1>1. t \in Bijection(1 .. n, I)
  <2>1. t \in [1 .. n -> I] /\ \A i \in I : \E k \in 1 .. n : t[k] = i
    BY DEF Lists
  <2>2. \A j, k \in 1 .. n : t[j] = t[k] => j = k
    BY DEF Lists
  <2>3. QED
    BY <2>1, <2>2 DEF Bijection, Injection, Surjection, IsInjective
<1>2. IsFiniteSet(1 .. n) /\ Cardinality(1 .. n) = n
  BY FS_Interval
<1>3. ExistsBijection(1 .. n, I)
  BY <1>1 DEF ExistsBijection
<1>4. QED
  BY <1>2, <1>3, FS_Bijection

(* What is at the places t of s, in turn.                                  *)
Picks(kept, s, t, n) == kept = [k \in 1 .. n |-> s[t[k]]]

(* Keeping the positions of a list gives what is at them, in its order.    *)
LEMMA OnlyIs ==
  ASSUME NEW s, NEW n \in Nat, NEW t, NEW I, Lists(t, n, I)
  PROVE  Picks(Only(s, I), s, t, n)
<1> DEFINE rank(i) == Cardinality(UpTo(i, I, [j \in I |-> j]))
<1>0. PICK key : key = [j \in I |-> j]
  OBVIOUS
<1>01. /\ \A i \in I : key[i] = i /\ rank(i) = Cardinality(UpTo(i, I, key))
       /\ Only(s, I) = Arranged(s, I, key)
  BY <1>0 DEF Only
<1> HIDE DEF rank
<1>1. \A k \in 1 .. n : t[k] \in I /\ t[k] \in Int
  BY DEF Lists
<1>2. I \subseteq Int
  BY DEF Lists
<1>3. ASSUME NEW k \in 1 .. n PROVE rank(t[k]) = k
  <2>1. UpTo(t[k], I, key) = {i \in I : i <= t[k]}
    <3>1. PICK i \in I : i = t[k]
      BY <1>1
    <3>2. \A j \in I : key[j] = j /\ key[i] = i /\ j \in Int /\ i \in Int
      BY <1>01, <1>2
    <3>3. UpTo(i, I, key) = {j \in I : j <= i}
      BY <3>2 DEF UpTo
    <3>4. QED
      BY <3>1, <3>3
  <2>2. {i \in I : i <= t[k]} = {t[j] : j \in 1 .. k}
    <3>1. \A j \in 1 .. n : t[j] <= t[k] <=> j <= k
      <4> TAKE j \in 1 .. n
      <4>1. t[j] \in Int /\ t[k] \in Int /\ (j < k => t[j] < t[k]) /\ (k < j => t[k] < t[j])
        BY <1>1 DEF Lists
      <4>2. j < k \/ j = k \/ k < j
        OBVIOUS
      <4>3. QED
        BY <4>1, <4>2
    <3>2. QED
      BY <3>1 DEF Lists
  <2> DEFINE u == [j \in 1 .. k |-> t[j]]
  <2>3. Lists(u, k, {i \in I : i <= t[k]})
    <3>1. \A j \in 1 .. k : j \in 1 .. n /\ u[j] = t[j]
      OBVIOUS
    <3>2. {t[j] : j \in 1 .. k} = {u[j] : j \in 1 .. k}
      BY <3>1
    <3>3. QED
      BY <3>1, <3>2, <2>2 DEF Lists
  <2>4. k \in Nat
    OBVIOUS
  <2>5. QED
    BY <1>01, <1>1, <2>1, <2>3, <2>4, ListCounts
<1>4. Cardinality(I) = n
  BY ListCounts
<1>5. ASSUME NEW k \in 1 .. n PROVE (CHOOSE i \in I : rank(i) = k) = t[k]
  <2>1. \A i \in I : \E j \in 1 .. n : i = t[j]
    BY DEF Lists
  <2>2. \A i \in I : rank(i) = k => i = t[k]
    BY <1>3, <2>1
  <2>3. QED
    BY <1>1, <1>3, <2>2
<1>6. QED
  <2>1. Only(s, I) = [k \in 1 .. n |-> s[CHOOSE i \in I : Cardinality(UpTo(i, I, key)) = k]]
    BY <1>01, <1>4 DEF Arranged
  <2>2. \A k \in 1 .. n : (CHOOSE i \in I : Cardinality(UpTo(i, I, key)) = k) = t[k]
    <3> TAKE k \in 1 .. n
    <3>1. \A i \in I : rank(i) = k <=> Cardinality(UpTo(i, I, key)) = k
      BY <1>01
    <3>2. (CHOOSE i \in I : rank(i) = k) = (CHOOSE i \in I : Cardinality(UpTo(i, I, key)) = k)
      BY <3>1
    <3>3. QED
      BY <1>5, <3>2
  <2>3. QED
    BY <2>1, <2>2 DEF Picks

(* A sequence over fewer characters.                                       *)
LEMMA Wider ==
  ASSUME NEW A, NEW U, A \subseteq U, NEW s \in Seq(A)
  PROVE  s \in Seq(U)
<1>1. \A i \in 1 .. Len(s) : s[i] \in U
  OBVIOUS
<1>2. Len(s) \in Nat /\ s = [i \in 1 .. Len(s) |-> s[i]]
  OBVIOUS
<1>3. QED
  BY <1>1, <1>2

LEMMA Element ==
  ASSUME NEW A, NEW s \in Seq(A)
  PROVE  (\A i \in 1 .. Len(s) : s[i] \in A) /\ s = [i \in 1 .. Len(s) |-> s[i]]
OBVIOUS

LEMMA NoElement ==
  ASSUME NEW A
  PROVE  <<>> \in Seq(A) /\ Len(<<>>) = 0 /\ \A i \in DOMAIN <<>> : FALSE
OBVIOUS

LEMMA LengthZero ==
  ASSUME NEW A, NEW s \in Seq(A)
  PROVE  Len(s) \in Nat /\ (Len(s) = 0 <=> s = <<>>)
OBVIOUS

LEMMA OneElement ==
  ASSUME NEW A, NEW a \in A
  PROVE  <<a>> \in Seq(A) /\ Len(<<a>>) = 1 /\ <<a>>[1] = a
OBVIOUS

(* A joined sequence, position by position.                                *)
LEMMA JoinIs ==
  ASSUME NEW A, NEW a \in Seq(A), NEW b \in Seq(A)
  PROVE  a \o b = [k \in 1 .. Len(a) + Len(b) |->
                     IF k <= Len(a) THEN a[k] ELSE b[k - Len(a)]]
<1> DEFINE joined == [k \in 1 .. Len(a) + Len(b) |-> IF k <= Len(a) THEN a[k] ELSE b[k - Len(a)]]
<1>1. \A k \in 1 .. Len(a) + Len(b) : joined[k] \in A
  OBVIOUS
<1>2. joined \in Seq(A) /\ Len(joined) = Len(a) + Len(b)
  BY <1>1
<1>3. /\ a \o b \in Seq(A)
      /\ Len(a \o b) = Len(a) + Len(b)
      /\ \A i \in 1 .. Len(a) + Len(b) : (a \o b)[i] = joined[i]
  BY ConcatProperties
<1> HIDE DEF joined
<1>4. a \o b = joined
  BY <1>2, <1>3, SeqEqual
<1>5. QED
  BY <1>4 DEF joined

-----------------------------------------------------------------------------
(* Where the digits are.                                                   *)
LEMMA DigitsApart ==
  ASSUME NEW n \in Nat, NEW size \in {2, 3}
  PROVE  /\ \A i \in 1 .. n + 1 : DigitAt(i, n, size) \in Nat
         /\ DigitAt(1, n, size) = 1
         /\ \A i, j \in 1 .. n + 1 :
              i < j => DigitAt(j, n, size) - DigitAt(i, n, size) >= j - i
         /\ \A i \in 1 .. n :
              DigitAt(i + 1, n, size)
                = DigitAt(i, n, size) + (IF Breaks(i, n, size) THEN 2 ELSE 1)
<1> DEFINE Breaking(i) == {j \in 1 .. i - 1 : Breaks(j, n, size)}
<1>1. \A i \in 1 .. n + 1 : IsFiniteSet(Breaking(i)) /\ Cardinality(Breaking(i)) \in Nat
  <2> TAKE i \in 1 .. n + 1
  <2>1. IsFiniteSet(1 .. i - 1) /\ Breaking(i) \subseteq 1 .. i - 1
    BY FS_Interval
  <2>2. QED
    BY <2>1, FS_Subset, FS_CardinalityType
<1>2. \A i \in 1 .. n + 1 : DigitAt(i, n, size) = i + Cardinality(Breaking(i))
  BY DEF DigitAt
<1>3. Cardinality(Breaking(1)) = 0
  <2>1. Breaking(1) = {}
    OBVIOUS
  <2>2. QED
    BY <2>1, FS_EmptySet
<1>4. \A i, j \in 1 .. n + 1 : i < j => Cardinality(Breaking(i)) <= Cardinality(Breaking(j))
  <2> TAKE i, j \in 1 .. n + 1
  <2> HAVE i < j
  <2>1. Breaking(i) \subseteq Breaking(j)
    OBVIOUS
  <2>2. QED
    BY <1>1, <2>1, FS_Subset
<1>5. ASSUME NEW i \in 1 .. n
      PROVE  Cardinality(Breaking(i + 1))
               = Cardinality(Breaking(i)) + (IF Breaks(i, n, size) THEN 1 ELSE 0)
  <2>1. i \notin Breaking(i) /\ i \in 1 .. n + 1
    OBVIOUS
  <2>2. CASE Breaks(i, n, size)
    <3>1. Breaking(i + 1) = Breaking(i) \cup {i}
      BY <2>2
    <3>2. QED
      BY <1>1, <2>1, <2>2, <3>1, FS_AddElement
  <2>3. CASE ~ Breaks(i, n, size)
    <3>1. Breaking(i + 1) = Breaking(i)
      BY <2>3
    <3>2. QED
      BY <1>1, <2>1, <2>3, <3>1
  <2>4. QED
    BY <2>2, <2>3
<1> HIDE DEF Breaking
<1>6. 1 \in 1 .. n + 1 /\ \A i \in 1 .. n : i \in 1 .. n + 1 /\ i + 1 \in 1 .. n + 1
  OBVIOUS
<1>7. QED
  BY <1>1, <1>2, <1>3, <1>4, <1>5, <1>6

-----------------------------------------------------------------------------
(* A text that spells whole, its i-th digit at at[i] of the first N        *)
(* positions and separators between them, and tail after it.               *)
Chars == {"0", "1", "2", "5", ",", ".", " ", "'", "none"}

Spells(text, n, N, at, whole, tail, group) ==
  /\ n \in Nat \ {0} /\ N \in Nat
  /\ whole \in Seq({"1", "2"}) /\ Len(whole) = n
  /\ tail \in Seq(Chars) /\ group \in Separators
  /\ text \in Seq(Chars) /\ Len(text) = N + Len(tail)
  /\ at \in [1 .. n -> 1 .. N] /\ at[1] = 1
  /\ \A i, j \in 1 .. n : i < j => at[i] < at[j]
  /\ \A i \in 1 .. n : text[at[i]] = whole[i]
  /\ \A p \in 1 .. N : (\E i \in 1 .. n : p = at[i]) \/ text[p] = group
  /\ \A k \in 1 .. Len(tail) : text[N + k] = tail[k]

(* The characters X are the separators, or there is none, and the first d  *)
(* characters of the tail; rest is what follows those.                     *)
LeavesOut(X, d, rest, n, N, at, tail, group) ==
  /\ X \in SUBSET Separators /\ d \in Nat /\ rest \in Seq(Chars)
  /\ Len(tail) = d + Len(rest) /\ \A k \in 1 .. Len(rest) : tail[d + k] = rest[k]
  /\ \A k \in 1 .. d : tail[k] \in X
  /\ \A k \in 1 .. Len(rest) : rest[k] \notin X
  /\ group \in X \/ \A p \in 1 .. N : \E i \in 1 .. n : p = at[i]

(* Without the separators, and without the first d characters of the tail. *)
LEMMA WithoutIs ==
  ASSUME NEW text, NEW n, NEW N, NEW at, NEW whole, NEW tail, NEW group,
         Spells(text, n, N, at, whole, tail, group),
         NEW X, NEW d, NEW rest, LeavesOut(X, d, rest, n, N, at, tail, group)
  PROVE  Without(text, X) = whole \o rest
<1>0. /\ X \in SUBSET Separators /\ d \in Nat /\ rest \in Seq(Chars)
      /\ Len(tail) = d + Len(rest) /\ \A k \in 1 .. Len(rest) : tail[d + k] = rest[k]
      /\ \A k \in 1 .. d : tail[k] \in X
      /\ \A k \in 1 .. Len(rest) : rest[k] \notin X
      /\ group \in X \/ \A p \in 1 .. N : \E i \in 1 .. n : p = at[i]
  BY DEF LeavesOut
<1> DEFINE m == Len(rest)
           t == [k \in 1 .. n + m |-> IF k <= n THEN at[k] ELSE N + d + (k - n)]
           I == {p \in DOMAIN text : text[p] \notin X}
<1>1. /\ n \in Nat \ {0} /\ N \in Nat /\ m \in Nat /\ d \in Nat
      /\ whole \in Seq({"1", "2"}) /\ Len(whole) = n
      /\ at \in [1 .. n -> 1 .. N]
      /\ \A i, j \in 1 .. n : i < j => at[i] < at[j]
      /\ \A i \in 1 .. n : text[at[i]] = whole[i]
      /\ \A p \in 1 .. N : (\E i \in 1 .. n : p = at[i]) \/ text[p] = group
      /\ \A k \in 1 .. d + m : text[N + k] = tail[k]
      /\ DOMAIN text = 1 .. N + d + m
  BY <1>0 DEF Spells
<1> HIDE DEF m
<1>2. \A k \in 1 .. n + m :
        /\ k <= n => t[k] = at[k] /\ t[k] \in 1 .. N
        /\ k > n => t[k] = N + d + (k - n)
        /\ t[k] \in 1 .. N + d + m
  BY <1>1
<1>3. \A j, k \in 1 .. n + m : j < k => t[j] < t[k]
  <2> TAKE j, k \in 1 .. n + m
  <2> HAVE j < k
  <2> HIDE DEF t
  <2>1. CASE k <= n
    BY <1>1, <1>2, <2>1
  <2>2. CASE k > n
    <3>1. t[k] = N + d + (k - n)
      BY <1>2, <2>2
    <3>2. CASE j <= n
      <4>1. t[j] \in 1 .. N
        BY <1>2, <3>2
      <4>2. QED
        BY <1>1, <2>2, <3>1, <4>1
    <3>3. CASE j > n
      <4>1. t[j] = N + d + (j - n)
        BY <1>2, <3>3
      <4>2. QED
        BY <1>1, <2>2, <3>1, <4>1
    <3>4. QED
      BY <1>1, <3>2, <3>3
  <2>3. QED
    BY <1>1, <2>1, <2>2
<1>4. ASSUME NEW k \in 1 .. n + m
      PROVE  text[t[k]] = (IF k <= n THEN whole[k] ELSE rest[k - n]) /\ t[k] \in I
  <2>1. CASE k <= n
    <3>1. text[t[k]] = whole[k] /\ whole[k] \in {"1", "2"}
      BY <1>1, <1>2, <2>1
    <3>2. QED
      <4>1. text[t[k]] \notin X
        BY <1>0, <3>1 DEF Separators
      <4>2. QED
        BY <1>1, <1>2, <2>1, <3>1, <4>1
  <2>2. CASE k > n
    <3>1. PICK q \in 1 .. m : q = k - n
      BY <1>1, <2>2
    <3>2. t[k] = N + (d + q) /\ d + q \in 1 .. d + m
      <4> HIDE DEF t, I
      <4>1. n \in Nat /\ m \in Nat /\ N \in Nat /\ d \in Nat
        BY <1>1
      <4>2. t[k] = N + d + (k - n)
        BY <1>2, <2>2
      <4>3. QED
        BY <2>2, <3>1, <4>1, <4>2
    <3>3. text[t[k]] = rest[q] /\ rest[q] \notin X
      <4>1. text[t[k]] = tail[d + q]
        BY <1>1, <3>2
      <4>2. tail[d + q] = rest[q] /\ rest[q] \notin X
        BY <1>0 DEF m
      <4>3. QED
        BY <4>1, <4>2
    <3>4. QED
      BY <1>1, <1>2, <2>2, <3>1, <3>3
  <2>3. QED
    BY <1>1, <2>1, <2>2
<1>5. ASSUME NEW p \in I PROVE \E k \in 1 .. n + m : t[k] = p
  <2>1. p \in 1 .. N + d + m /\ text[p] \notin X
    BY <1>1
  <2>2. CASE p <= N
    <3>0. p \in 1 .. N
      BY <1>1, <2>1, <2>2
    <3>1. PICK i \in 1 .. n : p = at[i]
      BY <1>0, <1>1, <2>1, <3>0
    <3>2. i \in 1 .. n + m /\ t[i] = p
      BY <1>1, <1>2, <3>1
    <3>3. QED
      BY <3>2
  <2>3. CASE p > N /\ p <= N + d
    <3>0. p - N \in 1 .. d /\ p = N + (p - N)
      BY <1>1, <2>3, <2>1
    <3>1. PICK q \in 1 .. d : p = N + q
      BY <3>0
    <3>2. text[p] = tail[q] /\ tail[q] \in X
      <4>1. q \in 1 .. d + m
        BY <1>1
      <4>2. QED
        BY <1>0, <1>1, <3>1, <4>1
    <3>3. QED
      BY <2>1, <3>2
  <2>4. CASE p > N + d
    <3>0. p - (N + d) \in 1 .. m /\ p = N + d + (p - (N + d))
      BY <1>1, <2>4, <2>1
    <3>1. PICK q \in 1 .. m : p = N + d + q
      BY <3>0
    <3>2. n + q \in 1 .. n + m /\ n + q > n /\ (n + q) - n = q
      BY <1>1, <3>1
    <3>3. t[n + q] = p
      BY <1>2, <3>1, <3>2
    <3>4. QED
      BY <3>2, <3>3
  <2>5. QED
    BY <1>1, <2>1, <2>2, <2>3, <2>4
<1>6. Lists(t, n + m, I)
  <2>1. t \in [1 .. n + m -> Int]
    BY <1>1, <1>2
  <2>2. I = {t[k] : k \in 1 .. n + m}
    BY <1>4, <1>5
  <2>3. QED
    BY <1>3, <2>1, <2>2 DEF Lists
<1>7. Without(text, X) = [k \in 1 .. n + m |-> text[t[k]]]
  <2>1. n + m \in Nat /\ Without(text, X) = Only(text, I)
    BY <1>1 DEF Without
  <2> HIDE DEF t, I
  <2>2. Only(text, I) = [k \in 1 .. n + m |-> text[t[k]]]
    <3>1. PICK l \in Nat : l = n + m
      BY <2>1
    <3>2. Lists(t, l, I)
      BY <1>6, <3>1
    <3>3. Picks(Only(text, I), text, t, l)
      BY <3>2, OnlyIs
    <3>4. QED
      BY <3>1, <3>3 DEF Picks
  <2>3. QED
    BY <2>1, <2>2
<1>8. whole \o rest = [k \in 1 .. n + m |-> IF k <= n THEN whole[k] ELSE rest[k - n]]
  <2>1. {"1", "2"} \subseteq Chars
    BY DEF Chars
  <2>2. whole \in Seq(Chars)
    BY <1>1, <2>1, Wider
  <2>3. whole \o rest = [k \in 1 .. Len(whole) + Len(rest) |->
                           IF k <= Len(whole) THEN whole[k] ELSE rest[k - Len(whole)]]
    BY <1>0, <2>2, JoinIs
  <2>4. QED
    BY <1>1, <2>3 DEF m
<1>9. QED
  BY <1>4, <1>7, <1>8

(* NoElement to leave out.                                                   *)
LEMMA WithoutNone ==
  ASSUME NEW text \in Seq(Chars), NEW X, \A p \in DOMAIN text : text[p] \notin X
  PROVE  Without(text, X) = text
<1> DEFINE n == Len(text)
           t == [k \in 1 .. n |-> k]
           I == {p \in DOMAIN text : text[p] \notin X}
<1>1. n \in Nat /\ I = 1 .. n /\ DOMAIN text = 1 .. n
  OBVIOUS
<1>2. Lists(t, n, I)
  BY <1>1 DEF Lists
<1>3. Without(text, X) = [k \in 1 .. n |-> text[t[k]]]
  <2>1. Without(text, X) = Only(text, I)
    BY DEF Without
  <2> HIDE DEF t, I, n
  <2>2. Picks(Only(text, I), text, t, n)
    BY <1>1, <1>2, OnlyIs
  <2>3. QED
    BY <2>1, <2>2 DEF Picks
<1>4. text = [k \in 1 .. n |-> text[k]]
  OBVIOUS
<1>5. QED
  BY <1>3, <1>4

(* The last place of a character.                                          *)
LEMMA LastIs ==
  ASSUME NEW text \in Seq(Chars), NEW char, NEW m \in Nat,
         m # 0 => m \in DOMAIN text /\ text[m] = char,
         \A i \in DOMAIN text : text[i] = char => i <= m
  PROVE  LastAt(text, char) = m
<1> DEFINE S == {0} \cup {i \in DOMAIN text : text[i] = char}
<1>1. m \in S /\ S \subseteq Nat /\ \A i \in S : i <= m
  OBVIOUS
<1>2. Max(S) = CHOOSE x \in S : \A y \in S : x >= y
  BY DEF Max
<1> HIDE DEF S
<1>3. \A x \in S : (\A y \in S : x >= y) => x = m
  BY <1>1
<1>4. \A y \in S : m >= y
  BY <1>1
<1>5. Max(S) = m
  BY <1>1, <1>2, <1>3, <1>4
<1>6. QED
  BY <1>5 DEF LastAt, S

LEMMA MaxOfTwo ==
  ASSUME NEW a \in Nat, NEW b \in Nat, a > b
  PROVE  Max({a, b}) = a /\ Max({b, a}) = a /\ a # 0 /\ ~ (b > a)
<1>1. {a, b} = {b, a}
  OBVIOUS
<1>2. \A x \in {a, b} : (\A y \in {a, b} : x >= y) <=> x = a
  OBVIOUS
<1>3. Max({a, b}) = a
  BY <1>2 DEF Max
<1>4. QED
  BY <1>1, <1>3

-----------------------------------------------------------------------------
(* A separator that is not in the text.                                    *)
LEMMA NoSuch ==
  ASSUME NEW text \in Seq(Chars), NEW char, \A i \in DOMAIN text : text[i] # char
  PROVE  LastAt(text, char) = 0 /\ Count(text, char) = 0
<1>1. LastAt(text, char) = 0
  BY LastIs
<1>2. {i \in DOMAIN text : text[i] = char} = {}
  OBVIOUS
<1>3. QED
  BY <1>1, <1>2, FS_EmptySet DEF Count

(* One that is there once.                                                 *)
LEMMA OneSuch ==
  ASSUME NEW text \in Seq(Chars), NEW char, NEW m \in DOMAIN text,
         \A i \in DOMAIN text : text[i] = char <=> i = m
  PROVE  LastAt(text, char) = m /\ Count(text, char) = 1
<1>1. m \in Nat /\ m # 0
  OBVIOUS
<1>2. LastAt(text, char) = m
  <2>1. text[m] = char /\ \A i \in DOMAIN text : text[i] = char => i <= m
    BY <1>1
  <2>2. QED
    BY <1>1, <2>1, LastIs
<1>3. {i \in DOMAIN text : text[i] = char} = {m}
  OBVIOUS
<1>4. QED
  BY <1>2, <1>3, FS_Singleton DEF Count

(* A text of the form whole, one character, fraction.                      *)
HasParts(text, whole, char, fraction, n, f) ==
  /\ text \in Seq(Chars) /\ n \in Nat /\ f \in Nat
  /\ Len(text) = n + 1 + f /\ DOMAIN text = 1 .. n + 1 + f
  /\ \A i \in 1 .. n : text[i] = whole[i]
  /\ text[n + 1] = char
  /\ \A k \in 1 .. f : text[n + 1 + k] = fraction[k]
  /\ \A i \in 1 .. n + 1 + f : i \in 1 .. n \/ i = n + 1 \/ \E k \in 1 .. f : i = n + 1 + k

LEMMA PartsOf ==
  ASSUME NEW whole \in Seq(Chars), NEW fraction \in Seq(Chars), NEW char \in Chars,
         NEW n, n = Len(whole), NEW f, f = Len(fraction)
  PROVE  HasParts(whole \o (<<char>> \o fraction), whole, char, fraction, n, f)
<1>1. <<char>> \in Seq(Chars)
  BY OneElement
<1>2. PICK tail : tail = <<char>> \o fraction
  OBVIOUS
<1>3. tail \in Seq(Chars) /\ Len(tail) = 1 + f /\ tail[1] = char
      /\ \A k \in 1 .. f : tail[1 + k] = fraction[k]
  BY <1>1, <1>2
<1>4. PICK text : text = whole \o tail
  OBVIOUS
<1>5. /\ Len(text) = n + 1 + f /\ text \in Seq(Chars)
      /\ \A i \in 1 .. n : text[i] = whole[i]
      /\ \A k \in 1 .. 1 + f : text[n + k] = tail[k]
  <2>1. /\ whole \o tail \in Seq(Chars)
        /\ Len(whole \o tail) = Len(whole) + Len(tail)
        /\ \A i \in 1 .. Len(whole) + Len(tail) : (whole \o tail)[i] =
             IF i <= Len(whole) THEN whole[i] ELSE tail[i - Len(whole)]
    <3>1. tail \in Seq(Chars)
      BY <1>3
    <3>2. QED
      BY <3>1, ConcatProperties
  <2>2. n \in Nat /\ f \in Nat
    OBVIOUS
  <2>3. Len(text) = n + (1 + f) /\ text \in Seq(Chars)
        /\ \A i \in 1 .. n + (1 + f) : text[i] = IF i <= n THEN whole[i] ELSE tail[i - n]
    BY <1>3, <1>4, <2>1
  <2>4. ASSUME NEW k \in 1 .. 1 + f PROVE text[n + k] = tail[k]
    <3>1. n + k \in 1 .. n + (1 + f) /\ ~ (n + k <= n) /\ (n + k) - n = k
      BY <2>2
    <3>2. QED
      BY <2>3, <3>1
  <2>5. \A i \in 1 .. n : i \in 1 .. n + (1 + f) /\ i <= n
    BY <2>2
  <2>6. n + (1 + f) = n + 1 + f
    BY <2>2
  <2>7. QED
    BY <2>3, <2>4, <2>5, <2>6
<1>6. n \in Nat /\ f \in Nat /\ DOMAIN text = 1 .. n + 1 + f
  BY <1>5
<1>7. text[n + 1] = char /\ \A k \in 1 .. f : text[n + 1 + k] = fraction[k]
  <2>1. 1 \in 1 .. 1 + f
    BY <1>6
  <2>2. \A k \in 1 .. f : 1 + k \in 1 .. 1 + f /\ n + 1 + k = n + (1 + k)
    BY <1>6
  <2>3. text[n + 1] = char
    BY <1>3, <1>5, <2>1
  <2>4. ASSUME NEW k \in 1 .. f PROVE text[n + 1 + k] = fraction[k]
    <3>1. text[n + (1 + k)] = tail[1 + k]
      BY <1>5, <2>2
    <3>2. QED
      BY <1>3, <2>2, <3>1
  <2>5. QED
    BY <2>3, <2>4
<1>8. ASSUME NEW i \in 1 .. n + 1 + f, i > n + 1 PROVE \E k \in 1 .. f : i = n + 1 + k
  <2>1. i - (n + 1) \in 1 .. f /\ i = n + 1 + (i - (n + 1))
    BY <1>6, <1>8
  <2>2. QED
    BY <2>1
<1>9. \A i \in 1 .. n + 1 + f : i \in 1 .. n \/ i = n + 1 \/ i > n + 1
  BY <1>6
<1>10. QED
  BY <1>2, <1>4, <1>5, <1>6, <1>7, <1>8, <1>9 DEF HasParts

(* What Decimal makes of digits, of digits around one point, and of more   *)
(* points than one.                                                        *)
LEMMA DecimalIs ==
  ASSUME NEW text \in Seq(Chars), NEW whole \in Seq(Chars), NEW fraction \in Seq(Chars),
         \A i \in DOMAIN whole : whole[i] # ".", \A i \in DOMAIN fraction : fraction[i] # "."
  PROVE  /\ text = whole => ToDecimal(text) = [whole |-> whole, fraction |-> <<>>]
         /\ text = whole \o (<<".">> \o fraction) =>
              ToDecimal(text) = [whole |-> whole, fraction |-> fraction]
         /\ Count(text, ".") > 1 => ToDecimal(text) = Unusable
<1>1. ASSUME text = whole PROVE ToDecimal(text) = [whole |-> whole, fraction |-> <<>>]
  <2>1. LastAt(text, ".") = 0 /\ Count(text, ".") = 0
    BY <1>1, NoSuch
  <2>2. QED
    BY <1>1, <2>1 DEF ToDecimal
<1>2. ASSUME text = whole \o (<<".">> \o fraction)
      PROVE  ToDecimal(text) = [whole |-> whole, fraction |-> fraction]
  <2> DEFINE n == Len(whole)
             f == Len(fraction)
  <2>1. "." \in Chars
    BY DEF Chars
  <2>2. HasParts(text, whole, ".", fraction, n, f)
    BY <1>2, <2>1, PartsOf
  <2>4. /\ Len(text) = n + 1 + f
        /\ \A i \in 1 .. n : text[i] = whole[i]
    BY <2>2 DEF HasParts
  <2>5. n \in Nat /\ f \in Nat /\ DOMAIN text = 1 .. n + 1 + f
    BY <2>2 DEF HasParts
  <2>6. text[n + 1] = "." /\ \A k \in 1 .. f : text[n + 1 + k] = fraction[k]
    BY <2>2 DEF HasParts
  <2>7. ASSUME NEW i \in DOMAIN text PROVE text[i] = "." <=> i = n + 1
    <3>1. CASE i <= n
      <4>1. i \in 1 .. n /\ i \in DOMAIN whole
        BY <2>5, <3>1
      <4>2. QED
        BY <2>4, <2>5, <3>1, <4>1
    <3>2. CASE i = n + 1
      BY <2>6, <3>2
    <3>3. CASE i > n + 1
      <4>1. i - (n + 1) \in 1 .. f /\ i = n + 1 + (i - (n + 1))
        BY <2>5, <3>3
      <4>2. PICK k \in 1 .. f : i = n + 1 + k
        BY <4>1
      <4>3. text[i] = fraction[k] /\ k \in DOMAIN fraction
        BY <2>6, <4>2
      <4>4. QED
        BY <2>5, <3>3, <4>3
    <3>4. QED
      BY <2>5, <3>1, <3>2, <3>3
  <2>8. LastAt(text, ".") = n + 1 /\ Count(text, ".") = 1
    <3>0. n + 1 \in DOMAIN text
      BY <2>5
    <3>1. PICK m \in DOMAIN text : m = n + 1
      BY <3>0
    <3>2. \A i \in DOMAIN text : text[i] = "." <=> i = m
      BY <2>7, <3>1
    <3>3. LastAt(text, ".") = m /\ Count(text, ".") = 1
      BY <3>2, OneSuch
    <3>4. QED
      BY <3>1, <3>3
  <2> HIDE DEF n, f
  <2>9. ToDecimal(text) = [whole |-> SubSeq(text, 1, n),
                           fraction |-> SubSeq(text, n + 2, n + 1 + f)]
    <3>1. PICK dot, to : dot = LastAt(text, ".") /\ to = Len(text)
      OBVIOUS
    <3>2. /\ dot - 1 = n /\ dot + 1 = n + 2 /\ to = n + 1 + f
          /\ dot # 0 /\ ~ (Count(text, ".") > 1)
      BY <2>4, <2>5, <2>8, <3>1
    <3>3. ToDecimal(text) = [whole |-> SubSeq(text, 1, dot - 1),
                             fraction |-> SubSeq(text, dot + 1, to)]
      BY <3>1, <3>2 DEF ToDecimal
    <3>4. QED
      BY <3>2, <3>3
  <2>10. SubSeq(text, 1, n) = whole
    <3>1. \A i \in 1 .. n : text[i] \in Chars
      BY <2>5
    <3>2. /\ SubSeq(text, 1, n) \in Seq(Chars)
          /\ Len(SubSeq(text, 1, n)) = n
          /\ \A i \in 1 .. n : SubSeq(text, 1, n)[i] = text[i]
      BY <2>5, <3>1
    <3>3. QED
      BY <2>4, <3>2, SeqEqual DEF n
  <2>11. SubSeq(text, n + 2, n + 1 + f) = fraction
    <3>1. \A i \in n + 2 .. n + 1 + f : text[i] \in Chars
      BY <2>5
    <3>2. PICK a \in Int, b \in Int : a = n + 2 /\ b = n + 1 + f
      BY <2>5
    <3>3. PICK part : part = SubSeq(text, a, b)
      OBVIOUS
    <3>4. /\ part \in Seq(Chars) /\ Len(part) = IF a <= b THEN b - a + 1 ELSE 0
          /\ \A i \in 1 .. b - a + 1 : part[i] = text[a + i - 1]
      BY <3>1, <3>2, <3>3, SubSeqProperties
    <3>5. Len(part) = f /\ b - a + 1 = f
      BY <2>5, <3>2, <3>4
    <3>6. \A i \in 1 .. f : part[i] = fraction[i]
      <4> TAKE i \in 1 .. f
      <4>1. a + i - 1 = n + 1 + i
        BY <2>5, <3>2
      <4>2. QED
        BY <2>6, <3>4, <3>5, <4>1
    <3>7. part = fraction
      BY <3>4, <3>5, <3>6, SeqEqual DEF f
    <3>8. QED
      BY <3>2, <3>3, <3>7
  <2>12. QED
    BY <2>9, <2>10, <2>11
<1>3. Count(text, ".") > 1 => ToDecimal(text) = Unusable
  BY DEF ToDecimal
<1>4. QED
  BY <1>1, <1>2, <1>3

BothWays(point, other) == <<point, other>> \in {<<",", ".">>, <<".", ",">>}

(* The text with the later of its separators for decimal point.            *)
NormalisedAs(normalised, cleaned, decimal, thousands, last, other) ==
  /\ last = 0 /\ other = 0 => normalised = cleaned
  /\ last > other =>
       /\ Len(cleaned) - last = 3 /\ Count(cleaned, decimal) = 1 /\ Count(cleaned, thousands) = 0 =>
            normalised = Without(cleaned, {decimal})
       /\ ~ (Len(cleaned) - last = 3 /\ Count(cleaned, decimal) = 1
              /\ Count(cleaned, thousands) = 0) =>
            normalised = Replace(Without(cleaned, {thousands}), decimal, ".")

LEMMA NormaliseIs ==
  ASSUME NEW text, NEW cleaned, cleaned = Without(text, Blanks),
         NEW decimal, NEW thousands, BothWays(decimal, thousands),
         NEW last \in Nat, LastAt(cleaned, decimal) = last,
         NEW other \in Nat, LastAt(cleaned, thousands) = other
  PROVE  NormalisedAs(NormaliseNumberText(text), cleaned, decimal, thousands, last, other)
<1>0. (decimal = "," /\ thousands = ".") \/ (decimal = "." /\ thousands = ",")
  BY DEF BothWays
<1>1. CASE decimal = "," /\ thousands = "."
  <2>1. last > other => Max({last, other}) = last /\ last # 0
    BY MaxOfTwo
  <2>2. QED
    BY <1>1, <2>1 DEF NormaliseNumberText, NormalisedAs
<1>2. CASE decimal = "." /\ thousands = ","
  <2>1. last > other => Max({other, last}) = last /\ last # 0 /\ ~ (other > last)
    BY MaxOfTwo
  <2>2. QED
    BY <1>2, <2>1 DEF NormaliseNumberText, NormalisedAs
<1>3. QED
  BY <1>0, <1>1, <1>2

-----------------------------------------------------------------------------
(* c separators among n digits, the last of them before the last three.    *)
Separated(text, n, N, at, group, c) ==
  /\ c \in Nat /\ N = n + c
  /\ c = 0 => \A p \in 1 .. N : \E i \in 1 .. n : p = at[i]
  /\ c > 0 => /\ N - 3 \in 1 .. N /\ text[N - 3] = group
              /\ \A p \in N - 2 .. N : \E i \in 1 .. n : p = at[i]

(* What comes after: a point and decimals, where there are any.            *)
Ends(tail, point, fraction) ==
  tail = IF fraction = <<>> THEN <<>> ELSE <<point>> \o fraction

EndsAs(tail, point, fraction) ==
  /\ tail \in Seq(Chars) /\ fraction \in Seq(Chars)
  /\ fraction = <<>> => Len(tail) = 0
  /\ fraction # <<>> => /\ tail = <<point>> \o fraction
                        /\ Len(tail) = 1 + Len(fraction) /\ tail[1] = point
                        /\ \A k \in 1 .. Len(fraction) : tail[1 + k] = fraction[k]

LEMMA EndsIn ==
  ASSUME NEW point \in Chars, NEW fraction \in Seq({"0", "1", "5"}), NEW tail,
         Ends(tail, point, fraction)
  PROVE  EndsAs(tail, point, fraction)
<1>1. {"0", "1", "5"} \subseteq Chars
  BY DEF Chars
<1>2. fraction \in Seq(Chars)
  BY <1>1, Wider
<1>3. <<point>> \in Seq(Chars) /\ Len(<<point>>) = 1 /\ <<point>>[1] = point
  BY OneElement
<1>4. CASE fraction = <<>>
  BY <1>2, <1>4 DEF Ends, EndsAs
<1>5. CASE fraction # <<>>
  <2>1. tail = <<point>> \o fraction
    BY <1>5 DEF Ends
  <2>2. PICK head \in Seq(Chars) : head = <<point>>
    BY <1>3
  <2>3. /\ head \o fraction \in Seq(Chars)
        /\ Len(head \o fraction) = Len(head) + Len(fraction)
        /\ \A i \in 1 .. Len(head) + Len(fraction) : (head \o fraction)[i] =
             IF i <= Len(head) THEN head[i] ELSE fraction[i - Len(head)]
    BY <1>2, ConcatProperties
  <2>4. Len(fraction) \in Nat /\ Len(head) = 1 /\ head[1] = point /\ tail = head \o fraction
    BY <1>3, <2>1, <2>2
  <2>5. Len(tail) = 1 + Len(fraction) /\ tail \in Seq(Chars) /\ tail[1] = point
    BY <2>3, <2>4
  <2>6. ASSUME NEW k \in 1 .. Len(fraction) PROVE tail[1 + k] = fraction[k]
    <3>1. 1 + k \in 1 .. Len(head) + Len(fraction) /\ ~ (1 + k <= Len(head))
          /\ (1 + k) - Len(head) = k
      BY <2>4
    <3>2. QED
      BY <2>3, <2>4, <3>1
  <2>7. QED
    BY <1>2, <1>5, <2>1, <2>5, <2>6 DEF EndsAs
<1>6. QED
  BY <1>4, <1>5

(* Where its marks are, with f decimals.                                   *)
Shape(text, n, N, c, point, other, f) ==
  /\ text \in Seq(Chars) /\ n \in Nat \ {0} /\ N = n + c /\ c \in Nat /\ f \in Nat
  /\ f = 0 => Len(text) = N
  /\ f > 0 => Len(text) = N + 1 + f
  /\ \A i \in DOMAIN text : text[i] = point <=> f > 0 /\ i = N + 1
  /\ Count(text, other) = c
  /\ c = 0 => LastAt(text, other) = 0
  /\ c > 0 => LastAt(text, other) = N - 3 /\ N - 3 \in 1 .. N

(* The characters of such a text, after spaces and apostrophes are gone.   *)
LEMMA Characters ==
  ASSUME NEW text, NEW n, NEW N, NEW at, NEW whole, NEW tail, NEW group, NEW c,
         Spells(text, n, N, at, whole, tail, group), Separated(text, n, N, at, group, c),
         NEW point, NEW other, BothWays(point, other), group = other \/ c = 0,
         NEW fraction \in Seq({"0", "1", "5"}), Ends(tail, point, fraction),
         NEW f, f = Len(fraction)
  PROVE  Shape(text, n, N, c, point, other, f)
<1>1. /\ n \in Nat \ {0} /\ N \in Nat
      /\ whole \in Seq({"1", "2"}) /\ Len(whole) = n
      /\ tail \in Seq(Chars) /\ group \in Separators
      /\ text \in Seq(Chars) /\ Len(text) = N + Len(tail)
      /\ at \in [1 .. n -> 1 .. N]
      /\ \A i, j \in 1 .. n : i < j => at[i] < at[j]
      /\ \A i \in 1 .. n : text[at[i]] = whole[i]
      /\ \A p \in 1 .. N : (\E i \in 1 .. n : p = at[i]) \/ text[p] = group
      /\ \A k \in 1 .. Len(tail) : text[N + k] = tail[k]
  BY DEF Spells
<1>2. /\ c \in Nat /\ N = n + c
      /\ c = 0 => \A p \in 1 .. N : \E i \in 1 .. n : p = at[i]
      /\ c > 0 => /\ N - 3 \in 1 .. N /\ text[N - 3] = group
                  /\ \A p \in N - 2 .. N : \E i \in 1 .. n : p = at[i]
  BY DEF Separated
<1>3. point # other /\ point \in {",", "."} /\ other \in {",", "."} /\ point \in Chars
  BY DEF BothWays, Chars
<1>4. \A i \in 1 .. n : text[at[i]] \in {"1", "2"}
  <2>1. \A i \in 1 .. n : whole[i] \in {"1", "2"}
    BY <1>1, Element
  <2>2. QED
    BY <1>1, <2>1
<1>5. /\ fraction = <<>> => Len(tail) = 0
      /\ fraction # <<>> => /\ Len(tail) = 1 + Len(fraction) /\ tail[1] = point
                            /\ \A k \in 1 .. Len(fraction) : tail[1 + k] = fraction[k]
  <2>1. point \in Chars
    BY <1>3
  <2>2. QED
    <3>1. EndsAs(tail, point, fraction)
      BY <2>1, EndsIn
    <3>2. QED
      BY <3>1 DEF EndsAs
<1>6. DOMAIN text = 1 .. N + Len(tail) /\ Len(tail) \in Nat /\ Len(fraction) \in Nat
  BY <1>1
<1>7. \A i \in 1 .. N : (\E j \in 1 .. n : i = at[j]) \/ (text[i] = other /\ c > 0)
  BY <1>1, <1>2
<1>8. \A i \in 1 .. N : text[i] \in {"1", "2"} \/ text[i] = other
  BY <1>4, <1>7
<1>9. \A i \in 1 .. Len(tail) :
        /\ i = 1 => text[N + i] = point
        /\ i # 1 => text[N + i] \in {"0", "1", "5"}
  <2> TAKE i \in 1 .. Len(tail)
  <2>1. fraction # <<>>
    BY <1>5
  <2>2. CASE i # 1
    <3>1. i - 1 \in 1 .. Len(fraction) /\ i = 1 + (i - 1)
      BY <1>5, <1>6, <2>1, <2>2
    <3>2. PICK k \in 1 .. Len(fraction) : i = 1 + k
      BY <3>1
    <3>3. tail[i] = fraction[k] /\ fraction[k] \in {"0", "1", "5"}
      BY <1>5, <2>1, <3>2
    <3>4. QED
      BY <1>1, <2>2, <3>3
  <2>3. QED
    BY <1>1, <1>5, <2>1, <2>2
<1>10. \A i \in DOMAIN text : i \in 1 .. N \/ (i - N \in 1 .. Len(tail) /\ i = N + (i - N))
  BY <1>1, <1>6
<1>11. ASSUME NEW i \in DOMAIN text
       PROVE  /\ text[i] = point <=> fraction # <<>> /\ i = N + 1
              /\ text[i] = other => i \in 1 .. N
  <2>1. CASE i \in 1 .. N
    <3>1. text[i] # point
      BY <1>3, <1>8, <2>1
    <3>2. i # N + 1
      BY <1>1, <2>1
    <3>3. QED
      BY <2>1, <3>1, <3>2
  <2>2. CASE i - N \in 1 .. Len(tail) /\ i = N + (i - N)
    <3>1. PICK k \in 1 .. Len(tail) : i = N + k
      BY <2>2
    <3>2. fraction # <<>> /\ (i = N + 1 <=> k = 1)
      BY <1>1, <1>5, <3>1
    <3>3. /\ k = 1 => text[i] = point
          /\ k # 1 => text[i] \in {"0", "1", "5"}
      BY <1>9, <3>1
    <3>4. QED
      BY <1>3, <3>2, <3>3
  <2>3. QED
    BY <1>10, <2>1, <2>2
<1> DEFINE K == {at[i] : i \in 1 .. n}
           S == {i \in DOMAIN text : text[i] = other}
<1>12. S = (1 .. N) \ K
  <2>1. ASSUME NEW i \in S PROVE i \in (1 .. N) \ K
    <3>1. i \in 1 .. N /\ text[i] = other
      BY <1>11
    <3>2. i \notin K
      BY <1>3, <1>4, <3>1
    <3>3. QED
      BY <3>1, <3>2
  <2>2. ASSUME NEW i \in (1 .. N) \ K PROVE i \in S
    <3>1. text[i] = other /\ i \in DOMAIN text
      BY <1>1, <1>6, <1>7
    <3>2. QED
      BY <3>1
  <2>3. QED
    BY <2>1, <2>2
<1>13. Cardinality(S) = c
  <2>1. Lists(at, n, K)
    <3>1. at \in [1 .. n -> Int]
      BY <1>1
    <3>2. QED
      BY <1>1, <3>1 DEF Lists
  <2>2. K \subseteq 1 .. N
    BY <1>1
  <2> HIDE DEF K
  <2>3. IsFiniteSet(1 .. N) /\ Cardinality(1 .. N) = N
    BY <1>1, FS_Interval
  <2>4. n \in Nat /\ Cardinality(K) = n
    BY <1>1, <2>1, ListCounts
  <2>5. (1 .. N) \cap K = K
    BY <2>2
  <2>6. Cardinality((1 .. N) \ K) = N - n
    <3>1. PICK I : I = 1 .. N
      OBVIOUS
    <3>2. IsFiniteSet(I) /\ Cardinality(I) = N /\ I \cap K = K
      BY <2>3, <2>5, <3>1
    <3>3. Cardinality(I \ K) = Cardinality(I) - Cardinality(I \cap K)
      BY <3>2, FS_Difference
    <3>4. QED
      BY <2>4, <3>1, <3>2, <3>3
  <2> HIDE DEF S
  <2>7. QED
    BY <1>1, <1>2, <1>12, <2>6
<1>14. Count(text, other) = c
  BY <1>13 DEF Count
<1>15. LastAt(text, other) = IF c = 0 THEN 0 ELSE N - 3
  <2>1. CASE c = 0
    <3>1. \A i \in 1 .. N : text[i] # other
      <4> TAKE i \in 1 .. N
      <4>1. PICK j \in 1 .. n : i = at[j]
        BY <1>2, <2>1
      <4>2. QED
        BY <1>3, <1>4, <4>1
    <3>2. \A i \in DOMAIN text : text[i] # other
      BY <1>11, <3>1
    <3>3. QED
      BY <1>1, <2>1, <3>2, NoSuch
  <2>2. CASE c > 0
    <3>1. PICK m \in 1 .. N : m = N - 3
      BY <1>2, <2>2
    <3>2. m \in Nat /\ m \in DOMAIN text /\ text[m] = other
      <4>1. text[m] = group /\ group = other
        BY <1>2, <2>2, <3>1
      <4>2. QED
        BY <1>1, <1>6, <4>1
    <3>3. \A i \in DOMAIN text : text[i] = other => i <= m
      <4> TAKE i \in DOMAIN text
      <4> HAVE text[i] = other
      <4>1. i \in 1 .. N
        BY <1>11
      <4>2. i \notin N - 2 .. N
        BY <1>2, <1>3, <1>4, <2>2
      <4>3. QED
        BY <1>1, <3>1, <4>1, <4>2
    <3>4. LastAt(text, other) = m
      BY <1>1, <3>2, <3>3, LastIs
    <3>5. QED
      BY <2>2, <3>1, <3>4
  <2>3. QED
    BY <1>2, <2>1, <2>2
<1>16. f \in Nat /\ (fraction = <<>> <=> f = 0) /\ (fraction # <<>> <=> f > 0)
  <2>1. Len(fraction) \in Nat /\ (Len(fraction) = 0 <=> fraction = <<>>)
    BY LengthZero
  <2>2. QED
    BY <2>1
<1>17. (f = 0 => Len(text) = N) /\ (f > 0 => Len(text) = N + 1 + f)
  <2>1. f = Len(fraction)
    OBVIOUS
  <2>2. (f = 0 => Len(tail) = 0) /\ (f > 0 => Len(tail) = 1 + f)
    BY <1>5, <1>16, <2>1
  <2>3. N \in Nat /\ f \in Nat /\ Len(text) = N + Len(tail)
    BY <1>1, <1>16
  <2>4. QED
    BY <2>2, <2>3
<1>18. \A i \in DOMAIN text : text[i] = point <=> f > 0 /\ i = N + 1
  BY <1>11, <1>16
<1>19. QED
  BY <1>1, <1>2, <1>14, <1>15, <1>16, <1>17, <1>18 DEF Shape

(* The point of a text of the form whole, point, fraction.                 *)
LEMMA PointReplaced ==
  ASSUME NEW point \in Chars, NEW fraction \in Seq({"0", "1", "5"}),
         NEW whole \in Seq({"1", "2"}), point \in {",", "."}
  PROVE  Replace(whole \o (<<point>> \o fraction), point, ".") = whole \o (<<".">> \o fraction)
<1>1. "." \in Chars /\ {"0", "1", "5"} \subseteq Chars /\ {"1", "2"} \subseteq Chars
  BY DEF Chars
<1>2. fraction \in Seq(Chars) /\ whole \in Seq(Chars)
  BY <1>1, Wider
<1>0. /\ \A k \in 1 .. Len(fraction) : fraction[k] \in {"0", "1", "5"}
      /\ \A k \in 1 .. Len(whole) : whole[k] \in {"1", "2"}
  BY Element
<1>3. PICK n, f, text, read : /\ n = Len(whole) /\ f = Len(fraction)
                              /\ text = whole \o (<<point>> \o fraction)
                              /\ read = whole \o (<<".">> \o fraction)
  OBVIOUS
<1>4. HasParts(text, whole, point, fraction, n, f) /\ HasParts(read, whole, ".", fraction, n, f)
  BY <1>1, <1>2, <1>3, PartsOf
<1>5. PICK N : N = n + 1 + f
  OBVIOUS
<1>6. /\ DOMAIN text = 1 .. N /\ DOMAIN read = 1 .. N /\ read \in Seq(Chars)
      /\ \A i \in 1 .. N : i \in 1 .. n \/ i = n + 1 \/ \E k \in 1 .. f : i = n + 1 + k
  BY <1>4, <1>5 DEF HasParts
<1>7. ASSUME NEW i \in 1 .. N PROVE (IF text[i] = point THEN "." ELSE text[i]) = read[i]
  <2>1. CASE i \in 1 .. n
    <3>1. text[i] = whole[i] /\ read[i] = whole[i]
      BY <1>4, <2>1 DEF HasParts
    <3>2. whole[i] \in {"1", "2"}
      BY <1>0, <1>3, <2>1
    <3>3. QED
      BY <3>1, <3>2
  <2>2. CASE i = n + 1
    BY <1>4, <2>2 DEF HasParts
  <2>3. CASE \E k \in 1 .. f : i = n + 1 + k
    <3>1. PICK k \in 1 .. f : i = n + 1 + k
      BY <2>3
    <3>2. text[i] = fraction[k] /\ read[i] = fraction[k]
      BY <1>4, <3>1 DEF HasParts
    <3>3. fraction[k] \in {"0", "1", "5"}
      BY <1>0, <1>3
    <3>4. QED
      BY <3>2, <3>3
  <2>4. QED
    BY <1>6, <2>1, <2>2, <2>3
<1>8. Replace(text, point, ".") = [i \in 1 .. N |-> IF text[i] = point THEN "." ELSE text[i]]
  BY <1>6 DEF Replace
<1>9. read = [i \in 1 .. N |-> read[i]]
  <2>1. Len(read) = N
    BY <1>4, <1>5 DEF HasParts
  <2>2. QED
    BY <1>6, <2>1, Element
<1>10. QED
  BY <1>3, <1>7, <1>8, <1>9

AsPoint(normalised, cleaned, point, other, c, f) ==
  /\ f = 3 /\ c = 0 => normalised = Without(cleaned, {point})
  /\ ~ (f = 3 /\ c = 0) => normalised = Replace(Without(cleaned, {other}), point, ".")

AsWhole(normalised, cleaned, other, c) ==
  /\ c = 0 => normalised = cleaned
  /\ c = 1 => normalised = Without(cleaned, {other})
  /\ c > 1 => ToDecimal(normalised) = Unusable

(* What such a text is normalised to, once its spaces and apostrophes are  *)
(* gone: with a point,                                                     *)
LEMMA NormalisedPoint ==
  ASSUME NEW cleaned, NEW n, NEW N, NEW c, NEW point, NEW other, NEW f,
         Shape(cleaned, n, N, c, point, other, f), BothWays(point, other), f > 0,
         NEW text, cleaned = Without(text, Blanks)
  PROVE  AsPoint(NormaliseNumberText(text), cleaned, point, other, c, f)
<1>1. /\ cleaned \in Seq(Chars) /\ n \in Nat \ {0} /\ N = n + c /\ c \in Nat /\ f \in Nat
      /\ Len(cleaned) = N + 1 + f
      /\ \A i \in DOMAIN cleaned : cleaned[i] = point <=> i = N + 1
      /\ Count(cleaned, other) = c
      /\ c = 0 => LastAt(cleaned, other) = 0
      /\ c > 0 => LastAt(cleaned, other) = N - 3 /\ N - 3 \in 1 .. N
  BY DEF Shape
<1>2. PICK m : m = N + 1
  OBVIOUS
<1>3. m \in Nat /\ Len(cleaned) - m = f /\ m \in DOMAIN cleaned
  BY <1>1, <1>2
<1>4. LastAt(cleaned, point) = m /\ Count(cleaned, point) = 1
  BY <1>1, <1>2, <1>3, OneSuch
<1>5. PICK o : o = LastAt(cleaned, other)
  OBVIOUS
<1>6. o \in Nat /\ m > o
  BY <1>1, <1>2, <1>5
<1>7. NormalisedAs(NormaliseNumberText(text), cleaned, point, other, m, o)
  BY <1>3, <1>4, <1>5, <1>6, NormaliseIs
<1>8. QED
  BY <1>1, <1>3, <1>4, <1>6, <1>7 DEF NormalisedAs, AsPoint

(* and without one.                                                        *)
LEMMA NormalisedWhole ==
  ASSUME NEW cleaned, NEW n, NEW N, NEW c, NEW point, NEW other,
         Shape(cleaned, n, N, c, point, other, 0), BothWays(point, other),
         NEW text, cleaned = Without(text, Blanks)
  PROVE  AsWhole(NormaliseNumberText(text), cleaned, other, c)
<1>1. /\ cleaned \in Seq(Chars) /\ n \in Nat \ {0} /\ N = n + c /\ c \in Nat
      /\ Len(cleaned) = N
      /\ \A i \in DOMAIN cleaned : cleaned[i] # point
      /\ Count(cleaned, other) = c
      /\ c = 0 => LastAt(cleaned, other) = 0
      /\ c > 0 => LastAt(cleaned, other) = N - 3 /\ N - 3 \in 1 .. N
  BY DEF Shape
<1>2. LastAt(cleaned, point) = 0 /\ Count(cleaned, point) = 0
  BY <1>1, NoSuch
<1>3. PICK m : m = LastAt(cleaned, other)
  OBVIOUS
<1>4. m \in Nat /\ (c = 0 => m = 0) /\ (c > 0 => m > 0 /\ Len(cleaned) - m = 3)
  BY <1>1, <1>3
<1>5. BothWays(other, point) /\ 0 \in Nat
  BY DEF BothWays
<1>6. NormalisedAs(NormaliseNumberText(text), cleaned, other, point, m, 0)
  BY <1>2, <1>3, <1>4, <1>5, NormaliseIs
<1>7. ASSUME c > 1 PROVE ToDecimal(NormaliseNumberText(text)) = Unusable
  <2>1. Without(cleaned, {point}) = cleaned
    <3>1. \A i \in DOMAIN cleaned : cleaned[i] \notin {point}
      BY <1>1
    <3>2. QED
      BY <1>1, <3>1, WithoutNone
  <2>2. PICK wrong : wrong = Replace(cleaned, other, ".")
    OBVIOUS
  <2>3. c # 0 /\ c > 0 /\ c # 1
    BY <1>1, <1>7
  <2>4. NormaliseNumberText(text) = wrong
    BY <1>1, <1>4, <1>6, <2>1, <2>2, <2>3 DEF NormalisedAs
  <2>5. wrong = [i \in DOMAIN cleaned |-> IF cleaned[i] = other THEN "." ELSE cleaned[i]]
    BY <2>2 DEF Replace
  <2>6. \A i \in DOMAIN cleaned : wrong[i] = "." <=> cleaned[i] = other
    <3>1. point = "." \/ other = "."
      BY DEF BothWays
    <3>2. QED
      BY <1>1, <2>5, <3>1
  <2>7. DOMAIN wrong = DOMAIN cleaned
    BY <2>5
  <2>8. {i \in DOMAIN wrong : wrong[i] = "."} = {i \in DOMAIN cleaned : cleaned[i] = other}
    BY <2>6, <2>7
  <2>9. Count(wrong, ".") > 1
    BY <1>1, <1>7, <2>8 DEF Count
  <2>10. QED
    BY <2>4, <2>9 DEF ToDecimal
<1>8. QED
  BY <1>1, <1>2, <1>4, <1>6, <1>7 DEF NormalisedAs, AsWhole

MarksGone(text, whole, tail, point, other, fraction, c) ==
  /\ Without(text, {other}) = whole \o tail
  /\ c = 0 => Without(text, {}) = whole \o tail
  /\ c = 0 /\ fraction # <<>> => Without(text, {point}) = whole \o fraction

(* A spelled text without its separators, and without its point.           *)
LEMMA WithoutMarks ==
  ASSUME NEW text, NEW n, NEW N, NEW at, NEW whole, NEW tail, NEW group, NEW c,
         Spells(text, n, N, at, whole, tail, group), Separated(text, n, N, at, group, c),
         NEW point, NEW other, BothWays(point, other), group = other \/ c = 0,
         NEW fraction \in Seq({"0", "1", "5"}), Ends(tail, point, fraction)
  PROVE  MarksGone(text, whole, tail, point, other, fraction, c)
<1>1. point # other /\ point \in {",", "."} /\ other \in {",", "."} /\ point \in Chars
  BY DEF BothWays, Chars
<1>2. {point} \in SUBSET Separators /\ {other} \in SUBSET Separators /\ {} \in SUBSET Separators
  BY <1>1 DEF Separators
<1>3. EndsAs(tail, point, fraction)
  BY <1>1, EndsIn
<1>4. /\ tail \in Seq(Chars) /\ fraction \in Seq(Chars)
      /\ Len(tail) \in Nat /\ Len(fraction) \in Nat
      /\ fraction = <<>> => Len(tail) = 0
      /\ fraction # <<>> => /\ Len(tail) = 1 + Len(fraction) /\ tail[1] = point
                            /\ \A k \in 1 .. Len(fraction) : tail[1 + k] = fraction[k]
  BY <1>3, LengthZero DEF EndsAs
<1>5. \A k \in 1 .. Len(fraction) : fraction[k] \in {"0", "1", "5"}
  BY Element
<1>6. c = 0 => \A p \in 1 .. N : \E i \in 1 .. n : p = at[i]
  BY DEF Separated
<1>7. ASSUME NEW k \in 1 .. Len(tail) PROVE tail[k] # other
  <2>1. fraction # <<>>
    BY <1>4
  <2>2. CASE k = 1
    BY <1>1, <1>4, <2>1, <2>2
  <2>3. CASE k # 1
    <3>1. k - 1 \in 1 .. Len(fraction) /\ k = 1 + (k - 1)
      BY <1>4, <2>1, <2>3
    <3>2. PICK q \in 1 .. Len(fraction) : k = 1 + q
      BY <3>1
    <3>3. tail[k] = fraction[q] /\ fraction[q] \in {"0", "1", "5"}
      BY <1>4, <1>5, <2>1, <3>2
    <3>4. QED
      BY <1>1, <3>3
  <2>4. QED
    BY <2>2, <2>3
<1>8. ASSUME NEW X \in SUBSET Separators, X \subseteq {other}, group \in X \/ c = 0
      PROVE  Without(text, X) = whole \o tail
  <2>1. PICK d \in Nat : d = 0
    OBVIOUS
  <2>2. Len(tail) = d + Len(tail) /\ \A k \in 1 .. Len(tail) : tail[d + k] = tail[k]
    BY <1>4, <2>1
  <2>3. \A k \in 1 .. d : tail[k] \in X
    BY <2>1
  <2>4. \A k \in 1 .. Len(tail) : tail[k] \notin X
    BY <1>7, <1>8
  <2>5. group \in X \/ \A p \in 1 .. N : \E i \in 1 .. n : p = at[i]
    BY <1>6, <1>8
  <2>6. LeavesOut(X, d, tail, n, N, at, tail, group)
    BY <1>4, <1>8, <2>2, <2>3, <2>4, <2>5 DEF LeavesOut
  <2>7. QED
    BY <2>6, WithoutIs
<1>9. ASSUME c = 0, fraction # <<>> PROVE Without(text, {point}) = whole \o fraction
  <2>1. PICK d \in Nat : d = 1
    OBVIOUS
  <2>2. Len(tail) = d + Len(fraction) /\ \A k \in 1 .. Len(fraction) : tail[d + k] = fraction[k]
    BY <1>4, <1>9, <2>1
  <2>3. \A k \in 1 .. d : tail[k] \in {point}
    BY <1>4, <1>9, <2>1
  <2>4. \A k \in 1 .. Len(fraction) : fraction[k] \notin {point}
    BY <1>1, <1>5
  <2>5. group \in {point} \/ \A p \in 1 .. N : \E i \in 1 .. n : p = at[i]
    BY <1>6, <1>9
  <2>6. PICK X : X = {point}
    OBVIOUS
  <2>7. LeavesOut(X, d, fraction, n, N, at, tail, group)
    BY <1>2, <1>4, <2>2, <2>3, <2>4, <2>5, <2>6 DEF LeavesOut
  <2>8. Without(text, X) = whole \o fraction
    BY <2>7, WithoutIs
  <2>9. QED
    BY <2>6, <2>8
<1>10. QED
  BY <1>2, <1>8, <1>9 DEF MarksGone

(* A text of digits alone.                                                 *)
LEMMA AllDigits ==
  ASSUME NEW digits \in Seq({"0", "1", "2", "5"})
  PROVE  digits \in Seq(Chars) /\ ToDecimal(digits) = [whole |-> digits, fraction |-> <<>>]
<1>1. {"0", "1", "2", "5"} \subseteq Chars
  BY DEF Chars
<1>2. digits \in Seq(Chars)
  BY <1>1, Wider
<1>3. \A i \in DOMAIN digits : digits[i] # "."
  BY Element
<1>4. \A i \in DOMAIN <<>> : <<>>[i] # "."
  BY NoElement
<1>5. <<>> \in Seq(Chars)
  BY NoElement
<1>6. PICK empty \in Seq(Chars) : empty = <<>>
  BY <1>5
<1>7. ToDecimal(digits) = [whole |-> digits, fraction |-> <<>>]
  BY <1>2, <1>3, <1>4, <1>6, DecimalIs
<1>8. QED
  BY <1>2, <1>7

(* What a text is read as, once its spaces and apostrophes are gone.       *)
ReadsAs(read, whole, fraction, c) ==
  /\ Len(fraction) = 3 /\ c = 0 => read = [whole |-> whole \o fraction, fraction |-> <<>>]
  /\ fraction = <<>> /\ c > 1 => read = Unusable
  /\ ~ (Len(fraction) = 3 /\ c = 0) /\ ~ (fraction = <<>> /\ c > 1) =>
       read = [whole |-> whole, fraction |-> fraction]

LEMMA ReadIs ==
  ASSUME NEW cleaned, NEW n, NEW N, NEW at, NEW whole, NEW tail, NEW group, NEW c,
         Spells(cleaned, n, N, at, whole, tail, group),
         Separated(cleaned, n, N, at, group, c),
         NEW point, NEW other, BothWays(point, other), group = other \/ c = 0,
         NEW fraction \in Seq({"0", "1", "5"}), Ends(tail, point, fraction),
         NEW text, cleaned = Without(text, Blanks)
  PROVE  ReadsAs(ToDecimal(NormaliseNumberText(text)), whole, fraction, c)
<1>1. PICK f : f = Len(fraction)
  OBVIOUS
<1>2. Shape(cleaned, n, N, c, point, other, f)
  BY <1>1, Characters
<1>3. /\ cleaned \in Seq(Chars) /\ c \in Nat /\ f \in Nat /\ (f = 0 <=> fraction = <<>>)
  BY <1>1, <1>2, LengthZero DEF Shape
<1>4. /\ Without(cleaned, {other}) = whole \o tail
      /\ c = 0 => Without(cleaned, {}) = whole \o tail
      /\ c = 0 /\ fraction # <<>> => Without(cleaned, {point}) = whole \o fraction
  <2>1. MarksGone(cleaned, whole, tail, point, other, fraction, c)
    BY WithoutMarks
  <2>2. QED
    BY <2>1 DEF MarksGone
<1>5. point \in {",", "."} /\ point \in Chars
  BY DEF BothWays, Chars
<1>6. whole \in Seq({"1", "2"}) /\ {"1", "2"} \subseteq {"0", "1", "2", "5"}
      /\ {"0", "1", "5"} \subseteq {"0", "1", "2", "5"}
  BY DEF Spells
<1>7. whole \in Seq({"0", "1", "2", "5"}) /\ fraction \in Seq({"0", "1", "2", "5"})
  BY <1>6, Wider
<1>8. CASE f > 0
  <2>1. fraction # <<>> /\ f # 0
    BY <1>3, <1>8
  <2>2. /\ f = 3 /\ c = 0 => NormaliseNumberText(text) = Without(cleaned, {point})
        /\ ~ (f = 3 /\ c = 0) =>
             NormaliseNumberText(text) = Replace(Without(cleaned, {other}), point, ".")
    <3>1. AsPoint(NormaliseNumberText(text), cleaned, point, other, c, f)
      BY <1>2, <1>8, NormalisedPoint
    <3>2. QED
      BY <3>1 DEF AsPoint
  <2>3. CASE f = 3 /\ c = 0
    <3>1. NormaliseNumberText(text) = whole \o fraction
      BY <1>4, <2>1, <2>2, <2>3
    <3>2. whole \o fraction \in Seq({"0", "1", "2", "5"})
      BY <1>7, ConcatProperties
    <3>3. ToDecimal(whole \o fraction) = [whole |-> whole \o fraction, fraction |-> <<>>]
      BY <3>2, AllDigits
    <3>4. QED
      BY <1>1, <2>1, <2>3, <3>1, <3>3 DEF ReadsAs
  <2>4. CASE ~ (f = 3 /\ c = 0)
    <3>1. tail = <<point>> \o fraction
      BY <2>1 DEF Ends
    <3>2. NormaliseNumberText(text) = whole \o (<<".">> \o fraction)
      BY <1>4, <1>5, <1>6, <2>2, <2>4, <3>1, PointReplaced
    <3>3. PICK number : number = whole \o (<<".">> \o fraction)
      OBVIOUS
    <3>4. whole \in Seq(Chars) /\ fraction \in Seq(Chars)
      BY <1>7, AllDigits
    <3>5. number \in Seq(Chars)
      <4>1. "." \in Chars
        BY DEF Chars
      <4>2. PICK l, m : l = Len(whole) /\ m = Len(fraction)
        OBVIOUS
      <4>3. HasParts(number, whole, ".", fraction, l, m)
        BY <3>3, <3>4, <4>1, <4>2, PartsOf
      <4>4. QED
        BY <4>3 DEF HasParts
    <3>6. /\ \A i \in DOMAIN whole : whole[i] # "."
          /\ \A i \in DOMAIN fraction : fraction[i] # "."
      BY <1>7, Element
    <3>7. ToDecimal(number) = [whole |-> whole, fraction |-> fraction]
      BY <3>3, <3>4, <3>5, <3>6, DecimalIs
    <3>8. QED
      BY <1>1, <2>1, <2>4, <3>2, <3>3, <3>7 DEF ReadsAs
  <2>5. QED
    BY <2>3, <2>4
<1>9. CASE f = 0
  <2>1. fraction = <<>> /\ tail = <<>> /\ Len(fraction) # 3
    BY <1>1, <1>3, <1>9 DEF Ends
  <2>2. whole \o tail = whole
    BY <1>6, <2>1, ConcatEmptySeq
  <2>3. ToDecimal(whole) = [whole |-> whole, fraction |-> fraction]
    BY <1>7, <2>1, AllDigits
  <2>4. Shape(cleaned, n, N, c, point, other, 0)
    BY <1>2, <1>9
  <2>5. /\ c = 0 => NormaliseNumberText(text) = cleaned
        /\ c = 1 => NormaliseNumberText(text) = Without(cleaned, {other})
        /\ c > 1 => ToDecimal(NormaliseNumberText(text)) = Unusable
    <3>1. AsWhole(NormaliseNumberText(text), cleaned, other, c)
      BY <2>4, NormalisedWhole
    <3>2. QED
      BY <3>1 DEF AsWhole
  <2>6. Without(cleaned, {}) = cleaned
    BY <1>3, WithoutNone
  <2>7. (c = 0 \/ c = 1) => NormaliseNumberText(text) = whole
    BY <1>4, <2>2, <2>5, <2>6
  <2>8. c = 0 \/ c = 1 \/ c > 1
    BY <1>3
  <2>9. ~ (c > 1) => NormaliseNumberText(text) = whole
    BY <2>7, <2>8
  <2>10. QED
    BY <2>1, <2>3, <2>5, <2>9 DEF ReadsAs
<1>10. QED
  BY <1>3, <1>8, <1>9

-----------------------------------------------------------------------------
(* Digits in groups, and what follows them.                                *)
DigitsAt(n, size, c, at, N) ==
  /\ c \in Nat /\ N \in Nat /\ DigitAt(n + 1, n, size) = N + 1
  /\ at \in [1 .. n -> 1 .. N] /\ at[1] = 1
  /\ \A i, j \in 1 .. n : i < j => at[i] < at[j]
  /\ c = 0 => \A p \in 1 .. N : \E i \in 1 .. n : p = at[i]
  /\ c > 0 => /\ N - 3 \in 1 .. N /\ \A i \in 1 .. n : at[i] # N - 3
              /\ \A p \in N - 2 .. N : \E i \in 1 .. n : p = at[i]

LEMMA GroupsApart ==
  ASSUME NEW n \in Nat \ {0}, NEW size \in {2, 3}, NEW c,
         c = Cardinality({i \in 1 .. n : Breaks(i, n, size)}),
         NEW at, at = [i \in 1 .. n |-> DigitAt(i, n, size)], NEW N, N = n + c
  PROVE  DigitsAt(n, size, c, at, N)
<1> DEFINE U == {i \in 1 .. n : Breaks(i, n, size)}
<1>1. c \in Nat /\ N \in Nat /\ (c > 0 => U # {})
  <2>1. IsFiniteSet(1 .. n) /\ U \subseteq 1 .. n
    BY FS_Interval
  <2>2. IsFiniteSet(U) /\ Cardinality(U) \in Nat /\ (U = {} => Cardinality(U) = 0)
    BY <2>1, FS_Subset, FS_CardinalityType, FS_EmptySet
  <2>3. QED
    BY <2>2
<1>12. N \in Nat
  BY <1>1
<1>2. DigitAt(n + 1, n, size) = N + 1
  <2>1. 1 .. (n + 1) - 1 = 1 .. n
    OBVIOUS
  <2>2. DigitAt(n + 1, n, size) = (n + 1) + c
    BY <2>1 DEF DigitAt
  <2>3. QED
    BY <1>1, <2>2
<1> DEFINE K(i) == DigitAt(i, n, size)
<1>3. /\ \A i \in 1 .. n + 1 : K(i) \in Nat
      /\ K(1) = 1
      /\ \A i, j \in 1 .. n + 1 : i < j => K(j) - K(i) >= j - i
      /\ \A i \in 1 .. n : K(i + 1) = K(i) + (IF Breaks(i, n, size) THEN 2 ELSE 1)
  BY DigitsApart
<1>4. /\ \A i \in 1 .. n : at[i] = K(i) /\ i \in 1 .. n + 1
      /\ K(n + 1) = N + 1 /\ n + 1 \in 1 .. n + 1 /\ 1 \in 1 .. n
  BY <1>2
<1> HIDE DEF K
<1>41. ASSUME NEW i \in 1 .. n PROVE K(i) \in Nat
  <2>1. i \in 1 .. n + 1
    OBVIOUS
  <2>2. QED
    BY <1>3, <2>1
<1>5. ASSUME NEW i \in 1 .. n PROVE K(i) >= i /\ K(i) <= N - (n - i)
  <2>1. K(i) >= i
    <3>1. CASE i = 1
      BY <1>3, <3>1
    <3>2. CASE 1 < i
      <4>1. K(i) - K(1) >= i - 1
        BY <1>3, <1>4, <3>2
      <4>2. QED
        BY <1>3, <1>4, <4>1
    <3>3. QED
      BY <3>1, <3>2
  <2>2. i < n + 1
    OBVIOUS
  <2>3. K(n + 1) - K(i) >= (n + 1) - i
    BY <1>3, <1>4, <2>2
  <2>4. K(i) \in Nat
    BY <1>3, <1>4
  <2>5. QED
    BY <1>1, <1>4, <2>1, <2>3, <2>4
<1>6. at \in [1 .. n -> 1 .. N]
  <2>1. \A i \in 1 .. n : K(i) \in 1 .. N
    <3> TAKE i \in 1 .. n
    <3>1. K(i) \in Nat /\ K(i) >= i /\ K(i) <= N - (n - i)
      BY <1>41, <1>5
    <3>2. QED
      BY <1>1, <3>1
  <2>2. QED
    BY <1>4, <2>1
<1>7. at[1] = 1
  BY <1>3, <1>4
<1>8. ASSUME NEW i \in 1 .. n, NEW j \in 1 .. n, i < j PROVE at[i] < at[j]
  <2>1. K(j) - K(i) >= j - i /\ K(i) \in Nat /\ K(j) \in Nat
    BY <1>3, <1>4, <1>8
  <2>2. QED
    BY <1>4, <1>8, <2>1
<1>9. ASSUME c = 0, NEW p \in 1 .. N PROVE \E i \in 1 .. n : p = at[i]
  <2>1. N = n
    BY <1>9
  <2>2. K(p) >= p /\ K(p) <= N - (n - p) /\ K(p) \in Nat
    BY <1>3, <1>4, <1>5, <2>1
  <2>3. K(p) = p
    BY <2>1, <2>2
  <2>4. QED
    BY <1>4, <2>1, <2>3
<1>10. ASSUME c > 0
       PROVE  /\ N - 3 \in 1 .. N /\ \A i \in 1 .. n : at[i] # N - 3
              /\ \A p \in N - 2 .. N : \E i \in 1 .. n : p = at[i]
  <2>1. PICK b \in 1 .. n : Breaks(b, n, size)
    BY <1>1, <1>10
  <2>2. b <= n - 3
    BY <2>1 DEF Breaks
  <2>3. PICK q \in 1 .. n : q = n - 3
    BY <2>2
  <2>4. Breaks(q, n, size)
    <3>1. n - 3 - q = 0 /\ q <= n - 3
      BY <2>3
    <3>2. 0 % size = 0
      OBVIOUS
    <3>3. QED
      BY <3>1, <3>2 DEF Breaks
  <2>5. \A i \in 1 .. n : i > q => ~ Breaks(i, n, size)
    BY <2>3 DEF Breaks
  <2>6. q + 1 \in 1 .. n /\ q + 2 \in 1 .. n /\ q + 3 \in 1 .. n /\ q + 3 = n
    BY <2>3
  <2>7. K(q + 1) = K(q) + 2
    BY <1>3, <2>4
  <2>70. K(q) \in Nat
    BY <1>41
  <2>8. K(q + 2) = K(q) + 3
    <3>1. K((q + 1) + 1) = K(q + 1) + 1
      BY <1>3, <2>5, <2>6
    <3>2. (q + 1) + 1 = q + 2
      OBVIOUS
    <3>3. QED
      BY <2>70, <2>7, <3>1, <3>2
  <2>9. K(q + 3) = K(q) + 4
    <3>1. K((q + 2) + 1) = K(q + 2) + 1
      BY <1>3, <2>5, <2>6
    <3>2. (q + 2) + 1 = q + 3
      OBVIOUS
    <3>3. QED
      BY <2>70, <2>8, <3>1, <3>2
  <2>10. N + 1 = K(q) + 5
    <3>1. K((q + 3) + 1) = K(q + 3) + 1
      BY <1>3, <2>5, <2>6
    <3>2. (q + 3) + 1 = n + 1
      BY <2>6
    <3>3. QED
      BY <1>4, <2>70, <2>9, <3>1, <3>2
  <2>11. K(q) \in Nat /\ K(q) >= 1
    <3>1. K(q) >= q /\ q >= 1
      BY <1>5
    <3>2. QED
      BY <2>70, <3>1
  <2>12. /\ K(q) = N - 4 /\ at[q + 1] = N - 2 /\ at[q + 2] = N - 1 /\ at[q + 3] = N
    <3>1. /\ at[q + 1] = K(q + 1) /\ at[q + 2] = K(q + 2) /\ at[q + 3] = K(q + 3)
      BY <1>4, <2>6
    <3>2. K(q) = N - 4
      <4>1. PICK g \in Nat : g = K(q)
        BY <2>11
      <4>2. N + 1 = g + 5 /\ N \in Nat
        BY <1>12, <2>10, <4>1
      <4>3. g = N - 4
        BY ONLY <4>2, g \in Nat
      <4>4. QED
        BY <4>1, <4>3
    <3>3. QED
      BY <1>12, <2>7, <2>8, <2>9, <3>1, <3>2
  <2>13. N - 3 \in 1 .. N
    BY <1>12, <2>11, <2>12
  <2>14. ASSUME NEW i \in 1 .. n PROVE at[i] # N - 3
    <3>1. CASE i <= q
      <4>1. at[i] = K(i) /\ at[q] = K(q) /\ K(i) \in Nat
        BY <1>4, <1>41
      <4>2. i < q => at[i] < at[q]
        BY <1>8
      <4>3. i < q \/ i = q
        BY <3>1
      <4>4. at[i] <= N - 4
        BY <1>12, <2>12, <4>1, <4>2, <4>3
      <4>5. QED
        BY <1>12, <4>1, <4>4
    <3>2. CASE i > q
      <4>1. i = q + 1 \/ i = q + 2 \/ i = q + 3
        BY <2>6, <3>2
      <4>2. QED
        BY <1>12, <2>12, <4>1
    <3>3. QED
      BY <3>1, <3>2
  <2>15. ASSUME NEW p \in N - 2 .. N PROVE \E i \in 1 .. n : p = at[i]
    <3>1. p = N - 2 \/ p = N - 1 \/ p = N
      BY <1>1
    <3>2. /\ q + 1 \in 1 .. n /\ q + 2 \in 1 .. n /\ q + 3 \in 1 .. n
          /\ at[q + 1] = N - 2 /\ at[q + 2] = N - 1 /\ at[q + 3] = N
      BY <2>6, <2>12
    <3>3. QED
      BY <3>1, <3>2
  <2>16. QED
    BY <2>13, <2>14, <2>15
<1>11. QED
  BY <1>1, <1>2, <1>6, <1>7, <1>8, <1>9, <1>10 DEF DigitsAt

Holds(digits, n, N, at, whole, group) ==
  /\ digits \in Seq(Chars) /\ Len(digits) = N
  /\ \A i \in 1 .. n : digits[at[i]] = whole[i]
  /\ \A p \in 1 .. N : (\E i \in 1 .. n : p = at[i]) \/ digits[p] = group

LEMMA StyleIs ==
  ASSUME NEW style \in Styles
  PROVE  /\ style.group \in Separators /\ style.size \in {2, 3}
         /\ style.point \in {",", "."} /\ style.group # style.point
BY DEF Styles, Style

LEMMA SeparatorIs ==
  ASSUME NEW group \in Separators
  PROVE  /\ group \in Chars
         /\ group \in {",", "."} \/ group \in Blanks \/ group = "none"
         /\ Blanks \subseteq Separators
         /\ \A char \in {"0", "1", "2", "5", ",", "."} : char \notin Blanks
BY DEF Separators, Chars, Blanks

LEMMA GroupedIs ==
  ASSUME NEW whole \in Seq({"1", "2"}), NEW n \in Nat \ {0}, n = Len(whole),
         NEW style \in Styles, style.group # "none",
         NEW c, c = Cardinality({i \in 1 .. n : Breaks(i, n, style.size)}),
         NEW at, at = [i \in 1 .. n |-> DigitAt(i, n, style.size)], NEW N, N = n + c
  PROVE  DigitsAt(n, style.size, c, at, N) /\ Holds(Grouped(whole, style), n, N, at, whole, style.group)
<1>1. /\ style.group \in Separators /\ style.size \in {2, 3}
  BY StyleIs
<1>2. DigitsAt(n, style.size, c, at, N)
  BY <1>1, GroupsApart
<1>3. /\ N \in Nat /\ DigitAt(n + 1, n, style.size) = N + 1
      /\ at \in [1 .. n -> 1 .. N]
      /\ \A i, j \in 1 .. n : i < j => at[i] < at[j]
  BY <1>2 DEF DigitsAt
<1>4. PICK group, size : group = style.group /\ size = style.size
  OBVIOUS
<1>5. \A i \in 1 .. n : at[i] = DigitAt(i, n, size)
  BY <1>4
<1>6. DigitAt(n + 1, n, size) - 1 = N
  BY <1>3, <1>4
<1>7. PICK digits : digits = Grouped(whole, style)
  OBVIOUS
<1>8. digits = [p \in 1 .. DigitAt(n + 1, n, size) - 1 |->
                 IF \E i \in 1 .. n : p = DigitAt(i, n, size)
                 THEN whole[CHOOSE i \in 1 .. n : p = DigitAt(i, n, size)] ELSE group]
  BY <1>4, <1>7 DEF Grouped
<1>9. \A p \in 1 .. N : digits[p] = IF \E i \in 1 .. n : p = DigitAt(i, n, size)
                                    THEN whole[CHOOSE i \in 1 .. n : p = DigitAt(i, n, size)]
                                    ELSE group
  BY <1>6, <1>8
<1>10. ASSUME NEW i \in 1 .. n PROVE digits[at[i]] = whole[i]
  <2>1. PICK p \in 1 .. N : p = at[i]
    BY <1>3
  <2>2. p = DigitAt(i, n, size)
    BY <1>5, <2>1
  <2>3. ASSUME NEW k \in 1 .. n, p = DigitAt(k, n, size) PROVE k = i
    <3>1. at[k] = at[i] /\ at[k] \in 1 .. N /\ at[i] \in 1 .. N
      BY <1>3, <1>5, <2>1, <2>3
    <3>2. (k < i => at[k] < at[i]) /\ (i < k => at[i] < at[k])
      BY <1>3
    <3>3. QED
      BY <3>1, <3>2
  <2>4. (CHOOSE k \in 1 .. n : p = DigitAt(k, n, size)) = i
    BY <2>2, <2>3
  <2>5. QED
    BY <1>9, <2>1, <2>2, <2>4
<1>11. ASSUME NEW p \in 1 .. N PROVE (\E i \in 1 .. n : p = at[i]) \/ digits[p] = group
  BY <1>5, <1>9
<1>12. digits \in Seq(Chars) /\ Len(digits) = N
  <2>1. {"1", "2"} \subseteq Chars /\ group \in Chars
    BY <1>1, <1>4, SeparatorIs DEF Chars
  <2>2. \A i \in 1 .. n : whole[i] \in Chars
    BY <2>1, Element
  <2>3. \A p \in 1 .. N : digits[p] \in Chars
    BY <1>10, <1>11, <2>1, <2>2
  <2>4. digits = [p \in 1 .. N |-> digits[p]]
    BY <1>6, <1>8
  <2>5. N \in Nat
    BY <1>3
  <2>6. QED
    BY ONLY <2>3, <2>4, <2>5
<1>13. QED
  BY <1>2, <1>4, <1>7, <1>10, <1>11, <1>12 DEF Holds

(* Digits in groups and what follows spell the number.                     *)
LEMMA JoinSpells ==
  ASSUME NEW n \in Nat \ {0}, NEW whole \in Seq({"1", "2"}), Len(whole) = n,
         NEW size, NEW c, NEW at, NEW N, N = n + c, DigitsAt(n, size, c, at, N),
         NEW group \in Separators, NEW digits, Holds(digits, n, N, at, whole, group),
         NEW tail \in Seq(Chars), NEW text, text = digits \o tail
  PROVE  Spells(text, n, N, at, whole, tail, group) /\ Separated(text, n, N, at, group, c)
<1>1. /\ c \in Nat /\ N \in Nat
      /\ at \in [1 .. n -> 1 .. N] /\ at[1] = 1
      /\ \A i, j \in 1 .. n : i < j => at[i] < at[j]
      /\ c = 0 => \A p \in 1 .. N : \E i \in 1 .. n : p = at[i]
      /\ c > 0 => /\ N - 3 \in 1 .. N /\ \A i \in 1 .. n : at[i] # N - 3
                  /\ \A p \in N - 2 .. N : \E i \in 1 .. n : p = at[i]
  BY DEF DigitsAt
<1>2. /\ digits \in Seq(Chars) /\ Len(digits) = N
      /\ \A i \in 1 .. n : digits[at[i]] = whole[i]
      /\ \A p \in 1 .. N : (\E i \in 1 .. n : p = at[i]) \/ digits[p] = group
  BY DEF Holds
<1>3. Len(tail) \in Nat
  BY LengthZero
<1>4. text \in Seq(Chars) /\ Len(text) = N + Len(tail)
      /\ \A p \in 1 .. N : text[p] = digits[p]
      /\ \A k \in 1 .. Len(tail) : text[N + k] = tail[k]
  <2>1. /\ digits \o tail \in Seq(Chars)
        /\ Len(digits \o tail) = Len(digits) + Len(tail)
        /\ \A i \in 1 .. Len(digits) + Len(tail) : (digits \o tail)[i] =
             IF i <= Len(digits) THEN digits[i] ELSE tail[i - Len(digits)]
    BY <1>2, ConcatProperties
  <2>2. /\ text \in Seq(Chars) /\ Len(text) = N + Len(tail)
        /\ \A i \in 1 .. N + Len(tail) : text[i] = IF i <= N THEN digits[i] ELSE tail[i - N]
    BY <1>2, <2>1
  <2>3. \A p \in 1 .. N : p \in 1 .. N + Len(tail) /\ p <= N
    BY <1>1, <1>3
  <2>4. ASSUME NEW k \in 1 .. Len(tail) PROVE text[N + k] = tail[k]
    <3>1. N + k \in 1 .. N + Len(tail) /\ ~ (N + k <= N) /\ (N + k) - N = k
      BY <1>1, <1>3
    <3>2. QED
      BY <2>2, <3>1
  <2>5. QED
    BY <2>2, <2>3, <2>4
<1>5. Spells(text, n, N, at, whole, tail, group)
  <2>1. \A i \in 1 .. n : text[at[i]] = whole[i]
    BY <1>1, <1>2, <1>4
  <2>2. \A p \in 1 .. N : (\E i \in 1 .. n : p = at[i]) \/ text[p] = group
    BY <1>2, <1>4
  <2>3. n \in Nat \ {0} /\ whole \in Seq({"1", "2"}) /\ Len(whole) = n
        /\ tail \in Seq(Chars) /\ group \in Separators
    OBVIOUS
  <2>4. QED
    BY ONLY <1>1, <1>4, <2>1, <2>2, <2>3 DEF Spells
<1>6. Separated(text, n, N, at, group, c)
  <2>1. c > 0 => text[N - 3] = group
    <3> HAVE c > 0
    <3>1. PICK p \in 1 .. N : p = N - 3
      BY <1>1
    <3>2. ~ (\E i \in 1 .. n : p = at[i])
      BY <1>1, <3>1
    <3>3. QED
      BY <1>2, <1>4, <3>1, <3>2
  <2>2. QED
    BY <1>1, <2>1 DEF Separated
<1>7. QED
  BY <1>5, <1>6

(* So do digits without groups.                                            *)
LEMMA PlainSpells ==
  ASSUME NEW n \in Nat \ {0}, NEW whole \in Seq({"1", "2"}), Len(whole) = n,
         NEW group \in Separators, NEW tail \in Seq(Chars), NEW text, text = whole \o tail,
         NEW at, at = [i \in 1 .. n |-> i]
  PROVE  Spells(text, n, n, at, whole, tail, group) /\ Separated(text, n, n, at, group, 0)
<1>1. whole \in Seq(Chars)
  <2>1. {"1", "2"} \subseteq Chars
    BY DEF Chars
  <2>2. QED
    BY <2>1, Wider
<1>2. Len(tail) \in Nat
  BY LengthZero
<1>3. /\ whole \o tail \in Seq(Chars)
      /\ Len(whole \o tail) = Len(whole) + Len(tail)
      /\ \A i \in 1 .. Len(whole) + Len(tail) : (whole \o tail)[i] =
           IF i <= Len(whole) THEN whole[i] ELSE tail[i - Len(whole)]
  BY <1>1, ConcatProperties
<1>4. /\ text \in Seq(Chars) /\ Len(text) = n + Len(tail)
      /\ \A i \in 1 .. n + Len(tail) : text[i] = IF i <= n THEN whole[i] ELSE tail[i - n]
  BY <1>3
<1>5. \A i \in 1 .. n : at[i] = i /\ text[i] = whole[i]
  BY <1>2, <1>4
<1>6. ASSUME NEW k \in 1 .. Len(tail) PROVE text[n + k] = tail[k]
  <2>1. n + k \in 1 .. n + Len(tail) /\ ~ (n + k <= n) /\ (n + k) - n = k
    BY <1>2
  <2>2. QED
    BY <1>4, <2>1
<1>7. at \in [1 .. n -> 1 .. n] /\ at[1] = 1 /\ n = n + 0
      /\ \A i, j \in 1 .. n : i < j => at[i] < at[j]
  BY <1>5
<1>8. \A p \in 1 .. n : \E i \in 1 .. n : p = at[i]
  BY <1>5
<1>9. QED
  BY <1>4, <1>5, <1>6, <1>7, <1>8 DEF Spells, Separated

(* The groups of a written number that are commas or points.               *)
MarkedGroups(number, style) == IF style.group \in {",", "."} THEN Groups(number, style) ELSE 0

(* Spaces and apostrophes aside, a written number is spelled.              *)
LEMMA CleanedSpells ==
  ASSUME NEW whole \in Seq({"1", "2"}), whole # <<>>, NEW style \in Styles,
         NEW fraction \in Seq({"0", "1", "5"}), NEW number,
         number = [whole |-> whole, fraction |-> fraction],
         NEW tail, Ends(tail, style.point, fraction),
         NEW text, text = Written(number, style),
         NEW c, c = MarkedGroups(number, style)
  PROVE  /\ text[1] \in {"1", "2"} /\ text \in Seq(Chars)
         /\ \E n, N, at :
              /\ Spells(Without(text, Blanks), n, N, at, whole, tail, style.group)
              /\ Separated(Without(text, Blanks), n, N, at, style.group, c)
<1>1. PICK group, size, point : group = style.group /\ size = style.size /\ point = style.point
  OBVIOUS
<1>2. group \in Separators /\ size \in {2, 3} /\ point \in {",", "."} /\ group # point
  BY <1>1, StyleIs
<1>3. group \in Chars /\ (group \in {",", "."} \/ group \in Blanks \/ group = "none")
      /\ Blanks \subseteq Separators
      /\ \A char \in {"0", "1", "2", "5", ",", "."} : char \notin Blanks
  BY <1>2, SeparatorIs
<1>4. point \in Chars
  BY <1>2 DEF Chars
<1>5. Ends(tail, point, fraction)
  BY <1>1
<1>6. EndsAs(tail, point, fraction)
  BY <1>4, <1>5, EndsIn
<1>7. PICK n : n = Len(whole)
  OBVIOUS
<1>8. n \in Nat \ {0}
  BY <1>7, LengthZero
<1>9. tail \in Seq(Chars)
  BY <1>6 DEF EndsAs
<1>10. ASSUME NEW k \in 1 .. Len(tail) PROVE tail[k] \notin Blanks
  <2>1. /\ fraction = <<>> => Len(tail) = 0
        /\ fraction # <<>> => /\ Len(tail) = 1 + Len(fraction) /\ tail[1] = point
                              /\ \A q \in 1 .. Len(fraction) : tail[1 + q] = fraction[q]
        /\ Len(fraction) \in Nat
    BY <1>6, LengthZero DEF EndsAs
  <2>2. fraction # <<>>
    BY <2>1
  <2>3. CASE k = 1
    BY <1>2, <1>3, <2>1, <2>2, <2>3
  <2>4. CASE k # 1
    <3>1. k - 1 \in 1 .. Len(fraction) /\ k = 1 + (k - 1)
      BY <2>1, <2>2, <2>4
    <3>2. PICK q \in 1 .. Len(fraction) : k = 1 + q
      BY <3>1
    <3>3. tail[k] = fraction[q] /\ fraction[q] \in {"0", "1", "5"}
      BY <2>1, <2>2, <3>2, Element
    <3>4. QED
      BY <1>3, <3>3
  <2>5. QED
    BY <2>3, <2>4
<1>11. PICK digits : digits = Grouped(whole, style)
  OBVIOUS
<1>12. text = digits \o tail
  BY <1>1, <1>5, <1>11 DEF Written, Ends
<1>13. PICK s : s = Cardinality({i \in 1 .. n : Breaks(i, n, size)})
  OBVIOUS
<1>14. group \in {",", "."} => c = s
  <2>1. DOMAIN whole = 1 .. n
    BY <1>7
  <2>2. Groups(number, style) = s
    BY <1>1, <1>7, <1>13, <2>1 DEF Groups
  <2>3. QED
    BY <1>1, <2>2 DEF MarkedGroups
<1>15. group \notin {",", "."} => c = 0
  BY <1>1 DEF MarkedGroups
(* The text itself spells the number.                                      *)
<1>16. PICK N, at, d : /\ Spells(text, n, N, at, whole, tail, group)
                       /\ Separated(text, n, N, at, group, d)
                       /\ group = "none" => d = 0
                       /\ group # "none" => d = s
  <2>1. CASE group = "none"
    <3>1. digits = whole
      BY <1>1, <1>11, <2>1 DEF Grouped
    <3>2. PICK at : at = [i \in 1 .. n |-> i]
      OBVIOUS
    <3>3. Spells(text, n, n, at, whole, tail, group) /\ Separated(text, n, n, at, group, 0)
      BY <1>2, <1>7, <1>8, <1>9, <1>12, <3>1, <3>2, PlainSpells
    <3>4. QED
      BY <2>1, <3>3
  <2>2. CASE group # "none"
    <3>1. PICK at, N : at = [i \in 1 .. n |-> DigitAt(i, n, size)] /\ N = n + s
      OBVIOUS
    <3>2. DigitsAt(n, size, s, at, N) /\ Holds(digits, n, N, at, whole, group)
      BY <1>1, <1>7, <1>8, <1>11, <1>13, <2>2, <3>1, GroupedIs
    <3>3. Spells(text, n, N, at, whole, tail, group) /\ Separated(text, n, N, at, group, s)
      BY <1>2, <1>7, <1>8, <1>9, <1>12, <3>1, <3>2, JoinSpells
    <3>4. QED
      BY <2>2, <3>3
  <2>3. QED
    BY <2>1, <2>2
<1>17. text \in Seq(Chars) /\ text[1] = whole[1] /\ whole[1] \in {"1", "2"}
  <2>1. 1 \in 1 .. n
    BY <1>8
  <2>2. text[at[1]] = whole[1] /\ at[1] = 1 /\ text \in Seq(Chars)
    BY <1>16, <2>1 DEF Spells
  <2>3. QED
    BY <1>7, <2>1, <2>2, Element
<1>18. PICK cleaned : cleaned = Without(text, Blanks)
  OBVIOUS
<1>19. ASSUME group \in {",", "."}
       PROVE  cleaned = text /\ d = c
  <2>1. /\ N \in Nat /\ n \in Nat /\ Len(text) = N + Len(tail)
        /\ \A i \in 1 .. n : text[at[i]] = whole[i]
        /\ \A p \in 1 .. N : (\E i \in 1 .. n : p = at[i]) \/ text[p] = group
        /\ \A k \in 1 .. Len(tail) : text[N + k] = tail[k]
    BY <1>16 DEF Spells
  <2>2. Len(tail) \in Nat
    BY <1>9, LengthZero
  <2>3. \A i \in 1 .. n : whole[i] \in {"1", "2"}
    BY <1>7, Element
  <2>4. ASSUME NEW p \in DOMAIN text PROVE text[p] \notin Blanks
    <3>1. DOMAIN text = 1 .. N + Len(tail)
      BY <1>17, <2>1
    <3>2. CASE p <= N
      <4>1. p \in 1 .. N
        BY <2>1, <3>1, <3>2
      <4>2. text[p] \in {"1", "2"} \/ text[p] = group
        BY <2>1, <2>3, <4>1
      <4>3. QED
        BY <1>3, <1>19, <4>2
    <3>3. CASE p > N
      <4>1. p - N \in 1 .. Len(tail) /\ p = N + (p - N)
        BY <2>1, <2>2, <3>1, <3>3
      <4>2. PICK k \in 1 .. Len(tail) : p = N + k
        BY <4>1
      <4>3. QED
        BY <1>10, <2>1, <4>2
    <3>4. QED
      BY <2>1, <3>1, <3>2, <3>3
  <2>5. cleaned = text
    BY <1>17, <1>18, <2>4, WithoutNone
  <2>6. group # "none"
    BY <1>19
  <2>7. QED
    BY <1>14, <1>16, <1>19, <2>5, <2>6
<1>20. ASSUME group \notin {",", "."}
       PROVE  cleaned = whole \o tail /\ c = 0
  <2>1. PICK z \in Nat : z = 0
    OBVIOUS
  <2>2. group \in Blanks \/ \A p \in 1 .. N : \E i \in 1 .. n : p = at[i]
    BY <1>3, <1>16, <1>20 DEF Separated
  <2>3. Len(tail) \in Nat
    BY <1>9, LengthZero
  <2>4. Len(tail) = z + Len(tail) /\ (\A k \in 1 .. Len(tail) : tail[z + k] = tail[k])
        /\ \A k \in 1 .. z : tail[k] \in Blanks
    BY <2>1, <2>3
  <2>5. LeavesOut(Blanks, z, tail, n, N, at, tail, group)
    BY <1>3, <1>9, <1>10, <2>2, <2>4 DEF LeavesOut
  <2>6. Without(text, Blanks) = whole \o tail
    BY <1>16, <2>5, WithoutIs
  <2>7. QED
    BY <1>15, <1>18, <1>20, <2>6
<1>21. \E m, M, t : Spells(cleaned, m, M, t, whole, tail, group) /\ Separated(cleaned, m, M, t, group, c)
  <2>1. CASE group \in {",", "."}
    BY <1>16, <1>19, <2>1
  <2>2. CASE group \notin {",", "."}
    <3>1. PICK t : t = [i \in 1 .. n |-> i]
      OBVIOUS
    <3>2. Spells(cleaned, n, n, t, whole, tail, group) /\ Separated(cleaned, n, n, t, group, 0)
      BY <1>2, <1>7, <1>8, <1>9, <1>20, <2>2, <3>1, PlainSpells
    <3>3. QED
      BY <1>20, <2>2, <3>2
  <2>3. QED
    BY <2>1, <2>2
<1>22. QED
  BY <1>1, <1>17, <1>18, <1>21

(* A written number is misread in the two ways NothingMisread names, and   *)
(* in no other.                                                            *)
LEMMA NeverMisread ==
  ASSUME NEW whole \in Seq({"1", "2"}), whole # <<>>, NEW style \in Styles,
         NEW fraction \in Seq({"0", "1", "5"})
  PROVE  NothingMisread([whole |-> whole, fraction |-> fraction], style)
<1>1. PICK number, tail, text, c :
        /\ number = [whole |-> whole, fraction |-> fraction]
        /\ tail = IF fraction = <<>> THEN <<>> ELSE <<style.point>> \o fraction
        /\ text = Written(number, style) /\ c = MarkedGroups(number, style)
  OBVIOUS
<1>2. number.whole = whole /\ number.fraction = fraction
  BY <1>1
<1>3. Ends(tail, style.point, fraction)
  BY <1>1 DEF Ends
<1>4. /\ text[1] \in {"1", "2"} /\ text \in Seq(Chars)
      /\ \E n, N, at :
           /\ Spells(Without(text, Blanks), n, N, at, whole, tail, style.group)
           /\ Separated(Without(text, Blanks), n, N, at, style.group, c)
  BY <1>1, <1>3, CleanedSpells
<1>5. PICK cleaned, n, N, at : /\ cleaned = Without(text, Blanks)
                               /\ Spells(cleaned, n, N, at, whole, tail, style.group)
                               /\ Separated(cleaned, n, N, at, style.group, c)
  BY <1>4
<1>6. style.point \in {",", "."} /\ style.group # style.point
  BY StyleIs
<1>7. PICK other : /\ BothWays(style.point, other)
                   /\ style.group \in {",", "."} => style.group = other
  <2>1. CASE style.point = ","
    <3>1. BothWays(style.point, ".") /\ (style.group \in {",", "."} => style.group = ".")
      BY <1>6, <2>1 DEF BothWays
    <3>2. QED
      BY <3>1
  <2>2. CASE style.point = "."
    <3>1. BothWays(style.point, ",") /\ (style.group \in {",", "."} => style.group = ",")
      BY <1>6, <2>2 DEF BothWays
    <3>2. QED
      BY <3>1
  <2>3. QED
    BY <1>6, <2>1, <2>2
<1>8. style.group = other \/ c = 0
  BY <1>1, <1>7 DEF MarkedGroups
<1>9. ReadsAs(ToDecimal(NormaliseNumberText(text)), whole, fraction, c)
  BY <1>3, <1>5, <1>7, <1>8, ReadIs
<1>10. ParsePrice(text) = ToDecimal(NormaliseNumberText(text))
  BY <1>4 DEF ParsePrice
<1>11. Ambiguous(number, style) <=> Len(fraction) = 3 /\ c = 0
  BY <1>1, <1>2 DEF Ambiguous, MarkedGroups
<1>12. OnlyGroups(number, style) <=> fraction = <<>> /\ c > 1
  <2>1. CASE style.group \in {",", "."}
    BY <1>1, <1>2, <2>1 DEF OnlyGroups, MarkedGroups
  <2>2. CASE style.group \notin {",", "."}
    <3>1. c = 0
      BY <1>1, <2>2 DEF MarkedGroups
    <3>2. ~ (c > 1)
      BY <3>1
    <3>3. QED
      BY <2>2, <3>2 DEF OnlyGroups
  <2>3. QED
    BY <2>1, <2>2
<1>13. ParsePrice(text) = IF Ambiguous(number, style)
                          THEN [whole |-> number.whole \o number.fraction, fraction |-> <<>>]
                          ELSE IF OnlyGroups(number, style) THEN Unusable
                          ELSE number
  BY <1>1, <1>2, <1>9, <1>10, <1>11, <1>12 DEF ReadsAs
<1>14. ParsePrice(<<"-">> \o text) = Unusable
  <2>1. PICK A : A = Chars \cup {"-"}
    OBVIOUS
  <2>2. <<"-">> \in Seq(A) /\ Len(<<"-">>) = 1 /\ <<"-">>[1] = "-"
    BY <2>1, OneElement
  <2>3. text \in Seq(A)
    BY <1>4, <2>1, Wider
  <2>4. (<<"-">> \o text)[1] = "-"
    <3>1. \A i \in 1 .. Len(<<"-">>) + Len(text) : (<<"-">> \o text)[i] =
            IF i <= Len(<<"-">>) THEN <<"-">>[i] ELSE text[i - Len(<<"-">>)]
      BY <2>2, <2>3, ConcatProperties
    <3>2. Len(text) \in Nat
      BY <2>3, LengthZero
    <3>3. QED
      BY <2>2, <3>1, <3>2
  <2>5. QED
    BY <2>4 DEF ParsePrice
<1>15. QED
  BY <1>1, <1>13, <1>14 DEF NothingMisread

-----------------------------------------------------------------------------
(* The square of the sum of k numbers is at most k times the sum of their  *)
(* squares.                                                                *)
Flatter(sum, squares, k) == sum * sum <= k * squares

LEMMA SquareOfSum ==
  ASSUME NEW x \in Int, NEW s \in Int
  PROVE  (x + s) * (x + s) = x * x + 2 * (x * s) + s * s
OBVIOUS

LEMMA SquareOfGap ==
  ASSUME NEW x \in Int, NEW s \in Int
  PROVE  x * x - 2 * (x * s) + s * s >= 0
<1>1. x * x - 2 * (x * s) + s * s = (x - s) * (x - s)
  OBVIOUS
<1>2. \A y \in Int : y * y >= 0
  OBVIOUS
<1> QED BY <1>1, <1>2

LEMMA Cancelled ==
  ASSUME NEW k \in Nat \ {0}, NEW y \in Int, k * y >= 0
  PROVE  y >= 0
OBVIOUS

LEMMA OneFlatter ==
  ASSUME NEW k \in Nat, NEW s \in Int, NEW q \in Nat, NEW x \in Int,
         Flatter(s, q, k), k = 0 => s = 0
  PROVE  Flatter(x + s, x * x + q, k + 1)
<1> DEFINE X == x * x  S == s * s  M == x * s  K == k * q  Y == k * X + q - 2 * M
<1>0. /\ X \in Int /\ S \in Int /\ M \in Int /\ K \in Int /\ S <= K /\ k * X \in Int
      /\ (x + s) * (x + s) = X + 2 * M + S
      /\ (k + 1) * (X + q) = k * X + K + X + q
  BY SquareOfSum DEF Flatter
<1>1. Y >= 0
  <2>1. CASE k = 0
    <3>1. M = 0 /\ k * X = 0
      BY <2>1
    <3> QED BY <3>1
  <2>2. CASE k # 0
    <3> DEFINE t == k * x
    <3>1. t * t - 2 * (t * s) + s * s >= 0
      BY SquareOfGap
    <3>2. t * t = k * (k * X) /\ t * s = k * M
      OBVIOUS
    <3>3. k * Y = k * (k * X) + K - 2 * (k * M)
      BY <1>0
    <3>4. k * (k * X) \in Int /\ k * M \in Int
      BY <1>0
    <3> HIDE DEF X, S, M, K, Y, t
    <3>5. k * Y >= 0
      BY <1>0, <3>1, <3>2, <3>3, <3>4 DEF S
    <3>6. Y \in Int
      BY <1>0 DEF Y
    <3> QED BY <2>2, <3>5, <3>6, Cancelled
  <2> QED BY <2>1, <2>2
<1> HIDE DEF X, S, M, K
<1> QED BY <1>0, <1>1 DEF Flatter, X

LEMMA SumFlatter ==
  ASSUME NEW S, IsFiniteSet(S), NEW f, \A x \in S : f[x] \in Int,
         NEW g, \A x \in S : g[x] = f[x] * f[x]
  PROVE  Flatter(SumOver(f, S), SumOver(g, S), Cardinality(S))
<1> DEFINE Good(U) == /\ Flatter(SumOver(f, U), SumOver(g, U), Cardinality(U))
                      /\ SumOver(f, U) \in Int /\ SumOver(g, U) \in Nat
           T == {U \in SUBSET S : Good(U)}
<1>0. \A x \in S : f[x] \in Int /\ g[x] \in Nat
  <2>1. \A y \in Int : y * y \in Nat
    OBVIOUS
  <2> QED BY <2>1
<1>1. {} \in T
  <2>1. SumOver(f, {}) = 0 /\ SumOver(g, {}) = 0 /\ Cardinality({}) = 0
    BY SumEmpty, FS_EmptySet
  <2> QED BY <2>1 DEF Flatter
<1>2. ASSUME NEW U \in SUBSET S, NEW x \in S \ U, U \in T PROVE U \cup {x} \in T
  <2>1. IsFiniteSet(U) /\ Cardinality(U) \in Nat /\ Cardinality(U \cup {x}) = Cardinality(U) + 1
    BY <1>2, FS_Subset, FS_CardinalityType, FS_AddElement
  <2>2. SumOver(f, U \cup {x}) = f[x] + SumOver(f, U)
    <3>1. \A y \in U \cup {x} : f[y] \in Int
      BY <1>0
    <3> QED BY <2>1, <3>1, SumAdd
  <2>3. SumOver(g, U \cup {x}) = g[x] + SumOver(g, U)
    <3>1. \A y \in U \cup {x} : g[y] \in Int
      BY <1>0
    <3> QED BY <2>1, <3>1, SumAdd
  <2>4. Cardinality(U) = 0 => SumOver(f, U) = 0
    BY <2>1, FS_EmptySet, SumEmpty
  <2> DEFINE s == SumOver(f, U)  q == SumOver(g, U)  k == Cardinality(U)  v == f[x]
  <2>5. s \in Int /\ q \in Nat /\ Flatter(s, q, k) /\ k \in Nat /\ v \in Int /\ (k = 0 => s = 0)
    BY <1>0, <1>2, <2>1, <2>4
  <2>6. g[x] = v * v
    OBVIOUS
  <2> HIDE DEF s, q, k, v
  <2>7. Flatter(v + s, v * v + q, k + 1)
    BY <2>5, OneFlatter
  <2>8. v * v \in Nat
    BY <1>0, <2>6
  <2> QED BY <2>1, <2>2, <2>3, <2>5, <2>6, <2>7, <2>8 DEF s, q, k, v
<1> HIDE DEF T
<1>3. S \in T
  BY <1>1, <1>2, SetInduction
<1> QED BY <1>3 DEF T

-----------------------------------------------------------------------------
(* What the numbers of a set are short of a bound, and its square.         *)
ShortOf(S, r, q, x, d, e) ==
  /\ x \in Int
  /\ \A i \in S : r[i] \in Int /\ q[i] = r[i] * r[i]
  /\ \A i \in S : d[i] = x - r[i] /\ e[i] = d[i] * d[i]

LEMMA SquareShort ==
  ASSUME NEW x \in Int, NEW y \in Int
  PROVE  (x - y) * (x - y) = x * x - 2 * (x * y) + y * y
OBVIOUS

LEMMA Shortfall ==
  ASSUME NEW S, IsFiniteSet(S), NEW r, NEW q, NEW x, NEW d, NEW e, ShortOf(S, r, q, x, d, e)
  PROVE  /\ SumOver(d, S) = Cardinality(S) * x - SumOver(r, S)
         /\ SumOver(e, S) = Cardinality(S) * (x * x) - 2 * (x * SumOver(r, S)) + SumOver(q, S)
         /\ SumOver(r, S) \in Int /\ SumOver(q, S) \in Int
<1> DEFINE Good(U) == /\ SumOver(r, U) \in Int /\ SumOver(q, U) \in Int
                      /\ SumOver(d, U) = Cardinality(U) * x - SumOver(r, U)
                      /\ SumOver(e, U)
                           = Cardinality(U) * (x * x) - 2 * (x * SumOver(r, U)) + SumOver(q, U)
           T == {U \in SUBSET S : Good(U)}
<1>0. \A i \in S : /\ x \in Int /\ r[i] \in Int /\ q[i] \in Int /\ d[i] \in Int /\ e[i] \in Int
                   /\ q[i] = r[i] * r[i] /\ d[i] = x - r[i] /\ e[i] = d[i] * d[i]
  <2>1. \A y \in Int : y * y \in Int
    OBVIOUS
  <2> QED BY <2>1 DEF ShortOf
<1>00. x \in Int
  BY DEF ShortOf
<1>1. {} \in T
  <2>1. SumOver(r, {}) = 0 /\ SumOver(q, {}) = 0 /\ SumOver(d, {}) = 0 /\ SumOver(e, {}) = 0
        /\ Cardinality({}) = 0
    BY SumEmpty, FS_EmptySet
  <2> QED BY <1>00, <2>1
<1>2. ASSUME NEW U \in SUBSET S, NEW i \in S \ U, U \in T PROVE U \cup {i} \in T
  <2>1. IsFiniteSet(U) /\ Cardinality(U) \in Nat /\ Cardinality(U \cup {i}) = Cardinality(U) + 1
    BY <1>2, FS_Subset, FS_CardinalityType, FS_AddElement
  <2>2. \A y \in U \cup {i} : r[y] \in Int /\ q[y] \in Int /\ d[y] \in Int /\ e[y] \in Int
    BY <1>0
  <2>3. /\ SumOver(r, U \cup {i}) = r[i] + SumOver(r, U)
        /\ SumOver(q, U \cup {i}) = q[i] + SumOver(q, U)
        /\ SumOver(d, U \cup {i}) = d[i] + SumOver(d, U)
        /\ SumOver(e, U \cup {i}) = e[i] + SumOver(e, U)
    <3>1. SumOver(r, U \cup {i}) = r[i] + SumOver(r, U)
      BY <2>1, <2>2, SumAdd
    <3>2. SumOver(q, U \cup {i}) = q[i] + SumOver(q, U)
      BY <2>1, <2>2, SumAdd
    <3>3. SumOver(d, U \cup {i}) = d[i] + SumOver(d, U)
      BY <2>1, <2>2, SumAdd
    <3>4. SumOver(e, U \cup {i}) = e[i] + SumOver(e, U)
      BY <2>1, <2>2, SumAdd
    <3> QED BY <3>1, <3>2, <3>3, <3>4
  <2>4. Good(U)
    BY <1>2
  <2> DEFINE k == Cardinality(U)  y == r[i]  R == SumOver(r, U)  X == x * x  P == x * R
             Q == SumOver(q, U)  Y == y * y  M == x * y
  <2>5. /\ x \in Int /\ y \in Int /\ R \in Int /\ k \in Nat /\ X \in Int /\ P \in Int /\ Q \in Int
        /\ Y \in Int /\ M \in Int
        /\ (k + 1) * x = k * x + x /\ (k + 1) * X = k * X + X /\ x * (y + R) = M + P
        /\ k * x \in Int /\ k * X \in Int
    <3>1. x \in Int /\ y \in Int /\ R \in Int /\ k \in Nat /\ Q \in Int
      BY <1>0, <1>00, <1>2, <2>1, <2>4
    <3> HIDE DEF k, y, R, Q
    <3>2. X \in Int /\ P \in Int /\ Y \in Int /\ M \in Int
      BY <3>1
    <3>3. x * (y + R) = M + P
      BY ONLY <3>1
    <3> HIDE DEF X, P, Y, M
    <3>4. \A z \in Int : (k + 1) * z = k * z + z /\ k * z \in Int
      BY ONLY <3>1
    <3> QED BY <3>1, <3>2, <3>3, <3>4
  <2>6. d[i] = x - y /\ e[i] = X - 2 * M + Y /\ q[i] = Y
    <3>1. (x - y) * (x - y) = X - 2 * M + Y
      BY <2>5, SquareShort
    <3> QED BY <1>0, <3>1
  <2>7. SumOver(d, U) = k * x - R /\ SumOver(e, U) = k * X - 2 * P + Q
    BY <2>4
  <2>8. /\ SumOver(r, U \cup {i}) = y + R /\ SumOver(q, U \cup {i}) = Y + Q
        /\ SumOver(d, U \cup {i}) = (x - y) + (k * x - R)
        /\ SumOver(e, U \cup {i}) = (X - 2 * M + Y) + (k * X - 2 * P + Q)
        /\ Cardinality(U \cup {i}) = k + 1
    BY <2>1, <2>3, <2>6, <2>7
  <2> HIDE DEF k, y, R, X, P, Q, Y, M, T
  <2>9. /\ (x - y) + (k * x - R) = (k + 1) * x - (y + R)
        /\ (X - 2 * M + Y) + (k * X - 2 * P + Q) = (k + 1) * X - 2 * (x * (y + R)) + (Y + Q)
        /\ y + R \in Int /\ Y + Q \in Int
    BY <2>5
  <2>10. Good(U \cup {i})
    BY <2>8, <2>9 DEF X
  <2>11. U \cup {i} \in SUBSET S
    BY <1>2
  <2> QED BY <2>10, <2>11 DEF T
<1> HIDE DEF T
<1>3. S \in T
  BY <1>1, <1>2, SetInduction
<1> QED BY <1>3 DEF T

LEMMA Greatest ==
  ASSUME NEW S \in SUBSET Int, IsFiniteSet(S), S # {}
  PROVE  Max(S) \in S /\ \A y \in S : y <= Max(S)
<1> DEFINE T == {U \in SUBSET S : U # {} => \E x \in U : \A y \in U : y <= x}
<1>1. {} \in T
  OBVIOUS
<1>2. ASSUME NEW U \in SUBSET S, NEW v \in S \ U, U \in T PROVE U \cup {v} \in T
  <2>1. CASE U = {}
    <3>1. v \in Int
      OBVIOUS
    <3> QED BY <2>1, <3>1
  <2>2. CASE U # {}
    <3>1. PICK x \in U : \A y \in U : y <= x
      BY <1>2, <2>2
    <3>2. x \in Int /\ v \in Int /\ \A y \in U : y \in Int
      OBVIOUS
    <3>3. CASE v <= x
      BY <3>1, <3>2, <3>3
    <3>4. CASE x <= v
      <4>1. \A y \in U \cup {v} : y <= v
        BY <3>1, <3>2, <3>4
      <4> QED BY <4>1
    <3> QED BY <3>2, <3>3, <3>4
  <2> QED BY <2>1, <2>2
<1> HIDE DEF T
<1>3. S \in T
  BY <1>1, <1>2, SetInduction
<1>4. \E x \in S : \A y \in S : x >= y
  <2>1. PICK x \in S : \A y \in S : y <= x
    BY <1>3 DEF T
  <2>2. \A y \in S : x >= y
    BY <2>1
  <2> QED BY <2>2
<1>5. Max(S) \in S /\ \A y \in S : Max(S) >= y
  BY <1>4 DEF Max
<1> QED BY <1>5

-----------------------------------------------------------------------------
(* How far the highest of n rates is above their mean, and their spread.   *)
Spread(n, sum, squares) == n * squares - sum * sum

Falls(n, x, s, q, e, a) ==
  /\ n \in Nat /\ x \in Int /\ s \in Int /\ q \in Int /\ e \in Int /\ a \in Int
  /\ e = n * (x * x) - 2 * (x * s) + q
  /\ a = n * x - s

LEMMA SpreadOfShort ==
  ASSUME NEW n, NEW x, NEW s, NEW q, NEW e, NEW a, Falls(n, x, s, q, e, a)
  PROVE  Spread(n, s, q) = n * e - a * a
<1>0. /\ n \in Nat /\ x \in Int /\ s \in Int /\ q \in Int /\ e \in Int /\ a \in Int
      /\ e = n * (x * x) - 2 * (x * s) + q
      /\ a = n * x - s
  BY DEF Falls
<1> DEFINE t == n * x  X == x * x  P == x * s
<1>1. t \in Int /\ X \in Int /\ P \in Int
  BY <1>0
<1>2. t * t = n * (n * X) /\ t * s = n * P
  BY <1>0
<1>3. a * a = t * t - 2 * (t * s) + s * s
  BY <1>0, <1>1, SquareShort
<1>4. n * e = n * (n * X) - 2 * (n * P) + n * q
  <2> HIDE DEF X, P
  <2>1. n * (n * X - 2 * P + q) = n * (n * X) - 2 * (n * P) + n * q
    BY <1>0, <1>1
  <2>2. e = n * X - 2 * P + q
    BY <1>0 DEF X, P
  <2> QED BY ONLY <2>1, <2>2
<1>5. /\ n * (n * X) \in Int /\ n * P \in Int /\ n * q \in Int /\ s * s \in Int
      /\ n * e \in Int /\ a * a \in Int
  BY <1>0, <1>1
<1> HIDE DEF t, X, P
<1> QED BY <1>0, <1>2, <1>3, <1>4, <1>5 DEF Spread

(* Only the rates that are not x count for how far the sum falls short.    *)
ShortBy(n, r, x, m) ==
  LET s == SumOver(r, 1 .. n)
      a == n * x - s
  IN \E e \in Nat : /\ Spread(n, s, SumOver([i \in 1 .. n |-> r[i] * r[i]], 1 .. n)) = n * e - a * a
                    /\ a * a <= m * e /\ a \in Int

LEMMA ShortByRest ==
  ASSUME NEW n \in Nat, NEW r, \A i \in 1 .. n : r[i] \in Int, NEW x \in Int,
         NEW m, m = Cardinality({i \in 1 .. n : r[i] # x})
  PROVE  ShortBy(n, r, x, m)
<1> DEFINE I == 1 .. n  T == {i \in I : r[i] # x}  R == {i \in I : r[i] = x}
           q == [i \in I |-> r[i] * r[i]]  d == [i \in I |-> x - r[i]]  e == [i \in I |-> d[i] * d[i]]
           s == SumOver(r, I)  a == n * x - s
<1>1. IsFiniteSet(I) /\ Cardinality(I) = n
  BY FS_Interval
<1>2. T \subseteq I /\ R \subseteq I /\ T \cap R = {} /\ T \cup R = I
  OBVIOUS
<1>3. IsFiniteSet(T) /\ IsFiniteSet(R) /\ m \in Nat
  BY <1>1, <1>2, FS_Subset, FS_CardinalityType
<1>4. ShortOf(I, r, q, x, d, e)
  BY DEF ShortOf
<1>5. \A y \in Int : y * y \in Nat
  OBVIOUS
<1>6. /\ \A i \in I : d[i] \in Int /\ e[i] \in Nat /\ e[i] = d[i] * d[i]
      /\ \A i \in R : d[i] = 0 /\ e[i] = 0
  <2>1. \A i \in I : d[i] \in Int
    OBVIOUS
  <2>2. \A i \in R : d[i] = 0
    OBVIOUS
  <2>3. \A i \in I : e[i] = d[i] * d[i]
    OBVIOUS
  <2> HIDE DEF d, e
  <2>4. \A i \in R : i \in I /\ e[i] = 0 * 0
    BY <2>2, <2>3
  <2> QED BY <1>5, <2>1, <2>2, <2>3, <2>4
<1> HIDE DEF I, T, R, q, d, e
<1>7. /\ SumOver(d, I) = n * x - s
      /\ SumOver(e, I) = n * (x * x) - 2 * (x * s) + SumOver(q, I)
      /\ s \in Int /\ SumOver(q, I) \in Int
  BY <1>1, <1>4, Shortfall
<1>8. SumOver(d, R) = 0 /\ SumOver(e, R) = 0
  <2>1. /\ SumOver(d, R) \in Nat /\ SumOver(d, R) <= 0 * Cardinality(R)
        /\ SumOver(e, R) \in Nat /\ SumOver(e, R) <= 0 * Cardinality(R)
    <3>1. \A i \in R : d[i] \in 0 .. 0 /\ e[i] \in 0 .. 0
      BY <1>6
    <3> QED BY <1>3, <3>1, SumBound
  <2>2. Cardinality(R) \in Nat
    BY <1>3, FS_CardinalityType
  <2> QED BY <2>1, <2>2
<1>9. /\ SumOver(d, I) = SumOver(d, T) + SumOver(d, R)
      /\ SumOver(e, I) = SumOver(e, T) + SumOver(e, R)
  <2>1. \A i \in T \cup R : d[i] \in Int /\ e[i] \in Int
    BY <1>2, <1>6
  <2>2. SumOver(d, T \cup R) = SumOver(d, T) + SumOver(d, R)
    BY <1>2, <1>3, <2>1, SumDisjoint
  <2>3. SumOver(e, T \cup R) = SumOver(e, T) + SumOver(e, R)
    BY <1>2, <1>3, <2>1, SumDisjoint
  <2> QED BY <1>2, <2>2, <2>3
<1>10. SumOver(d, T) \in Int /\ SumOver(e, T) \in Nat
  <2>1. \A i \in T : d[i] \in Int /\ e[i] \in Nat
    BY <1>2, <1>6
  <2> QED BY <1>3, <2>1, SumRemove, SumNat
<1>11. SumOver(d, I) = SumOver(d, T) /\ SumOver(e, I) = SumOver(e, T)
  BY <1>8, <1>9, <1>10
<1>12. Flatter(SumOver(d, T), SumOver(e, T), m)
  <2>1. \A i \in T : d[i] \in Int /\ e[i] = d[i] * d[i]
    BY <1>2, <1>6
  <2>2. m = Cardinality(T)
    BY DEF T, I
  <2> QED BY <1>3, <2>1, <2>2, SumFlatter
<1> DEFINE E == SumOver(e, I)
<1>13. a * a <= m * E /\ E \in Nat /\ a \in Int
  BY <1>7, <1>10, <1>11, <1>12 DEF Flatter
<1>14. Spread(n, s, SumOver(q, I)) = n * E - a * a
  <2>1. E = n * (x * x) - 2 * (x * s) + SumOver(q, I) /\ E \in Int
    BY <1>7, <1>13
  <2>2. a = n * x - s
    OBVIOUS
  <2> DEFINE Q == SumOver(q, I)
  <2>3. Q \in Int /\ s \in Int
    BY <1>7
  <2> HIDE DEF E, a, s, Q
  <2>4. E = n * (x * x) - 2 * (x * s) + Q
    BY <2>1 DEF Q
  <2>5. Spread(n, s, Q) = n * E - a * a
    <3>1. E \in Int /\ a \in Int
      BY <1>13
    <3>2. Falls(n, x, s, Q, E, a)
      BY <2>2, <2>3, <2>4, <3>1 DEF Falls
    <3> QED BY <3>2, SpreadOfShort
  <2> QED BY <2>5 DEF Q
<1>15. E \in Nat /\ Spread(n, s, SumOver(q, I)) = n * E - a * a /\ a * a <= m * E /\ a \in Int
  BY <1>13, <1>14
<1> HIDE DEF E
<1>16. \E f \in Nat : /\ Spread(n, s, SumOver(q, I)) = n * f - a * a
                      /\ a * a <= m * f /\ a \in Int
  BY <1>15
<1> QED BY <1>16 DEF ShortBy, I, q

(* The critical values lie between the most two rates that share the       *)
(* maximum can reach and the most one alone does.                          *)
Between(c, n) ==
  /\ c \in Nat /\ c * c < 1000000 * (n - 1)
  /\ n < 15 => 1000000 * (n - 2) <= 2 * (c * c)

LEMMA CriticalBetween ==
  ASSUME NEW n \in 3 .. 15
  PROVE  Between(Critical(n), n)
<1>1. n \in {3, 4, 5, 6, 7, 8, 9, 10, 11, 12, 13, 14, 15}
  OBVIOUS
<1>2. Critical(n) = GRUBBS_CRITICAL_VALUES[n - 2]
  BY DEF Critical
<1>3. /\ n = 3 => Critical(n) = 1155
      /\ n = 4 => Critical(n) = 1481
      /\ n = 5 => Critical(n) = 1715
      /\ n = 6 => Critical(n) = 1887
      /\ n = 7 => Critical(n) = 2020
      /\ n = 8 => Critical(n) = 2126
      /\ n = 9 => Critical(n) = 2215
      /\ n = 10 => Critical(n) = 2290
      /\ n = 11 => Critical(n) = 2355
      /\ n = 12 => Critical(n) = 2412
      /\ n = 13 => Critical(n) = 2462
      /\ n = 14 => Critical(n) = 2507
      /\ n = 15 => Critical(n) = 2549
  BY <1>2 DEF GRUBBS_CRITICAL_VALUES
<1> QED BY <1>1, <1>3 DEF Between

(* What decides on the highest of n rates.                                 *)
Beyond(c, above, spread) == spread > 0 /\ 1000 * 1000 * above * above > c * c * spread

Shared(n, m, e, a, c, spread) ==
  /\ n \in Nat /\ n > 2 /\ m \in Nat /\ m <= n - 2 /\ e \in Nat /\ a \in Int
  /\ a * a <= m * e /\ c \in Nat /\ 1000000 * (n - 2) <= 2 * (c * c)
  /\ spread = n * e - a * a

LEMMA SharedIsNotBeyond ==
  ASSUME NEW n, NEW m, NEW e, NEW a, NEW c, NEW spread, Shared(n, m, e, a, c, spread)
  PROVE  ~ Beyond(c, a, spread)
<1> USE DEF Shared
<1> DEFINE A == a * a  k == n - 2  C == c * c  E == k * e
<1>1. A \in Nat /\ k \in Nat \ {0} /\ C \in Nat /\ E \in Nat
  <2>1. \A y \in Int : y * y \in Nat
    OBVIOUS
  <2>2. \A y \in Nat : y * e \in Nat
    OBVIOUS
  <2> QED BY <2>1, <2>2
<1>2. A <= E
  <2>1. m * e <= k * e
    <3>1. k - m \in Nat /\ k = m + (k - m)
      BY <1>1
    <3>2. PICK j \in Nat : k = m + j
      BY <3>1
    <3> HIDE DEF k
    <3>3. (m + j) * e = m * e + j * e /\ j * e >= 0 /\ m * e \in Int
      BY <3>2
    <3> QED BY <3>2, <3>3
  <2>2. m * e \in Int
    OBVIOUS
  <2> HIDE DEF A, E, k
  <2> QED BY <1>1, <2>1, <2>2 DEF A, E
<1>3. spread \in Int /\ k * spread = n * E - k * A /\ n * E \in Int /\ k * A \in Int
  OBVIOUS
<1>4. k * spread >= 2 * A
  <2>1. n * A <= n * E /\ n * A = k * A + 2 * A /\ n * A \in Int
    <3>1. n = k + 2
      BY <1>1
    <3>2. PICK j \in Nat : E = A + j
      <4>1. E - A \in Nat /\ E = A + (E - A)
        BY <1>1, <1>2
      <4> QED BY <4>1
    <3> HIDE DEF A, E, k
    <3>3. n * (A + j) = n * A + n * j /\ n * j >= 0 /\ n * A \in Int
      BY <1>1
    <3>4. (k + 2) * A = k * A + 2 * A
      BY <1>1
    <3> QED BY <3>1, <3>2, <3>3, <3>4
  <2> HIDE DEF A, E, k
  <2> QED BY <1>1, <1>3, <2>1
<1>5. C * (k * spread) >= k * (1000000 * A)
  <2> DEFINE K == k * spread
  <2>1. K \in Int /\ K >= 2 * A
    BY <1>1, <1>3, <1>4
  <2> HIDE DEF K, A, C, k
  <2>2. C * K >= C * (2 * A) /\ C * (2 * A) \in Int /\ C * K \in Int
    <3>1. PICK j \in Nat : K = 2 * A + j
      <4>1. K - 2 * A \in Nat /\ K = 2 * A + (K - 2 * A)
        BY <1>1, <2>1
      <4> QED BY <4>1
    <3>2. C * (2 * A + j) = C * (2 * A) + C * j /\ C * j >= 0 /\ C * (2 * A) \in Int
      BY <1>1
    <3> QED BY <1>1, <2>1, <3>1, <3>2
  <2>3. 1000000 * k <= 2 * C
    BY DEF C, k
  <2>4. (2 * C) * A >= (1000000 * k) * A
    <3>1. PICK j \in Nat : 2 * C = 1000000 * k + j
      <4>1. 2 * C - 1000000 * k \in Nat /\ 2 * C = 1000000 * k + (2 * C - 1000000 * k)
        BY <1>1, <2>3
      <4> QED BY <4>1
    <3>2. (1000000 * k + j) * A = (1000000 * k) * A + j * A /\ j * A >= 0
          /\ (1000000 * k) * A \in Int
      BY <1>1
    <3> QED BY <1>1, <3>1, <3>2
  <2>5. /\ (2 * C) * A = C * (2 * A) /\ (1000000 * k) * A = k * (1000000 * A)
        /\ k * (1000000 * A) \in Int
    BY <1>1
  <2>6. C * K >= k * (1000000 * A)
    BY <2>2, <2>4, <2>5
  <2> QED BY <2>6 DEF K
<1>6. C * spread >= 1000000 * A
  <2> HIDE DEF A, C, k
  <2> DEFINE Y == C * spread - 1000000 * A
  <2>1. C * (k * spread) = k * (C * spread) /\ C * spread \in Int
    BY <1>1, <1>3
  <2>2. k * Y = k * (C * spread) - k * (1000000 * A) /\ Y \in Int
    BY <1>1, <2>1
  <2>3. k * (C * spread) \in Int /\ k * (1000000 * A) \in Int
    BY <1>1, <2>1
  <2> HIDE DEF Y
  <2>4. k * Y >= 0
    BY <1>5, <2>1, <2>2, <2>3
  <2>5. Y >= 0
    BY <1>1, <2>2, <2>4, Cancelled
  <2> QED BY <1>1, <2>1, <2>5 DEF Y
<1>7. 1000 * 1000 * a * a = 1000000 * A /\ c * c * spread = C * spread
  OBVIOUS
<1>8. C * spread \in Int
  BY <1>1, <1>3
<1> HIDE DEF A, C
<1> QED BY <1>1, <1>6, <1>7, <1>8 DEF Beyond

Lone(n, x, a, c, spread) ==
  /\ n \in Nat /\ n > 2 /\ x \in Nat \ {0} /\ c \in Nat /\ c * c < 1000000 * (n - 1)
  /\ a = n * x - x /\ spread = n * (x * x) - x * x

LEMMA LoneIsBeyond ==
  ASSUME NEW n, NEW x, NEW a, NEW c, NEW spread, Lone(n, x, a, c, spread)
  PROVE  Beyond(c, a, spread)
<1> USE DEF Lone
<1> DEFINE k == n - 1  X == x * x  C == c * c
<1>1. k \in Nat \ {0} /\ X \in Nat \ {0} /\ C \in Nat
  <2>1. \A y \in Nat \ {0} : y * y \in Nat \ {0}
    OBVIOUS
  <2>2. \A y \in Nat : y * y \in Nat
    OBVIOUS
  <2> QED BY <2>1, <2>2
<1>2. a = k * x /\ spread = k * X
  OBVIOUS
<1>3. a * a = k * (k * X)
  BY <1>2
<1> DEFINE W == k * X
<1>4. W \in Nat \ {0} /\ k * W \in Nat
  <2> HIDE DEF X
  <2>1. W \in Nat \ {0}
    BY <1>1
  <2> HIDE DEF W
  <2> QED BY <1>1, <2>1
<1>5. C * W < 1000000 * (k * W)
  <2>1. C < 1000000 * k
    OBVIOUS
  <2> HIDE DEF C, k, W, X
  <2>2. PICK j \in Nat \ {0} : 1000000 * k = C + j
    <3>1. 1000000 * k - C \in Nat \ {0} /\ 1000000 * k = C + (1000000 * k - C)
      BY <1>1, <2>1
    <3> QED BY <3>1
  <2>3. (C + j) * W = C * W + j * W /\ j * W > 0 /\ C * W \in Int
    BY <1>1, <1>4
  <2>4. (1000000 * k) * W = 1000000 * (k * W)
    BY <1>1, <1>4
  <2>5. (1000000 * k) * W = (C + j) * W
    BY <2>2
  <2>6. C * W + j * W = 1000000 * (k * W) /\ j * W \in Int
    BY <1>1, <1>4, <2>2, <2>3, <2>4, <2>5
  <2> QED BY ONLY <2>3, <2>6
<1>6. 1000 * 1000 * a * a = 1000000 * (a * a)
  BY <1>1, <1>2
<1>7. c * c * spread = C * W
  BY <1>2
<1> HIDE DEF C, W, k
<1> QED BY <1>1, <1>2, <1>3, <1>4, <1>5, <1>6, <1>7 DEF Beyond, W

HasHighest(rates, h, x) ==
  /\ x = Max(ToSet(rates)) /\ x \in Nat /\ h = Highest(rates)
  /\ h \in DOMAIN rates /\ rates[h] = x
  /\ \A i \in DOMAIN rates : rates[i] <= x

LEMMA HighestIs ==
  ASSUME NEW rates \in Seq(Nat), Len(rates) > 0
  PROVE  HasHighest(rates, Highest(rates), Max(ToSet(rates)))
<1> DEFINE V == ToSet(rates)  x == Max(V)  T == {i \in DOMAIN rates : rates[i] = x}
<1>0. /\ DOMAIN rates = 1 .. Len(rates) /\ Len(rates) \in Nat
      /\ \A i \in DOMAIN rates : rates[i] \in Nat
  OBVIOUS
<1>1. V = {rates[i] : i \in DOMAIN rates}
  BY DEF ToSet
<1>2. V \in SUBSET Int /\ V # {} /\ IsFiniteSet(V)
  <2>1. IsFiniteSet(DOMAIN rates)
    BY <1>0, FS_Interval
  <2>2. IsFiniteSet(V)
    <3>1. rates \in Surjection(DOMAIN rates, V)
      BY <1>0, <1>1 DEF Surjection
    <3> QED BY <2>1, <3>1, FS_Surjection
  <2>3. rates[1] \in V
    BY <1>0, <1>1
  <2> HIDE DEF V
  <2>4. V \in SUBSET Int
    BY <1>0, <1>1
  <2> QED BY <2>2, <2>3, <2>4
<1> HIDE DEF V
<1>3. x \in V /\ \A y \in V : y <= x
  BY <1>2, Greatest
<1>4. x \in Nat /\ \A i \in DOMAIN rates : rates[i] <= x
  BY <1>0, <1>1, <1>3
<1> HIDE DEF x
<1>5. T # {} /\ T \subseteq Nat
  BY <1>0, <1>1, <1>3
<1>6. PICK h \in T : \A k \in T : h <= k
  <2> HIDE DEF T
  <2> QED BY <1>5, Smallest
<1>7. \A k \in 1 .. h - 1 : rates[k] < rates[h]
  <2> SUFFICES ASSUME NEW k \in 1 .. h - 1 PROVE rates[k] < x
    BY <1>6
  <2>1. h \in 1 .. Len(rates)
    BY <1>0, <1>6
  <2>2. k \in DOMAIN rates /\ k < h
    BY <1>0, <2>1
  <2>3. k \notin T /\ h \in Nat
    BY <1>0, <1>6, <2>2
  <2>4. rates[k] # x /\ rates[k] <= x /\ rates[k] \in Nat
    BY <1>0, <1>4, <2>2, <2>3
  <2> QED BY <1>4, <2>4
<1>8. \E i \in DOMAIN rates : rates[i] = x /\ \A k \in 1 .. i - 1 : rates[k] < rates[i]
  BY <1>6, <1>7
<1>9. x = Max(ToSet(rates))
  BY DEF x, V
<1>10. Highest(rates) \in DOMAIN rates /\ rates[Highest(rates)] = x
  BY <1>8, <1>9 DEF Highest
<1> QED BY <1>4, <1>9, <1>10 DEF HasHighest

LEMMA SumIs ==
  \A s : Sum(s) = SumOver(s, DOMAIN s)
BY DEF Sum, SumOver, MapThenSumSet, MapThenFoldSet

(* A rate is flagged as the highest, beyond the critical value.            *)
FlagsAsBeyond(rates, h, flags) ==
  LET n == Len(rates)  s == SumOver(rates, 1 .. n)
      spread == Spread(n, s, SumOver([i \in 1 .. n |-> rates[i] * rates[i]], 1 .. n))
  IN flags = IF Beyond(Critical(n), n * rates[h] - s, spread) THEN {h} ELSE {}

LEMMA FlagsAre ==
  ASSUME NEW rates \in Seq(Nat), Len(rates) > 2
  PROVE  FlagsAsBeyond(rates, Highest(rates), DuplicateRateFlags(rates))
<1> DEFINE n == Len(rates)  q == [i \in DOMAIN rates |-> rates[i] * rates[i]]
<1>1. n \in Nat /\ DOMAIN rates = 1 .. n /\ ~ (n < 3) /\ DOMAIN q = 1 .. n
  OBVIOUS
<1>2. /\ Sum(rates) = SumOver(rates, 1 .. n) /\ Sum(q) = SumOver(q, 1 .. n)
      /\ q = [i \in 1 .. n |-> rates[i] * rates[i]]
  <2> HIDE DEF n
  <2>1. Sum(rates) = SumOver(rates, DOMAIN rates) /\ Sum(q) = SumOver(q, DOMAIN q)
    BY SumIs
  <2> QED BY <1>1, <2>1
<1>3. DuplicateRateFlags(rates)
        = IF /\ n * Sum(q) - Sum(rates) * Sum(rates) > 0
             /\ 1000 * 1000 * (n * rates[Highest(rates)] - Sum(rates))
                            * (n * rates[Highest(rates)] - Sum(rates))
                  > Critical(n) * Critical(n) * (n * Sum(q) - Sum(rates) * Sum(rates))
          THEN {Highest(rates)} ELSE {}
  BY <1>1 DEF DuplicateRateFlags
<1> HIDE DEF q, n
<1>4. /\ n * rates[Highest(rates)] - Sum(rates)
           = n * rates[Highest(rates)] - SumOver(rates, 1 .. n)
      /\ n * Sum(q) - Sum(rates) * Sum(rates) = Spread(n, SumOver(rates, 1 .. n), SumOver(q, 1 .. n))
  BY <1>2 DEF Spread
<1>5. FlagsAsBeyond(rates, Highest(rates), DuplicateRateFlags(rates))
        <=> DuplicateRateFlags(rates)
              = IF Beyond(Critical(n), n * rates[Highest(rates)] - SumOver(rates, 1 .. n),
                          Spread(n, SumOver(rates, 1 .. n), SumOver(q, 1 .. n)))
                THEN {Highest(rates)} ELSE {}
  BY <1>2 DEF FlagsAsBeyond, n
<1> QED BY <1>3, <1>4, <1>5 DEF Beyond

LEMMA OnlyOutliers ==
  ASSUME NEW rates \in Seq(Nat)
  PROVE  OutliersOnly(rates)
<1> SUFFICES ASSUME Len(rates) \in 3 .. 15 PROVE OutliersOnly(rates)
  BY DEF OutliersOnly
<1> DEFINE n == Len(rates)  x == Max(ToSet(rates))  h == Highest(rates)
           flags == DuplicateRateFlags(rates)  top == {i \in DOMAIN rates : rates[i] = x}
           rest == {i \in 1 .. n : rates[i] # x}  m == Cardinality(rest)
           s == SumOver(rates, 1 .. n)  a == n * x - s
           q == [i \in 1 .. n |-> rates[i] * rates[i]]  spread == Spread(n, s, SumOver(q, 1 .. n))
           c == Critical(n)
<1>1. /\ n \in Nat /\ n \in 3 .. 15 /\ DOMAIN rates = 1 .. n
      /\ \A i \in 1 .. n : rates[i] \in Nat
  OBVIOUS
<1>2. x \in Nat /\ h \in top /\ \A i \in 1 .. n : rates[i] <= x
  BY <1>1, HighestIs DEF HasHighest
<1>3. flags = IF Beyond(c, a, spread) THEN {h} ELSE {}
  <2>0. Len(rates) > 2
    BY <1>1
  <2>1. FlagsAsBeyond(rates, h, flags)
    BY ONLY rates \in Seq(Nat), <2>0, FlagsAre
  <2>2. rates[h] = x
    BY <1>2
  <2> QED BY <2>1, <2>2 DEF FlagsAsBeyond
<1>4. /\ c \in Nat /\ c * c < 1000000 * (n - 1)
      /\ n < 15 => 1000000 * (n - 2) <= 2 * (c * c)
  <2>1. n \in 3 .. 15
    BY <1>1
  <2> HIDE DEF n
  <2>2. Between(c, n)
    BY ONLY <2>1, CriticalBetween
  <2> HIDE DEF c
  <2> QED BY <2>2 DEF Between
<1>5. /\ IsFiniteSet(1 .. n) /\ Cardinality(1 .. n) = n
      /\ IsFiniteSet(top) /\ IsFiniteSet(rest) /\ m \in Nat /\ Cardinality(top) \in Nat
      /\ m = n - Cardinality(top)
  <2>1. IsFiniteSet(1 .. n) /\ Cardinality(1 .. n) = n
    BY <1>1, FS_Interval
  <2>2. rest = (1 .. n) \ top /\ top \subseteq 1 .. n /\ rest \subseteq 1 .. n
        /\ (1 .. n) \cap top = top
    BY <1>1
  <2> HIDE DEF top, rest
  <2>3. IsFiniteSet(top) /\ IsFiniteSet(rest)
    BY <2>1, <2>2, FS_Subset
  <2>4. Cardinality(rest) = Cardinality(1 .. n) - Cardinality((1 .. n) \cap top)
    BY <2>1, <2>2, <2>3, FS_Difference
  <2> QED BY <2>1, <2>2, <2>3, <2>4, FS_CardinalityType
<1> HIDE DEF x, h, s, q, c, top, rest, n
<1>6. Cardinality(flags) <= 1 /\ flags \subseteq top
  <2>1. Cardinality({h}) = 1 /\ Cardinality({}) = 0
    BY FS_Singleton, FS_EmptySet
  <2> QED BY <1>2, <1>3, <2>1
<1>7. ASSUME Cardinality(top) = 1, \A i \in (1 .. n) \ top : rates[i] = 0 PROVE flags = top
  <2>1. top = {h}
    BY <1>2, <1>5, <1>7, FS_Singleton
  <2>2. h \in 1 .. n /\ rates[h] = x
    BY <1>1, <1>2 DEF top
  <2>3. x # 0
    <3>1. PICK i \in 1 .. n : i # h
      <4>1. 1 \in 1 .. n /\ 2 \in 1 .. n /\ 1 # 2
        BY <1>1
      <4> QED BY <4>1
    <3>2. rates[i] = 0 /\ rates[i] # x
      BY <1>1, <1>7, <2>1, <3>1 DEF top
    <3> QED BY <3>2
  <2> DEFINE U == (1 .. n) \ {h}
  <2>4. /\ s = rates[h] + SumOver(rates, U)
        /\ SumOver(q, 1 .. n) = q[h] + SumOver(q, U)
    <3>1. \A i \in 1 .. n : rates[i] \in Int /\ q[i] \in Int
      BY <1>1 DEF q
    <3>2. SumOver(rates, 1 .. n) = rates[h] + SumOver(rates, U)
      BY <1>5, <2>2, <3>1, SumRemove
    <3>3. SumOver(q, 1 .. n) = q[h] + SumOver(q, U)
      BY <1>5, <2>2, <3>1, SumRemove
    <3> QED BY <3>2, <3>3 DEF s
  <2>5. SumOver(rates, U) = 0 /\ SumOver(q, U) = 0
    <3>1. \A i \in U : rates[i] \in 0 .. 0 /\ q[i] \in 0 .. 0
      BY <1>7, <2>1 DEF q
    <3>2. IsFiniteSet(U) /\ Cardinality(U) \in Nat
      BY <1>5, FS_Subset, FS_CardinalityType
    <3>3. /\ SumOver(rates, U) \in Nat /\ SumOver(rates, U) <= 0 * Cardinality(U)
          /\ SumOver(q, U) \in Nat /\ SumOver(q, U) <= 0 * Cardinality(U)
      BY <3>1, <3>2, SumBound
    <3> QED BY <3>2, <3>3
  <2>6. s = x /\ SumOver(q, 1 .. n) = x * x
    BY <1>2, <2>2, <2>4, <2>5 DEF q
  <2>7. a = n * x - x /\ spread = n * (x * x) - x * x
    BY <2>6 DEF Spread
  <2> HIDE DEF a, spread
  <2>8. Beyond(c, a, spread)
    <3>1. x \in Nat \ {0} /\ n \in Nat /\ n > 2
      BY <1>1, <1>2, <2>3
    <3>2. Lone(n, x, a, c, spread)
      BY <1>4, <2>7, <3>1 DEF Lone
    <3> QED BY <3>2, LoneIsBeyond
  <2> QED BY <1>3, <2>1, <2>8
<1>8. ASSUME Cardinality(top) > 1, n < 15 PROVE flags = {}
  <2>1. ShortBy(n, rates, x, m)
    <3>1. m = Cardinality({i \in 1 .. n : rates[i] # x})
      BY DEF rest
    <3>2. n \in Nat /\ x \in Int /\ \A i \in 1 .. n : rates[i] \in Int
      BY <1>1, <1>2
    <3> HIDE DEF m
    <3> QED BY ONLY <3>1, <3>2, ShortByRest
  <2>2. PICK e \in Nat : spread = n * e - a * a /\ a * a <= m * e /\ a \in Int
    BY <2>1 DEF ShortBy, s, q
  <2>3. m \in Nat /\ m <= n - 2 /\ n \in Nat /\ n > 2
    BY <1>1, <1>5, <1>8
  <2> HIDE DEF a, spread, m
  <2>4. ~ Beyond(c, a, spread)
    <3>1. Shared(n, m, e, a, c, spread)
      BY <1>4, <1>8, <2>2, <2>3 DEF Shared
    <3> QED BY <3>1, SharedIsNotBeyond
  <2> QED BY <1>3, <2>4
<1> QED BY <1>1, <1>6, <1>7, <1>8 DEF OutliersOnly, top, x, n

-----------------------------------------------------------------------------
(* Where the quartiles of n values are.                                    *)
Quartiles(n, a, b) ==
  /\ a \in Nat /\ b \in Nat /\ a <= b /\ b <= n - 1
  /\ n - 1 - b <= b - a
  /\ 3 * (n - 1) - 2 <= 4 * b

(* The nearest to a quarter of m, a half to the even.                      *)
IsNearest(a, m) ==
  /\ a \in Nat /\ 4 * a - 2 <= m /\ m <= 4 * a + 2
  /\ \A k \in Nat : m = 4 * k + 2 => a = IF k % 2 = 1 THEN k + 1 ELSE k

LEMMA DivisionIs ==
  ASSUME NEW k \in Nat, NEW d \in Nat \ {0}, NEW r \in 0 .. d - 1
  PROVE  (d * k + r) \div d = k /\ (d * k + r) % d = r
OBVIOUS

Divides(m, d, k, r) == k \in Nat /\ r \in 0 .. d - 1 /\ m = d * k + r

LEMMA Divided ==
  ASSUME NEW d \in Nat \ {0}, NEW m \in Nat
  PROVE  \E k, r : Divides(m, d, k, r)
<1> DEFINE T == {i \in Nat : \E k, r : Divides(i, d, k, r)}
<1>1. 0 \in T
  <2>1. Divides(0, d, 0, 0)
    BY DEF Divides
  <2> QED BY <2>1
<1>2. ASSUME NEW i \in Nat, i \in T PROVE i + 1 \in T
  <2>1. PICK k, r : Divides(i, d, k, r)
    BY <1>2
  <2>2. k \in Nat /\ r \in 0 .. d - 1 /\ i = d * k + r
    BY <2>1 DEF Divides
  <2>3. CASE r + 1 \in 0 .. d - 1
    <3>1. Divides(i + 1, d, k, r + 1)
      BY <2>2, <2>3 DEF Divides
    <3> QED BY <3>1
  <2>4. CASE r + 1 \notin 0 .. d - 1
    <3>1. r = d - 1
      BY <2>2, <2>4
    <3>2. d * (k + 1) + 0 = d * k + d /\ d * k \in Int
      BY <2>2
    <3>3. Divides(i + 1, d, k + 1, 0)
      BY <2>2, <3>1, <3>2 DEF Divides
    <3> QED BY <3>3
  <2> QED BY <2>3, <2>4
<1> HIDE DEF T
<1>3. m \in T
  BY <1>1, <1>2, Upward
<1> QED BY <1>3 DEF T

LEMMA NearestIs ==
  ASSUME NEW m \in Nat
  PROVE  IsNearest(Nearest(m), m)
<1>1. PICK u \in Nat, v \in 0 .. 3 : m = 4 * u + v
  <2>1. PICK u, v : Divides(m, 4, u, v)
    BY Divided
  <2> QED BY <2>1 DEF Divides
<1>2. m \div 4 = u /\ m % 4 = v
  BY <1>1, DivisionIs
<1>3. Nearest(m) = IF v > 2 \/ (v = 2 /\ u % 2 = 1) THEN u + 1 ELSE u
  BY <1>2 DEF Nearest
<1>4. \A k \in Nat : m = 4 * k + 2 => Nearest(m) = IF k % 2 = 1 THEN k + 1 ELSE k
  <2> TAKE k \in Nat
  <2> HAVE m = 4 * k + 2
  <2>1. u = k /\ v = 2
    BY <1>1
  <2> QED BY <1>3, <2>1
<1>5. Nearest(m) = u \/ Nearest(m) = u + 1
  BY <1>3
<1>6. Nearest(m) = u + 1 => v >= 2
  BY <1>3
<1>7. Nearest(m) = u => v <= 2
  BY <1>3
<1>8. Nearest(m) \in Nat /\ 4 * Nearest(m) - 2 <= m /\ m <= 4 * Nearest(m) + 2
  <2>1. \E y \in {u, u + 1} : y = Nearest(m)
    BY <1>5
  <2> QED BY <1>1, <1>5, <1>6, <1>7
<1> QED BY <1>4, <1>8 DEF IsNearest

LEMMA QuartilesAre ==
  ASSUME NEW n \in Nat \ {0}, NEW a, NEW b, NEW m \in Nat, n = m + 1,
         IsNearest(a, m), IsNearest(b, 3 * m)
  PROVE  Quartiles(n, a, b)
<1>1. PICK q \in Nat, r \in 0 .. 3 : m = 4 * q + r
  <2>1. PICK u, v : Divides(m, 4, u, v)
    BY Divided
  <2> QED BY <2>1 DEF Divides
<1>2. /\ a \in Nat /\ 4 * a - 2 <= m /\ m <= 4 * a + 2
      /\ b \in Nat /\ 4 * b - 2 <= 3 * m /\ 3 * m <= 4 * b + 2
  BY DEF IsNearest
<1>3. CASE r \in {0, 1, 3}
  <2>1. CASE r = 0
    BY <1>1, <1>2, <2>1 DEF Quartiles
  <2>2. CASE r = 1
    BY <1>1, <1>2, <2>2 DEF Quartiles
  <2>3. CASE r = 3
    BY <1>1, <1>2, <2>3 DEF Quartiles
  <2> QED BY <1>3, <2>1, <2>2, <2>3
<1>4. CASE r = 2
  <2>1. m = 4 * q + 2 /\ 3 * m = 4 * (3 * q + 1) + 2 /\ 3 * q + 1 \in Nat
    BY <1>1, <1>4
  <2>2. a = IF q % 2 = 1 THEN q + 1 ELSE q
    BY <2>1 DEF IsNearest
  <2>3. b = IF (3 * q + 1) % 2 = 1 THEN (3 * q + 1) + 1 ELSE 3 * q + 1
    BY <2>1 DEF IsNearest
  <2>4. PICK h \in Nat, o \in 0 .. 1 : q = 2 * h + o
    <3>1. PICK u, v : Divides(q, 2, u, v)
      BY Divided
    <3> QED BY <3>1 DEF Divides
  <2>5. CASE o = 1
    <3>1. q = 2 * h + 1 /\ 3 * q + 1 = 2 * (3 * h + 2) + 0 /\ 3 * h + 2 \in Nat
      BY <2>4, <2>5
    <3>2. q % 2 = 1 /\ (3 * q + 1) % 2 = 0
      <4>1. (2 * h + 1) % 2 = 1 /\ (2 * (3 * h + 2) + 0) % 2 = 0
        BY <3>1, DivisionIs
      <4> QED BY <3>1, <4>1
    <3> QED BY <2>1, <2>2, <2>3, <3>1, <3>2 DEF Quartiles
  <2>6. CASE o = 0
    <3>1. q = 2 * h + 0 /\ 3 * q + 1 = 2 * (3 * h) + 1 /\ 3 * h \in Nat
      BY <2>4, <2>6
    <3>2. q % 2 = 0 /\ (3 * q + 1) % 2 = 1
      <4>1. (2 * h + 0) % 2 = 0 /\ (2 * (3 * h) + 1) % 2 = 1
        BY <3>1, DivisionIs
      <4> QED BY <3>1, <4>1
    <3> QED BY <2>1, <2>2, <2>3, <3>1, <3>2 DEF Quartiles
  <2> QED BY <2>4, <2>5, <2>6
<1> QED BY <1>3, <1>4

-----------------------------------------------------------------------------
(* Where Arranged takes its elements from.                                 *)
From(I, key) ==
  [k \in 1 .. Cardinality(I) |-> CHOOSE i \in I : Cardinality(UpTo(i, I, key)) = k]

Rankable(I, key) == I \in SUBSET Int /\ IsFiniteSet(I) /\ \A i \in I : key[i] \in Int

LEMMA ArrangedFrom ==
  ASSUME NEW I, NEW key, Rankable(I, key)
  PROVE  /\ From(I, key) \in [1 .. Cardinality(I) -> I]
         /\ \A k \in 1 .. Cardinality(I) : Cardinality(UpTo(From(I, key)[k], I, key)) = k
         /\ \A s : Arranged(s, I, key) = [k \in 1 .. Cardinality(I) |-> s[From(I, key)[k]]]
<1>1. I \in SUBSET Int /\ IsFiniteSet(I) /\ \A i \in I : key[i] \in Int
  BY DEF Rankable
<1>2. \A k \in 1 .. Cardinality(I) : \E i \in I : Cardinality(UpTo(i, I, key)) = k
  BY <1>1, OneOfEachRank
<1>3. \A k \in 1 .. Cardinality(I) :
        From(I, key)[k] \in I /\ Cardinality(UpTo(From(I, key)[k], I, key)) = k
  BY <1>2 DEF From
<1>4. From(I, key) \in [1 .. Cardinality(I) -> I]
  BY <1>3 DEF From
<1>5. \A s : Arranged(s, I, key) = [k \in 1 .. Cardinality(I) |-> s[From(I, key)[k]]]
  BY DEF Arranged, From
<1> QED BY <1>3, <1>4, <1>5

SameOrder(I, key, other) ==
  \A i, j \in I : /\ other[i] < other[j] <=> key[i] < key[j]
                  /\ other[i] = other[j] <=> key[i] = key[j]

LEMMA FromOrder ==
  ASSUME NEW I, NEW key, NEW other, Rankable(I, key), Rankable(I, other),
         SameOrder(I, key, other)
  PROVE  From(I, other) = From(I, key)
<1> DEFINE n == Cardinality(I)  f == From(I, key)  g == From(I, other)
<1>1. /\ f \in [1 .. n -> I] /\ g \in [1 .. n -> I]
      /\ \A k \in 1 .. n : Cardinality(UpTo(f[k], I, key)) = k
      /\ \A k \in 1 .. n : Cardinality(UpTo(g[k], I, other)) = k
  BY ArrangedFrom
<1> HIDE DEF f, g, n
<1>2. ASSUME NEW i \in I PROVE UpTo(i, I, other) = UpTo(i, I, key)
  <2>1. \A j \in I : /\ other[j] < other[i] <=> key[j] < key[i]
                     /\ other[j] = other[i] <=> key[j] = key[i]
    BY DEF SameOrder
  <2>2. \A j \in I : (other[j] < other[i] \/ (other[j] = other[i] /\ j <= i))
                   <=> (key[j] < key[i] \/ (key[j] = key[i] /\ j <= i))
    BY <2>1
  <2>3. {j \in I : other[j] < other[i] \/ (other[j] = other[i] /\ j <= i)}
          = {j \in I : key[j] < key[i] \/ (key[j] = key[i] /\ j <= i)}
    BY <2>2
  <2> QED BY <2>3 DEF UpTo
<1>3. ASSUME NEW k \in 1 .. n PROVE g[k] = f[k]
  <2>1. f[k] \in I /\ g[k] \in I
    BY <1>1
  <2>2. Cardinality(UpTo(f[k], I, key)) = k /\ Cardinality(UpTo(g[k], I, key)) = k
    BY <1>1, <1>2, <2>1
  <2>3. I \in SUBSET Int /\ IsFiniteSet(I) /\ \A i \in I : key[i] \in Int
    BY DEF Rankable
  <2>4. \A i, j \in I : Before(i, j, key) =>
              Cardinality(UpTo(i, I, key)) < Cardinality(UpTo(j, I, key))
    BY <2>3, RankGrows
  <2>5. ~ Before(f[k], g[k], key) /\ ~ Before(g[k], f[k], key)
    <3>1. ~ (k < k)
      OBVIOUS
    <3> QED BY <2>1, <2>2, <2>4, <3>1
  <2>6. /\ f[k] \in Int /\ g[k] \in Int /\ key[f[k]] \in Int /\ key[g[k]] \in Int
    BY <2>1, <2>3
  <2> QED BY <2>5, <2>6 DEF Before
<1>4. f = g
  <2>1. f = [k \in 1 .. n |-> f[k]] /\ g = [k \in 1 .. n |-> g[k]]
    BY <1>1
  <2>2. [k \in 1 .. n |-> f[k]] = [k \in 1 .. n |-> g[k]]
    BY <1>3
  <2> QED BY <2>1, <2>2
<1> QED BY <1>4 DEF f, g

-----------------------------------------------------------------------------
(* The prices that are there.                                              *)
Ascending(s, n) ==
  /\ n \in Nat /\ s \in Seq(Nat) /\ Len(s) = n
  /\ \A i, j \in 1 .. n : i <= j => s[i] <= s[j]

Given(prices) == {i \in DOMAIN prices : prices[i] # None}

LEMMA GivenAre ==
  ASSUME None \notin Int, NEW prices \in Seq(Nat \cup {None})
  PROVE  /\ Given(prices) \in SUBSET (DOMAIN prices) /\ Given(prices) \in SUBSET Int
         /\ IsFiniteSet(Given(prices)) /\ Cardinality(Given(prices)) \in Nat
         /\ \A i \in Given(prices) : prices[i] \in Nat
         /\ Rankable(Given(prices), [i \in Given(prices) |-> i])
<1>1. DOMAIN prices = 1 .. Len(prices) /\ Len(prices) \in Nat
      /\ \A i \in DOMAIN prices : prices[i] \in Nat \cup {None}
  BY Element
<1>2. IsFiniteSet(DOMAIN prices)
  BY <1>1, FS_Interval
<1>3. /\ Given(prices) \in SUBSET (DOMAIN prices) /\ Given(prices) \in SUBSET Int
      /\ \A i \in Given(prices) : prices[i] \in Nat
  BY <1>1 DEF Given
<1>4. IsFiniteSet(Given(prices)) /\ Cardinality(Given(prices)) \in Nat
  BY <1>2, <1>3, FS_Subset, FS_CardinalityType
<1> QED BY <1>3, <1>4 DEF Rankable

LEMMA PresentIs ==
  ASSUME None \notin Int, NEW prices \in Seq(Nat \cup {None})
  PROVE  Ascending(Present(prices), Cardinality(Given(prices)))
<1> DEFINE I == Given(prices)  n == Cardinality(I)  there == Only(prices, I)
           key == [i \in I |-> i]  f == From(I, key)
<1>1. I \in SUBSET Int /\ n \in Nat /\ (\A i \in I : prices[i] \in Nat) /\ Rankable(I, key)
  BY GivenAre
<1>2. there = Arranged(prices, I, key)
  BY DEF Only
<1> HIDE DEF key, I
<1>3. f \in [1 .. n -> I] /\ there = [k \in 1 .. n |-> prices[f[k]]]
  BY <1>1, <1>2, ArrangedFrom
<1> HIDE DEF f, there, n
<1>4. there \in [1 .. n -> Nat]
  BY <1>1, <1>3
<1>5. there \in Seq(Nat) /\ Len(there) = n /\ DOMAIN there = 1 .. n
  BY <1>1, <1>4
<1>6. Present(prices) = Sorted(there, there)
  BY DEF Present, there, I, Given
<1> DEFINE sorted == Sorted(there, there)
<1>7. sorted \in Seq(Nat) /\ Len(sorted) = n /\ InOrder(sorted, there, there, n)
  <2>1. \A i \in DOMAIN there : there[i] \in Int
    BY <1>4
  <2> QED BY <1>5, <2>1, SortedPermutes
<1> HIDE DEF sorted
<1>8. PICK from \in PlacesIn(n, 1 .. n) :
        /\ \A k \in 1 .. n : sorted[k] = there[from[k]]
        /\ \A k, m \in 1 .. n : k < m => there[from[k]] <= there[from[m]]
  BY <1>7 DEF InOrder
<1>9. \A k, m \in 1 .. n : k <= m => sorted[k] <= sorted[m]
  <2> TAKE k \in 1 .. n, m \in 1 .. n
  <2> HAVE k <= m
  <2>1. from[k] \in 1 .. n /\ there[from[k]] \in Nat
    BY <1>4, <1>8 DEF PlacesIn
  <2>2. k = m \/ k < m
    OBVIOUS
  <2> QED BY <1>8, <2>1, <2>2
<1>10. Ascending(sorted, n)
  BY <1>1, <1>7, <1>9 DEF Ascending
<1> QED BY <1>6, <1>10 DEF sorted, n, I

-----------------------------------------------------------------------------
LEMMA WithoutPrice ==
  ASSUME None \notin Int, NEW prices \in Seq(Nat \cup {None})
  PROVE  Present(Append(prices, None)) = Present(prices)
<1> DEFINE more == Append(prices, None)  I == Given(prices)  key == [i \in I |-> i]
           f == From(I, key)
<1>1. /\ \A i \in DOMAIN prices : i \in DOMAIN more /\ more[i] = prices[i]
      /\ \A i \in DOMAIN more : i \in DOMAIN prices \/ more[i] = None
  OBVIOUS
<1>2. Given(more) = I
  BY <1>1 DEF Given
<1>3. I \in SUBSET (DOMAIN prices) /\ Rankable(I, key)
  BY GivenAre
<1> HIDE DEF more, I, key
<1>4. /\ f \in [1 .. Cardinality(I) -> I]
      /\ Arranged(more, I, key) = [k \in 1 .. Cardinality(I) |-> more[f[k]]]
      /\ Arranged(prices, I, key) = [k \in 1 .. Cardinality(I) |-> prices[f[k]]]
  BY <1>3, ArrangedFrom
<1> HIDE DEF f
<1>5. \A k \in 1 .. Cardinality(I) : more[f[k]] = prices[f[k]]
  BY <1>1, <1>3, <1>4
<1>6. Arranged(more, I, key) = Arranged(prices, I, key)
  BY <1>4, <1>5
<1>7. Only(more, I) = Only(prices, I)
  BY <1>6 DEF Only, key
<1>8. Present(more) = Sorted(Only(more, I), Only(more, I))
  BY <1>2 DEF Present, Given
<1>9. Present(prices) = Sorted(Only(prices, I), Only(prices, I))
  BY DEF Present, Given, I
<1> QED BY <1>7, <1>8, <1>9 DEF more

Doubled(prices) == [i \in DOMAIN prices |-> IF prices[i] = None THEN None ELSE 2 * prices[i]]

LEMMA DoubledPrices ==
  ASSUME None \notin Int, NEW prices \in Seq(Nat \cup {None})
  PROVE  /\ Doubled(prices) \in Seq(Nat \cup {None})
         /\ Present(Doubled(prices)) = [k \in 1 .. Cardinality(Given(prices)) |-> 2 * Present(prices)[k]]
<1> DEFINE twice == Doubled(prices)  I == Given(prices)  key == [i \in I |-> i]
           f == From(I, key)  n == Cardinality(I)
           there == Only(prices, I)  doubled == Only(twice, I)  J == 1 .. n
           g == From(J, there)
<1>1. DOMAIN prices = 1 .. Len(prices) /\ Len(prices) \in Nat
      /\ \A i \in DOMAIN prices : prices[i] \in Nat \cup {None}
  BY Element
<1>2. /\ DOMAIN twice = DOMAIN prices
      /\ \A i \in DOMAIN prices : prices[i] = None => twice[i] = None
      /\ \A i \in DOMAIN prices : prices[i] # None => twice[i] = 2 * prices[i]
  BY DEF Doubled
<1>3. \A i \in DOMAIN prices : prices[i] # None => prices[i] \in Nat /\ 2 * prices[i] \in Nat
  BY <1>1
<1> HIDE DEF twice
<1>4. twice \in Seq(Nat \cup {None})
  <2>1. twice \in [1 .. Len(prices) -> Nat \cup {None}]
    <3>1. \A i \in DOMAIN prices : twice[i] \in Nat \cup {None}
      BY <1>2, <1>3
    <3>2. twice = [i \in DOMAIN prices |-> twice[i]]
      BY <1>2 DEF twice, Doubled
    <3> QED BY <1>1, <3>1, <3>2
  <2> QED BY <1>1, <2>1
<1>5. Given(twice) = I
  <2>1. \A i \in DOMAIN prices : twice[i] # None <=> prices[i] # None
    BY <1>2, <1>3
  <2> QED BY <1>2, <2>1 DEF Given
<1>6. /\ I \in SUBSET (DOMAIN prices) /\ n \in Nat /\ Rankable(I, key)
      /\ \A i \in I : prices[i] \in Nat /\ twice[i] = 2 * prices[i]
  BY <1>2, GivenAre DEF Given
<1>7. there = Arranged(prices, I, key) /\ doubled = Arranged(twice, I, key)
  BY DEF Only
<1> HIDE DEF I, key, n
<1>8. /\ f \in [1 .. n -> I] /\ there = [k \in 1 .. n |-> prices[f[k]]]
      /\ doubled = [k \in 1 .. n |-> twice[f[k]]]
  BY <1>6, <1>7, ArrangedFrom DEF n
<1> HIDE DEF f, there, doubled
<1>9. there \in [J -> Nat] /\ doubled = [k \in J |-> 2 * there[k]]
  BY <1>6, <1>8
<1>10. IsFiniteSet(J) /\ Cardinality(J) = n /\ J \in SUBSET Int
  BY <1>6, FS_Interval
<1> HIDE DEF J
<1>11. Rankable(J, there) /\ Rankable(J, doubled) /\ SameOrder(J, there, doubled)
  <2>1. \A i \in J : there[i] \in Int /\ doubled[i] \in Int /\ doubled[i] = 2 * there[i]
    BY <1>9
  <2>2. Rankable(J, there) /\ Rankable(J, doubled)
    BY <1>10, <2>1 DEF Rankable
  <2>3. SameOrder(J, there, doubled)
    BY <2>1 DEF SameOrder
  <2> QED BY <2>2, <2>3
<1>12. From(J, doubled) = g
  BY <1>11, FromOrder
<1>13. /\ g \in [J -> J]
       /\ Arranged(there, J, there) = [k \in J |-> there[g[k]]]
       /\ Arranged(doubled, J, doubled) = [k \in J |-> doubled[g[k]]]
  <2>1. g \in [1 .. Cardinality(J) -> J]
        /\ Arranged(there, J, there) = [k \in 1 .. Cardinality(J) |-> there[g[k]]]
    BY <1>11, ArrangedFrom
  <2>2. Arranged(doubled, J, doubled) = [k \in 1 .. Cardinality(J) |-> doubled[From(J, doubled)[k]]]
    BY <1>11, ArrangedFrom
  <2>3. 1 .. Cardinality(J) = J
    BY <1>10 DEF J
  <2> QED BY <1>12, <2>1, <2>2, <2>3
<1> HIDE DEF g
<1>14. /\ Present(prices) = Arranged(there, J, there)
       /\ Present(twice) = Arranged(doubled, J, doubled)
  <2>1. DOMAIN there = J /\ DOMAIN doubled = J
    BY <1>9
  <2>2. Present(prices) = Sorted(there, there)
    BY DEF Present, Given, I, there
  <2>3. Present(twice) = Sorted(doubled, doubled)
    BY <1>5 DEF Present, Given, doubled
  <2> QED BY <2>1, <2>2, <2>3 DEF Sorted
<1>15. Present(twice) = [k \in J |-> 2 * Present(prices)[k]]
  <2>1. \A k \in J : doubled[g[k]] = 2 * there[g[k]]
    BY <1>9, <1>13
  <2> QED BY <1>13, <1>14, <2>1
<1> QED BY <1>4, <1>15 DEF twice, J, n, I

(* The flags of a catalog by four of its prices.                           *)
FlagsFor(lowest, p25, p75, highest) ==
  (IF lowest <= 0 THEN {"nonpositive"} ELSE {})
    \cup (IF p25 > 0 /\ p75 > p25 /\ BeyondFence(p25, p75, highest) THEN {"beyond"} ELSE {})

FlaggedBy(prices, s, n, a, b) ==
  /\ n = 0 => PriceFlags(prices) = {}
  /\ n > 0 => PriceFlags(prices) = FlagsFor(s[1], s[a], s[b], s[n])

At(n, quarters) == Nearest(quarters * (n - 1)) + 1

LEMMA FlaggedByPrices ==
  ASSUME NEW prices, NEW s, s = Present(prices), NEW n, Ascending(s, n)
  PROVE  FlaggedBy(prices, s, n, At(n, 1), At(n, 3))
<1>1. n \in Nat /\ Len(s) = n /\ (s = <<>> <=> n = 0) /\ Last(s) = s[n]
  <2>1. n \in Nat /\ s \in Seq(Nat) /\ Len(s) = n
    BY DEF Ascending
  <2>2. Last(s) = s[Len(s)]
    BY DEF Last
  <2>3. Len(s) = 0 <=> s = <<>>
    BY <2>1, LengthZero
  <2> QED BY ONLY <2>1, <2>2, <2>3
<1>2. Percentile(s, 1) = s[At(n, 1)] /\ Percentile(s, 3) = s[At(n, 3)]
  BY <1>1 DEF Percentile, At
<1>3. n = 0 => PriceFlags(prices) = {}
  BY <1>1 DEF PriceFlags
<1>4. n > 0 => PriceFlags(prices) = FlagsFor(s[1], Percentile(s, 1), Percentile(s, 3), Last(s))
  BY <1>1 DEF PriceFlags, FlagsFor
<1> QED BY <1>1, <1>2, <1>3, <1>4 DEF FlaggedBy

-----------------------------------------------------------------------------
(* Twice the prices have the same flags.                                   *)
LEMMA FenceDoubled ==
  ASSUME NEW x \in Nat, NEW y \in Nat, NEW z \in Nat
  PROVE  BeyondFence(2 * x, 2 * y, 2 * z) <=> BeyondFence(x, y, z)
<1> DEFINE l == z * x * x * x  r == y * y * y * y
<1>1. (2 * z) * (2 * x) * (2 * x) * (2 * x) = 16 * l
  OBVIOUS
<1>2. (2 * y) * (2 * y) * (2 * y) * (2 * y) = 16 * r
  OBVIOUS
<1>3. l \in Int /\ r \in Int
  OBVIOUS
<1>4. BeyondFence(x, y, z) <=> l > r
  BY DEF BeyondFence
<1>5. BeyondFence(2 * x, 2 * y, 2 * z) <=> 16 * l > 16 * r
  BY <1>1, <1>2 DEF BeyondFence
<1> HIDE DEF l, r
<1> QED BY <1>3, <1>4, <1>5

SameDoubled(w, x, y, z) == FlagsFor(2 * w, 2 * x, 2 * y, 2 * z) = FlagsFor(w, x, y, z)

LEMMA FlagsDoubled ==
  ASSUME NEW w \in Nat, NEW x \in Nat, NEW y \in Nat, NEW z \in Nat
  PROVE  SameDoubled(w, x, y, z)
<1>1. BeyondFence(2 * x, 2 * y, 2 * z) <=> BeyondFence(x, y, z)
  BY FenceDoubled
<1>2. /\ 2 * w <= 0 <=> w <= 0
      /\ 2 * x > 0 <=> x > 0
      /\ 2 * y > 2 * x <=> y > x
  OBVIOUS
<1> QED BY <1>1, <1>2 DEF FlagsFor, SameDoubled

(* The quartiles' places.                                                  *)
LEMMA PlacesAre ==
  ASSUME NEW n \in Nat \ {0}
  PROVE  /\ Quartiles(n, At(n, 1) - 1, At(n, 3) - 1)
         /\ At(n, 1) \in 1 .. n /\ At(n, 3) \in 1 .. n
<1> DEFINE m == n - 1  a == Nearest(m)  b == Nearest(3 * m)
<1>1. m \in Nat /\ n = m + 1 /\ 1 * m = m /\ 3 * m \in Nat
  OBVIOUS
<1>2. IsNearest(a, m) /\ IsNearest(b, 3 * m)
  BY <1>1, NearestIs
<1>3. Quartiles(n, a, b)
  <2> HIDE DEF m, a, b
  <2> QED BY <1>1, <1>2, QuartilesAre
<1>4. a \in Nat /\ b \in Nat /\ a <= b /\ b <= n - 1
  BY <1>3 DEF Quartiles
<1>5. At(n, 1) = a + 1 /\ At(n, 3) = b + 1
  BY <1>1 DEF At
<1> HIDE DEF a, b
<1>6. At(n, 1) - 1 = a /\ At(n, 3) - 1 = b
  BY <1>4, <1>5
<1> QED BY <1>3, <1>4, <1>5, <1>6

LEMMA DoubledFlags ==
  ASSUME None \notin Int, NEW prices \in Seq(Nat \cup {None})
  PROVE  PriceFlags(Doubled(prices)) = PriceFlags(prices)
<1> DEFINE n == Cardinality(Given(prices))  s == Present(prices)
           twice == Doubled(prices)  t == Present(twice)  a == At(n, 1)  b == At(n, 3)
<1>1. Ascending(s, n)
  BY PresentIs
<1>2. t = [k \in 1 .. n |-> 2 * s[k]]
  BY DoubledPrices
<1> HIDE DEF n, s, t, twice
<1>3. n \in Nat /\ Len(s) = n /\ \A k \in 1 .. n : s[k] \in Nat
  BY <1>1, Element DEF Ascending
<1>4. Ascending(t, n)
  <2>1. \A k \in 1 .. n : t[k] = 2 * s[k] /\ t[k] \in Nat
    BY <1>2, <1>3
  <2>2. t \in Seq(Nat) /\ Len(t) = n
    <3>1. t \in [1 .. n -> Nat]
      BY <1>2, <1>3
    <3> QED BY <1>3, <3>1
  <2>3. \A i, j \in 1 .. n : i <= j => s[i] <= s[j]
    BY <1>1 DEF Ascending
  <2>4. \A i, j \in 1 .. n : i <= j => t[i] <= t[j]
    BY <1>3, <2>1, <2>3
  <2> QED BY <1>3, <2>2, <2>4 DEF Ascending
<1>5. FlaggedBy(prices, s, n, a, b)
  BY <1>1, FlaggedByPrices DEF s
<1>6. FlaggedBy(twice, t, n, a, b)
  BY <1>4, FlaggedByPrices DEF t
<1>7. CASE n = 0
  BY <1>5, <1>6, <1>7 DEF FlaggedBy, twice
<1>8. CASE n > 0
  <2>1. a \in 1 .. n /\ b \in 1 .. n /\ 1 \in 1 .. n /\ n \in 1 .. n
    BY <1>3, <1>8, PlacesAre
  <2> HIDE DEF a, b
  <2>2. t[1] = 2 * s[1] /\ t[a] = 2 * s[a] /\ t[b] = 2 * s[b] /\ t[n] = 2 * s[n]
    BY <1>2, <2>1
  <2>3. s[1] \in Nat /\ s[a] \in Nat /\ s[b] \in Nat /\ s[n] \in Nat
    BY <1>3, <2>1
  <2>4. FlagsFor(t[1], t[a], t[b], t[n]) = FlagsFor(s[1], s[a], s[b], s[n])
    <3>1. SameDoubled(s[1], s[a], s[b], s[n])
      BY ONLY <2>3, FlagsDoubled
    <3> QED BY <2>2, <3>1 DEF SameDoubled
  <2> QED BY <1>5, <1>6, <1>8, <2>4 DEF FlaggedBy, twice
<1> QED BY <1>3, <1>7, <1>8

LEMMA SameWithoutPrice ==
  ASSUME None \notin Int, NEW prices \in Seq(Nat \cup {None})
  PROVE  PriceFlags(Append(prices, None)) = PriceFlags(prices)
<1>1. Present(Append(prices, None)) = Present(prices)
  BY WithoutPrice
<1> QED BY <1>1 DEF PriceFlags

-----------------------------------------------------------------------------
(* In a geometric sequence the ratios of two pairs equally far apart agree.*)
Geometric(s, n, ratio) == \A i \in 1 .. n - 1 : s[i + 1] = ratio * s[i]

Rated(s, i, j, k) == s[i + k] * s[j] = s[i] * s[j + k]

CrossKept(r, x, y, u, v) == (r * u) * y = x * (r * v)

LEMMA CrossOnce ==
  ASSUME NEW x \in Int, NEW y \in Int, NEW u \in Int, NEW v \in Int, NEW r \in Int,
         u * y = x * v
  PROVE  CrossKept(r, x, y, u, v)
<1>1. (r * u) * y = r * (u * y) /\ x * (r * v) = r * (x * v)
  OBVIOUS
<1> QED BY <1>1 DEF CrossKept

LEMMA CrossRatios ==
  ASSUME NEW n \in Nat, NEW ratio \in Nat, NEW s, \A i \in 1 .. n : s[i] \in Nat,
         Geometric(s, n, ratio),
         NEW i \in 1 .. n, NEW j \in 1 .. n, NEW k \in Nat, i + k <= n, j + k <= n
  PROVE  Rated(s, i, j, k)
<1> DEFINE T == {l \in Nat : i + l <= n /\ j + l <= n => Rated(s, i, j, l)}
<1>1. 0 \in T
  BY DEF Rated
<1>2. ASSUME NEW l \in Nat, l \in T PROVE l + 1 \in T
  <2> SUFFICES ASSUME i + (l + 1) <= n, j + (l + 1) <= n PROVE Rated(s, i, j, l + 1)
    OBVIOUS
  <2>1. Rated(s, i, j, l)
    BY <1>2
  <2>2. /\ i + l \in 1 .. n - 1 /\ j + l \in 1 .. n - 1 /\ i + l \in 1 .. n /\ j + l \in 1 .. n
        /\ i + (l + 1) = (i + l) + 1 /\ j + (l + 1) = (j + l) + 1
    OBVIOUS
  <2>3. s[i + (l + 1)] = ratio * s[i + l] /\ s[j + (l + 1)] = ratio * s[j + l]
    BY <2>2 DEF Geometric
  <2>4. s[i] \in Int /\ s[j] \in Int /\ s[i + l] \in Int /\ s[j + l] \in Int
    BY <2>2
  <2>5. (ratio * s[i + l]) * s[j] = s[i] * (ratio * s[j + l])
    <3>1. s[i + l] * s[j] = s[i] * s[j + l]
      BY <2>1 DEF Rated
    <3> DEFINE x == s[i]  y == s[j]  u == s[i + l]  v == s[j + l]
    <3> HIDE DEF x, y, u, v
    <3>2. x \in Int /\ y \in Int /\ u \in Int /\ v \in Int /\ ratio \in Int /\ u * y = x * v
      BY <2>4, <3>1 DEF x, y, u, v
    <3>3. CrossKept(ratio, x, y, u, v)
      BY ONLY <3>2, CrossOnce
    <3> QED BY <3>3 DEF CrossKept, x, y, u, v
  <2> QED BY <2>3, <2>5 DEF Rated
<1> HIDE DEF T
<1>3. k \in T
  BY <1>1, <1>2, Upward
<1> QED BY <1>3 DEF T

LEMMA ProductGrows ==
  ASSUME NEW x \in Nat, NEW y \in Nat, NEW u \in Nat, NEW v \in Nat, x <= u, y <= v
  PROVE  x * y \in Nat /\ u * v \in Nat /\ x * y <= u * v
<1>1. PICK d \in Nat : u = x + d
  <2>1. u - x \in Nat /\ u = x + (u - x)
    OBVIOUS
  <2> QED BY <2>1
<1>2. PICK e \in Nat : v = y + e
  <2>1. v - y \in Nat /\ v = y + (v - y)
    OBVIOUS
  <2> QED BY <2>1
<1>3. u * v = x * y + x * e + d * y + d * e
  BY <1>1, <1>2
<1>4. x * e \in Nat /\ d * y \in Nat /\ d * e \in Nat /\ x * y \in Nat
  BY <1>1, <1>2
<1> QED BY <1>3, <1>4

(* Four values of which the ratio above is no larger than below.           *)
LEMMA WithinFence ==
  ASSUME NEW x \in Nat, NEW y \in Nat, NEW z \in Nat, NEW w \in Nat,
         x <= y, w <= y, z * x = y * w
  PROVE  ~ BeyondFence(x, y, z)
<1>1. z * x \in Nat /\ z * x <= y * y /\ y * y \in Nat
  <2>1. y * w <= y * y /\ y * w \in Nat /\ y * y \in Nat
    BY ProductGrows
  <2> QED BY <2>1
<1>2. x * x \in Nat /\ x * x <= y * y
  BY ProductGrows
<1>3. (z * x) * (x * x) <= (y * y) * (y * y)
  BY <1>1, <1>2, ProductGrows
<1>4. z * x * x * x = (z * x) * (x * x) /\ y * y * y * y = (y * y) * (y * y)
  OBVIOUS
<1>5. (z * x) * (x * x) \in Int /\ (y * y) * (y * y) \in Int
  OBVIOUS
<1> QED BY <1>3, <1>4, <1>5 DEF BeyondFence

LEMMA SmoothIsNear ==
  ASSUME NEW n \in Nat \ {0}, NEW ratio \in Nat, NEW s, Ascending(s, n),
         Geometric(s, n, ratio), NEW a, NEW b, Quartiles(n, a - 1, b - 1), a \in 1 .. n, b \in 1 .. n
  PROVE  ~ BeyondFence(s[a], s[b], s[n])
<1> DEFINE e == n - b
<1>1. /\ \A i \in 1 .. n : s[i] \in Nat
      /\ \A i, j \in 1 .. n : i <= j => s[i] <= s[j]
  BY Element DEF Ascending
<1>2. a <= b /\ e \in Nat /\ b + e = n /\ a + e \in 1 .. n /\ a + e <= b
  BY DEF Quartiles
<1> HIDE DEF e
<1>3. Rated(s, b, a, e)
  <2>1. b + e <= n /\ a + e <= n
    BY <1>2
  <2> QED BY <1>1, <1>2, <2>1, CrossRatios
<1>4. s[n] * s[a] = s[b] * s[a + e]
  BY <1>2, <1>3 DEF Rated
<1>5. s[a] \in Nat /\ s[b] \in Nat /\ s[n] \in Nat /\ s[a + e] \in Nat
  BY <1>1, <1>2
<1>6. s[a] <= s[b] /\ s[a + e] <= s[b]
  BY <1>1, <1>2
<1> QED BY ONLY <1>4, <1>5, <1>6, WithinFence

-----------------------------------------------------------------------------
(* Only the values beyond the upper quartile can be the dearest.           *)
LEMMA FewPriciest ==
  ASSUME NEW n \in Nat \ {0}, NEW s, Ascending(s, n), NEW a, NEW b \in 1 .. n,
         Quartiles(n, a - 1, b - 1), s[b] # s[n]
  PROVE  4 * Cardinality({i \in 1 .. n : s[i] = s[n]}) <= n + 2
<1> DEFINE P == {i \in 1 .. n : s[i] = s[n]}
<1>1. /\ \A i \in 1 .. n : s[i] \in Nat
      /\ \A i, j \in 1 .. n : i <= j => s[i] <= s[j]
  BY Element DEF Ascending
<1>2. P \subseteq b + 1 .. n
  <2> SUFFICES ASSUME NEW i \in P, i <= b PROVE FALSE
    OBVIOUS
  <2>1. s[i] <= s[b] /\ s[b] <= s[n] /\ s[i] = s[n]
    BY <1>1
  <2>2. s[i] \in Nat /\ s[b] \in Nat /\ s[n] \in Nat
    BY <1>1
  <2> QED BY <2>1, <2>2
<1>3. IsFiniteSet(b + 1 .. n) /\ Cardinality(b + 1 .. n) = n - b
  <2>1. b + 1 \in Int /\ n \in Int /\ (b + 1 > n => n - b = 0) /\ n - (b + 1) + 1 = n - b
    OBVIOUS
  <2> QED BY <2>1, FS_Interval
<1> HIDE DEF P
<1>4. Cardinality(P) \in Nat /\ Cardinality(P) <= n - b
  BY <1>2, <1>3, FS_Subset, FS_CardinalityType
<1>5. 3 * (n - 1) - 2 <= 4 * (b - 1)
  BY DEF Quartiles
<1> QED BY <1>4, <1>5 DEF P

LEMMA FencedIsDearer ==
  ASSUME NEW x \in Nat, NEW y \in Nat, NEW z \in Nat, x < y, BeyondFence(x, y, z)
  PROVE  z # y
<1> SUFFICES ASSUME z = y PROVE FALSE
  OBVIOUS
<1>1. ~ BeyondFence(x, y, z)
  BY WithinFence
<1> QED BY <1>1

LEMMA FarOutFair ==
  ASSUME None \notin Int, NEW prices \in Seq(Nat \cup {None}), NEW ratio \in Nat
  PROVE  FarOutIsFair(prices, ratio)
<1> DEFINE n == Cardinality(Given(prices))  s == Present(prices)  a == At(n, 1)  b == At(n, 3)
           far == "beyond" \in PriceFlags(prices)
           P == {i \in DOMAIN s : s[i] = Last(s)}
<1>1. Ascending(s, n)
  BY PresentIs
<1>2. FlaggedBy(prices, s, n, a, b)
  BY <1>1, FlaggedByPrices
<1> HIDE DEF n, s
<1>3. /\ n \in Nat /\ Len(s) = n /\ s \in Seq(Nat) /\ DOMAIN s = 1 .. n /\ Last(s) = s[n]
      /\ \A i \in 1 .. n : s[i] \in Nat
  <2>1. n \in Nat /\ s \in Seq(Nat) /\ Len(s) = n
    BY <1>1 DEF Ascending
  <2>2. Last(s) = s[Len(s)]
    BY DEF Last
  <2> QED BY <2>1, <2>2, Element
<1>4. far => n > 0
  BY <1>2, <1>3 DEF FlaggedBy
<1>5. ASSUME n > 0
      PROVE  /\ far => 4 * Cardinality(P) <= n + 2
             /\ Geometric(s, n, ratio) => ~far
  <2>1. Quartiles(n, a - 1, b - 1) /\ a \in 1 .. n /\ b \in 1 .. n /\ n \in Nat \ {0}
    BY <1>3, <1>5, PlacesAre
  <2> HIDE DEF a, b
  <2>2. far => s[b] > s[a] /\ BeyondFence(s[a], s[b], s[n])
    BY <1>2, <1>5 DEF FlaggedBy, FlagsFor
  <2>3. s[a] \in Nat /\ s[b] \in Nat /\ s[n] \in Nat
    BY <1>3, <2>1
  <2>4. Geometric(s, n, ratio) => ~ BeyondFence(s[a], s[b], s[n])
    BY <1>1, <2>1, SmoothIsNear
  <2>5. far => s[n] # s[b]
    BY <2>2, <2>3, FencedIsDearer
  <2>6. s[n] # s[b] => 4 * Cardinality({i \in 1 .. n : s[i] = s[n]}) <= n + 2
    BY <1>1, <2>1, FewPriciest
  <2>7. P = {i \in 1 .. n : s[i] = s[n]}
    BY <1>3
  <2> QED BY <2>2, <2>4, <2>5, <2>6, <2>7
<1>6. PriceFlags(Append(prices, None)) = PriceFlags(prices)
  BY SameWithoutPrice
<1>7. PriceFlags([i \in DOMAIN prices |-> IF prices[i] = None THEN None ELSE 2 * prices[i]])
        = PriceFlags(prices)
  BY DoubledFlags DEF Doubled
<1>8. (\A i \in 1 .. Len(s) - 1 : s[i + 1] = ratio * s[i]) => ~far
  BY <1>3, <1>4, <1>5 DEF Geometric
<1>9. far => 4 * Cardinality(P) <= Len(s) + 2
  BY <1>3, <1>4, <1>5
<1> QED BY <1>6, <1>7, <1>8, <1>9 DEF FarOutIsFair, s

-----------------------------------------------------------------------------
(* Even counts.                                                            *)
AreEven(r, q, x, n) == \A i \in 1 .. n : r[i] = x /\ q[i] = x * x

EvenlySummed(r, q, x, n) == SumOver(r, 1 .. n) = n * x /\ SumOver(q, 1 .. n) = n * (x * x)

LEMMA EvenSums ==
  ASSUME NEW n \in Nat, NEW x \in Nat, NEW r, NEW q, AreEven(r, q, x, n)
  PROVE  EvenlySummed(r, q, x, n)
<1> DEFINE S == 1 .. n
           Good(U) == SumOver(r, U) = Cardinality(U) * x /\ SumOver(q, U) = Cardinality(U) * (x * x)
           T == {U \in SUBSET S : Good(U)}
<1>0. /\ IsFiniteSet(S) /\ Cardinality(S) = n /\ x * x \in Nat
      /\ \A i \in S : r[i] = x /\ q[i] = x * x
  BY FS_Interval DEF AreEven
<1>1. {} \in T
  <2>1. SumOver(r, {}) = 0 /\ SumOver(q, {}) = 0 /\ Cardinality({}) = 0
    BY SumEmpty, FS_EmptySet
  <2>2. 0 * x = 0 /\ 0 * (x * x) = 0
    OBVIOUS
  <2> QED BY <2>1, <2>2
<1>2. ASSUME NEW U \in SUBSET S, NEW i \in S \ U, U \in T PROVE U \cup {i} \in T
  <2>1. IsFiniteSet(U) /\ Cardinality(U) \in Nat /\ Cardinality(U \cup {i}) = Cardinality(U) + 1
    BY <1>0, <1>2, FS_Subset, FS_CardinalityType, FS_AddElement
  <2>2. \A y \in U \cup {i} : r[y] \in Int /\ q[y] \in Int
    BY <1>0
  <2>3. SumOver(r, U \cup {i}) = r[i] + SumOver(r, U)
    BY <2>1, <2>2, SumAdd
  <2>4. SumOver(q, U \cup {i}) = q[i] + SumOver(q, U)
    BY <2>1, <2>2, SumAdd
  <2> DEFINE k == Cardinality(U)  y == x * x
  <2>5. (k + 1) * x = x + k * x /\ (k + 1) * y = y + k * y
    <3>1. y \in Nat
      BY <1>0
    <3> HIDE DEF k, y
    <3> QED BY <2>1, <3>1 DEF k
  <2>6. r[i] = x /\ q[i] = y /\ SumOver(r, U) = k * x /\ SumOver(q, U) = k * y
    BY <1>0, <1>2
  <2>7. Good(U \cup {i})
    <3> HIDE DEF y
    <3> QED BY <2>1, <2>3, <2>4, <2>5, <2>6 DEF y
  <2> QED BY <1>2, <2>7
<1> HIDE DEF T, S
<1>3. S \in T
  BY <1>0, <1>1, <1>2, SetInduction
<1> QED BY <1>0, <1>3 DEF T, S, EvenlySummed

(* The share of one of n even labels, in hundredths, above h of them.      *)
AboveIs(n, x, h, above) == above <=> 100 * (n * (x * x)) > h * (n * x) * (n * x)

LEMMA EvenAbove ==
  ASSUME NEW counts \in Seq(Nat), NEW x \in Nat, \A i \in DOMAIN counts : counts[i] = x, NEW h \in Nat
  PROVE  /\ AboveIs(Len(counts), x, h, ConcentratedAbove(counts, h))
         /\ Sum(counts) = Len(counts) * x
<1> DEFINE n == Len(counts)  q == [i \in DOMAIN counts |-> counts[i] * counts[i]]
<1>1. n \in Nat /\ DOMAIN counts = 1 .. n /\ DOMAIN q = 1 .. n
  OBVIOUS
<1>2. \A i \in 1 .. n : counts[i] = x /\ q[i] = x * x
  BY <1>1
<1>3. Sum(counts) = SumOver(counts, DOMAIN counts) /\ Sum(q) = SumOver(q, DOMAIN q)
  BY SumIs
<1>4. ConcentratedAbove(counts, h) <=> 100 * Sum(q) > h * Sum(counts) * Sum(counts)
  BY DEF ConcentratedAbove
<1> HIDE DEF q, n
<1>5. EvenlySummed(counts, q, x, n)
  <2>1. AreEven(counts, q, x, n)
    BY <1>2 DEF AreEven
  <2> QED BY ONLY <1>1, <2>1, x \in Nat, EvenSums
<1>6. Sum(counts) = n * x /\ Sum(q) = n * (x * x)
  BY <1>1, <1>3, <1>5 DEF EvenlySummed
<1> QED BY <1>4, <1>6 DEF AboveIs, n

LEMMA ManyAreEven ==
  ASSUME NEW n \in Nat, n >= 7, NEW x \in Nat, NEW above, AboveIs(n, x, 15, above)
  PROVE  ~ above
<1> DEFINE y == n * (x * x)
<1>1. x * x \in Nat
  OBVIOUS
<1>2. y \in Nat
  BY <1>1
<1>3. 15 * (n * x) * (n * x) = 15 * n * y
  OBVIOUS
<1>4. PICK d \in Nat : n = 7 + d
  <2>1. n - 7 \in Nat /\ n = 7 + (n - 7)
    OBVIOUS
  <2> QED BY <2>1
<1>5. above <=> 100 * y > 15 * n * y
  BY <1>3 DEF AboveIs
<1> HIDE DEF y
<1>6. 15 * n * y = 105 * y + 15 * (d * y) /\ d * y \in Nat
  BY <1>2, <1>4
<1> QED BY <1>2, <1>5, <1>6

LEMMA OneIsAll ==
  ASSUME NEW x \in Nat, x > 0, NEW h \in 0 .. 99, NEW above, AboveIs(1, x, h, above)
  PROVE  above
<1> DEFINE y == x * x
<1>1. y \in Nat /\ y > 0
  OBVIOUS
<1>2. 1 * y = y /\ h * (1 * x) * (1 * x) = h * y
  OBVIOUS
<1>3. above <=> 100 * y > h * y
  BY <1>2 DEF AboveIs
<1>4. PICK d \in Nat : 100 = h + d /\ d > 0
  <2>1. 100 - h \in Nat /\ 100 = h + (100 - h) /\ 100 - h > 0
    OBVIOUS
  <2> QED BY <2>1
<1> HIDE DEF y
<1>5. 100 * y = h * y + d * y
  BY <1>1, <1>4
<1>6. d * y > 0 /\ d * y \in Int /\ h * y \in Int
  BY <1>1, <1>4
<1> QED BY <1>3, <1>5, <1>6

LEMMA BandsFair ==
  ASSUME NEW counts \in Seq(Nat)
  PROVE  BandsAreFair(counts)
<1> DEFINE n == Len(counts)
<1>1. n \in Nat /\ DOMAIN counts = 1 .. n /\ \A i \in 1 .. n : counts[i] \in Nat
  OBVIOUS
<1>2. ASSUME n = 1, Sum(counts) >= 20 PROVE CategoryFlag(counts) = "highly"
  <2> DEFINE x == counts[1]
  <2>1. x \in Nat /\ \A i \in DOMAIN counts : counts[i] = x
    BY <1>1, <1>2
  <2> HIDE DEF x
  <2>2. Sum(counts) = n * x /\ n * x = x
    <3>1. 15 \in Nat
      OBVIOUS
    <3>2. Sum(counts) = n * x
      BY <2>1, <3>1, EvenAbove
    <3> QED BY <1>2, <2>1, <3>2
  <2>3. AboveIs(1, x, 15, ConcentratedAbove(counts, 15)) /\ AboveIs(1, x, 25, ConcentratedAbove(counts, 25))
    BY <1>2, <2>1, EvenAbove
  <2>4. x > 0 /\ x >= 20
    BY <1>2, <2>1, <2>2
  <2>5. ConcentratedAbove(counts, 15) /\ ConcentratedAbove(counts, 25)
    BY <2>1, <2>3, <2>4, OneIsAll
  <2>6. ~ (Sum(counts) < 20)
    BY <2>1, <2>2, <2>4
  <2> QED BY <2>5, <2>6 DEF CategoryFlag, CATEGORY_DEGENERACY_MIN_SAMPLE
<1>3. ASSUME n >= 7, \A i, k \in DOMAIN counts : counts[i] = counts[k] PROVE CategoryFlag(counts) = None
  <2> DEFINE x == counts[1]
  <2>1. x \in Nat /\ \A i \in DOMAIN counts : counts[i] = x
    BY <1>1, <1>3
  <2> HIDE DEF x
  <2>2. AboveIs(n, x, 15, ConcentratedAbove(counts, 15))
    BY <2>1, EvenAbove
  <2> HIDE DEF n
  <2>3. ~ ConcentratedAbove(counts, 15)
    BY <1>1, <1>3, <2>1, <2>2, ManyAreEven
  <2> QED BY <2>3 DEF CategoryFlag
<1> QED BY <1>2, <1>3 DEF BandsAreFair, CATEGORY_DEGENERACY_MIN_SAMPLE

-----------------------------------------------------------------------------
(* Where the i-th of n is taken from among size items.                     *)
Taken(i, size, n) == ((i - 1) * size) \div n + 1

Spaced(k, l, q) == l - k = q \/ l - k = q + 1

LEMMA StepsEvenly ==
  ASSUME NEW n \in Nat \ {0}, NEW size \in Nat, NEW x \in Nat,
         NEW q, NEW r, Divides(size, n, q, r),
         NEW k, NEW u, Divides(x, n, k, u),
         NEW l, NEW v, Divides(x + size, n, l, v)
  PROVE  Spaced(k, l, q)
<1>1. /\ q \in Nat /\ r \in 0 .. n - 1 /\ size = n * q + r
      /\ k \in Nat /\ u \in 0 .. n - 1 /\ x = n * k + u
      /\ l \in Nat /\ v \in 0 .. n - 1 /\ x + size = n * l + v
  BY DEF Divides
<1> DEFINE g == l - k - q
<1>2. g \in Int /\ n * g = n * l - n * k - n * q
  BY <1>1
<1>3. n * g = u + r - v
  BY <1>1, <1>2
<1>4. n * g > (0 - 1) * n /\ n * g < 2 * n
  BY <1>1, <1>3
<1>5. g >= 0 /\ g <= 1
  <2>1. l - k - q = g
    OBVIOUS
  <2> HIDE DEF g
  <2>2. ASSUME g < 0 PROVE FALSE
    <3>1. PICK d \in Nat : g = 0 - 1 - d
      <4>1. 0 - 1 - g \in Nat /\ g = 0 - 1 - (0 - 1 - g)
        BY <1>2, <2>2
      <4> QED BY <4>1
    <3>2. n * g = 0 - n - n * d /\ n * d \in Nat
      BY <3>1
    <3> QED BY <1>4, <3>2
  <2>3. ASSUME g > 1 PROVE FALSE
    <3>1. PICK d \in Nat : g = 2 + d
      <4>1. g - 2 \in Nat /\ g = 2 + (g - 2)
        BY <1>2, <2>3
      <4> QED BY <4>1
    <3>2. n * g = 2 * n + n * d /\ n * d \in Nat
      BY <3>1
    <3> QED BY <1>4, <3>2
  <2> QED BY <1>2, <2>2, <2>3
<1>6. g = 0 \/ g = 1
  BY <1>2, <1>5
<1> QED BY <1>1, <1>6 DEF Spaced

(* The places of a sample of n of size items.                              *)
Placed(size, n, q) ==
  /\ q \in Nat \ {0} /\ Taken(1, size, n) = 1
  /\ \A i \in 1 .. n : Taken(i, size, n) \in 1 .. size
  /\ \A i \in 1 .. n - 1 : Spaced(Taken(i, size, n), Taken(i + 1, size, n), q)

LEMMA TakenIs ==
  ASSUME NEW n \in Nat \ {0}, NEW size \in Nat, NEW i \in Nat \ {0},
         NEW k, NEW r, Divides((i - 1) * size, n, k, r)
  PROVE  Taken(i, size, n) = k + 1
<1> DEFINE x == (i - 1) * size
<1>1. k \in Nat /\ r \in 0 .. n - 1 /\ x = n * k + r
  BY DEF Divides
<1>2. Taken(i, size, n) = x \div n + 1
  BY DEF Taken
<1> HIDE DEF x
<1>3. x \div n = k
  BY <1>1, DivisionIs
<1> QED BY <1>2, <1>3

LEMMA PlacedEvenly ==
  ASSUME NEW n \in Nat \ {0}, NEW size \in Nat, n < size
  PROVE  \E q : Placed(size, n, q)
<1>1. PICK q, r : Divides(size, n, q, r)
  BY Divided
<1>2. q \in Nat /\ r \in 0 .. n - 1 /\ size = n * q + r
  BY <1>1 DEF Divides
<1>3. q # 0
  BY <1>2
<1>4. Taken(1, size, n) = 1
  <2>1. (1 - 1) * size = 0 /\ Divides(0, n, 0, 0)
    BY DEF Divides
  <2> QED BY <2>1, TakenIs
<1>5. ASSUME NEW i \in 1 .. n PROVE Taken(i, size, n) \in 1 .. size
  <2> DEFINE x == (i - 1) * size
  <2>1. x \in Nat
    OBVIOUS
  <2>2. PICK k, u : Divides(x, n, k, u)
    BY <2>1, Divided
  <2>3. Taken(i, size, n) = k + 1
    BY <2>2, TakenIs
  <2>4. PICK d \in Nat : n = i + d
    <3>1. n - i \in Nat /\ n = i + (n - i)
      OBVIOUS
    <3> QED BY <3>1
  <2>5. n * size = x + size + d * size /\ d * size \in Nat
    BY <2>4
  <2> HIDE DEF x
  <2>6. k \in Nat /\ u \in Nat /\ x = n * k + u
    BY <2>2 DEF Divides
  <2>7. ASSUME k >= size PROVE FALSE
    <3>1. PICK e \in Nat : k = size + e
      <4>1. k - size \in Nat /\ k = size + (k - size)
        BY <2>6, <2>7
      <4> QED BY <4>1
    <3>2. n * k = n * size + n * e /\ n * e \in Nat /\ n * size \in Nat
      BY <3>1
    <3> QED BY <2>1, <2>5, <2>6, <3>2
  <2> QED BY <2>3, <2>6, <2>7
<1>6. ASSUME NEW i \in 1 .. n - 1
      PROVE  Spaced(Taken(i, size, n), Taken(i + 1, size, n), q)
  <2> DEFINE x == (i - 1) * size
  <2>1. x \in Nat /\ ((i + 1) - 1) * size = x + size
    OBVIOUS
  <2> HIDE DEF x
  <2>2. PICK k, u : Divides(x, n, k, u)
    BY <2>1, Divided
  <2>3. PICK l, v : Divides(x + size, n, l, v)
    BY <2>1, Divided
  <2>4. Taken(i, size, n) = k + 1
    BY <2>2, TakenIs DEF x
  <2>5. Taken(i + 1, size, n) = l + 1
    <3>1. Divides(((i + 1) - 1) * size, n, l, v)
      BY <2>1, <2>3
    <3> QED BY <3>1, TakenIs
  <2>6. Spaced(k, l, q)
    BY ONLY n \in Nat \ {0}, size \in Nat, <2>1, <1>1, <2>2, <2>3, StepsEvenly
  <2>7. k \in Nat /\ l \in Nat
    BY <2>2, <2>3 DEF Divides
  <2> QED BY <2>4, <2>5, <2>6, <2>7, <1>2 DEF Spaced
<1>7. Placed(size, n, q)
  BY <1>2, <1>3, <1>4, <1>5, <1>6 DEF Placed
<1> QED BY <1>7

(* A sample whose gaps are all one of two next to each other.              *)
Even(sample, length) ==
  /\ sample \in Seq(Nat) /\ Len(sample) = length
  /\ length > 0 => sample[1] = 1
  /\ \E q \in Nat \ {0} : \A i \in 1 .. length - 1 : Spaced(sample[i], sample[i + 1], q)

LEMMA SampleEven ==
  ASSUME NEW size \in Nat, NEW n \in Nat
  PROVE  SampleIsEven(size, n)
<1> DEFINE items == [i \in 1 .. size |-> i]  sample == EvenSample(items, n)
           length == IF n <= size THEN n ELSE size
<1>1. items \in Seq(Nat) /\ Len(items) = size /\ \A i \in 1 .. size : items[i] = i
  OBVIOUS
<1> HIDE DEF items
<1>2. Even(sample, length)
  <2>1. CASE n >= size
    <3>1. sample = items
      BY <1>1, <2>1 DEF EvenSample
    <3>2. length = size
      BY <2>1
    <3>3. \A i \in 1 .. size - 1 : Spaced(items[i], items[i + 1], 1)
      BY <1>1 DEF Spaced
    <3> QED BY <1>1, <3>1, <3>2, <3>3 DEF Even
  <2>2. CASE n < size
    <3>1. length = n
      BY <2>2
    <3>2. sample = [i \in 1 .. n |-> items[Taken(i, size, n)]]
      BY <1>1, <2>2 DEF EvenSample, Taken
    <3>3. CASE n = 0
      <4>1. sample = [i \in 1 .. 0 |-> items[Taken(i, size, n)]]
        BY <3>2, <3>3
      <4>2. sample \in [1 .. 0 -> Nat]
        BY <4>1
      <4>3. sample \in Seq(Nat) /\ Len(sample) = 0
        BY <4>2
      <4>4. \A i \in 1 .. 0 - 1 : Spaced(sample[i], sample[i + 1], 1)
        OBVIOUS
      <4> QED BY <3>1, <3>3, <4>3, <4>4 DEF Even
    <3>4. CASE n > 0
      <4>1. PICK q : Placed(size, n, q)
        BY <2>2, <3>4, PlacedEvenly
      <4>2. /\ q \in Nat \ {0} /\ Taken(1, size, n) = 1
            /\ \A i \in 1 .. n : Taken(i, size, n) \in 1 .. size
            /\ \A i \in 1 .. n - 1 : Spaced(Taken(i, size, n), Taken(i + 1, size, n), q)
        BY <4>1 DEF Placed
      <4>3. \A i \in 1 .. n : sample[i] = Taken(i, size, n) /\ sample[i] \in Nat
        BY <1>1, <3>2, <4>2
      <4>4. sample \in Seq(Nat) /\ Len(sample) = n
        <5>1. sample \in [1 .. n -> Nat]
          BY <3>2, <4>3
        <5> QED BY <5>1
      <4>5. \A i \in 1 .. n - 1 : Spaced(sample[i], sample[i + 1], q)
        <5> TAKE i \in 1 .. n - 1
        <5>1. i \in 1 .. n /\ i + 1 \in 1 .. n
          OBVIOUS
        <5> QED BY <4>2, <4>3, <5>1
      <4>6. sample[1] = 1
        <5>1. 1 \in 1 .. n
          BY <3>4
        <5> QED BY <4>2, <4>3, <5>1
      <4> HIDE DEF sample, length
      <4> QED BY <3>1, <4>2, <4>4, <4>5, <4>6 DEF Even
    <3> QED BY <3>3, <3>4
  <2> QED BY <2>1, <2>2
<1>3. Min({n, size}) = length
  BY LeastOf
<1>4. length \in Nat
  OBVIOUS
<1> HIDE DEF sample, length
<1>5. /\ sample \in Seq(Nat) /\ Len(sample) = length
      /\ length > 0 => sample[1] = 1
      /\ \A i \in 1 .. length : sample[i] \in Nat
  BY <1>2, Element DEF Even
<1>6. PICK q \in Nat \ {0} : \A i \in 1 .. length - 1 : Spaced(sample[i], sample[i + 1], q)
  BY <1>2 DEF Even
<1> DEFINE gaps == {sample[i + 1] - sample[i] : i \in 1 .. Len(sample) - 1}
<1>7. \A g \in gaps : g = q \/ g = q + 1
  BY <1>5, <1>6 DEF Spaced
<1> HIDE DEF gaps
<1>8. \A g \in gaps : g >= 1 /\ \A h \in gaps : g <= h + 1
  <2> TAKE g \in gaps
  <2>1. g = q \/ g = q + 1
    BY <1>7
  <2>2. \A h \in gaps : h = q \/ h = q + 1
    BY <1>7
  <2>3. g >= 1 /\ g \in Int
    BY <2>1
  <2>4. \A h \in gaps : g <= h + 1
    BY <2>1, <2>2
  <2> QED BY <2>3, <2>4
<1>9. sample # <<>> => sample[1] = 1
  <2>1. Len(sample) = 0 <=> sample = <<>>
    BY <1>5, LengthZero
  <2> QED BY <1>4, <1>5, <2>1
<1> QED BY <1>3, <1>5, <1>8, <1>9 DEF SampleIsEven, sample, items, gaps

=============================================================================
