----------------------------- MODULE SumTheorems -----------------------------
(***************************************************************************)
(* Sums of a function over its finite domain (SumFunction of the community *)
(* modules), as the proofs about Spend need them: the sum is an integer,   *)
(* it changes by what one value changes, it is monotone and additive, and  *)
(* the sum of an indicator is a cardinality.                               *)
(*                                                                         *)
(* SumFunction picks its elements one by one with CHOOSE.  The facts below *)
(* do not reason about the order: a function IsSum when it adds up every   *)
(* subset whatever element comes last, there is one such function, and it  *)
(* solves the equation of SumFunction.  Induction over finite sets is by a *)
(* least counterexample (LeastSubset).                                     *)
(***************************************************************************)
EXTENDS Functions, FiniteSets, FiniteSetTheorems, WellFoundedInduction, TLAPS

\* g[T] is the sum of f over T, for every subset T of S.
IsSum(g, f, S) ==
  /\ g \in [SUBSET S -> Int] /\ g[{}] = 0
  /\ \A T \in SUBSET S : \A x \in S \ T : g[T \cup {x}] = f[x] + g[T]

\* A set of finite sets has a smallest member.
LEMMA LeastSubset ==
  ASSUME NEW S, IsFiniteSet(S), NEW B \in SUBSET (SUBSET S), B # {}
  PROVE  \E T \in B : \A U \in B : U \subseteq T => U = T
<1>1. IsWellFoundedOn(StrictSubsetOrdering(S), SUBSET S)
  BY FS_FiniteSubsetsOfFinite, FS_StrictSubsetOrderingWellFounded, Zenon
<1>2. PICK T \in B : \A U \in B : <<U, T>> \notin StrictSubsetOrdering(S)
  BY <1>1, WFMin, Zenon
<1>3. ASSUME NEW U \in B, U \subseteq T, U # T PROVE FALSE
  BY <1>2, <1>3 DEF StrictSubsetOrdering
<1> QED BY <1>3

\* Induction over the subsets of a finite set, for a set of them: one that holds
\* the empty set and grows by single elements holds them all.
LEMMA SubsetInduction ==
  ASSUME NEW S, IsFiniteSet(S), NEW G \in SUBSET (SUBSET S), {} \in G,
         \A T \in G : \A x \in S \ T : T \cup {x} \in G
  PROVE  G = SUBSET S
<1> DEFINE B == (SUBSET S) \ G
<1>1. ASSUME B # {} PROVE FALSE
  <2>0. B \in SUBSET (SUBSET S)
    OBVIOUS
  <2>1. PICK T \in B : \A U \in B : U \subseteq T => U = T
    <3> HIDE DEF B
    <3> QED BY <2>0, <1>1, LeastSubset
  <2>2. PICK x \in T : TRUE
    OBVIOUS
  <2>3. T \ {x} \in G
    BY <2>1, <2>2
  <2>4. (T \ {x}) \cup {x} = T /\ x \in S \ (T \ {x})
    BY <2>2
  <2> QED BY <2>3, <2>4
<1> QED BY <1>1

LEMMA SumExists ==
  ASSUME NEW S, IsFiniteSet(S), NEW f \in [S -> Int]
  PROVE  \E g : IsSum(g, f, S)
<1> DEFINE G == {T \in SUBSET S : \E g : IsSum(g, f, T)}
<1>1. {} \in G
  <2>1. IsSum([T \in SUBSET {} |-> 0], f, {})
    BY DEF IsSum
  <2> QED BY <2>1
<1>2. ASSUME NEW T \in G, NEW x \in S \ T PROVE T \cup {x} \in G
  <2>1. PICK g : IsSum(g, f, T)
    OBVIOUS
  <2> DEFINE h == [U \in SUBSET (T \cup {x}) |->
                    IF x \in U THEN f[x] + g[U \ {x}] ELSE g[U]]
  <2>2. h \in [SUBSET (T \cup {x}) -> Int]
    <3>1. ASSUME NEW U \in SUBSET (T \cup {x}) PROVE h[U] \in Int
      <4>1. U \ {x} \in SUBSET T /\ (x \notin U => U \in SUBSET T)
        OBVIOUS
      <4> QED BY <4>1, <2>1 DEF IsSum
    <3> QED BY <3>1
  <2>3. h[{}] = 0
    BY <2>1 DEF IsSum
  <2>4. ASSUME NEW U \in SUBSET (T \cup {x}), NEW y \in (T \cup {x}) \ U
        PROVE  h[U \cup {y}] = f[y] + h[U]
    <3>0. f[x] \in Int /\ f[y] \in Int
      OBVIOUS
    <3>1. CASE y = x
      <4>1. (U \cup {y}) \ {x} = U /\ U \in SUBSET T
        BY <3>1
      <4> QED BY <4>1, <3>1
    <3>2. CASE y # x /\ x \in U
      <4>1. (U \cup {y}) \ {x} = (U \ {x}) \cup {y} /\ y \in T \ (U \ {x})
            /\ U \ {x} \in SUBSET T
        BY <3>2
      <4>2. g[(U \ {x}) \cup {y}] = f[y] + g[U \ {x}] /\ g[U \ {x}] \in Int
        BY <4>1, <2>1 DEF IsSum
      <4>3. h[U \cup {y}] = f[x] + g[(U \cup {y}) \ {x}] /\ h[U] = f[x] + g[U \ {x}]
        BY <3>2
      <4>4. g[(U \cup {y}) \ {x}] = f[y] + g[U \ {x}]
        BY <4>1, <4>2
      <4> HIDE DEF h
      <4> QED BY <3>0, <4>2, <4>3, <4>4
    <3>3. CASE y # x /\ x \notin U
      <4>1. U \in SUBSET T /\ y \in T \ U /\ x \notin U \cup {y}
        BY <3>3
      <4>2. g[U \cup {y}] = f[y] + g[U]
        BY <4>1, <2>1 DEF IsSum
      <4> QED BY <4>1, <4>2
    <3> QED BY <3>1, <3>2, <3>3
  <2>5. IsSum(h, f, T \cup {x})
    BY <2>2, <2>3, <2>4 DEF IsSum
  <2> QED BY <2>5
<1>3. G = SUBSET S
  <2> HIDE DEF G
  <2>1. G \in SUBSET (SUBSET S)
    BY DEF G
  <2> QED BY <2>1, <1>1, <1>2, SubsetInduction
<1> QED BY <1>3

\* The equation by which SumFunction is defined, as an operator of its solution.
Step(f, h, s) ==
  IF s = {} THEN 0 ELSE f[CHOOSE x \in s : TRUE] + h[s \ {CHOOSE x \in s : TRUE}]

LEMMA StepUnfold ==
  ASSUME NEW f, NEW g, NEW S, S = DOMAIN f,
         g = [s \in SUBSET S |-> Step(f, g, s)],
         \A h : h = [s \in SUBSET S |-> Step(f, h, s)] => h = g
  PROVE  SumFunction(f) = g[S]
BY Zenon DEF SumFunction, SumFunctionOnSet, FoldFunctionOnSet, MapThenFoldSet, Step

LEMMA ChooseIn == ASSUME NEW s, s # {} PROVE (CHOOSE x \in s : TRUE) \in s
OBVIOUS

LEMMA SumIsThat ==
  ASSUME NEW S, IsFiniteSet(S), NEW f \in [S -> Int], NEW g, IsSum(g, f, S)
  PROVE  SumFunction(f) = g[S]
<1>1. ASSUME NEW s \in SUBSET S PROVE g[s] = Step(f, g, s)
  <2>1. CASE s = {}
    BY <2>1 DEF IsSum, Step
  <2>2. CASE s # {}
    <3> DEFINE c == CHOOSE x \in s : TRUE
    <3>1. c \in s
      BY <2>2, ChooseIn
    <3> HIDE DEF c
    <3>2. (s \ {c}) \cup {c} = s /\ c \in S \ (s \ {c}) /\ s \ {c} \in SUBSET S
      BY <3>1
    <3>3. g[(s \ {c}) \cup {c}] = f[c] + g[s \ {c}]
      BY <3>2 DEF IsSum
    <3>4. g[s] = f[c] + g[s \ {c}]
      BY <3>2, <3>3
    <3> QED BY <2>2, <3>4 DEF Step, c
  <2> QED BY <2>1, <2>2
<1>2. g = [s \in SUBSET S |-> Step(f, g, s)]
  BY <1>1 DEF IsSum
<1>3. ASSUME NEW h, h = [s \in SUBSET S |-> Step(f, h, s)] PROVE h = g
  <2> DEFINE B == {s \in SUBSET S : h[s] # g[s]}
  <2>1. ASSUME B # {} PROVE FALSE
    <3>0. B \in SUBSET (SUBSET S)
      OBVIOUS
    <3>1. PICK T \in B : \A U \in B : U \subseteq T => U = T
      <4> HIDE DEF B
      <4> QED BY <3>0, <2>1, LeastSubset
    <3>2. CASE T = {}
      BY <3>1, <3>2, <1>1, <1>3 DEF Step
    <3>3. CASE T # {}
      <4> DEFINE c == CHOOSE x \in T : TRUE
      <4>1. c \in T
        BY <3>3, ChooseIn
      <4>2. h[T \ {c}] = g[T \ {c}]
        BY <4>1, <3>1
      <4>3. h[T] = Step(f, h, T)
        BY <1>3
      <4>4. g[T] = Step(f, g, T)
        BY <1>1
      <4> QED BY <3>1, <3>3, <4>2, <4>3, <4>4 DEF Step
    <3> QED BY <3>2, <3>3
  <2>2. \A s \in SUBSET S : h[s] = g[s]
    BY <2>1
  <2> QED BY <2>2, <1>2, <1>3
<1> QED BY <1>2, <1>3, StepUnfold

\* The sum is an integer.
THEOREM SumType ==
  ASSUME NEW S, IsFiniteSet(S), NEW f \in [S -> Int]
  PROVE  SumFunction(f) \in Int
<1>1. PICK g : IsSum(g, f, S)
  BY SumExists
<1>2. SumFunction(f) = g[S]
  BY <1>1, SumIsThat
<1>3. S \in SUBSET S
  OBVIOUS
<1> QED BY <1>1, <1>2, <1>3 DEF IsSum

\* Sums add up pointwise.
THEOREM SumAdd ==
  ASSUME NEW S, IsFiniteSet(S), NEW f \in [S -> Int], NEW k \in [S -> Int]
  PROVE  SumFunction([x \in S |-> f[x] + k[x]]) = SumFunction(f) + SumFunction(k)
<1>1. PICK g : IsSum(g, f, S)
  BY SumExists
<1>2. PICK m : IsSum(m, k, S)
  BY SumExists
<1> DEFINE h == [x \in S |-> f[x] + k[x]]
<1> DEFINE n == [T \in SUBSET S |-> g[T] + m[T]]
<1>3. h \in [S -> Int]
  OBVIOUS
<1>4. \A T \in SUBSET S : g[T] \in Int /\ m[T] \in Int
  BY <1>1, <1>2 DEF IsSum
<1>5. n \in [SUBSET S -> Int] /\ n[{}] = 0
  BY <1>1, <1>2, <1>4 DEF IsSum
<1>6. ASSUME NEW T \in SUBSET S, NEW x \in S \ T PROVE n[T \cup {x}] = h[x] + n[T]
  <2>1. g[T \cup {x}] = f[x] + g[T] /\ m[T \cup {x}] = k[x] + m[T]
    BY <1>1, <1>2 DEF IsSum
  <2>2. f[x] \in Int /\ k[x] \in Int /\ h[x] = f[x] + k[x]
    OBVIOUS
  <2>3. n[T \cup {x}] = g[T \cup {x}] + m[T \cup {x}] /\ n[T] = g[T] + m[T]
    OBVIOUS
  <2> HIDE DEF n, h
  <2> QED BY <2>1, <2>2, <2>3, <1>4
<1>7. IsSum(n, h, S)
  BY <1>5, <1>6 DEF IsSum
<1>8. SumFunction(h) = n[S]
  BY <1>3, <1>7, SumIsThat
<1>9. SumFunction(f) = g[S] /\ SumFunction(k) = m[S] /\ n[S] = g[S] + m[S]
  BY <1>1, <1>2, SumIsThat
<1> QED BY <1>8, <1>9

\* The sum of the indicator of a subset is the subset's cardinality.
THEOREM SumIndicator ==
  ASSUME NEW S, IsFiniteSet(S), NEW X \in SUBSET S
  PROVE  SumFunction([x \in S |-> IF x \in X THEN 1 ELSE 0]) = Cardinality(X)
<1> DEFINE f == [x \in S |-> IF x \in X THEN 1 ELSE 0]
<1> DEFINE g == [T \in SUBSET S |-> Cardinality(T \cap X)]
<1>1. \A T \in SUBSET S : IsFiniteSet(T \cap X)
  BY FS_Subset, FS_Intersection
<1>2. g \in [SUBSET S -> Int] /\ g[{}] = 0
  <2>1. {} \cap X = {}
    OBVIOUS
  <2>2. \A T \in SUBSET S : Cardinality(T \cap X) \in Int
    BY <1>1, FS_CardinalityType
  <2> QED BY <2>1, <2>2, FS_EmptySet
<1>3. ASSUME NEW T \in SUBSET S, NEW x \in S \ T PROVE g[T \cup {x}] = f[x] + g[T]
  <2>0. Cardinality(T \cap X) \in Int
    BY <1>1, FS_CardinalityType
  <2>1. CASE x \in X
    <3>1. (T \cup {x}) \cap X = (T \cap X) \cup {x} /\ x \notin T \cap X
      BY <2>1
    <3>2. Cardinality((T \cap X) \cup {x}) = Cardinality(T \cap X) + 1
      BY <1>1, <3>1, FS_AddElement
    <3> QED BY <2>0, <2>1, <3>1, <3>2
  <2>2. CASE x \notin X
    <3>1. (T \cup {x}) \cap X = T \cap X
      BY <2>2
    <3>2. g[T \cup {x}] = Cardinality(T \cap X) /\ g[T] = Cardinality(T \cap X)
      BY <3>1
    <3>3. f[x] = 0
      BY <2>2
    <3> HIDE DEF f, g
    <3> QED BY <2>0, <3>2, <3>3
  <2> QED BY <2>1, <2>2
<1>4. IsSum(g, f, S)
  BY <1>2, <1>3 DEF IsSum
<1>5. f \in [S -> Int] /\ g[S] = Cardinality(X)
  <2>1. S \cap X = X
    OBVIOUS
  <2> QED BY <2>1
<1> QED BY <1>4, <1>5, SumIsThat

\* Sums are monotone.
THEOREM SumMonotone ==
  ASSUME NEW S, IsFiniteSet(S), NEW f \in [S -> Int], NEW k \in [S -> Int],
         \A x \in S : f[x] <= k[x]
  PROVE  SumFunction(f) <= SumFunction(k)
<1>1. PICK g : IsSum(g, f, S)
  BY SumExists
<1>2. PICK m : IsSum(m, k, S)
  BY SumExists
<1> DEFINE G == {T \in SUBSET S : g[T] <= m[T]}
<1>3. {} \in G
  BY <1>1, <1>2 DEF IsSum
<1>4. ASSUME NEW T \in G, NEW x \in S \ T PROVE T \cup {x} \in G
  <2>1. g[T \cup {x}] = f[x] + g[T] /\ m[T \cup {x}] = k[x] + m[T]
    BY <1>1, <1>2 DEF IsSum
  <2>2. g[T] \in Int /\ m[T] \in Int /\ f[x] \in Int /\ k[x] \in Int
    BY <1>1, <1>2 DEF IsSum
  <2> QED BY <2>1, <2>2
<1>5. G = SUBSET S
  <2> HIDE DEF G
  <2>1. G \in SUBSET (SUBSET S)
    BY DEF G
  <2> QED BY <2>1, <1>3, <1>4, SubsetInduction
<1>6. g[S] <= m[S]
  BY <1>5
<1> QED BY <1>1, <1>2, <1>6, SumIsThat

\* A sum of zeros is zero.
THEOREM SumZero ==
  ASSUME NEW S, IsFiniteSet(S), NEW f \in [S -> Int], \A x \in S : f[x] = 0
  PROVE  SumFunction(f) = 0
<1>1. f = [x \in S |-> IF x \in {} THEN 1 ELSE 0]
  OBVIOUS
<1> QED BY <1>1, SumIndicator, FS_EmptySet

\* A sum of naturals is a natural.
THEOREM SumNat ==
  ASSUME NEW S, IsFiniteSet(S), NEW f \in [S -> Nat]
  PROVE  SumFunction(f) \in Nat
<1> DEFINE z == [x \in S |-> 0]
<1>1. f \in [S -> Int] /\ z \in [S -> Int]
  OBVIOUS
<1>2. SumFunction(z) = 0
  BY <1>1, SumZero
<1>3. \A x \in S : z[x] <= f[x]
  OBVIOUS
<1> HIDE DEF z
<1>4. SumFunction(z) <= SumFunction(f)
  BY <1>1, <1>3, SumMonotone
<1> QED BY <1>1, <1>2, <1>4, SumType

\* A sum changes by what the value at one place changes.
THEOREM SumUpdate ==
  ASSUME NEW S, IsFiniteSet(S), NEW f \in [S -> Int], NEW k \in [S -> Int], NEW x \in S,
         \A y \in S : y # x => k[y] = f[y]
  PROVE  SumFunction(k) = SumFunction(f) - f[x] + k[x]
<1>1. PICK g : IsSum(g, f, S)
  BY SumExists
<1>2. PICK m : IsSum(m, k, S)
  BY SumExists
<1> DEFINE R == S \ {x}
<1> DEFINE G == {T \in SUBSET R : g[T] = m[T]}
<1>3. {} \in G
  BY <1>1, <1>2 DEF IsSum
<1>4. ASSUME NEW T \in G, NEW y \in R \ T PROVE T \cup {y} \in G
  <2>1. g[T \cup {y}] = f[y] + g[T] /\ m[T \cup {y}] = k[y] + m[T]
    BY <1>1, <1>2 DEF IsSum
  <2> QED BY <2>1
<1>5. G = SUBSET R
  <2>1. G \in SUBSET (SUBSET R) /\ IsFiniteSet(R)
    BY FS_RemoveElement
  <2> HIDE DEF G, R
  <2> QED BY <2>1, <1>3, <1>4, SubsetInduction
<1>6. g[R] = m[R] /\ g[R] \in Int
  <2>1. R \in SUBSET S /\ R \in SUBSET R
    OBVIOUS
  <2> QED BY <1>1, <1>5, <2>1 DEF IsSum
<1>7. R \cup {x} = S /\ x \in S \ R
  OBVIOUS
<1>8. g[S] = f[x] + g[R] /\ m[S] = k[x] + m[R]
  BY <1>1, <1>2, <1>7 DEF IsSum
<1>9. SumFunction(f) = g[S] /\ SumFunction(k) = m[S] /\ f[x] \in Int /\ k[x] \in Int
  BY <1>1, <1>2, SumIsThat
<1> QED BY <1>6, <1>8, <1>9
=============================================================================
