---------------------------- MODULE SumTheorems ----------------------------
(***************************************************************************)
(* Sums over finite sets: what the proofs about the dataset cache and the  *)
(* upload limits need to know of the community modules' MapThenSumSet.     *)
(* The library's induction theorems take a predicate as a parameter; here  *)
(* induction over a finite set is over the set of the good subsets, which  *)
(* follows from the strict subsets being well founded.                     *)
(***************************************************************************)
EXTENDS Integers, FiniteSets, FiniteSetsExt, FiniteSetTheorems, WellFoundedInduction, TLAPS

\* The sum of f over S.
Total(f, S) == MapThenSumSet(LAMBDA r : f[r], S)

\* The element of a set that the fold takes first.
Pick(s) == CHOOSE x \in s : TRUE

\* g gives every subset of S the sum of f over it.
IsTotal(f, S, g) == g = [s \in SUBSET S |-> IF s = {} THEN 0 ELSE f[Pick(s)] + g[s \ {Pick(s)}]]

\* Induction: a property that a subset of a finite set has when all its strict
\* subsets have it holds of every subset.
LEMMA SubsetInduction ==
    ASSUME NEW S, IsFiniteSet(S), NEW Good,
           \A T \in SUBSET S : (\A U \in SUBSET T : U # T => U \in Good) => T \in Good
    PROVE  \A T \in SUBSET S : T \in Good
  <1> DEFINE Bad == {T \in SUBSET S : T \notin Good}
  <1> SUFFICES ASSUME Bad # {} PROVE FALSE
    OBVIOUS
  <1>1. IsWellFoundedOn(StrictSubsetOrdering(S), SUBSET S)
    <2>1. FiniteSubsetsOf(S) = SUBSET S
      BY FS_FiniteSubsetsOfFinite
    <2>2. IsWellFoundedOn(StrictSubsetOrdering(S), FiniteSubsetsOf(S))
      BY FS_StrictSubsetOrderingWellFounded
    <2> QED
      BY <2>1, <2>2, Zenon
  <1>2. Bad \subseteq SUBSET S
    OBVIOUS
  <1> HIDE DEF Bad
  <1>3. PICK T \in Bad : \A U \in Bad : <<U, T>> \notin StrictSubsetOrdering(S)
    BY <1>1, <1>2, WFMin
  <1>4. \A U \in SUBSET T : U # T => U \in Good
    BY <1>2, <1>3 DEF Bad, StrictSubsetOrdering
  <1> QED
    BY <1>3, <1>4 DEF Bad

\* MapThenSumSet, without its local definitions.
LEMMA TotalDef ==
    ASSUME NEW f, NEW S
    PROVE  Total(f, S) = (CHOOSE g : IsTotal(f, S, g))[S]
  BY DEF Total, MapThenSumSet, MapThenFoldSet, IsTotal, Pick

\* A sum does not depend on the set its recursion began with.
LEMMA TotalUnique ==
    ASSUME NEW f, NEW U, IsFiniteSet(U), NEW V \in SUBSET U,
           NEW g, NEW h, IsTotal(f, U, g), IsTotal(f, V, h)
    PROVE  \A W \in SUBSET V : g[W] = h[W]
  <1> DEFINE Good == {W \in SUBSET V : g[W] = h[W]}
  <1>1. ASSUME NEW T \in SUBSET V, \A W \in SUBSET T : W # T => W \in Good PROVE T \in Good
    <2>1. CASE T = {}
      BY <2>1 DEF IsTotal
    <2>2. CASE T # {}
      <3>1. Pick(T) \in T
        BY <2>2 DEF Pick
      <3>2. g[T \ {Pick(T)}] = h[T \ {Pick(T)}]
        BY <1>1, <3>1
      <3>3. g[T] = f[Pick(T)] + g[T \ {Pick(T)}] /\ h[T] = f[Pick(T)] + h[T \ {Pick(T)}]
        BY <2>2 DEF IsTotal
      <3> QED
        BY <3>2, <3>3
    <2> QED
      BY <2>1, <2>2
  <1>2. IsFiniteSet(V)
    BY FS_Subset
  <1> HIDE DEF Good
  <1>3. \A W \in SUBSET V : W \in Good
    BY <1>1, <1>2, SubsetInduction
  <1> QED
    BY <1>3 DEF Good

\* The recursion behind a sum is well defined.
LEMMA TotalExists ==
    ASSUME NEW f, NEW S, IsFiniteSet(S)
    PROVE  \A T \in SUBSET S : \E g : IsTotal(f, T, g)
  <1> DEFINE Good == {T \in SUBSET S : \E g : IsTotal(f, T, g)}
  <1>1. ASSUME NEW T \in SUBSET S, \A W \in SUBSET T : W # T => W \in Good PROVE T \in Good
    <2> DEFINE sum(W) == (CHOOSE g : IsTotal(f, W, g))[W]
               step(W) == IF W = {} THEN 0 ELSE f[Pick(W)] + sum(W \ {Pick(W)})
               G == [W \in SUBSET T |-> step(W)]
    <2>1. ASSUME NEW W \in SUBSET T, W # T PROVE sum(W) = step(W)
      <3> DEFINE g == CHOOSE g : IsTotal(f, W, g)
      <3>1. IsTotal(f, W, g)
        BY <1>1, <2>1
      <3>2. CASE W = {}
        BY <3>1, <3>2 DEF IsTotal
      <3>3. CASE W # {}
        <4> DEFINE V == W \ {Pick(W)}
                   h == CHOOSE h : IsTotal(f, V, h)
        <4>1. Pick(W) \in W
          BY <3>3 DEF Pick
        <4>2. V \in SUBSET T /\ V # T /\ V \in SUBSET W
          BY <4>1, <2>1
        <4>3. IsTotal(f, V, h)
          BY <1>1, <4>2
        <4>4. IsFiniteSet(W)
          BY FS_Subset
        <4> HIDE DEF g, h, V
        <4>5. g[V] = h[V]
          BY <3>1, <4>2, <4>3, <4>4, TotalUnique
        <4>6. g[W] = f[Pick(W)] + g[V]
          BY <3>1, <3>3 DEF IsTotal, V
        <4> QED
          BY <4>5, <4>6, <3>3 DEF g, h, V
      <3> QED
        BY <3>2, <3>3
    <2>2. ASSUME NEW W \in SUBSET T, W # {} PROVE G[W \ {Pick(W)}] = sum(W \ {Pick(W)})
      <3>1. Pick(W) \in W
        BY <2>2 DEF Pick
      <3>2. W \ {Pick(W)} \in SUBSET T /\ W \ {Pick(W)} # T
        BY <3>1
      <3> QED
        BY <3>2, <2>1
    <2>3. G = [W \in SUBSET T |-> IF W = {} THEN 0 ELSE f[Pick(W)] + G[W \ {Pick(W)}]]
      <3>1. \A W \in SUBSET T : step(W) = IF W = {} THEN 0 ELSE f[Pick(W)] + G[W \ {Pick(W)}]
        <4> HIDE DEF sum, G
        <4> QED
          BY <2>2
      <3>2. G = [W \in SUBSET T |-> step(W)]
        OBVIOUS
      <3> HIDE DEF step, sum, G
      <3> QED
        BY <3>1, <3>2
    <2> HIDE DEF G
    <2> QED
      BY <2>3 DEF IsTotal
  <1> HIDE DEF Good
  <1>2. \A T \in SUBSET S : T \in Good
    BY <1>1, SubsetInduction
  <1> QED
    BY <1>2 DEF Good

\* Nothing sums up to 0.
LEMMA TotalEmpty == \A f : Total(f, {}) = 0
  <1> TAKE f
  <1> DEFINE g == CHOOSE g : IsTotal(f, {}, g)
  <1>1. IsTotal(f, {}, g)
    BY TotalExists, FS_EmptySet
  <1> HIDE DEF g
  <1>2. g[{}] = 0
    BY <1>1 DEF IsTotal
  <1> QED
    BY <1>2, TotalDef DEF g

\* One turn of the fold.
LEMMA TotalPick ==
    ASSUME NEW f, NEW S, IsFiniteSet(S), S # {}
    PROVE  Pick(S) \in S /\ Total(f, S) = f[Pick(S)] + Total(f, S \ {Pick(S)})
  <1> DEFINE V == S \ {Pick(S)}
             g == CHOOSE g : IsTotal(f, S, g)
             h == CHOOSE h : IsTotal(f, V, h)
  <1>1. IsTotal(f, S, g) /\ IsTotal(f, V, h)
    BY TotalExists
  <1>2. Total(f, S) = g[S] /\ Total(f, V) = h[V]
    BY TotalDef
  <1>3. V \in SUBSET S
    OBVIOUS
  <1> HIDE DEF g, h
  <1>4. g[V] = h[V]
    <2> HIDE DEF V
    <2> QED
      BY <1>1, <1>3, TotalUnique
  <1>5. g[S] = f[Pick(S)] + g[V]
    BY <1>1 DEF IsTotal
  <1>6. Pick(S) \in S
    BY DEF Pick
  <1> QED
    BY <1>2, <1>4, <1>5, <1>6

\* A sum of integers is one.
LEMMA TotalType ==
    ASSUME NEW f, NEW S, IsFiniteSet(S), \A x \in S : f[x] \in Int
    PROVE  \A T \in SUBSET S : Total(f, T) \in Int
  <1> DEFINE Good == {T \in SUBSET S : Total(f, T) \in Int}
  <1>1. ASSUME NEW T \in SUBSET S, \A W \in SUBSET T : W # T => W \in Good PROVE T \in Good
    <2>1. CASE T = {}
      BY <2>1, TotalEmpty
    <2>2. CASE T # {}
      <3>1. Pick(T) \in T /\ Total(f, T) = f[Pick(T)] + Total(f, T \ {Pick(T)})
        BY <2>2, TotalPick, FS_Subset
      <3>2. Total(f, T \ {Pick(T)}) \in Int
        BY <1>1, <3>1
      <3> QED
        BY <3>1, <3>2
    <2> QED
      BY <2>1, <2>2
  <1> HIDE DEF Good
  <1>2. \A T \in SUBSET S : T \in Good
    BY <1>1, SubsetInduction
  <1> QED
    BY <1>2 DEF Good

\* The sum depends on the values at the elements only.
LEMMA TotalSame ==
    ASSUME NEW f, NEW h, NEW S, IsFiniteSet(S), \A x \in S : f[x] = h[x]
    PROVE  \A T \in SUBSET S : Total(f, T) = Total(h, T)
  <1> DEFINE Good == {T \in SUBSET S : Total(f, T) = Total(h, T)}
  <1>1. ASSUME NEW T \in SUBSET S, \A W \in SUBSET T : W # T => W \in Good PROVE T \in Good
    <2>1. CASE T = {}
      BY <2>1, TotalEmpty
    <2>2. CASE T # {}
      <3>1. /\ Pick(T) \in T
            /\ Total(f, T) = f[Pick(T)] + Total(f, T \ {Pick(T)})
            /\ Total(h, T) = h[Pick(T)] + Total(h, T \ {Pick(T)})
        BY <2>2, TotalPick, FS_Subset
      <3>2. Total(f, T \ {Pick(T)}) = Total(h, T \ {Pick(T)})
        BY <1>1, <3>1
      <3> QED
        BY <3>1, <3>2
    <2> QED
      BY <2>1, <2>2
  <1> HIDE DEF Good
  <1>2. \A T \in SUBSET S : T \in Good
    BY <1>1, SubsetInduction
  <1> QED
    BY <1>2 DEF Good

\* Any element, not just the one the fold takes, can be taken out of the sum.
LEMMA TotalRemove ==
    ASSUME NEW f, NEW S, IsFiniteSet(S), \A x \in S : f[x] \in Int
    PROVE  \A T \in SUBSET S : \A r \in T : Total(f, T) = f[r] + Total(f, T \ {r})
  <1> DEFINE Splits(T) == \A r \in T : Total(f, T) = f[r] + Total(f, T \ {r})
             Good == {T \in SUBSET S : Splits(T)}
  <1>1. ASSUME NEW T \in SUBSET S, \A W \in SUBSET T : W # T => W \in Good PROVE T \in Good
    <2> SUFFICES ASSUME NEW r \in T PROVE Total(f, T) = f[r] + Total(f, T \ {r})
      OBVIOUS
    <2> DEFINE p == Pick(T)
    <2>1. p \in T /\ Total(f, T) = f[p] + Total(f, T \ {p})
      BY TotalPick, FS_Subset
    <2> HIDE DEF p
    <2>2. CASE r = p
      BY <2>1, <2>2
    <2>3. CASE r # p
      <3>1. Total(f, T \ {p}) = f[r] + Total(f, (T \ {p}) \ {r})
        BY <1>1, <2>1, <2>3
      <3>2. Total(f, T \ {r}) = f[p] + Total(f, (T \ {r}) \ {p})
        BY <1>1, <2>1, <2>3
      <3>3. (T \ {r}) \ {p} = (T \ {p}) \ {r}
        OBVIOUS
      <3>4. Total(f, (T \ {p}) \ {r}) \in Int /\ f[r] \in Int /\ f[p] \in Int
        BY TotalType, <2>1
      <3>5. Total(f, (T \ {r}) \ {p}) = Total(f, (T \ {p}) \ {r})
        BY <3>3
      <3> QED
        BY <2>1, <3>1, <3>2, <3>4, <3>5
    <2> QED
      BY <2>2, <2>3
  <1> HIDE DEF Good
  <1>2. \A T \in SUBSET S : T \in Good
    BY <1>1, SubsetInduction
  <1> QED
    BY <1>2 DEF Good

\* The same of a whole set.
LEMMA TotalSplit ==
    ASSUME NEW f, NEW S, IsFiniteSet(S), \A x \in S : f[x] \in Int, NEW r \in S
    PROVE  Total(f, S) = f[r] + Total(f, S \ {r}) /\ Total(f, S \ {r}) \in Int
  <1>1. S \in SUBSET S /\ S \ {r} \in SUBSET S
    OBVIOUS
  <1> QED
    BY <1>1, TotalRemove, TotalType

=============================================================================
