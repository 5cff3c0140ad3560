--------------------------------- MODULE Sums ---------------------------------
(***************************************************************************)
(* Sums over finite sets: what SumFunctionOnSet of the community modules   *)
(* computes, for every function and every finite set.  It is a fold, so    *)
(* the laws at the end go by induction on the subsets of the set.          *)
(***************************************************************************)
EXTENDS FiniteSetsExt, FiniteSetTheorems, Sorting, TLAPS

\* Induction on the subsets of a finite set: if a subset is in Good whenever all
\* smaller ones are, then all are.
LEMMA SubsetInduction ==
    ASSUME NEW S, IsFiniteSet(S), NEW Good,
           \A t \in SUBSET S : (\A u \in SUBSET t : u # t => u \in Good) => t \in Good
    PROVE  \A t \in SUBSET S : t \in Good
<1> DEFINE Others == (SUBSET S) \ Good
<1> SUFFICES ASSUME Others # {} PROVE FALSE
  OBVIOUS
<1>1. IsWellFoundedOn(StrictSubsetOrdering(S), SUBSET S)
  <2>1. FiniteSubsetsOf(S) = SUBSET S
    BY FS_FiniteSubsetsOfFinite
  <2>2. IsWellFoundedOn(StrictSubsetOrdering(S), FiniteSubsetsOf(S))
    BY FS_StrictSubsetOrderingWellFounded
  <2> QED
    BY <2>1, <2>2
<1>2. PICK t \in Others : \A u \in Others : ~ (<<u, t>> \in StrictSubsetOrdering(S))
  <2> HIDE DEF Others
  <2>1. Others \subseteq SUBSET S
    BY DEF Others
  <2> QED
    BY <1>1, <2>1, WFMin
<1>3. \A u \in SUBSET t : u # t => u \in Good
  BY <1>2 DEF StrictSubsetOrdering
<1> QED
  BY <1>2, <1>3

-----------------------------------------------------------------------------
(* SumFunctionOnSet is defined on finite sets.                             *)

Some(s) == CHOOSE x \in s : TRUE

\* What a fold of + does to the subsets of S, one element after another.
Adds(g, f, S) ==
    g = [s \in SUBSET S |-> IF s = {} THEN 0 ELSE f[Some(s)] + g[s \ {Some(s)}]]

\* The sum is the value of such a fold at the whole set, when there is one.
LEMMA SumUnfolds ==
    ASSUME NEW f, NEW S, \E g : Adds(g, f, S)
    PROVE  \E g : Adds(g, f, S) /\ SumFunctionOnSet(f, S) = g[S]
<1> DEFINE h == CHOOSE g : Adds(g, f, S)
<1>1. Adds(h, f, S)
  OBVIOUS
<1>2. SumFunctionOnSet(f, S) = h[S]
  BY DEF SumFunctionOnSet, FoldFunctionOnSet, MapThenFoldSet, Adds, Some
<1> QED
  BY <1>1, <1>2

\* Some chooses an element of the set.
LEMMA SomeIn == ASSUME NEW s, s # {} PROVE Some(s) \in s
BY DEF Some

\* What Adds says of one subset.
LEMMA AddsStep ==
    ASSUME NEW f, NEW S, NEW g, Adds(g, f, S), NEW t \in SUBSET S
    PROVE  g[t] = IF t = {} THEN 0 ELSE f[Some(t)] + g[t \ {Some(t)}]
BY Zenon DEF Adds

\* Two such folds agree where both are defined.
LEMMA AddsUnique ==
    ASSUME NEW f, NEW S, NEW T, IsFiniteSet(S), S \subseteq T,
           NEW g, Adds(g, f, S), NEW h, Adds(h, f, T)
    PROVE  \A t \in SUBSET S : g[t] = h[t]
<1> DEFINE Good == {t \in SUBSET S : g[t] = h[t]}
<1>1. ASSUME NEW t \in SUBSET S, \A u \in SUBSET t : u # t => u \in Good
      PROVE  t \in Good
  <2>1. CASE t = {}
    BY <2>1, AddsStep
  <2>2. CASE t # {}
    <3> DEFINE u == t \ {Some(t)}
    <3>1. u \in SUBSET t /\ u # t /\ u \in SUBSET S
      BY <2>2, SomeIn
    <3>2. g[u] = h[u]
      BY <1>1, <3>1
    <3>3. g[t] = f[Some(t)] + g[u]
      BY <2>2, AddsStep
    <3>4. t \in SUBSET T
      OBVIOUS
    <3>5. h[t] = f[Some(t)] + h[u]
      BY <2>2, <3>4, AddsStep
    <3> QED
      BY <3>2, <3>3, <3>5
  <2> QED
    BY <2>1, <2>2
<1> HIDE DEF Good
<1>2. \A t \in SUBSET S : t \in Good
  BY <1>1, SubsetInduction
<1> QED
  BY <1>2 DEF Good

\* There is one for every finite set.
LEMMA AddsExists ==
    ASSUME NEW f, NEW S, IsFiniteSet(S)
    PROVE  \E g : Adds(g, f, S)
<1> DEFINE Good == {t \in SUBSET S : \E g : Adds(g, f, t)}
<1>1. ASSUME NEW t \in SUBSET S, \A u \in SUBSET t : u # t => u \in Good
      PROVE  t \in Good
  <2> DEFINE fold(u) == CHOOSE g : Adds(g, f, u)
             below(u) == u \ {Some(u)}
             h == [u \in SUBSET t |-> IF u = {} THEN 0
                                      ELSE f[Some(u)] + fold(below(u))[below(u)]]
  <2>1. \A u \in SUBSET t : u # t => Adds(fold(u), f, u)
    BY <1>1
  <2>2. \A u \in SUBSET t : u # {} => below(u) \in SUBSET u /\ below(u) # u
    BY SomeIn
  <2>3. ASSUME NEW u \in SUBSET t, u # t PROVE h[u] = fold(u)[u]
    <3>1. CASE u = {}
      BY <2>1, <2>3, <3>1, AddsStep
    <3>2. CASE u # {}
      <4>1. Adds(fold(u), f, u) /\ Adds(fold(below(u)), f, below(u))
        BY <2>1, <2>2, <2>3, <3>2
      <4>2. IsFiniteSet(below(u))
        BY FS_Subset
      <4> HIDE DEF fold, below, h
      <4>3. fold(below(u))[below(u)] = fold(u)[below(u)]
        BY <2>2, <3>2, <4>1, <4>2, AddsUnique
      <4>4. fold(u)[u] = f[Some(u)] + fold(u)[below(u)]
        <5>1. ASSUME NEW g, Adds(g, f, u) PROVE g[u] = f[Some(u)] + g[below(u)]
          <6>1. u \in SUBSET u
            OBVIOUS
          <6> QED
            BY <3>2, <5>1, <6>1, AddsStep DEF below
        <5> QED
          BY <4>1, <5>1
      <4>5. h[u] = f[Some(u)] + fold(below(u))[below(u)]
        BY <3>2 DEF h
      <4> QED
        BY <4>3, <4>4, <4>5
    <3> QED
      BY <3>1, <3>2
  <2>4. ASSUME NEW u \in SUBSET t, u # {} PROVE h[u] = f[Some(u)] + h[below(u)]
    <3>1. below(u) \in SUBSET t /\ below(u) # t
      BY <2>2, <2>4
    <3>2. h[below(u)] = fold(below(u))[below(u)]
      BY <2>3, <3>1
    <3> HIDE DEF fold, below
    <3> QED
      BY <2>4, <3>2
  <2>5. Adds(h, f, t)
    <3>1. \A u \in SUBSET t : h[u] = IF u = {} THEN 0 ELSE f[Some(u)] + h[u \ {Some(u)}]
      <4>1. h[{}] = 0
        OBVIOUS
      <4> HIDE DEF h
      <4> QED
        BY <2>4, <4>1
    <3>2. h = [u \in SUBSET t |-> h[u]]
      OBVIOUS
    <3> HIDE DEF h
    <3> QED
      BY <3>1, <3>2, Zenon DEF Adds
  <2> QED
    BY <2>5
<1>2. \A t \in SUBSET S : t \in Good
  <2> HIDE DEF Good
  <2> QED
    BY <1>1, SubsetInduction
<1> QED
  BY <1>2

\* The sum of a set is that of any larger fold.
LEMMA SumIsFold ==
    ASSUME NEW f, NEW S, IsFiniteSet(S), NEW g, Adds(g, f, S), NEW t \in SUBSET S
    PROVE  SumFunctionOnSet(f, t) = g[t]
<1>1. IsFiniteSet(t)
  BY FS_Subset
<1>2. PICK h : Adds(h, f, t) /\ SumFunctionOnSet(f, t) = h[t]
  BY <1>1, AddsExists, SumUnfolds
<1>3. \A u \in SUBSET t : h[u] = g[u]
  BY <1>1, <1>2, AddsUnique
<1> QED
  BY <1>2, <1>3

-----------------------------------------------------------------------------
(* The laws of sums.                                                       *)

\* The sum of nothing.
LEMMA SumEmpty == ASSUME NEW f PROVE SumFunctionOnSet(f, {}) = 0
<1>1. IsFiniteSet({}) /\ {} \in SUBSET {}
  BY FS_EmptySet
<1>2. PICK g : Adds(g, f, {})
  BY <1>1, AddsExists
<1>3. g[{}] = 0
  BY <1>1, <1>2, AddsStep
<1> QED
  BY <1>1, <1>2, <1>3, SumIsFold

\* The fold of integers takes any element first.
LEMMA SumStep ==
    ASSUME NEW f, NEW S, IsFiniteSet(S), S # {}
    PROVE  Some(S) \in S
           /\ SumFunctionOnSet(f, S) = f[Some(S)] + SumFunctionOnSet(f, S \ {Some(S)})
<1>1. PICK g : Adds(g, f, S)
  BY AddsExists
<1>2. S \in SUBSET S /\ S \ {Some(S)} \in SUBSET S
  OBVIOUS
<1>3. g[S] = f[Some(S)] + g[S \ {Some(S)}]
  BY <1>1, <1>2, AddsStep
<1>4. SumFunctionOnSet(f, S) = g[S]
  BY <1>1, <1>2, SumIsFold
<1>5. SumFunctionOnSet(f, S \ {Some(S)}) = g[S \ {Some(S)}]
  BY <1>1, <1>2, SumIsFold
<1> QED
  BY <1>3, <1>4, <1>5, SomeIn

\* Sums of integers are integers, and sums of naturals are naturals.
LEMMA SumType ==
    ASSUME NEW f, NEW S, IsFiniteSet(S), NEW Number \in {Int, Nat},
           \A x \in S : f[x] \in Number
    PROVE  SumFunctionOnSet(f, S) \in Number
<1> DEFINE Good == {t \in SUBSET S : SumFunctionOnSet(f, t) \in Number}
<1>1. ASSUME NEW t \in SUBSET S, \A u \in SUBSET t : u # t => u \in Good
      PROVE  t \in Good
  <2>1. CASE t = {}
    BY <2>1, SumEmpty
  <2>2. CASE t # {}
    <3>1. IsFiniteSet(t)
      BY FS_Subset
    <3>2. Some(t) \in t /\ SumFunctionOnSet(f, t)
                              = f[Some(t)] + SumFunctionOnSet(f, t \ {Some(t)})
      BY <2>2, <3>1, SumStep
    <3>3. SumFunctionOnSet(f, t \ {Some(t)}) \in Number
      BY <1>1, <3>2
    <3>4. f[Some(t)] \in Number
      BY <3>2
    <3> QED
      BY <3>2, <3>3, <3>4
  <2> QED
    BY <2>1, <2>2
<1> HIDE DEF Good
<1>2. \A t \in SUBSET S : t \in Good
  BY <1>1, SubsetInduction
<1> QED
  BY <1>2 DEF Good

\* Any element may be taken out of a sum.
LEMMA SumRemove ==
    ASSUME NEW f, NEW S, IsFiniteSet(S), \A x \in S : f[x] \in Int
    PROVE  \A y \in S : SumFunctionOnSet(f, S) = f[y] + SumFunctionOnSet(f, S \ {y})
<1> DEFINE Good == {t \in SUBSET S : \A y \in t :
                      SumFunctionOnSet(f, t) = f[y] + SumFunctionOnSet(f, t \ {y})}
<1>1. ASSUME NEW t \in SUBSET S, \A u \in SUBSET t : u # t => u \in Good
      PROVE  t \in Good
  <2> SUFFICES ASSUME NEW y \in t
               PROVE  SumFunctionOnSet(f, t) = f[y] + SumFunctionOnSet(f, t \ {y})
    OBVIOUS
  <2> DEFINE x == Some(t)
             both == t \ {x, y}
  <2>1. IsFiniteSet(t) /\ IsFiniteSet(both)
    BY FS_Subset
  <2>2. x \in t /\ SumFunctionOnSet(f, t) = f[x] + SumFunctionOnSet(f, t \ {x})
    BY <2>1, SumStep
  <2>3. CASE x = y
    BY <2>2, <2>3
  <2>4. CASE x # y
    <3>1. t \ {x} \in Good /\ t \ {y} \in Good
      BY <1>1, <2>2
    <3>2. y \in t \ {x} /\ x \in t \ {y} /\ (t \ {x}) \ {y} = both /\ (t \ {y}) \ {x} = both
      BY <2>2, <2>4
    <3> HIDE DEF both, x
    <3>3. SumFunctionOnSet(f, t \ {x}) = f[y] + SumFunctionOnSet(f, both)
      BY <3>1, <3>2
    <3>4. SumFunctionOnSet(f, t \ {y}) = f[x] + SumFunctionOnSet(f, both)
      BY <3>1, <3>2
    <3>5. \A z \in both : f[z] \in Int
      BY DEF both
    <3>6. f[x] \in Int /\ f[y] \in Int /\ SumFunctionOnSet(f, both) \in Int
      BY <2>1, <2>2, <3>5, SumType
    <3> QED
      BY <2>2, <3>3, <3>4, <3>6
  <2> QED
    BY <2>3, <2>4
<1> HIDE DEF Good
<1>2. \A t \in SUBSET S : t \in Good
  BY <1>1, SubsetInduction
<1> QED
  BY <1>2 DEF Good

\* An element that is added is added to the sum.
LEMMA SumAdd ==
    ASSUME NEW f, NEW S, IsFiniteSet(S), NEW y, y \notin S,
           \A x \in S \cup {y} : f[x] \in Int
    PROVE  SumFunctionOnSet(f, S \cup {y}) = f[y] + SumFunctionOnSet(f, S)
<1> DEFINE T == S \cup {y}
<1>1. IsFiniteSet(T)
  BY FS_AddElement
<1>2. y \in T /\ T \ {y} = S
  OBVIOUS
<1>3. \A x \in T : f[x] \in Int
  OBVIOUS
<1> HIDE DEF T
<1>4. SumFunctionOnSet(f, T) = f[y] + SumFunctionOnSet(f, S)
  BY <1>1, <1>2, <1>3, SumRemove
<1> QED
  BY <1>4 DEF T

\* Only the values on the set count, and larger values give larger sums.
LEMMA SumMonotone ==
    ASSUME NEW f, NEW h, NEW S, IsFiniteSet(S),
           \A x \in S : f[x] \in Int /\ h[x] \in Int /\ f[x] <= h[x]
    PROVE  SumFunctionOnSet(f, S) <= SumFunctionOnSet(h, S)
<1> DEFINE Good == {t \in SUBSET S : SumFunctionOnSet(f, t) <= SumFunctionOnSet(h, t)}
<1>1. ASSUME NEW t \in SUBSET S, \A u \in SUBSET t : u # t => u \in Good
      PROVE  t \in Good
  <2>1. CASE t = {}
    BY <2>1, SumEmpty
  <2>2. CASE t # {}
    <3> DEFINE x == Some(t)
               u == t \ {x}
    <3>1. IsFiniteSet(t) /\ IsFiniteSet(u)
      BY FS_Subset
    <3>2. /\ x \in t
          /\ SumFunctionOnSet(f, t) = f[x] + SumFunctionOnSet(f, u)
          /\ SumFunctionOnSet(h, t) = h[x] + SumFunctionOnSet(h, u)
      BY <2>2, <3>1, SumStep
    <3>3. u \in Good
      BY <1>1, <3>2
    <3>4. \A z \in u : f[z] \in Int /\ h[z] \in Int
      OBVIOUS
    <3> HIDE DEF u, x
    <3>5. SumFunctionOnSet(f, u) \in Int /\ SumFunctionOnSet(h, u) \in Int
      BY <3>1, <3>4, SumType
    <3> QED
      BY <3>2, <3>3, <3>5
  <2> QED
    BY <2>1, <2>2
<1> HIDE DEF Good
<1>2. \A t \in SUBSET S : t \in Good
  BY <1>1, SubsetInduction
<1> QED
  BY <1>2 DEF Good

\* Functions that agree on a set have the same sum over it.
LEMMA SumAgree ==
    ASSUME NEW f, NEW h, NEW S, IsFiniteSet(S),
           \A x \in S : f[x] \in Int /\ h[x] = f[x]
    PROVE  SumFunctionOnSet(h, S) = SumFunctionOnSet(f, S)
<1>1. SumFunctionOnSet(f, S) <= SumFunctionOnSet(h, S)
  BY SumMonotone
<1>2. SumFunctionOnSet(h, S) <= SumFunctionOnSet(f, S)
  BY SumMonotone
<1>3. SumFunctionOnSet(f, S) \in Int /\ SumFunctionOnSet(h, S) \in Int
  BY SumType
<1> QED
  BY <1>1, <1>2, <1>3

\* A sum of zeros.
LEMMA SumZero ==
    ASSUME NEW f, NEW S, IsFiniteSet(S), \A x \in S : f[x] = 0
    PROVE  SumFunctionOnSet(f, S) = 0
<1> DEFINE Good == {t \in SUBSET S : SumFunctionOnSet(f, t) = 0}
<1>1. ASSUME NEW t \in SUBSET S, \A u \in SUBSET t : u # t => u \in Good
      PROVE  t \in Good
  <2>1. CASE t = {}
    BY <2>1, SumEmpty
  <2>2. CASE t # {}
    <3>1. IsFiniteSet(t)
      BY FS_Subset
    <3>2. Some(t) \in t /\ SumFunctionOnSet(f, t)
                              = f[Some(t)] + SumFunctionOnSet(f, t \ {Some(t)})
      BY <2>2, <3>1, SumStep
    <3>3. SumFunctionOnSet(f, t \ {Some(t)}) = 0 /\ f[Some(t)] = 0
      BY <1>1, <3>2
    <3> QED
      BY <3>2, <3>3
  <2> QED
    BY <2>1, <2>2
<1> HIDE DEF Good
<1>2. \A t \in SUBSET S : t \in Good
  BY <1>1, SubsetInduction
<1> QED
  BY <1>2 DEF Good

\* A change at one element changes the sum by as much.
LEMMA SumUpdate ==
    ASSUME NEW f, NEW h, NEW S, IsFiniteSet(S), NEW y \in S,
           \A x \in S : f[x] \in Int /\ h[x] \in Int,
           \A x \in S \ {y} : h[x] = f[x]
    PROVE  /\ SumFunctionOnSet(f, S) \in Int
           /\ SumFunctionOnSet(h, S) = SumFunctionOnSet(f, S) + (h[y] - f[y])
<1> DEFINE T == S \ {y}
<1>1. IsFiniteSet(T)
  BY FS_Subset
<1>2. \A x \in T : f[x] \in Int /\ h[x] = f[x]
  OBVIOUS
<1>3. /\ SumFunctionOnSet(f, S) = f[y] + SumFunctionOnSet(f, T)
      /\ SumFunctionOnSet(h, S) = h[y] + SumFunctionOnSet(h, T)
  BY SumRemove
<1> HIDE DEF T
<1>4. SumFunctionOnSet(h, T) = SumFunctionOnSet(f, T)
  BY <1>1, <1>2, SumAgree
<1>5. SumFunctionOnSet(f, T) \in Int
  BY <1>1, <1>2, SumType
<1> QED
  BY <1>3, <1>4, <1>5

\* A part of a sum of naturals is at most the whole.
LEMMA SumSubset ==
    ASSUME NEW f, NEW S, IsFiniteSet(S), \A x \in S : f[x] \in Nat
    PROVE  \A T \in SUBSET S : SumFunctionOnSet(f, T) <= SumFunctionOnSet(f, S)
<1> DEFINE Good == {t \in SUBSET S :
                      \A T \in SUBSET t : SumFunctionOnSet(f, T) <= SumFunctionOnSet(f, t)}
<1>1. ASSUME NEW t \in SUBSET S, \A u \in SUBSET t : u # t => u \in Good
      PROVE  t \in Good
  <2> SUFFICES ASSUME NEW T \in SUBSET t
               PROVE  SumFunctionOnSet(f, T) <= SumFunctionOnSet(f, t)
    OBVIOUS
  <2>1. IsFiniteSet(t)
    BY FS_Subset
  <2>2. SumFunctionOnSet(f, t) \in Nat
    BY <2>1, SumType
  <2>3. CASE T = t
    BY <2>2, <2>3
  <2>4. CASE T # t
    <3>1. PICK y \in t : y \notin T
      BY <2>4
    <3> DEFINE u == t \ {y}
    <3>2. u \in Good /\ T \in SUBSET u /\ IsFiniteSet(u) /\ IsFiniteSet(T)
      BY <1>1, <2>1, <3>1, FS_Subset
    <3>3. SumFunctionOnSet(f, t) = f[y] + SumFunctionOnSet(f, u)
      BY <2>1, SumRemove
    <3>4. (\A x \in u : f[x] \in Nat) /\ (\A x \in T : f[x] \in Nat) /\ f[y] \in Nat
      OBVIOUS
    <3> HIDE DEF u
    <3>5. SumFunctionOnSet(f, u) \in Nat /\ SumFunctionOnSet(f, T) \in Nat
      BY <3>2, <3>4, SumType
    <3>6. SumFunctionOnSet(f, T) <= SumFunctionOnSet(f, u)
      BY <3>2
    <3> QED
      BY <3>3, <3>4, <3>5, <3>6
  <2> QED
    BY <2>3, <2>4
<1> HIDE DEF Good
<1>2. \A t \in SUBSET S : t \in Good
  BY <1>1, SubsetInduction
<1>3. S \in Good
  BY <1>2
<1> QED
  BY <1>3 DEF Good
-----------------------------------------------------------------------------
(* Sorted sets.                                                            *)

\* Sorted gives every id a place, and the places follow the ids.
LEMMA SortedIs ==
    ASSUME NEW S \in SUBSET Nat, IsFiniteSet(S)
    PROVE  /\ Cardinality(S) \in Nat
           /\ DOMAIN Sorted(S) = 1..Cardinality(S)
           /\ \A i \in DOMAIN Sorted(S) : Sorted(S)[i] \in S
           /\ \A i, j \in DOMAIN Sorted(S) : i < j => Sorted(S)[i] < Sorted(S)[j]
           /\ \A s \in S : \E i \in DOMAIN Sorted(S) : Sorted(S)[i] = s
<1> DEFINE n == Cardinality(S)
           below(s) == {t \in S : t < s}
           place == [s \in S |-> Cardinality(below(s)) + 1]
<1>1. \A r \in S : r \in Int
  OBVIOUS
<1>2. n \in Nat /\ IsFiniteSet(1..n) /\ Cardinality(1..n) = n
  BY FS_CardinalityType, FS_Interval
<1>3. ASSUME NEW s \in S
      PROVE  IsFiniteSet(below(s)) /\ Cardinality(below(s)) \in 0..(n - 1)
  <2>1. IsFiniteSet(S \ {s}) /\ Cardinality(S \ {s}) = n - 1
    BY FS_RemoveElement
  <2>2. below(s) \subseteq S \ {s}
    OBVIOUS
  <2>3. IsFiniteSet(below(s)) /\ Cardinality(below(s)) <= n - 1
    BY <2>1, <2>2, FS_Subset
  <2>4. Cardinality(below(s)) \in Nat
    BY <2>3, FS_CardinalityType
  <2> QED
    BY <1>2, <2>3, <2>4
<1>4. ASSUME NEW s \in S, NEW t \in S, s < t
      PROVE  Cardinality(below(s)) < Cardinality(below(t))
  <2>1. s \in Int /\ t \in Int
    BY <1>1
  <2>2. ASSUME NEW r \in S, r < s PROVE r < t
    <3>1. r \in Int
      BY <1>1
    <3> QED
      BY <1>4, <2>1, <2>2, <3>1
  <2>3. below(s) \subseteq below(t)
    BY <2>2
  <2>4. s \in below(t)
    BY <1>4
  <2>5. s \notin below(s)
    BY <2>1
  <2>6. below(s) \cup {s} \subseteq below(t) /\ s \notin below(s)
    BY <2>3, <2>4, <2>5
  <2>7. Cardinality(below(s) \cup {s}) = Cardinality(below(s)) + 1
    BY <1>3, <2>6, FS_AddElement
  <2>8. Cardinality(below(s) \cup {s}) <= Cardinality(below(t))
    BY <1>3, <2>6, FS_Subset
  <2> HIDE DEF below, n
  <2>9. Cardinality(below(s)) \in Int /\ Cardinality(below(t)) \in Int
    BY <1>2, <1>3
  <2> QED
    BY <2>7, <2>8, <2>9
<1> HIDE DEF below, n
<1>5. place \in [S -> 1..n]
  BY <1>2, <1>3
<1>6. ASSUME NEW s \in S, NEW t \in S, place[s] = place[t] PROVE s = t
  <2>1. Cardinality(below(s)) = Cardinality(below(t)) /\ Cardinality(below(s)) \in Int
    BY <1>2, <1>3, <1>6
  <2>2. ~(s < t) /\ ~(t < s)
    BY <1>4, <2>1
  <2> QED
    BY <2>2
<1>7. place \in Surjection(S, 1..n)
  <2>1. place \in Injection(S, 1..n)
    BY <1>5, <1>6 DEF Injection, IsInjective
  <2> QED
    BY <1>2, <2>1, FS_Injection DEF n
<1>8. ASSUME NEW i \in 1..n
      PROVE  Sorted(S)[i] \in S /\ place[Sorted(S)[i]] = i
  <2>1. PICK s \in S : place[s] = i
    BY <1>7 DEF Surjection
  <2>2. Cardinality(below(s)) = i - 1
    BY <1>2, <1>3, <2>1
  <2>3. Sorted(S)[i] = CHOOSE t \in S : Cardinality(below(t)) = i - 1
    BY DEF Sorted, n, below
  <2>4. Sorted(S)[i] \in S /\ Cardinality(below(Sorted(S)[i])) = i - 1
    BY <2>2, <2>3
  <2> QED
    BY <1>2, <2>4
<1>9. DOMAIN Sorted(S) = 1..n
  BY DEF Sorted, n
<1>10. ASSUME NEW s \in S PROVE Sorted(S)[place[s]] = s /\ place[s] \in 1..n
  BY <1>5, <1>6, <1>8
<1>11. ASSUME NEW i \in 1..n, NEW j \in 1..n, i < j PROVE Sorted(S)[i] < Sorted(S)[j]
  <2> DEFINE s == Sorted(S)[i]
             t == Sorted(S)[j]
  <2>1. s \in S /\ t \in S /\ place[s] = i /\ place[t] = j
    BY <1>8
  <2> HIDE DEF s, t
  <2>2. s \in Int /\ t \in Int
    BY <1>1, <2>1
  <2>3. Cardinality(below(s)) = i - 1 /\ Cardinality(below(t)) = j - 1
    BY <1>2, <1>3, <2>1
  <2>4. s # t /\ ~(t < s)
    BY <1>4, <1>11, <2>1, <2>3
  <2> QED
    BY <2>4, <2>2 DEF s, t
<1> QED
  BY <1>2, <1>8, <1>9, <1>10, <1>11 DEF n

=============================================================================
