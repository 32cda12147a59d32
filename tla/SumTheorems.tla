----------------------------- MODULE SumTheorems -----------------------------
(***************************************************************************)
(* What the sums of the models satisfy.  SumFunctionOnSet walks its set    *)
(* one chosen element at a time; the lemmas say that the order does not    *)
(* matter, so that a sum can be split, compared and added point by point.  *)
(*                                                                         *)
(* The induction theorems of the library take an operator, which cannot be *)
(* instantiated here: SubsetInduction states the same for a set of sets.   *)
(***************************************************************************)
EXTENDS Allotment, FiniteSetTheorems, WellFoundedInduction, TLAPS

\* The subsets of a finite set, ordered by inclusion, are well founded.
LEMMA SubsetsAreWellFounded ==
    ASSUME NEW S, IsFiniteSet(S)
    PROVE  IsWellFoundedOn(StrictSubsetOrdering(S), SUBSET S)
BY FS_StrictSubsetOrderingWellFounded, FS_FiniteSubsetsOfFinite

\* A collection that has the empty set, and has each subset of S once it has
\* those with one element less, has S.
LEMMA SubsetInduction ==
    ASSUME NEW S, IsFiniteSet(S), NEW P, {} \in P,
           \A t \in SUBSET S : t # {} /\ (\A x \in t : t \ {x} \in P) => t \in P
    PROVE  S \in P
<1> DEFINE Bad == (SUBSET S) \ P
<1> SUFFICES ASSUME S \notin P PROVE FALSE
  OBVIOUS
<1>0. S \in Bad
  OBVIOUS
<1>1. PICK t \in Bad : \A u \in Bad : ~ (<<u, t>> \in StrictSubsetOrdering(S))
  <2>1. IsWellFoundedOn(StrictSubsetOrdering(S), SUBSET S)
    BY SubsetsAreWellFounded
  <2>2. Bad \subseteq SUBSET S
    OBVIOUS
  <2> HIDE DEF Bad
  <2> QED  BY <1>0, <2>1, <2>2, WFMin
<1>2. t # {}
  BY <1>1
<1>3. PICK x \in t : t \ {x} \in Bad
  BY <1>1, <1>2
<1>4. <<t \ {x}, t>> \in StrictSubsetOrdering(S)
  BY <1>1, <1>3 DEF StrictSubsetOrdering
<1> QED  BY <1>1, <1>3, <1>4

-----------------------------------------------------------------------------
(* The walk behind a sum.                                                   *)

\* The element a walk over t takes first.
First(t) == CHOOSE x \in t : TRUE

\* `walk` gives the sum of f over each subset of S.
Walks(walk, f, S) ==
    walk = [t \in SUBSET S |-> IF t = {} THEN 0 ELSE f[First(t)] + walk[t \ {First(t)}]]

\* There is a walk, by the number of elements it has to take.
LEMMA WalkExists ==
    ASSUME NEW f, NEW S, IsFiniteSet(S)
    PROVE  \E walk : Walks(walk, f, S)
<1> DEFINE Step(w, t) == IF t = {} THEN 0 ELSE f[First(t)] + w[t \ {First(t)}]
           UpTo(w, u) == \A t \in SUBSET S : Cardinality(t) <= Cardinality(u) => w[t] = Step(w, t)
           P == {u \in SUBSET S : \E w : UpTo(w, u)}
<1>1. \A t \in SUBSET S : IsFiniteSet(t) /\ Cardinality(t) \in Nat
  BY FS_Subset, FS_CardinalityType
<1>2. {} \in P
  <2> DEFINE w == [t \in SUBSET S |-> 0]
  <2>1. \A t \in SUBSET S : Cardinality(t) <= 0 => t = {}
    BY <1>1, FS_EmptySet
  <2>2. UpTo(w, {})
    BY <2>1, FS_EmptySet
  <2> QED  BY <2>2
<1>3. ASSUME NEW u \in SUBSET S, NEW x \in u, u \ {x} \in P
      PROVE  u \in P
  <2>1. PICK w : UpTo(w, u \ {x})
    BY <1>3
  <2> DEFINE next == [t \in SUBSET S |-> Step(w, t)]
  <2>2. Cardinality(u \ {x}) = Cardinality(u) - 1
    BY <1>1, FS_RemoveElement
  <2>3. ASSUME NEW t \in SUBSET S, Cardinality(t) <= Cardinality(u)
        PROVE  next[t] = Step(next, t)
    <3>1. CASE t = {}
      BY <3>1
    <3>2. CASE t # {}
      <4>1. First(t) \in t
        BY <3>2 DEF First
      <4>2. Cardinality(t \ {First(t)}) = Cardinality(t) - 1
        BY <1>1, <4>1, FS_RemoveElement
      <4>3. Cardinality(t \ {First(t)}) <= Cardinality(u \ {x})
        BY <1>1, <2>2, <2>3, <4>2
      <4>4. w[t \ {First(t)}] = next[t \ {First(t)}]
        BY <2>1, <4>3
      <4> QED  BY <3>2, <4>4
    <3> QED  BY <3>1, <3>2
  <2>4. UpTo(next, u)
    BY <2>3
  <2> QED  BY <2>4
<1>4. S \in P
  <2> HIDE DEF P
  <2>1. \A t \in SUBSET S : t # {} /\ (\A x \in t : t \ {x} \in P) => t \in P
    BY <1>3
  <2> QED  BY <1>2, <2>1, SubsetInduction
<1>5. PICK w : UpTo(w, S)
  BY <1>4
<1> DEFINE walk == [t \in SUBSET S |-> Step(w, t)]
<1>6. \A t \in SUBSET S : walk[t] = w[t]
  BY <1>1, <1>5, FS_Subset
<1>7. walk = [t \in SUBSET S |-> Step(walk, t)]
  <2>1. ASSUME NEW t \in SUBSET S PROVE walk[t] = Step(walk, t)
    <3>1. CASE t = {}
      BY <3>1
    <3>2. CASE t # {}
      <4>1. w[t \ {First(t)}] = walk[t \ {First(t)}]
        BY <1>6
      <4> QED  BY <3>2, <4>1
    <3> QED  BY <3>1, <3>2
  <2> HIDE DEF Step
  <2> QED  BY <2>1
<1> QED  BY <1>7 DEF Walks

\* A sum is where such a walk ends.
LEMMA SumIsAWalk ==
    ASSUME NEW f, NEW S, IsFiniteSet(S)
    PROVE  \E walk : Walks(walk, f, S) /\ SumFunctionOnSet(f, S) = walk[S]
<1> DEFINE walk == CHOOSE w : Walks(w, f, S)
<1>1. Walks(walk, f, S)
  BY WalkExists
<1>2. SumFunctionOnSet(f, S) = walk[S]
  BY DEF SumFunctionOnSet, FoldFunctionOnSet, MapThenFoldSet, Walks, First
<1> QED  BY <1>1, <1>2

\* Two walks agree on the sets that both of them cover, if the functions do.
LEMMA WalksAgree ==
    ASSUME NEW S, IsFiniteSet(S), NEW T, NEW U, S \subseteq T, S \subseteq U,
           NEW f, NEW g, \A x \in S : f[x] = g[x],
           NEW v, Walks(v, f, T), NEW w, Walks(w, g, U)
    PROVE  \A t \in SUBSET S : v[t] = w[t]
<1> DEFINE P == {u \in SUBSET S : \A t \in SUBSET S : Cardinality(t) <= Cardinality(u) => v[t] = w[t]}
<1>1. \A t \in SUBSET S : IsFiniteSet(t) /\ Cardinality(t) \in Nat
  BY FS_Subset, FS_CardinalityType
<1>2. {} \in P
  <2>1. \A t \in SUBSET S : Cardinality(t) <= 0 => t = {}
    BY <1>1, FS_EmptySet
  <2>2. v[{}] = 0 /\ w[{}] = 0
    BY DEF Walks
  <2> QED  BY <2>1, <2>2, FS_EmptySet
<1>3. ASSUME NEW u \in SUBSET S, NEW x \in u, u \ {x} \in P
      PROVE  u \in P
  <2>1. Cardinality(u \ {x}) = Cardinality(u) - 1
    BY <1>1, FS_RemoveElement
  <2>2. ASSUME NEW t \in SUBSET S, Cardinality(t) <= Cardinality(u)
        PROVE  v[t] = w[t]
    <3>1. CASE t = {}
      BY <3>1 DEF Walks
    <3>2. CASE t # {}
      <4>1. First(t) \in t
        BY <3>2 DEF First
      <4>2. Cardinality(t \ {First(t)}) = Cardinality(t) - 1
        BY <1>1, <4>1, FS_RemoveElement
      <4>3. v[t \ {First(t)}] = w[t \ {First(t)}]
        BY <1>1, <1>3, <2>1, <2>2, <4>2
      <4>4. v[t] = f[First(t)] + v[t \ {First(t)}] /\ w[t] = g[First(t)] + w[t \ {First(t)}]
        BY <3>2 DEF Walks
      <4> QED  BY <4>1, <4>3, <4>4
    <3> QED  BY <3>1, <3>2
  <2> QED  BY <2>2
<1>4. S \in P
  <2> HIDE DEF P
  <2>1. \A t \in SUBSET S : t # {} /\ (\A x \in t : t \ {x} \in P) => t \in P
    BY <1>3
  <2> QED  BY <1>2, <2>1, SubsetInduction
<1> QED  BY <1>1, <1>4, FS_Subset

-----------------------------------------------------------------------------
(* Sums.                                                                    *)

\* Nothing sums to zero.
LEMMA SumOverNothing ==
    ASSUME NEW f
    PROVE  SumFunctionOnSet(f, {}) = 0
<1>1. IsFiniteSet({})
  BY FS_EmptySet
<1>2. PICK walk : Walks(walk, f, {}) /\ SumFunctionOnSet(f, {}) = walk[{}]
  BY <1>1, SumIsAWalk
<1> QED  BY <1>2 DEF Walks

\* Functions that agree on a set have the same sum over it.
LEMMA SumsAgree ==
    ASSUME NEW S, IsFiniteSet(S), NEW f, NEW g, \A x \in S : f[x] = g[x]
    PROVE  SumFunctionOnSet(f, S) = SumFunctionOnSet(g, S)
<1>1. PICK v : Walks(v, f, S) /\ SumFunctionOnSet(f, S) = v[S]
  BY SumIsAWalk
<1>2. PICK w : Walks(w, g, S) /\ SumFunctionOnSet(g, S) = w[S]
  BY SumIsAWalk
<1>3. \A t \in SUBSET S : v[t] = w[t]
  BY <1>1, <1>2, WalksAgree
<1> QED  BY <1>1, <1>2, <1>3

\* The sum takes the walk's first element.
LEMMA SumTakesFirst ==
    ASSUME NEW S, IsFiniteSet(S), S # {}, NEW f
    PROVE  /\ First(S) \in S
           /\ SumFunctionOnSet(f, S) = f[First(S)] + SumFunctionOnSet(f, S \ {First(S)})
<1> DEFINE T == S \ {First(S)}
<1>1. First(S) \in S
  BY DEF First
<1>2. IsFiniteSet(T)
  BY FS_Subset
<1>3. PICK v : Walks(v, f, S) /\ SumFunctionOnSet(f, S) = v[S]
  BY SumIsAWalk
<1>4. PICK w : Walks(w, f, T) /\ SumFunctionOnSet(f, T) = w[T]
  BY <1>2, SumIsAWalk
<1>5. \A t \in SUBSET T : v[t] = w[t]
  <2>1. T \subseteq S /\ T \subseteq T /\ \A x \in T : f[x] = f[x]
    OBVIOUS
  <2> HIDE DEF T
  <2> QED  BY <1>2, <1>3, <1>4, <2>1, WalksAgree
<1>6. v[S] = f[First(S)] + v[T]
  BY <1>3 DEF Walks
<1> QED  BY <1>1, <1>3, <1>4, <1>5, <1>6

\* A sum of integers is one.
LEMMA SumIsInteger ==
    ASSUME NEW S, IsFiniteSet(S), NEW f, \A x \in S : f[x] \in Int
    PROVE  SumFunctionOnSet(f, S) \in Int
<1> DEFINE P == {u \in SUBSET S : SumFunctionOnSet(f, u) \in Int}
<1>1. {} \in P
  BY SumOverNothing
<1>2. ASSUME NEW u \in SUBSET S, u # {}, \A x \in u : u \ {x} \in P
      PROVE  u \in P
  <2>1. IsFiniteSet(u)
    BY FS_Subset
  <2>2. PICK y \in u : SumFunctionOnSet(f, u) = f[y] + SumFunctionOnSet(f, u \ {y})
    BY <1>2, <2>1, SumTakesFirst
  <2> QED  BY <1>2, <2>2
<1>3. S \in P
  <2> HIDE DEF P
  <2>1. \A t \in SUBSET S : t # {} /\ (\A x \in t : t \ {x} \in P) => t \in P
    BY <1>2
  <2> QED  BY <1>1, <2>1, SubsetInduction
<1> QED  BY <1>3

\* Any element can be taken out of a sum.
LEMMA SumTakesAny ==
    ASSUME NEW S, IsFiniteSet(S), NEW f, \A x \in S : f[x] \in Int
    PROVE  \A x \in S : SumFunctionOnSet(f, S) = f[x] + SumFunctionOnSet(f, S \ {x})
<1> DEFINE Sum(u) == SumFunctionOnSet(f, u)
           P == {u \in SUBSET S : \A x \in u : Sum(u) = f[x] + Sum(u \ {x})}
<1>1. \A u \in SUBSET S : IsFiniteSet(u) /\ Sum(u) \in Int
  BY FS_Subset, SumIsInteger
<1>2. {} \in P
  OBVIOUS
<1>3. ASSUME NEW u \in SUBSET S, u # {}, \A x \in u : u \ {x} \in P
      PROVE  u \in P
  <2> IsFiniteSet(u)
    BY <1>1
  <2>1. PICK y \in u : Sum(u) = f[y] + Sum(u \ {y})
    BY <1>3, SumTakesFirst
  <2>2. ASSUME NEW x \in u, x # y
        PROVE  Sum(u) = f[x] + Sum(u \ {x})
    <3>1. Sum(u \ {y}) = f[x] + Sum((u \ {y}) \ {x})
      BY <1>3, <2>2
    <3>2. Sum(u \ {x}) = f[y] + Sum((u \ {x}) \ {y})
      BY <1>3, <2>2
    <3>3. (u \ {y}) \ {x} = (u \ {x}) \ {y}
      OBVIOUS
    <3>4. (u \ {x}) \ {y} \in SUBSET S
      OBVIOUS
    <3>5. Sum((u \ {x}) \ {y}) \in Int /\ f[x] \in Int /\ f[y] \in Int
      BY <1>1, <3>4
    <3>6. Sum(u \ {y}) = f[x] + Sum((u \ {x}) \ {y})
      BY <3>1, <3>3
    <3>7. PICK rest \in Int : rest = Sum((u \ {x}) \ {y})
      BY <3>5
    <3>8. Sum(u) = f[y] + (f[x] + rest) /\ Sum(u \ {x}) = f[y] + rest
      BY <2>1, <3>2, <3>6, <3>7
    <3> HIDE DEF Sum
    <3> QED  BY <3>5, <3>8
  <2> QED  BY <2>1, <2>2
<1>4. S \in P
  <2> HIDE DEF P
  <2>1. \A t \in SUBSET S : t # {} /\ (\A x \in t : t \ {x} \in P) => t \in P
    BY <1>3
  <2> QED  BY <1>2, <2>1, SubsetInduction
<1> QED  BY <1>4

\* One element more adds what it has.
LEMMA SumGainsOne ==
    ASSUME NEW S, IsFiniteSet(S), NEW x, x \notin S,
           NEW f, NEW g, \A y \in S : f[y] \in Int /\ g[y] = f[y], g[x] \in Int
    PROVE  SumFunctionOnSet(g, S \cup {x}) = SumFunctionOnSet(f, S) + g[x]
<1>1. IsFiniteSet(S \cup {x})
  BY FS_AddElement
<1>2. SumFunctionOnSet(g, S \cup {x}) = g[x] + SumFunctionOnSet(g, (S \cup {x}) \ {x})
  BY <1>1, SumTakesAny
<1>3. SumFunctionOnSet(g, (S \cup {x}) \ {x}) = SumFunctionOnSet(g, S)
  <2>1. (S \cup {x}) \ {x} = S
    OBVIOUS
  <2> QED  BY <2>1
<1>4. SumFunctionOnSet(g, S) = SumFunctionOnSet(f, S)
  BY SumsAgree
<1>5. SumFunctionOnSet(f, S) \in Int
  BY SumIsInteger
<1> QED  BY <1>2, <1>3, <1>4, <1>5

\* One element changed changes the sum by as much.
LEMMA SumChangesOne ==
    ASSUME NEW S, IsFiniteSet(S), NEW x \in S,
           NEW f, NEW g, \A y \in S : f[y] \in Int /\ g[y] \in Int, \A y \in S \ {x} : g[y] = f[y]
    PROVE  SumFunctionOnSet(g, S) = SumFunctionOnSet(f, S) - f[x] + g[x]
<1>1. IsFiniteSet(S \ {x})
  BY FS_RemoveElement
<1>2. SumFunctionOnSet(g, S) = g[x] + SumFunctionOnSet(g, S \ {x})
  BY SumTakesAny
<1>3. SumFunctionOnSet(f, S) = f[x] + SumFunctionOnSet(f, S \ {x})
  BY SumTakesAny
<1>4. SumFunctionOnSet(g, S \ {x}) = SumFunctionOnSet(f, S \ {x})
  BY <1>1, SumsAgree
<1>5. SumFunctionOnSet(f, S \ {x}) \in Int
  BY <1>1, SumIsInteger
<1>6. f[x] \in Int /\ g[x] \in Int
  OBVIOUS
<1> QED  BY <1>2, <1>3, <1>4, <1>5, <1>6

\* Point by point, a sum grows with its function.
LEMMA SumIsMonotone ==
    ASSUME NEW S, IsFiniteSet(S), NEW f, NEW g,
           \A x \in S : f[x] \in Int /\ g[x] \in Int /\ f[x] <= g[x]
    PROVE  SumFunctionOnSet(f, S) <= SumFunctionOnSet(g, S)
<1> DEFINE P == {u \in SUBSET S : SumFunctionOnSet(f, u) <= SumFunctionOnSet(g, u)}
<1>1. {} \in P
  BY SumOverNothing
<1>2. ASSUME NEW u \in SUBSET S, u # {}, \A x \in u : u \ {x} \in P
      PROVE  u \in P
  <2>1. IsFiniteSet(u)
    BY FS_Subset
  <2>2. PICK y \in u : TRUE
    BY <1>2
  <2>3. /\ SumFunctionOnSet(f, u) = f[y] + SumFunctionOnSet(f, u \ {y})
        /\ SumFunctionOnSet(g, u) = g[y] + SumFunctionOnSet(g, u \ {y})
    BY <2>1, SumTakesAny
  <2>4. /\ SumFunctionOnSet(f, u \ {y}) \in Int /\ SumFunctionOnSet(g, u \ {y}) \in Int
    <3>1. IsFiniteSet(u \ {y})
      BY <2>1, FS_Subset
    <3> QED  BY <3>1, SumIsInteger
  <2>5. SumFunctionOnSet(f, u \ {y}) <= SumFunctionOnSet(g, u \ {y})
    BY <1>2, <2>2
  <2> QED  BY <2>3, <2>4, <2>5
<1>3. S \in P
  <2> HIDE DEF P
  <2>1. \A t \in SUBSET S : t # {} /\ (\A x \in t : t \ {x} \in P) => t \in P
    BY <1>2
  <2> QED  BY <1>1, <2>1, SubsetInduction
<1> QED  BY <1>3

\* A sum of naturals is one.
LEMMA SumIsNatural ==
    ASSUME NEW S, IsFiniteSet(S), NEW f, \A x \in S : f[x] \in Nat
    PROVE  SumFunctionOnSet(f, S) \in Nat
<1> DEFINE P == {u \in SUBSET S : SumFunctionOnSet(f, u) \in Nat}
<1>1. {} \in P
  BY SumOverNothing
<1>2. ASSUME NEW u \in SUBSET S, u # {}, \A x \in u : u \ {x} \in P
      PROVE  u \in P
  <2>1. IsFiniteSet(u)
    BY FS_Subset
  <2>2. PICK y \in u : SumFunctionOnSet(f, u) = f[y] + SumFunctionOnSet(f, u \ {y})
    BY <1>2, <2>1, SumTakesFirst
  <2> QED  BY <1>2, <2>2
<1>3. S \in P
  <2> HIDE DEF P
  <2>1. \A t \in SUBSET S : t # {} /\ (\A x \in t : t \ {x} \in P) => t \in P
    BY <1>2
  <2> QED  BY <1>1, <2>1, SubsetInduction
<1> QED  BY <1>3

\* The sum of two functions is the sum of their sums.
LEMMA SumIsAdditive ==
    ASSUME NEW S, IsFiniteSet(S), NEW f, NEW g, NEW h,
           \A x \in S : f[x] \in Int /\ g[x] \in Int /\ h[x] = f[x] + g[x]
    PROVE  SumFunctionOnSet(h, S) = SumFunctionOnSet(f, S) + SumFunctionOnSet(g, S)
<1> DEFINE P == {u \in SUBSET S :
                   SumFunctionOnSet(h, u) = SumFunctionOnSet(f, u) + SumFunctionOnSet(g, u)}
<1>1. {} \in P
  BY SumOverNothing
<1>2. ASSUME NEW u \in SUBSET S, u # {}, \A x \in u : u \ {x} \in P
      PROVE  u \in P
  <2>1. IsFiniteSet(u) /\ \A x \in u : h[x] \in Int
    BY FS_Subset
  <2>2. PICK y \in u : TRUE
    BY <1>2
  <2>3. /\ SumFunctionOnSet(f, u) = f[y] + SumFunctionOnSet(f, u \ {y})
        /\ SumFunctionOnSet(g, u) = g[y] + SumFunctionOnSet(g, u \ {y})
        /\ SumFunctionOnSet(h, u) = h[y] + SumFunctionOnSet(h, u \ {y})
    BY <2>1, SumTakesAny
  <2>4. /\ SumFunctionOnSet(f, u \ {y}) \in Int /\ SumFunctionOnSet(g, u \ {y}) \in Int
        /\ SumFunctionOnSet(h, u \ {y}) \in Int
    <3>1. IsFiniteSet(u \ {y})
      BY <2>1, FS_Subset
    <3> QED  BY <2>1, <3>1, SumIsInteger
  <2>5. SumFunctionOnSet(h, u \ {y})
          = SumFunctionOnSet(f, u \ {y}) + SumFunctionOnSet(g, u \ {y})
    BY <1>2, <2>2
  <2> QED  BY <2>3, <2>4, <2>5
<1>3. S \in P
  <2> HIDE DEF P
  <2>1. \A t \in SUBSET S : t # {} /\ (\A x \in t : t \ {x} \in P) => t \in P
    BY <1>2
  <2> QED  BY <1>1, <2>1, SubsetInduction
<1> QED  BY <1>3

\* A common factor comes out of a sum.
LEMMA SumIsScaled ==
    ASSUME NEW S, IsFiniteSet(S), NEW k \in Int, NEW f, NEW h,
           \A x \in S : f[x] \in Int /\ h[x] = k * f[x]
    PROVE  SumFunctionOnSet(h, S) = k * SumFunctionOnSet(f, S)
<1> DEFINE P == {u \in SUBSET S : SumFunctionOnSet(h, u) = k * SumFunctionOnSet(f, u)}
<1>1. {} \in P
  BY SumOverNothing
<1>2. ASSUME NEW u \in SUBSET S, u # {}, \A x \in u : u \ {x} \in P
      PROVE  u \in P
  <2>1. IsFiniteSet(u) /\ \A x \in u : h[x] \in Int
    BY FS_Subset
  <2>2. PICK y \in u : TRUE
    BY <1>2
  <2>3. /\ SumFunctionOnSet(f, u) = f[y] + SumFunctionOnSet(f, u \ {y})
        /\ SumFunctionOnSet(h, u) = h[y] + SumFunctionOnSet(h, u \ {y})
    BY <2>1, SumTakesAny
  <2>4. SumFunctionOnSet(f, u \ {y}) \in Int
    <3>1. IsFiniteSet(u \ {y})
      BY <2>1, FS_Subset
    <3> QED  BY <3>1, SumIsInteger
  <2>5. SumFunctionOnSet(h, u \ {y}) = k * SumFunctionOnSet(f, u \ {y})
    BY <1>2, <2>2
  <2>6. \A a, b \in Int : k * a + k * b = k * (a + b)
    OBVIOUS
  <2> QED  BY <2>2, <2>3, <2>4, <2>5, <2>6
<1>3. S \in P
  <2> HIDE DEF P
  <2>1. \A t \in SUBSET S : t # {} /\ (\A x \in t : t \ {x} \in P) => t \in P
    BY <1>2
  <2> QED  BY <1>1, <2>1, SubsetInduction
<1> QED  BY <1>3

\* What is zero adds nothing.
LEMMA SumSkipsZeros ==
    ASSUME NEW S, IsFiniteSet(S), NEW T \in SUBSET S, NEW f,
           \A x \in S : f[x] \in Int, \A x \in S \ T : f[x] = 0
    PROVE  SumFunctionOnSet(f, S) = SumFunctionOnSet(f, T)
<1> DEFINE P == {u \in SUBSET S : SumFunctionOnSet(f, u) = SumFunctionOnSet(f, u \cap T)}
<1>1. {} \in P
  <2>1. {} \cap T = {}
    OBVIOUS
  <2> QED  BY <2>1
<1>2. ASSUME NEW u \in SUBSET S, u # {}, \A x \in u : u \ {x} \in P
      PROVE  u \in P
  <2>1. IsFiniteSet(u) /\ IsFiniteSet(u \cap T)
    BY FS_Subset
  <2>2. PICK y \in u : TRUE
    BY <1>2
  <2>3. SumFunctionOnSet(f, u) = f[y] + SumFunctionOnSet(f, u \ {y})
    BY <2>1, SumTakesAny
  <2>4. SumFunctionOnSet(f, u \ {y}) = SumFunctionOnSet(f, (u \ {y}) \cap T)
    BY <1>2, <2>2
  <2>5. CASE y \in T
    <3>1. y \in u \cap T /\ (u \ {y}) \cap T = (u \cap T) \ {y}
      BY <2>5
    <3>2. SumFunctionOnSet(f, u \cap T) = f[y] + SumFunctionOnSet(f, (u \cap T) \ {y})
      BY <2>1, <3>1, SumTakesAny
    <3> QED  BY <2>3, <2>4, <3>1, <3>2
  <2>6. CASE y \notin T
    <3>1. (u \ {y}) \cap T = u \cap T /\ f[y] = 0
      BY <2>6
    <3>2. SumFunctionOnSet(f, u \cap T) \in Int
      BY <2>1, SumIsInteger
    <3>3. SumFunctionOnSet(f, u \ {y}) = SumFunctionOnSet(f, u \cap T)
      BY <2>4, <3>1
    <3>4. SumFunctionOnSet(f, u) = SumFunctionOnSet(f, u \cap T)
      BY <2>3, <3>1, <3>2, <3>3
    <3> QED  BY <3>4
  <2> QED  BY <2>5, <2>6
<1>3. S \in P
  <2> HIDE DEF P
  <2>1. \A t \in SUBSET S : t # {} /\ (\A x \in t : t \ {x} \in P) => t \in P
    BY <1>2
  <2> QED  BY <1>1, <2>1, SubsetInduction
<1>4. S \cap T = T
  OBVIOUS
<1> QED  BY <1>3, <1>4

\* A sum over two sets with nothing in common is the sum of both.
LEMMA SumIsSplit ==
    ASSUME NEW S, IsFiniteSet(S), NEW T, IsFiniteSet(T), S \cap T = {},
           NEW f, \A x \in S \cup T : f[x] \in Int
    PROVE  SumFunctionOnSet(f, S \cup T) = SumFunctionOnSet(f, S) + SumFunctionOnSet(f, T)
<1> DEFINE U == S \cup T
           g == [x \in U |-> IF x \in S THEN f[x] ELSE 0]
           h == [x \in U |-> IF x \in T THEN f[x] ELSE 0]
<1>1. IsFiniteSet(U)
  BY FS_Union
<1>2. SumFunctionOnSet(f, U) = SumFunctionOnSet(g, U) + SumFunctionOnSet(h, U)
  <2>1. \A x \in U : g[x] \in Int /\ h[x] \in Int /\ f[x] = g[x] + h[x]
    OBVIOUS
  <2> HIDE DEF U, g, h
  <2> QED  BY <1>1, <2>1, SumIsAdditive
<1>3. SumFunctionOnSet(g, U) = SumFunctionOnSet(f, S)
  <2>1. S \in SUBSET U /\ \A x \in U : g[x] \in Int /\ \A y \in U \ S : g[y] = 0
    OBVIOUS
  <2>2. \A x \in S : g[x] = f[x]
    OBVIOUS
  <2> HIDE DEF U, g, h
  <2>3. SumFunctionOnSet(g, U) = SumFunctionOnSet(g, S)
    BY <1>1, <2>1, SumSkipsZeros
  <2> QED  BY <2>2, <2>3, SumsAgree
<1>4. SumFunctionOnSet(h, U) = SumFunctionOnSet(f, T)
  <2>1. T \in SUBSET U /\ \A x \in U : h[x] \in Int /\ \A y \in U \ T : h[y] = 0
    OBVIOUS
  <2>2. \A x \in T : h[x] = f[x]
    OBVIOUS
  <2> HIDE DEF U, g, h
  <2>3. SumFunctionOnSet(h, U) = SumFunctionOnSet(h, T)
    BY <1>1, <2>1, SumSkipsZeros
  <2> QED  BY <2>2, <2>3, SumsAgree
<1> QED  BY <1>2, <1>3, <1>4

\* A part of a sum of naturals is at most the whole.
LEMMA PartIsAtMostWhole ==
  ASSUME NEW T, IsFiniteSet(T), NEW S \in SUBSET T, NEW f, \A x \in T : f[x] \in Nat
  PROVE  /\ SumFunctionOnSet(f, S) <= SumFunctionOnSet(f, T)
         /\ SumFunctionOnSet(f, S) \in Nat
  <1>1. IsFiniteSet(S) /\ IsFiniteSet(T \ S)
    BY FS_Subset
  <1>2. S \cap (T \ S) = {} /\ S \cup (T \ S) = T /\ \A x \in S \cup (T \ S) : f[x] \in Int
    OBVIOUS
  <1>3. SumFunctionOnSet(f, S \cup (T \ S)) = SumFunctionOnSet(f, S) + SumFunctionOnSet(f, T \ S)
    BY <1>1, <1>2, SumIsSplit
  <1>4. SumFunctionOnSet(f, S \cup (T \ S)) = SumFunctionOnSet(f, T)
    BY <1>2
  <1>5. SumFunctionOnSet(f, S) \in Nat /\ SumFunctionOnSet(f, T \ S) \in Nat
    BY <1>1, SumIsNatural
  <1> QED
    BY <1>3, <1>4, <1>5

-----------------------------------------------------------------------------
(* Allotments.                                                              *)

\* `earlier` is a linear order of S: it gives each element those before it.
Ordered(earlier, S) ==
    /\ \A x \in S : earlier[x] \in SUBSET S /\ x \notin earlier[x]
    /\ \A x, y \in S : x # y => x \in earlier[y] \/ y \in earlier[x]
    /\ \A x, y \in S : y \in earlier[x] => earlier[y] \subseteq earlier[x]

\* A finite set that is not empty has a last element.
LEMMA LastExists ==
    ASSUME NEW S, IsFiniteSet(S), NEW earlier, Ordered(earlier, S), S # {}
    PROVE  \E m \in S : \A x \in S : x # m => x \in earlier[m]
<1> DEFINE P == {u \in SUBSET S : u # {} => \E m \in u : \A x \in u : x # m => x \in earlier[m]}
<1>1. {} \in P
  OBVIOUS
<1>2. ASSUME NEW u \in SUBSET S, u # {}, \A x \in u : u \ {x} \in P
      PROVE  u \in P
  <2>1. PICK y \in u : TRUE
    BY <1>2
  <2>2. CASE u = {y}
    BY <2>2
  <2>3. CASE u # {y}
    <3>1. PICK m \in u \ {y} : \A x \in u \ {y} : x # m => x \in earlier[m]
      BY <1>2, <2>3
    <3>2. CASE y \in earlier[m]
      <4>1. \A x \in u : x # m => x \in earlier[m]
        BY <3>1, <3>2
      <4> QED  BY <4>1
    <3>3. CASE m \in earlier[y]
      <4>1. earlier[m] \subseteq earlier[y]
        BY <3>3 DEF Ordered
      <4>2. \A x \in u : x # y => x \in earlier[y]
        BY <3>1, <3>3, <4>1
      <4> QED  BY <4>2
    <3> QED  BY <3>2, <3>3 DEF Ordered
  <2> QED  BY <2>2, <2>3
<1>3. S \in P
  <2> HIDE DEF P
  <2>1. \A t \in SUBSET S : t # {} /\ (\A x \in t : t \ {x} \in P) => t \in P
    BY <1>2
  <2> QED  BY <1>1, <2>1, SubsetInduction
<1> QED  BY <1>3

\* So a finite set of numbers that is not empty has a least one.
LEMMA LeastExists ==
    ASSUME NEW S, IsFiniteSet(S), S \subseteq Int, S # {}
    PROVE  \E m \in S : \A x \in S : m <= x
<1> DEFINE greater == [x \in S |-> {y \in S : x < y}]
<1>1. \A x \in S : greater[x] \in SUBSET S /\ x \notin greater[x]
  OBVIOUS
<1>2. \A x, y \in S : x # y => x < y \/ y < x
  OBVIOUS
<1>3. \A x, y \in S : x \in greater[y] <=> y < x
  OBVIOUS
<1>4. \A x, y \in S : x < y => greater[y] \subseteq greater[x]
  <2> SUFFICES ASSUME NEW x \in S, NEW y \in S, x < y, NEW z \in greater[y]
               PROVE  z \in greater[x]
    OBVIOUS
  <2>1. z \in S /\ y < z
    OBVIOUS
  <2>2. x < z
    BY <2>1
  <2> QED  BY <1>3, <2>1, <2>2
<1>5. \E m \in S : \A x \in S : x # m => x \in greater[m]
  <2> HIDE DEF greater
  <2>1. Ordered(greater, S)
    BY <1>1, <1>2, <1>3, <1>4 DEF Ordered
  <2> QED  BY <2>1, LastExists
<1>6. \A m, x \in S : x \in greater[m] => m <= x
  OBVIOUS
<1> QED  BY <1>5, <1>6

\* Each element gives at most what it has.
LEMMA AllotmentIsBounded ==
    ASSUME NEW S, IsFiniteSet(S), NEW sizes \in [S -> Nat], NEW earlier, Ordered(earlier, S),
           NEW quantity \in Int
    PROVE  /\ DOMAIN Allot(sizes, earlier, quantity) = S
           /\ \A x \in S : /\ Allot(sizes, earlier, quantity)[x] \in Nat
                           /\ Allot(sizes, earlier, quantity)[x] <= sizes[x]
<1>1. \A x \in S : SumFunctionOnSet(sizes, earlier[x]) \in Int
  <2> TAKE x \in S
  <2>1. earlier[x] \in SUBSET S /\ IsFiniteSet(earlier[x])
    BY FS_Subset DEF Ordered
  <2> QED  BY <2>1, SumIsInteger
<1> QED  BY <1>1 DEF Allot, Lesser, Greater

\* All together give the quantity that is asked for, or all that there is.
LEMMA AllotmentIsWhole ==
    ASSUME NEW S, IsFiniteSet(S), NEW sizes \in [S -> Nat], NEW earlier, Ordered(earlier, S),
           NEW quantity \in Nat
    PROVE  SumFunctionOnSet(Allot(sizes, earlier, quantity), S)
             = Lesser(quantity, SumFunctionOnSet(sizes, S))
<1> DEFINE taken == Allot(sizes, earlier, quantity)
           P == {u \in SUBSET S :
                   (\A x \in u : earlier[x] \subseteq u) =>
                      SumFunctionOnSet(taken, u) = Lesser(quantity, SumFunctionOnSet(sizes, u))}
<1>1. \A x \in S : taken[x] \in Nat
  BY AllotmentIsBounded
<1>2. {} \in P
  BY SumOverNothing DEF Lesser
<1>3. ASSUME NEW u \in SUBSET S, u # {}, \A x \in u : u \ {x} \in P
      PROVE  u \in P
  <2> SUFFICES ASSUME \A x \in u : earlier[x] \subseteq u
               PROVE  SumFunctionOnSet(taken, u) = Lesser(quantity, SumFunctionOnSet(sizes, u))
    OBVIOUS
  <2>1. IsFiniteSet(u) /\ \A x \in u : taken[x] \in Int /\ sizes[x] \in Int
    BY <1>1, FS_Subset
  <2>2. Ordered(earlier, u)
    BY DEF Ordered
  <2>3. PICK m \in u : \A x \in u : x # m => x \in earlier[m]
    BY <1>3, <2>1, <2>2, LastExists
  <2>4. earlier[m] = u \ {m}
    BY <2>2, <2>3 DEF Ordered
  <2>5. \A x \in u \ {m} : earlier[x] \subseteq u \ {m}
    BY <2>2, <2>4 DEF Ordered
  <2>6. SumFunctionOnSet(taken, u \ {m}) = Lesser(quantity, SumFunctionOnSet(sizes, u \ {m}))
    BY <1>3, <2>3, <2>5
  <2>7. /\ SumFunctionOnSet(taken, u) = taken[m] + SumFunctionOnSet(taken, u \ {m})
        /\ SumFunctionOnSet(sizes, u) = sizes[m] + SumFunctionOnSet(sizes, u \ {m})
    <3> HIDE DEF taken
    <3> QED  BY <2>1, SumTakesAny
  <2>8. taken[m] = Lesser(sizes[m], Greater(0, quantity - SumFunctionOnSet(sizes, u \ {m})))
    BY <2>4 DEF Allot
  <2>9. SumFunctionOnSet(sizes, u \ {m}) \in Nat
    <3>1. IsFiniteSet(u \ {m})
      BY <2>1, FS_Subset
    <3> QED  BY <3>1, SumIsNatural
  <2> HIDE DEF taken
  <2> QED  BY <2>6, <2>7, <2>8, <2>9 DEF Lesser, Greater
<1>4. S \in P
  <2> HIDE DEF P
  <2>1. \A t \in SUBSET S : t # {} /\ (\A x \in t : t \ {x} \in P) => t \in P
    BY <1>3
  <2> QED  BY <1>2, <2>1, SubsetInduction
<1> QED  BY <1>4 DEF Ordered

\* Until its quantity is reached a walk leaves nothing behind: what comes
\* before an element that gives something has given all it has.
LEMMA AllotmentIsInOrder ==
    ASSUME NEW S, IsFiniteSet(S), NEW sizes \in [S -> Nat], NEW earlier, Ordered(earlier, S),
           NEW quantity \in Int, NEW x \in S, Allot(sizes, earlier, quantity)[x] > 0,
           NEW y \in earlier[x]
    PROVE  y \in S /\ Allot(sizes, earlier, quantity)[y] = sizes[y]
<1> DEFINE E == earlier[x]
           F == earlier[y]
<1>1. /\ E \in SUBSET S /\ y \in S /\ y \in E /\ F \in SUBSET S /\ y \notin F /\ F \subseteq E
  BY DEF Ordered
<1>2. IsFiniteSet(E) /\ IsFiniteSet(F) /\ IsFiniteSet(E \ {y})
  BY <1>1, FS_Subset
<1>3. \A z \in E : sizes[z] \in Nat
  BY <1>1
<1>4. /\ Allot(sizes, earlier, quantity)[x]
           = Lesser(sizes[x], Greater(0, quantity - SumFunctionOnSet(sizes, E)))
      /\ Allot(sizes, earlier, quantity)[y]
           = Lesser(sizes[y], Greater(0, quantity - SumFunctionOnSet(sizes, F)))
  BY <1>1 DEF Allot
<1> HIDE DEF E, F
<1>5. SumFunctionOnSet(sizes, E) = sizes[y] + SumFunctionOnSet(sizes, E \ {y})
  <2>1. \A z \in E : sizes[z] \in Int
    BY <1>3
  <2> QED  BY <1>1, <1>2, <2>1, SumTakesAny
<1>6. SumFunctionOnSet(sizes, F) <= SumFunctionOnSet(sizes, E \ {y})
      /\ SumFunctionOnSet(sizes, F) \in Nat
  <2>1. F \in SUBSET (E \ {y}) /\ \A z \in E \ {y} : sizes[z] \in Nat
    BY <1>1, <1>3
  <2> QED  BY <1>2, <2>1, PartIsAtMostWhole
<1>7. SumFunctionOnSet(sizes, E \ {y}) \in Nat
  <2>1. \A z \in E \ {y} : sizes[z] \in Nat
    BY <1>3
  <2> QED  BY <1>2, <2>1, SumIsNatural
<1> QED  BY <1>1, <1>3, <1>4, <1>5, <1>6, <1>7 DEF Lesser, Greater

-----------------------------------------------------------------------------
(* Walks of a book.                                                         *)

\* Best first is an order, whichever side of the market the best is on.
LEMMA PricesAreOrdered ==
    ASSUME NEW T, T \subseteq Nat
    PROVE  /\ Ordered([p \in T |-> {q \in T : q < p}], T)
           /\ Ordered([p \in T |-> {q \in T : q > p}], T)
<1>1. ASSUME NEW better, NEW P \in SUBSET (T \X T),
             \A p \in T : better[p] = {q \in T : <<q, p>> \in P},
             \A p \in T : <<p, p>> \notin P,
             \A p, q \in T : p # q => <<p, q>> \in P \/ <<q, p>> \in P,
             \A p, q, r \in T : <<r, q>> \in P /\ <<q, p>> \in P => <<r, p>> \in P
      PROVE  Ordered(better, T)
  <2>1. ASSUME NEW p \in T
        PROVE  better[p] \subseteq T /\ \A q \in T : q \in better[p] <=> <<q, p>> \in P
    <3>1. better[p] = {q \in T : <<q, p>> \in P}
      BY <1>1
    <3> QED  BY <3>1
  <2>2. \A p \in T : better[p] \subseteq T
    BY <2>1
  <2>3. \A p \in T : p \notin better[p]
    BY <1>1, <2>1
  <2>4. \A p, q \in T : p # q => p \in better[q] \/ q \in better[p]
    BY <1>1, <2>1
  <2>5. ASSUME NEW p \in T, NEW q \in T, q \in better[p], NEW r \in better[q]
        PROVE  r \in better[p]
    <3>1. r \in T
      BY <2>2, <2>5
    <3>2. <<r, q>> \in P /\ <<q, p>> \in P
      BY <2>1, <2>5, <3>1
    <3>3. <<r, p>> \in P
      BY <1>1, <3>1, <3>2
    <3> QED  BY <2>1, <3>1, <3>3
  <2> QED  BY <2>2, <2>3, <2>4, <2>5 DEF Ordered
<1>2. Ordered([p \in T |-> {q \in T : q < p}], T)
  <2> DEFINE better == [p \in T |-> {q \in T : q < p}]
             P == {x \in T \X T : x[1] < x[2]}
  <2>1. \A p, q \in T : <<p, q>> \in P <=> p < q
    OBVIOUS
  <2>2. \A p \in T : better[p] = {q \in T : q < p}
    OBVIOUS
  <2>3. P \in SUBSET (T \X T)
    OBVIOUS
  <2> HIDE DEF better, P
  <2>4. \A p \in T : better[p] = {q \in T : <<q, p>> \in P}
    BY <2>1, <2>2
  <2>5. /\ \A p \in T : <<p, p>> \notin P
        /\ \A p, q \in T : p # q => <<p, q>> \in P \/ <<q, p>> \in P
        /\ \A p, q, r \in T : <<r, q>> \in P /\ <<q, p>> \in P => <<r, p>> \in P
    BY <2>1
  <2>6. Ordered(better, T)
    BY <1>1, <2>3, <2>4, <2>5
  <2> QED  BY <2>6 DEF better
<1>3. Ordered([p \in T |-> {q \in T : q > p}], T)
  <2> DEFINE better == [p \in T |-> {q \in T : q > p}]
             P == {x \in T \X T : x[1] > x[2]}
  <2>1. \A p, q \in T : <<p, q>> \in P <=> p > q
    OBVIOUS
  <2>2. \A p \in T : better[p] = {q \in T : q > p}
    OBVIOUS
  <2>3. P \in SUBSET (T \X T)
    OBVIOUS
  <2> HIDE DEF better, P
  <2>4. \A p \in T : better[p] = {q \in T : <<q, p>> \in P}
    BY <2>1, <2>2
  <2>5. /\ \A p \in T : <<p, p>> \notin P
        /\ \A p, q \in T : p # q => <<p, q>> \in P \/ <<q, p>> \in P
        /\ \A p, q, r \in T : <<r, q>> \in P /\ <<q, p>> \in P => <<r, p>> \in P
    BY <2>1
  <2>6. Ordered(better, T)
    BY <1>1, <2>3, <2>4, <2>5
  <2> QED  BY <2>6 DEF better
<1> QED  BY <1>2, <1>3

\* A product of naturals is a natural, and grows with either factor.
LEMMA ProductsGrow ==
  /\ \A a, b \in Nat : a * b \in Nat
  /\ \A a, b, d \in Nat : b <= d => a * b <= a * d
  /\ \A a, b, d \in Nat : b <= d => b * a <= d * a
  <1>1. \A a, b \in Nat : a * b \in Nat
    OBVIOUS
  <1>2. ASSUME NEW a \in Nat, NEW b \in Nat, NEW d \in Nat, b <= d
        PROVE  a * b <= a * d
    <2>1. d - b \in Nat
      BY <1>2
    <2>2. a * (d - b) \in Nat
      BY <1>1, <2>1
    <2>3. a * d = a * b + a * (d - b)
      OBVIOUS
    <2>4. a * b \in Nat
      BY <1>1
    <2> QED
      BY <2>2, <2>3, <2>4
  <1>3. \A a, b \in Nat : a * b = b * a
    OBVIOUS
  <1> QED
    BY <1>1, <1>2, <1>3

\* What is taken at prices within a limit costs no more, or brings no less,
\* than the limit for each unit.
LEMMA CostIsBounded ==
    ASSUME NEW T, IsFiniteSet(T), T \subseteq Nat, NEW limit \in Nat,
           NEW taken, \A p \in T : taken[p] \in Nat,
           NEW paid, \A p \in T : paid[p] = taken[p] * p
    PROVE  /\ SumFunctionOnSet(paid, T) \in Nat /\ SumFunctionOnSet(taken, T) \in Nat
           /\ (\A p \in T : p <= limit)
                => SumFunctionOnSet(paid, T) <= limit * SumFunctionOnSet(taken, T)
           /\ (\A p \in T : p >= limit)
                => SumFunctionOnSet(paid, T) >= limit * SumFunctionOnSet(taken, T)
<1> DEFINE most == [p \in T |-> limit * taken[p]]
<1>1. \A p \in T : /\ paid[p] \in Nat /\ most[p] \in Nat /\ taken[p] \in Int
                   /\ most[p] = limit * taken[p]
  BY ProductsGrow
<1>2. \A p \in T : (p <= limit => paid[p] <= most[p]) /\ (p >= limit => paid[p] >= most[p])
  <2> TAKE p \in T
  <2>1. limit * taken[p] = taken[p] * limit /\ p \in Nat
    OBVIOUS
  <2> QED  BY <2>1, ProductsGrow
<1> HIDE DEF most
<1>3. /\ SumFunctionOnSet(paid, T) \in Nat /\ SumFunctionOnSet(taken, T) \in Nat
  BY <1>1, SumIsNatural
<1>4. SumFunctionOnSet(most, T) = limit * SumFunctionOnSet(taken, T)
  <2>1. limit \in Int
    OBVIOUS
  <2> QED  BY <1>1, <2>1, SumIsScaled
<1>5. ASSUME \A p \in T : p <= limit
      PROVE  SumFunctionOnSet(paid, T) <= SumFunctionOnSet(most, T)
  <2>1. \A p \in T : paid[p] \in Int /\ most[p] \in Int /\ paid[p] <= most[p]
    BY <1>1, <1>2, <1>5
  <2> QED  BY <2>1, SumIsMonotone
<1>6. ASSUME \A p \in T : p >= limit
      PROVE  SumFunctionOnSet(most, T) <= SumFunctionOnSet(paid, T)
  <2>1. \A p \in T : most[p] \in Int /\ paid[p] \in Int /\ most[p] <= paid[p]
    BY <1>1, <1>2, <1>6
  <2> QED  BY <2>1, SumIsMonotone
<1>7. SumFunctionOnSet(most, T) \in Nat
  BY <1>1, SumIsNatural
<1> QED  BY <1>3, <1>4, <1>5, <1>6, <1>7
=============================================================================
