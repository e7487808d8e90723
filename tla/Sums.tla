---------------------------------- MODULE Sums ----------------------------------
(***************************************************************************)
(* Sums over finite sets: what a proof needs to know of SumFunctionOnSet,  *)
(* which the community modules define by a recursion on subsets.           *)
(*                                                                         *)
(* Induction is stated with a set of good subsets in place of a predicate, *)
(* so that the provers can use it: of the subsets that are not good one is *)
(* minimal (WFMin), if there are any.                                      *)
(***************************************************************************)
EXTENDS Functions, FiniteSetTheorems, WellFoundedInduction, TLAPS

\* A subset all of whose proper subsets are good is good: the whole set is.
LEMMA SubsetInduction ==
    ASSUME NEW S, IsFiniteSet(S), NEW G \in SUBSET SUBSET S,
           \A U \in SUBSET S : (\A V \in SUBSET U : V # U => V \in G) => U \in G
    PROVE  S \in G
<1> DEFINE Bad == (SUBSET S) \ G
           R == StrictSubsetOrdering(S)
<1>1. IsWellFoundedOn(R, SUBSET S)
  BY FS_StrictSubsetOrderingWellFounded, FS_FiniteSubsetsOfFinite
<1>2. CASE Bad # {}
  <2>1. PICK U \in Bad : \A V \in Bad : ~(<<V, U>> \in R)
    <3>1. Bad \subseteq SUBSET S
      OBVIOUS
    <3> HIDE DEF R, Bad
    <3> QED BY <3>1, <1>1, <1>2, WFMin
  <2>2. \A V \in SUBSET U : V # U => V \in G
    BY <2>1 DEF StrictSubsetOrdering
  <2> QED BY <2>2
<1> QED BY <1>2

\* The empty set is good, and an element more makes no subset bad: the whole
\* set is good.
LEMMA AddInduction ==
    ASSUME NEW S, IsFiniteSet(S), NEW G \in SUBSET SUBSET S,
           {} \in G, \A U \in G : \A x \in S \ U : U \cup {x} \in G
    PROVE  S \in G
<1>1. ASSUME NEW U \in SUBSET S, \A V \in SUBSET U : V # U => V \in G
      PROVE  U \in G
  <2>1. CASE U # {}
    <3>1. PICK x \in U : TRUE
      BY <2>1
    <3>2. U \ {x} \in G
      BY <1>1
    <3>3. U = (U \ {x}) \cup {x}
      OBVIOUS
    <3> QED BY <3>2, <3>3
  <2> QED BY <2>1
<1> QED BY <1>1, SubsetInduction

-----------------------------------------------------------------------------

\* The element taken next, and the functions that the recursion describes.
Pick(s) == CHOOSE x \in s : TRUE
IsSum(f, S, g) ==
    g = [s \in SUBSET S |->
           IF s = {} THEN 0 ELSE f[Pick(s)] + g[s \ {Pick(s)}]]

\* The definition, with names for its parts.
LEMMA SumIs ==
    ASSUME NEW f, NEW S
    PROVE  SumFunctionOnSet(f, S) = (CHOOSE g : IsSum(f, S, g))[S]
BY DEF SumFunctionOnSet, FoldFunctionOnSet, MapThenFoldSet, Pick, IsSum

LEMMA PickIn == \A s : s # {} => Pick(s) \in s
BY DEF Pick

\* There is at most one such function, of whatever set.
LEMMA SumUnique ==
    ASSUME NEW f, NEW A, IsFiniteSet(A), NEW B, A \subseteq B,
           NEW g, IsSum(f, A, g), NEW h, IsSum(f, B, h)
    PROVE  g[A] = h[A]
<1> DEFINE G == {s \in SUBSET A : g[s] = h[s]}
<1>1. ASSUME NEW U \in SUBSET A, \A V \in SUBSET U : V # U => V \in G
      PROVE  U \in G
  <2>1. g[U] = IF U = {} THEN 0 ELSE f[Pick(U)] + g[U \ {Pick(U)}]
    BY DEF IsSum
  <2>2. U \in SUBSET B
    OBVIOUS
  <2>3. h[U] = IF U = {} THEN 0 ELSE f[Pick(U)] + h[U \ {Pick(U)}]
    BY <2>2 DEF IsSum
  <2>4. U # {} => g[U \ {Pick(U)}] = h[U \ {Pick(U)}]
    BY <1>1, PickIn
  <2> QED BY <2>1, <2>3, <2>4
<1>2. A \in G
  <2>1. G \in SUBSET SUBSET A
    OBVIOUS
  <2> HIDE DEF G
  <2> QED BY <1>1, <2>1, SubsetInduction
<1> QED BY <1>2

\* There is one, on the subsets of a finite set.
LEMMA SumExists ==
    ASSUME NEW f, NEW S, IsFiniteSet(S)
    PROVE  \E g : IsSum(f, S, g)
<1> DEFINE G == {U \in SUBSET S : \E g : IsSum(f, U, g)}
           H(U) == SumFunctionOnSet(f, U)
<1>1. ASSUME NEW U \in SUBSET S, \A V \in SUBSET U : V # U => V \in G
      PROVE  U \in G
  <2>1. ASSUME NEW V \in SUBSET U, V # U
        PROVE  /\ IsSum(f, V, CHOOSE g : IsSum(f, V, g))
               /\ H(V) = (CHOOSE g : IsSum(f, V, g))[V]
    <3>1. V \in G
      BY <1>1, <2>1
    <3> QED BY <3>1, SumIs
  <2>2. ASSUME NEW V \in SUBSET U, V # U
        PROVE  H(V) = IF V = {} THEN 0 ELSE f[Pick(V)] + H(V \ {Pick(V)})
    <3> DEFINE g == CHOOSE g : IsSum(f, V, g)
               W == V \ {Pick(V)}
               h == CHOOSE h : IsSum(f, W, h)
    <3>1. IsSum(f, V, g) /\ H(V) = g[V]
      BY <2>1, <2>2
    <3>2. W \in SUBSET U /\ W # U
      BY <2>2
    <3>3. IsSum(f, W, h) /\ H(W) = h[W]
      BY <2>1, <3>2
    <3>4. IsFiniteSet(W)
      BY FS_Subset, <3>2
    <3>5. W \subseteq V
      OBVIOUS
    <3> HIDE DEF g, h, H, W
    <3>6. h[W] = g[W]
      BY <3>1, <3>3, <3>4, <3>5, SumUnique
    <3>7. g[V] = IF V = {} THEN 0 ELSE f[Pick(V)] + g[V \ {Pick(V)}]
      BY <3>1, V \in SUBSET V DEF IsSum
    <3> QED BY <3>1, <3>3, <3>6, <3>7 DEF W
  <2> DEFINE k == [s \in SUBSET U |->
                     IF s = {} THEN 0 ELSE f[Pick(s)] + H(s \ {Pick(s)})]
  <2>3. ASSUME NEW s \in SUBSET U, s # {}
        PROVE  k[s \ {Pick(s)}] = H(s \ {Pick(s)})
    <3> DEFINE V == s \ {Pick(s)}
    <3>1. V \in SUBSET U /\ V # U
      BY <2>3, PickIn
    <3>2. H(V) = IF V = {} THEN 0 ELSE f[Pick(V)] + H(V \ {Pick(V)})
      BY <2>2, <3>1
    <3>3. k[V] = IF V = {} THEN 0 ELSE f[Pick(V)] + H(V \ {Pick(V)})
      BY <3>1
    <3> HIDE DEF V, H, k
    <3>4. k[V] = H(V)
      BY <3>2, <3>3
    <3> QED BY <3>4 DEF V
  <2>4. k = [s \in SUBSET U |->
               IF s = {} THEN 0 ELSE f[Pick(s)] + k[s \ {Pick(s)}]]
    <3> HIDE DEF H
    <3>1. ASSUME NEW s \in SUBSET U
          PROVE  k[s] = IF s = {} THEN 0 ELSE f[Pick(s)] + k[s \ {Pick(s)}]
      BY <2>3
    <3>2. k = [s \in SUBSET U |-> k[s]]
      OBVIOUS
    <3> HIDE DEF k
    <3> QED BY <3>1, <3>2
  <2>5. IsSum(f, U, k)
    <3> HIDE DEF k
    <3> QED BY <2>4 DEF IsSum
  <2> QED BY <2>5
<1>2. S \in G
  <2>1. G \in SUBSET SUBSET S
    OBVIOUS
  <2> HIDE DEF G
  <2> QED BY <1>1, <2>1, SubsetInduction
<1> QED BY <1>2

\* The recursion, of the sums themselves.
LEMMA SumUnfold ==
    ASSUME NEW f, NEW S, IsFiniteSet(S)
    PROVE  SumFunctionOnSet(f, S) =
             IF S = {} THEN 0
             ELSE f[Pick(S)] + SumFunctionOnSet(f, S \ {Pick(S)})
<1> DEFINE g == CHOOSE g : IsSum(f, S, g)
           W == S \ {Pick(S)}
           h == CHOOSE h : IsSum(f, W, h)
<1>1. IsFiniteSet(W)
  BY FS_Subset
<1>2. IsSum(f, S, g) /\ IsSum(f, W, h)
  BY <1>1, SumExists
<1>3. W \subseteq S
  OBVIOUS
<1>4. SumFunctionOnSet(f, S) = g[S] /\ SumFunctionOnSet(f, W) = h[W]
  BY SumIs
<1> HIDE DEF g, h
<1>5. g[W] = h[W]
  <2> HIDE DEF W
  <2> QED BY <1>1, <1>2, <1>3, SumUnique
<1>6. g[S] = IF S = {} THEN 0 ELSE f[Pick(S)] + g[W]
  BY <1>2, S \in SUBSET S DEF IsSum
<1> QED BY <1>4, <1>5, <1>6

LEMMA SumEmpty == \A f : SumFunctionOnSet(f, {}) = 0
BY SumUnfold, FS_EmptySet

\* A sum of integers is an integer.
LEMMA SumInt ==
    ASSUME NEW f, NEW S, IsFiniteSet(S), \A x \in S : f[x] \in Int
    PROVE  SumFunctionOnSet(f, S) \in Int
<1> DEFINE Typed(U) == SumFunctionOnSet(f, U) \in Int
           G == {U \in SUBSET S : Typed(U)}
<1>1. ASSUME NEW U \in SUBSET S, \A V \in SUBSET U : V # U => V \in G
      PROVE  U \in G
  <2>1. IsFiniteSet(U)
    BY FS_Subset
  <2>2. CASE U = {}
    BY <2>2, SumEmpty
  <2>3. CASE U # {}
    <3>1. Pick(U) \in U
      BY <2>3, PickIn
    <3>2. SumFunctionOnSet(f, U \ {Pick(U)}) \in Int
      BY <1>1, <3>1
    <3>3. SumFunctionOnSet(f, U)
            = f[Pick(U)] + SumFunctionOnSet(f, U \ {Pick(U)})
      BY <2>1, <2>3, SumUnfold
    <3> QED BY <3>1, <3>2, <3>3
  <2> QED BY <2>2, <2>3
<1>2. S \in G
  <2>1. G \in SUBSET SUBSET S
    OBVIOUS
  <2> HIDE DEF G
  <2> QED BY <1>1, <2>1, SubsetInduction
<1> QED BY <1>2

\* Any element may be set apart, not only the one the recursion picks.
LEMMA SumRemove ==
    ASSUME NEW f, NEW S, IsFiniteSet(S), \A x \in S : f[x] \in Int,
           NEW x \in S
    PROVE  SumFunctionOnSet(f, S) = f[x] + SumFunctionOnSet(f, S \ {x})
<1> DEFINE Sum(U) == SumFunctionOnSet(f, U)
           G == {U \in SUBSET S : \A y \in U : Sum(U) = f[y] + Sum(U \ {y})}
<1>1. ASSUME NEW U \in SUBSET S, \A V \in SUBSET U : V # U => V \in G
      PROVE  U \in G
  <2>1. ASSUME NEW V \in SUBSET U
        PROVE  /\ IsFiniteSet(V)
               /\ Sum(V) \in Int
               /\ V # {} => Sum(V) = f[Pick(V)] + Sum(V \ {Pick(V)})
    <3>1. IsFiniteSet(V)
      BY FS_Subset
    <3> QED BY <3>1, SumInt, SumUnfold
  <2> HIDE DEF Sum
  <2>2. ASSUME NEW y \in U, y # Pick(U)
        PROVE  Sum(U) = f[y] + Sum(U \ {y})
    <3> DEFINE p == Pick(U)
    <3>1. p \in U
      BY PickIn
    <3>2. Sum(U) = f[p] + Sum(U \ {p})
      BY <2>1
    <3>3. Sum(U \ {p}) = f[y] + Sum((U \ {p}) \ {y})
      BY <1>1, <2>2, <3>1
    <3>4. Sum(U \ {y}) = f[p] + Sum((U \ {y}) \ {p})
      BY <1>1, <2>2, <3>1
    <3>5. (U \ {p}) \ {y} = (U \ {y}) \ {p}
      OBVIOUS
    <3>6. /\ f[p] \in Int /\ f[y] \in Int
          /\ Sum((U \ {y}) \ {p}) \in Int
      BY <2>1, <3>1
    <3> HIDE DEF p, G
    <3>7. Sum((U \ {p}) \ {y}) = Sum((U \ {y}) \ {p})
      BY <3>5
    <3> QED BY <3>2, <3>3, <3>4, <3>6, <3>7
  <2>3. \A y \in U : Sum(U) = f[y] + Sum(U \ {y})
    BY <2>1, <2>2
  <2> QED BY <2>3
<1>2. S \in G
  <2>1. G \in SUBSET SUBSET S
    OBVIOUS
  <2> HIDE DEF G
  <2> QED BY <1>1, <2>1, SubsetInduction
<1> QED BY <1>2

\* One element more.
LEMMA SumAdd ==
    ASSUME NEW f, NEW S, IsFiniteSet(S), NEW x, x \notin S,
           \A y \in S \cup {x} : f[y] \in Int
    PROVE  SumFunctionOnSet(f, S \cup {x}) = f[x] + SumFunctionOnSet(f, S)
<1>1. IsFiniteSet(S \cup {x})
  BY FS_AddElement
<1>2. (S \cup {x}) \ {x} = S
  OBVIOUS
<1> QED BY <1>1, <1>2, SumRemove

\* Functions that agree on the set have the same sum on it.
LEMMA SumCongruent ==
    ASSUME NEW f, NEW g, NEW S, IsFiniteSet(S), \A x \in S : f[x] = g[x]
    PROVE  SumFunctionOnSet(f, S) = SumFunctionOnSet(g, S)
<1> DEFINE Same(U) == SumFunctionOnSet(f, U) = SumFunctionOnSet(g, U)
           G == {U \in SUBSET S : Same(U)}
<1>1. ASSUME NEW U \in SUBSET S, \A V \in SUBSET U : V # U => V \in G
      PROVE  U \in G
  <2>1. IsFiniteSet(U)
    BY FS_Subset
  <2>2. U # {} => Same(U \ {Pick(U)}) /\ f[Pick(U)] = g[Pick(U)]
    BY <1>1, PickIn
  <2> QED BY <2>1, <2>2, SumUnfold
<1>2. S \in G
  <2>1. G \in SUBSET SUBSET S
    OBVIOUS
  <2> HIDE DEF G
  <2> QED BY <1>1, <2>1, SubsetInduction
<1> QED BY <1>2

\* The sum over two sets that are disjoint.
LEMMA SumUnion ==
    ASSUME NEW f, NEW S, NEW T, IsFiniteSet(S), IsFiniteSet(T), S \cap T = {},
           \A x \in S \cup T : f[x] \in Int
    PROVE  SumFunctionOnSet(f, S \cup T)
             = SumFunctionOnSet(f, S) + SumFunctionOnSet(f, T)
<1> DEFINE Sum(U) == SumFunctionOnSet(f, U)
           G == {U \in SUBSET T : Sum(S \cup U) = Sum(S) + Sum(U)}
<1>1. {} \in G
  <2>1. S \cup {} = S
    OBVIOUS
  <2> QED BY <2>1, SumEmpty, SumInt
<1>2. ASSUME NEW U \in G, NEW x \in T \ U
      PROVE  U \cup {x} \in G
  <2>1. IsFiniteSet(U) /\ IsFiniteSet(S \cup U)
    BY FS_Subset, FS_Union
  <2>2. Sum(U \cup {x}) = f[x] + Sum(U)
    BY <2>1, SumAdd
  <2>3. Sum((S \cup U) \cup {x}) = f[x] + Sum(S \cup U)
    <3>1. x \notin S \cup U /\ \A y \in (S \cup U) \cup {x} : f[y] \in Int
      OBVIOUS
    <3> QED BY <2>1, <3>1, SumAdd
  <2>4. Sum(S) \in Int /\ Sum(U) \in Int
    BY <2>1, SumInt
  <2>5. Sum(S \cup (U \cup {x})) = Sum((S \cup U) \cup {x})
    <3>1. S \cup (U \cup {x}) = (S \cup U) \cup {x}
      OBVIOUS
    <3> QED BY <3>1
  <2>6. f[x] \in Int /\ Sum(S \cup U) = Sum(S) + Sum(U)
    OBVIOUS
  <2> HIDE DEF Sum
  <2>7. Sum(S \cup (U \cup {x})) = Sum(S) + Sum(U \cup {x})
    BY <2>2, <2>3, <2>4, <2>5, <2>6
  <2> QED BY <2>7
<1>3. T \in G
  <2>1. G \in SUBSET SUBSET T
    OBVIOUS
  <2> HIDE DEF G
  <2> QED BY <1>1, <1>2, <2>1, AddInduction
<1> QED BY <1>3

\* A sum of amounts that are not negative is not.
LEMMA SumNat ==
    ASSUME NEW f, NEW S, IsFiniteSet(S), \A x \in S : f[x] \in Nat
    PROVE  SumFunctionOnSet(f, S) \in Nat
<1> DEFINE Typed(U) == SumFunctionOnSet(f, U) \in Nat
           G == {U \in SUBSET S : Typed(U)}
<1>1. ASSUME NEW U \in SUBSET S, \A V \in SUBSET U : V # U => V \in G
      PROVE  U \in G
  <2>1. IsFiniteSet(U)
    BY FS_Subset
  <2>2. CASE U = {}
    BY <2>2, SumEmpty
  <2>3. CASE U # {}
    <3>1. Pick(U) \in U
      BY <2>3, PickIn
    <3>2. SumFunctionOnSet(f, U \ {Pick(U)}) \in Nat
      BY <1>1, <3>1
    <3>3. SumFunctionOnSet(f, U)
            = f[Pick(U)] + SumFunctionOnSet(f, U \ {Pick(U)})
      BY <2>1, <2>3, SumUnfold
    <3> QED BY <3>1, <3>2, <3>3
  <2> QED BY <2>2, <2>3
<1>2. S \in G
  <2>1. G \in SUBSET SUBSET S
    OBVIOUS
  <2> HIDE DEF G
  <2> QED BY <1>1, <2>1, SubsetInduction
<1> QED BY <1>2

\* And it is no more over a subset.
LEMMA SumMonotonic ==
    ASSUME NEW f, NEW S, IsFiniteSet(S), \A x \in S : f[x] \in Nat,
           NEW T \in SUBSET S
    PROVE  SumFunctionOnSet(f, T) <= SumFunctionOnSet(f, S)
<1>1. IsFiniteSet(T) /\ IsFiniteSet(S \ T)
  BY FS_Subset
<1>2. T \cup (S \ T) = S /\ T \cap (S \ T) = {}
  OBVIOUS
<1>3. SumFunctionOnSet(f, T) \in Nat /\ SumFunctionOnSet(f, S \ T) \in Nat
  BY <1>1, SumNat
<1>4. SumFunctionOnSet(f, T \cup (S \ T))
        = SumFunctionOnSet(f, T) + SumFunctionOnSet(f, S \ T)
  BY <1>1, <1>2, SumUnion
<1>5. SumFunctionOnSet(f, S)
        = SumFunctionOnSet(f, T) + SumFunctionOnSet(f, S \ T)
  BY <1>2, <1>4
<1> QED BY <1>3, <1>5

\* A sum may be taken group by group: h has the sums of the groups of S by
\* their key.
LEMMA SumPartition ==
    ASSUME NEW f, NEW S, IsFiniteSet(S), \A x \in S : f[x] \in Int,
           NEW K, IsFiniteSet(K), NEW key \in [S -> K], NEW h,
           \A k \in K : h[k] = SumFunctionOnSet(f, {x \in S : key[x] = k})
    PROVE  SumFunctionOnSet(h, K) = SumFunctionOnSet(f, S)
<1> DEFINE Within(U) == {x \in S : key[x] \in U}
           G == {U \in SUBSET K :
                   SumFunctionOnSet(h, U) = SumFunctionOnSet(f, Within(U))}
<1>1. {} \in G
  <2>1. Within({}) = {}
    OBVIOUS
  <2> QED BY <2>1, SumEmpty
<1>2. ASSUME NEW U \in G, NEW k \in K \ U
      PROVE  U \cup {k} \in G
  <2> DEFINE C == {x \in S : key[x] = k}
  <2>1. IsFiniteSet(U) /\ IsFiniteSet(C) /\ IsFiniteSet(Within(U))
    BY FS_Subset
  <2>2. ASSUME NEW l \in K
        PROVE  h[l] \in Int
    <3> DEFINE D == {x \in S : key[x] = l}
    <3>1. IsFiniteSet(D)
      BY FS_Subset
    <3>2. SumFunctionOnSet(f, D) \in Int
      BY <3>1, SumInt
    <3> QED BY <3>2
  <2>3. SumFunctionOnSet(h, U \cup {k}) = h[k] + SumFunctionOnSet(h, U)
    BY <2>1, <2>2, SumAdd
  <2>4. Within(U \cup {k}) = Within(U) \cup C /\ Within(U) \cap C = {}
    OBVIOUS
  <2>5. SumFunctionOnSet(f, Within(U) \cup C)
          = SumFunctionOnSet(f, Within(U)) + SumFunctionOnSet(f, C)
    BY <2>1, <2>4, SumUnion
  <2>6. SumFunctionOnSet(f, Within(U)) \in Int /\ SumFunctionOnSet(f, C) \in Int
    BY <2>1, SumInt
  <2>7. h[k] = SumFunctionOnSet(f, C)
    OBVIOUS
  <2>8. SumFunctionOnSet(h, U) = SumFunctionOnSet(f, Within(U))
    OBVIOUS
  <2>9. SumFunctionOnSet(f, Within(U \cup {k}))
          = SumFunctionOnSet(f, Within(U) \cup C)
    BY <2>4
  <2>10. SumFunctionOnSet(h, U \cup {k})
           = SumFunctionOnSet(f, Within(U \cup {k}))
    <3> HIDE DEF Within, C
    <3> QED BY <2>3, <2>5, <2>6, <2>7, <2>8, <2>9
  <2> QED BY <2>10
<1>3. K \in G
  <2>1. G \in SUBSET SUBSET K
    OBVIOUS
  <2> HIDE DEF G
  <2> QED BY <1>1, <1>2, <2>1, AddInduction
<1>4. Within(K) = S
  OBVIOUS
<1> QED BY <1>3, <1>4

\* A sum over the places of a sequence, or of another function from 1..n, that
\* got one more place.
LEMMA SumAppend ==
    ASSUME NEW n \in Nat, NEW f, NEW g,
           \A i \in 1..n : f[i] \in Int /\ g[i] = f[i],
           g[n + 1] \in Int
    PROVE  SumFunctionOnSet(g, 1..n + 1)
             = SumFunctionOnSet(f, 1..n) + g[n + 1]
<1>1. IsFiniteSet(1..n) /\ n + 1 \notin 1..n
  BY FS_Interval
<1>2. 1..n + 1 = (1..n) \cup {n + 1}
  OBVIOUS
<1>3. \A i \in (1..n) \cup {n + 1} : g[i] \in Int
  OBVIOUS
<1>4. SumFunctionOnSet(g, (1..n) \cup {n + 1})
        = g[n + 1] + SumFunctionOnSet(g, 1..n)
  BY <1>1, <1>3, SumAdd
<1>5. SumFunctionOnSet(g, 1..n) = SumFunctionOnSet(f, 1..n)
  BY <1>1, SumCongruent
<1>6. SumFunctionOnSet(f, 1..n) \in Int
  BY <1>1, SumInt
<1> DEFINE total == SumFunctionOnSet(g, 1..n + 1)
           sum   == SumFunctionOnSet(f, 1..n)
           last  == g[n + 1]
<1>7. total = last + sum
  BY <1>2, <1>4, <1>5
<1> HIDE DEF total, sum
<1> QED BY <1>6, <1>7 DEF total, sum

\* A sum of nothing but zeros.
LEMMA SumZero ==
    ASSUME NEW f, NEW S, IsFiniteSet(S), \A x \in S : f[x] = 0
    PROVE  SumFunctionOnSet(f, S) = 0
<1> DEFINE G == {U \in SUBSET S : SumFunctionOnSet(f, U) = 0}
<1>1. {} \in G
  BY SumEmpty
<1>2. ASSUME NEW U \in G, NEW x \in S \ U
      PROVE  U \cup {x} \in G
  <2>1. IsFiniteSet(U)
    BY FS_Subset
  <2>2. \A y \in U \cup {x} : f[y] \in Int
    OBVIOUS
  <2>3. SumFunctionOnSet(f, U \cup {x}) = f[x] + SumFunctionOnSet(f, U)
    BY <2>1, <2>2, SumAdd
  <2> QED BY <2>3
<1>3. S \in G
  <2>1. G \in SUBSET SUBSET S
    OBVIOUS
  <2> HIDE DEF G
  <2> QED BY <1>1, <1>2, <2>1, AddInduction
<1> QED BY <1>3

\* What is passed over can be left out of the set, or count as zero.
LEMMA SumFilter ==
    ASSUME NEW f, NEW S, IsFiniteSet(S), NEW T \in SUBSET S,
           \A x \in T : f[x] \in Int,
           NEW g, \A x \in S : g[x] = IF x \in T THEN f[x] ELSE 0
    PROVE  SumFunctionOnSet(g, S) = SumFunctionOnSet(f, T)
<1> DEFINE rest == S \ T
<1>1. IsFiniteSet(T) /\ IsFiniteSet(rest)
  BY FS_Subset
<1>2. T \cup rest = S /\ T \cap rest = {} /\ \A x \in S : g[x] \in Int
  OBVIOUS
<1>3. \A x \in T : g[x] = f[x]
  OBVIOUS
<1>4. \A x \in rest : g[x] = 0
  OBVIOUS
<1> HIDE DEF rest
<1>5. SumFunctionOnSet(g, T \cup rest)
        = SumFunctionOnSet(g, T) + SumFunctionOnSet(g, rest)
  BY <1>1, <1>2, SumUnion
<1>6. SumFunctionOnSet(g, T) = SumFunctionOnSet(f, T)
  BY <1>1, <1>3, SumCongruent
<1>7. SumFunctionOnSet(g, rest) = 0
  BY <1>1, <1>4, SumZero
<1>8. SumFunctionOnSet(f, T) \in Int
  BY <1>1, SumInt
<1> DEFINE total == SumFunctionOnSet(g, S)
           sum   == SumFunctionOnSet(f, T)
<1>9. total = sum + 0
  BY <1>2, <1>5, <1>6, <1>7
<1> HIDE DEF total, sum
<1> QED BY <1>8, <1>9 DEF total, sum

\* A sum over other names for the same things.
LEMMA SumReindex ==
    ASSUME NEW f, NEW S, IsFiniteSet(S), \A x \in S : f[x] \in Int,
           NEW K, NEW place \in Bijection(S, K),
           NEW h, \A x \in S : h[place[x]] = f[x]
    PROVE  IsFiniteSet(K) /\ SumFunctionOnSet(h, K) = SumFunctionOnSet(f, S)
<1>1. /\ place \in [S -> K] /\ place \in Surjection(S, K)
      /\ \A k \in K : \E x \in S : place[x] = k
      /\ \A x, y \in S : place[x] = place[y] => x = y
  BY DEF Bijection, Injection, Surjection, IsInjective
<1>2. IsFiniteSet(K)
  BY <1>1, FS_Surjection
<1>3. ASSUME NEW k \in K
      PROVE  h[k] = SumFunctionOnSet(f, {x \in S : place[x] = k})
  <2>1. PICK x \in S : place[x] = k
    BY <1>1
  <2>2. {y \in S : place[y] = k} = {} \cup {x}
    BY <1>1, <2>1
  <2>3. SumFunctionOnSet(f, {} \cup {x}) = f[x] + SumFunctionOnSet(f, {})
    <3>1. IsFiniteSet({}) /\ x \notin {} /\ \A y \in {} \cup {x} : f[y] \in Int
      BY FS_EmptySet
    <3> HIDE DEF SumFunctionOnSet
    <3> QED BY <3>1, SumAdd
  <2>4. SumFunctionOnSet(f, {}) = 0
    BY SumEmpty
  <2>5. h[k] = f[x] + 0
    BY <2>1
  <2> QED BY <2>2, <2>3, <2>4, <2>5
<1> QED BY <1>1, <1>2, <1>3, SumPartition
==============================================================================
