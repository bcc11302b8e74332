--------------------------- MODULE FiniteSetFacts ---------------------------
(***************************************************************************)
(* Facts about finite sets and about sums over them, for the modules that  *)
(* count money or order locks.  Induction is stated with sets instead of   *)
(* predicates: the set of the good subsets contains every subset.          *)
(***************************************************************************)
EXTENDS FiniteSums, FiniteSetTheorems, TLAPS

(* If a subset is good whenever all its proper subsets are, all subsets of  *)
(* a finite set are good: a smallest subset that is not would have only     *)
(* good proper subsets.                                                     *)
LEMMA SubsetInduction ==
  ASSUME NEW S, IsFiniteSet(S), NEW Good,
         \A T \in SUBSET S : (\A U \in SUBSET T : U # T => U \in Good) => T \in Good
  PROVE  \A T \in SUBSET S : T \in Good
<1> DEFINE Bad == {T \in SUBSET S : T \notin Good}
           R == StrictSubsetOrdering(S)
<1>1. IsWellFoundedOn(R, SUBSET S)
  BY FS_StrictSubsetOrderingWellFounded, FS_FiniteSubsetsOfFinite
<1>2. ASSUME Bad # {}
      PROVE  FALSE
  <2>1. \E T \in Bad : \A U \in Bad : <<U, T>> \notin R
    <3> HIDE DEF R
    <3>1. Bad \subseteq SUBSET S
      OBVIOUS
    <3> HIDE DEF Bad
    <3> QED
      BY <1>1, <1>2, <3>1, WFMin
  <2>2. PICK T \in Bad : \A U \in Bad : <<U, T>> \notin R
    BY <2>1
  <2>3. \A U \in SUBSET T : U # T => U \in Good
    BY <2>2 DEF StrictSubsetOrdering
  <2> QED
    BY <2>2, <2>3
<1> QED
  BY <1>2

(* A relation that is transitive and irreflexive has a maximal element on a *)
(* finite set.                                                              *)
LEMMA MaximalElement ==
  ASSUME NEW S, IsFiniteSet(S), S # {}, NEW R,
         \A x \in S : <<x, x>> \notin R,
         \A x, y, z \in S : <<x, y>> \in R /\ <<y, z>> \in R => <<x, z>> \in R
  PROVE  \E x \in S : \A y \in S : <<x, y>> \notin R
<1> DEFINE Good == {T \in SUBSET S : T # {} => \E x \in T : \A y \in T : <<x, y>> \notin R}
<1>1. ASSUME NEW T \in SUBSET S, \A U \in SUBSET T : U # T => U \in Good
      PROVE  T \in Good
  <2> SUFFICES ASSUME NEW p \in T
               PROVE  \E x \in T : \A y \in T : <<x, y>> \notin R
    OBVIOUS
  <2>1. CASE T = {p}
    BY <2>1
  <2>2. CASE T # {p}
    <3> DEFINE W == T \ {p}
    <3>1. W # {} /\ W \in SUBSET T /\ W # T
      BY <2>2
    <3>2. PICK m \in W : \A y \in W : <<m, y>> \notin R
      <4>1. W \in Good
        <5> HIDE DEF Good, W
        <5> QED
          BY <1>1, <3>1
      <4> QED
        BY <3>1, <4>1
    <3>3. CASE <<m, p>> \notin R
      BY <3>2, <3>3
    <3>4. CASE <<m, p>> \in R
      <4>1. \A y \in T : <<p, y>> \notin R
        BY <3>2, <3>4
      <4> QED
        BY <4>1
    <3> QED
      BY <3>3, <3>4
  <2> QED
    BY <2>1, <2>2
<1> HIDE DEF Good
<1>2. \A T \in SUBSET S : T \in Good
  BY <1>1, SubsetInduction
<1> QED
  BY <1>2 DEF Good

-----------------------------------------------------------------------------
(* The sum is well defined: its recursion has exactly one solution.         *)

Pick(T) == CHOOSE x \in T : TRUE

IsPartialSum(g, f, S) ==
  g = [T \in SUBSET S |-> IF T = {} THEN 0 ELSE f[Pick(T)] + g[T \ {Pick(T)}]]

(* A sum is the value of the function that adds up every subset of S.       *)
LEMMA SumIsFold ==
  ASSUME NEW f, NEW S
  PROVE  SumOver(f, S) = (CHOOSE g : IsPartialSum(g, f, S))[S]
  BY DEF SumOver, FoldFunctionOnSet, MapThenFoldSet, IsPartialSum, Pick

(* What is chosen from a set with elements is one of them.                  *)
LEMMA PickIn == \A T : T # {} => Pick(T) \in T
  BY DEF Pick

(* Two functions that add up subsets agree on the subsets both are defined  *)
(* for.                                                                     *)
LEMMA PartialSumsAgree ==
  ASSUME NEW f, NEW S, IsFiniteSet(S), NEW g, IsPartialSum(g, f, S),
         NEW V, NEW h, IsPartialSum(h, f, V), S \subseteq V
  PROVE  \A T \in SUBSET S : g[T] = h[T]
<1> DEFINE Good == {T \in SUBSET S : g[T] = h[T]}
<1>1. ASSUME NEW T \in SUBSET S, \A U \in SUBSET T : U # T => U \in Good
      PROVE  T \in Good
  <2>1. /\ g[T] = IF T = {} THEN 0 ELSE f[Pick(T)] + g[T \ {Pick(T)}]
        /\ h[T] = IF T = {} THEN 0 ELSE f[Pick(T)] + h[T \ {Pick(T)}]
    BY DEF IsPartialSum
  <2>2. CASE T = {}
    BY <2>1, <2>2
  <2>3. CASE T # {}
    <3>1. T \ {Pick(T)} \in SUBSET T /\ T \ {Pick(T)} # T
      BY <2>3, PickIn
    <3>2. g[T \ {Pick(T)}] = h[T \ {Pick(T)}]
      BY <1>1, <3>1
    <3> QED
      BY <2>1, <2>3, <3>2
  <2> QED
    BY <2>2, <2>3
<1> HIDE DEF Good
<1>2. \A T \in SUBSET S : T \in Good
  BY <1>1, SubsetInduction
<1> QED
  BY <1>2 DEF Good

(* The recursion of the sum has a solution: each subset takes the sum of    *)
(* its rest from the solution for that rest.                                *)
LEMMA PartialSumExists ==
  ASSUME NEW f, NEW S, IsFiniteSet(S)
  PROVE  \E g : IsPartialSum(g, f, S)
<1> DEFINE Good == {T \in SUBSET S : \E g : IsPartialSum(g, f, T)}
           SumOf(T) == CHOOSE g : IsPartialSum(g, f, T)
           Rest(T) == T \ {Pick(T)}
<1>1. ASSUME NEW T \in SUBSET S, \A U \in SUBSET T : U # T => U \in Good
      PROVE  T \in Good
  <2> DEFINE h == [U \in SUBSET T |-> IF U = {} THEN 0 ELSE f[Pick(U)] + SumOf(Rest(U))[Rest(U)]]
  <2>1. \A U \in SUBSET T : U # T => IsPartialSum(SumOf(U), f, U)
    BY <1>1
  <2>2. ASSUME NEW U \in SUBSET T, U # {}
        PROVE  /\ Rest(U) \in SUBSET T /\ Rest(U) # T /\ Rest(U) \subseteq U
               /\ IsPartialSum(SumOf(Rest(U)), f, Rest(U)) /\ IsFiniteSet(Rest(U))
    <3>1. Rest(U) \in SUBSET T /\ Rest(U) # T /\ Rest(U) \in SUBSET S
      BY <2>2, PickIn
    <3>2. IsFiniteSet(Rest(U))
      BY <3>1, FS_Subset
    <3> QED
      BY <2>1, <3>1, <3>2
  <2>3. ASSUME NEW U \in SUBSET T, U # {}
        PROVE  h[Rest(U)] = SumOf(Rest(U))[Rest(U)]
    <3> DEFINE W == Rest(U)
    <3>1. /\ W \in SUBSET T /\ W # T /\ IsPartialSum(SumOf(W), f, W)
      BY <2>2, <2>3
    <3>2. SumOf(W)[W] = IF W = {} THEN 0 ELSE f[Pick(W)] + SumOf(W)[Rest(W)]
      <4> HIDE DEF SumOf, W
      <4> QED
        BY <3>1 DEF IsPartialSum
    <3>3. h[W] = IF W = {} THEN 0 ELSE f[Pick(W)] + SumOf(Rest(W))[Rest(W)]
      <4> HIDE DEF W
      <4> QED
        BY <3>1
    <3>4. W # {} => SumOf(Rest(W))[Rest(W)] = SumOf(W)[Rest(W)]
      <4> HIDE DEF W
      <4>1. SUFFICES ASSUME W # {} PROVE SumOf(Rest(W))[Rest(W)] = SumOf(W)[Rest(W)]
        OBVIOUS
      <4>2. /\ IsPartialSum(SumOf(Rest(W)), f, Rest(W)) /\ IsFiniteSet(Rest(W))
            /\ Rest(W) \subseteq W
        BY <2>2, <3>1, <4>1
      <4> HIDE DEF SumOf, Rest
      <4> QED
        BY <3>1, <4>2, PartialSumsAgree
    <3> QED
      BY <3>2, <3>3, <3>4
  <2>4. IsPartialSum(h, f, T)
    <3>1. \A U \in SUBSET T : U # {} => h[Rest(U)] = SumOf(Rest(U))[Rest(U)]
      BY <2>3
    <3> DEFINE k == [U \in SUBSET T |-> IF U = {} THEN 0 ELSE f[Pick(U)] + h[Rest(U)]]
    <3>2. \A U \in SUBSET T : h[U] = k[U]
      <4> SUFFICES ASSUME NEW U \in SUBSET T PROVE h[U] = k[U]
        OBVIOUS
      <4>1. h[U] = IF U = {} THEN 0 ELSE f[Pick(U)] + SumOf(Rest(U))[Rest(U)]
        BY Zenon
      <4>2. k[U] = IF U = {} THEN 0 ELSE f[Pick(U)] + h[Rest(U)]
        <5> HIDE DEF h
        <5> QED BY Zenon
      <4> HIDE DEF h, k, Rest, SumOf
      <4> QED
        BY <3>1, <4>1, <4>2
    <3>3. h = k
      <4>1. h = [U \in SUBSET T |-> h[U]] /\ k = [U \in SUBSET T |-> k[U]]
        OBVIOUS
      <4> HIDE DEF h, k
      <4> QED
        BY <3>2, <4>1
    <3> HIDE DEF h
    <3> QED
      BY <3>3 DEF IsPartialSum
  <2> QED
    BY <2>4
<1> HIDE DEF Good
<1>2. S \in Good
  BY <1>1, SubsetInduction
<1> QED
  BY <1>2 DEF Good

(* The equation the sum is defined by.                                      *)
LEMMA SumRecursion ==
  ASSUME NEW f, NEW S, IsFiniteSet(S)
  PROVE  SumOver(f, S) = IF S = {} THEN 0 ELSE f[Pick(S)] + SumOver(f, S \ {Pick(S)})
<1> DEFINE g == CHOOSE g : IsPartialSum(g, f, S)
           W == S \ {Pick(S)}
           h == CHOOSE h : IsPartialSum(h, f, W)
<1>1. IsPartialSum(g, f, S)
  BY PartialSumExists
<1>2. IsFiniteSet(W) /\ W \in SUBSET S
  BY FS_Subset
<1>3. IsPartialSum(h, f, W)
  <2> HIDE DEF W
  <2> QED
    BY <1>2, PartialSumExists
<1>4. SumOver(f, S) = g[S] /\ SumOver(f, W) = h[W]
  BY SumIsFold
<1> HIDE DEF g, h
<1>5. h[W] = g[W]
  BY <1>1, <1>2, <1>3, PartialSumsAgree
<1>6. g[S] = IF S = {} THEN 0 ELSE f[Pick(S)] + g[W]
  BY <1>1 DEF IsPartialSum
<1> QED
  BY <1>4, <1>5, <1>6

-----------------------------------------------------------------------------
(* What sums do.                                                            *)

(* Nothing adds up to zero.                                                 *)
LEMMA SumEmpty == ASSUME NEW f PROVE SumOver(f, {}) = 0
  BY SumRecursion, FS_EmptySet

(* A sum depends only on the values it adds.                                *)
LEMMA SumAgree ==
  ASSUME NEW S, IsFiniteSet(S), NEW f, NEW g, \A x \in S : f[x] = g[x]
  PROVE  SumOver(f, S) = SumOver(g, S)
<1> DEFINE Good == {T \in SUBSET S : SumOver(f, T) = SumOver(g, T)}
<1>1. ASSUME NEW T \in SUBSET S, \A U \in SUBSET T : U # T => U \in Good
      PROVE  T \in Good
  <2>1. IsFiniteSet(T)
    BY FS_Subset
  <2>2. /\ SumOver(f, T) = IF T = {} THEN 0 ELSE f[Pick(T)] + SumOver(f, T \ {Pick(T)})
        /\ SumOver(g, T) = IF T = {} THEN 0 ELSE g[Pick(T)] + SumOver(g, T \ {Pick(T)})
    BY <2>1, SumRecursion
  <2>3. T # {} => Pick(T) \in S /\ T \ {Pick(T)} \in Good
    BY <1>1, PickIn
  <2> QED
    BY <2>2, <2>3
<1> HIDE DEF Good
<1>2. \A T \in SUBSET S : T \in Good
  BY <1>1, SubsetInduction
<1> QED
  BY <1>2 DEF Good

(* Integers add up to an integer.                                           *)
LEMMA SumType ==
  ASSUME NEW S, IsFiniteSet(S), NEW f, \A x \in S : f[x] \in Int
  PROVE  SumOver(f, S) \in Int
<1> DEFINE Good == {T \in SUBSET S : SumOver(f, T) \in Int}
<1>1. ASSUME NEW T \in SUBSET S, \A U \in SUBSET T : U # T => U \in Good
      PROVE  T \in Good
  <2>1. IsFiniteSet(T)
    BY FS_Subset
  <2>2. SumOver(f, T) = IF T = {} THEN 0 ELSE f[Pick(T)] + SumOver(f, T \ {Pick(T)})
    BY <2>1, SumRecursion
  <2>3. T # {} => Pick(T) \in S /\ T \ {Pick(T)} \in Good
    BY <1>1, PickIn
  <2> QED
    BY <2>2, <2>3
<1> HIDE DEF Good
<1>2. \A T \in SUBSET S : T \in Good
  BY <1>1, SubsetInduction
<1> QED
  BY <1>2 DEF Good

(* Any one value may be taken out of a sum: the order of adding does not    *)
(* matter.                                                                  *)
LEMMA SumSplit ==
  ASSUME NEW S, IsFiniteSet(S), NEW f, \A x \in S : f[x] \in Int, NEW a \in S
  PROVE  SumOver(f, S) = f[a] + SumOver(f, S \ {a})
<1> DEFINE Good == {T \in SUBSET S : \A x \in T : SumOver(f, T) = f[x] + SumOver(f, T \ {x})}
<1>1. ASSUME NEW T \in SUBSET S, \A U \in SUBSET T : U # T => U \in Good
      PROVE  T \in Good
  <2> SUFFICES ASSUME NEW x \in T PROVE SumOver(f, T) = f[x] + SumOver(f, T \ {x})
    OBVIOUS
  <2> DEFINE p == Pick(T)
             W == (T \ {p}) \ {x}
  <2>1. IsFiniteSet(T) /\ IsFiniteSet(T \ {p}) /\ IsFiniteSet(T \ {x}) /\ IsFiniteSet(W)
    BY FS_Subset
  <2>2. p \in T
    BY PickIn
  <2>3. SumOver(f, T) = f[p] + SumOver(f, T \ {p})
    BY <2>1, SumRecursion
  <2> HIDE DEF p
  <2>4. CASE p = x
    BY <2>3, <2>4
  <2>5. CASE p # x
    <3>1. SumOver(f, T \ {p}) = f[x] + SumOver(f, W)
      BY <1>1, <2>2, <2>5
    <3>2. (T \ {x}) \ {p} = W
      OBVIOUS
    <3>3. SumOver(f, T \ {x}) = f[p] + SumOver(f, W)
      <4>1. T \ {x} \in Good /\ p \in T \ {x}
        BY <1>1, <2>2, <2>5
      <4> HIDE DEF W
      <4> QED
        BY <3>2, <4>1
    <3>4. f[x] \in Int /\ f[p] \in Int /\ SumOver(f, W) \in Int
      BY <2>1, <2>2, SumType
    <3> HIDE DEF W
    <3> QED
      BY <2>3, <3>1, <3>2, <3>3, <3>4
  <2> QED
    BY <2>4, <2>5
<1> HIDE DEF Good
<1>2. \A T \in SUBSET S : T \in Good
  BY <1>1, SubsetInduction
<1> QED
  BY <1>2 DEF Good

(* Changing one value changes the sum by the difference.                    *)
LEMMA SumChange ==
  ASSUME NEW S, IsFiniteSet(S), NEW f, NEW g, NEW a \in S,
         \A x \in S : f[x] \in Int /\ g[x] \in Int,
         \A x \in S \ {a} : g[x] = f[x]
  PROVE  SumOver(g, S) = SumOver(f, S) - f[a] + g[a]
<1>1. IsFiniteSet(S \ {a})
  BY FS_Subset
<1>2. SumOver(g, S \ {a}) = SumOver(f, S \ {a}) /\ SumOver(f, S \ {a}) \in Int
  BY <1>1, SumAgree, SumType
<1>3. SumOver(f, S) = f[a] + SumOver(f, S \ {a}) /\ SumOver(g, S) = g[a] + SumOver(g, S \ {a})
  BY SumSplit
<1> QED
  BY <1>2, <1>3

(* The same, as one condition on two functions.                             *)
DifferAt(a, f, g, S) ==
  /\ IsFiniteSet(S) /\ a \in S
  /\ \A x \in S : f[x] \in Int /\ g[x] \in Int
  /\ \A x \in S \ {a} : g[x] = f[x]

LEMMA SumDiffers ==
  \A a, f, g, S : DifferAt(a, f, g, S) => SumOver(g, S) = SumOver(f, S) - f[a] + g[a]
<1> SUFFICES ASSUME NEW a, NEW f, NEW g, NEW S, DifferAt(a, f, g, S)
             PROVE  SumOver(g, S) = SumOver(f, S) - f[a] + g[a]
  OBVIOUS
<1>1. IsFiniteSet(S) /\ a \in S
  BY DEF DifferAt
<1>2. \A x \in S : f[x] \in Int /\ g[x] \in Int
  BY DEF DifferAt
<1>3. \A x \in S \ {a} : g[x] = f[x]
  BY DEF DifferAt
<1> QED
  BY <1>1, <1>2, <1>3, SumChange

(* Smaller values have a smaller sum.                                       *)
LEMMA SumMonotone ==
  ASSUME NEW S, IsFiniteSet(S), NEW f, NEW g,
         \A x \in S : f[x] \in Int /\ g[x] \in Int /\ f[x] <= g[x]
  PROVE  SumOver(f, S) <= SumOver(g, S)
<1> DEFINE Good == {T \in SUBSET S : SumOver(f, T) <= SumOver(g, T)}
<1>1. ASSUME NEW T \in SUBSET S, \A U \in SUBSET T : U # T => U \in Good
      PROVE  T \in Good
  <2>1. IsFiniteSet(T) /\ IsFiniteSet(T \ {Pick(T)})
    BY FS_Subset
  <2>2. /\ SumOver(f, T) = IF T = {} THEN 0 ELSE f[Pick(T)] + SumOver(f, T \ {Pick(T)})
        /\ SumOver(g, T) = IF T = {} THEN 0 ELSE g[Pick(T)] + SumOver(g, T \ {Pick(T)})
    BY <2>1, SumRecursion
  <2>3. T # {} => Pick(T) \in S /\ T \ {Pick(T)} \in Good
    BY <1>1, PickIn
  <2>4. SumOver(f, T \ {Pick(T)}) \in Int /\ SumOver(g, T \ {Pick(T)}) \in Int
    BY <2>1, SumType
  <2> QED
    BY <2>2, <2>3, <2>4
<1> HIDE DEF Good
<1>2. \A T \in SUBSET S : T \in Good
  BY <1>1, SubsetInduction
<1> QED
  BY <1>2 DEF Good

(* Zeros add up to zero.                                                    *)
LEMMA SumZero ==
  ASSUME NEW S, IsFiniteSet(S), NEW f, \A x \in S : f[x] = 0
  PROVE  SumOver(f, S) = 0
<1> DEFINE Good == {T \in SUBSET S : SumOver(f, T) = 0}
<1>1. ASSUME NEW T \in SUBSET S, \A U \in SUBSET T : U # T => U \in Good
      PROVE  T \in Good
  <2>1. IsFiniteSet(T)
    BY FS_Subset
  <2>2. SumOver(f, T) = IF T = {} THEN 0 ELSE f[Pick(T)] + SumOver(f, T \ {Pick(T)})
    BY <2>1, SumRecursion
  <2>3. T # {} => Pick(T) \in S /\ T \ {Pick(T)} \in Good
    BY <1>1, PickIn
  <2> QED
    BY <2>2, <2>3
<1> HIDE DEF Good
<1>2. \A T \in SUBSET S : T \in Good
  BY <1>1, SubsetInduction
<1> QED
  BY <1>2 DEF Good

(* Natural numbers add up to one.                                           *)
LEMMA SumNatural ==
  ASSUME NEW S, IsFiniteSet(S), NEW f, \A x \in S : f[x] \in Nat
  PROVE  SumOver(f, S) \in Nat
<1> DEFINE z == [x \in S |-> 0]
<1>1. \A x \in S : z[x] = 0
  OBVIOUS
<1>2. \A x \in S : z[x] \in Int /\ f[x] \in Int /\ z[x] <= f[x]
  OBVIOUS
<1> HIDE DEF z
<1>3. SumOver(z, S) = 0
  BY <1>1, SumZero
<1>4. SumOver(z, S) <= SumOver(f, S)
  BY <1>2, SumMonotone
<1>5. SumOver(f, S) \in Int
  BY SumType
<1> QED
  BY <1>3, <1>4, <1>5

(* A new argument adds its value to the sum.                                *)
LEMMA SumAdd ==
  ASSUME NEW S, IsFiniteSet(S), NEW f, NEW g, NEW a, a \notin S, g[a] \in Int,
         \A x \in S : f[x] \in Int /\ g[x] = f[x]
  PROVE  SumOver(g, S \cup {a}) = SumOver(f, S) + g[a]
<1> DEFINE T == S \cup {a}
<1>1. IsFiniteSet(T) /\ a \in T
  BY FS_AddElement
<1>2. \A x \in T : g[x] \in Int
  OBVIOUS
<1>3. T \ {a} = S
  OBVIOUS
<1>4. SumOver(g, S) = SumOver(f, S) /\ SumOver(f, S) \in Int
  BY SumAgree, SumType
<1> HIDE DEF T
<1>5. SumOver(g, T) = g[a] + SumOver(g, T \ {a})
  BY <1>1, <1>2, SumSplit
<1>6. SumOver(g, T) = g[a] + SumOver(f, S)
  BY <1>3, <1>4, <1>5
<1> QED
  BY <1>4, <1>6 DEF T

(* Equal values add up to their number times the value.                     *)
LEMMA SumConstant ==
  ASSUME NEW S, IsFiniteSet(S), NEW c \in Nat, NEW f, \A x \in S : f[x] = c
  PROVE  SumOver(f, S) = Cardinality(S) * c
<1> DEFINE Good == {T \in SUBSET S : SumOver(f, T) = Cardinality(T) * c}
<1>1. ASSUME NEW T \in SUBSET S, \A U \in SUBSET T : U # T => U \in Good
      PROVE  T \in Good
  <2>1. IsFiniteSet(T) /\ IsFiniteSet(T \ {Pick(T)})
    BY FS_Subset
  <2>2. SumOver(f, T) = IF T = {} THEN 0 ELSE f[Pick(T)] + SumOver(f, T \ {Pick(T)})
    BY <2>1, SumRecursion
  <2>3. CASE T = {}
    <3>1. Cardinality(T) = 0
      BY <2>3, FS_EmptySet
    <3> QED
      BY <2>2, <2>3, <3>1
  <2>4. CASE T # {}
    <3>1. Pick(T) \in T /\ T \ {Pick(T)} \in Good
      BY <1>1, <2>4, PickIn
    <3>2. Cardinality(T \ {Pick(T)}) = Cardinality(T) - 1 /\ Cardinality(T) \in Nat
      BY <2>1, <3>1, FS_RemoveElement, FS_CardinalityType
    <3>3. SumOver(f, T) = c + (Cardinality(T) - 1) * c
      BY <2>2, <2>4, <3>1, <3>2
    <3>4. c + (Cardinality(T) - 1) * c = Cardinality(T) * c
      BY <3>2
    <3> QED
      BY <3>3, <3>4
  <2> QED
    BY <2>3, <2>4
<1> HIDE DEF Good
<1>2. \A T \in SUBSET S : T \in Good
  BY <1>1, SubsetInduction
<1> QED
  BY <1>2 DEF Good

=============================================================================
