----------------------------- MODULE SumLemmas -----------------------------
(***************************************************************************)
(* What SumFunction computes, for every finite set of indices: a sum of    *)
(* zeroes is zero, and a sum grows by what one of its summands grows.      *)
(*                                                                         *)
(* SumFunction is a recursion over the subsets of the indices, so this is  *)
(* induction over data.  The induction theorems of the library take a      *)
(* predicate as a parameter; here induction speaks of a set of good        *)
(* elements instead, and follows from a well-founded order having minima.  *)
(***************************************************************************)
EXTENDS Functions, FiniteSetTheorems, TLAPS

-----------------------------------------------------------------------------
(* Induction.                                                              *)

\* A set with zero, and with each number's successor, has every number.
LEMMA NatInduct ==
    ASSUME NEW Good, 0 \in Good, \A n \in Nat : n \in Good => n + 1 \in Good
    PROVE  Nat \subseteq Good
<1> DEFINE Bad == Nat \ Good
<1> SUFFICES ASSUME Bad # {} PROVE FALSE
  OBVIOUS
<1>1. PICK n \in Bad : \A m \in Bad : <<m, n>> \notin OpToRel(<, Nat)
  <2>1. Bad \subseteq Nat
    OBVIOUS
  <2> HIDE DEF Bad
  <2> QED BY <2>1, NatLessThanWellFounded, WFMin
<1>2. n \in Nat /\ n # 0 /\ n - 1 \in Nat /\ (n - 1) + 1 = n /\ n - 1 < n
  <2>1. n \in Nat /\ n # 0
    BY <1>1
  <2> QED BY <2>1
<1>3. <<n - 1, n>> \in OpToRel(<, Nat)
  BY <1>2 DEF OpToRel
<1>4. n - 1 \in Good
  BY <1>1, <1>2, <1>3
<1> QED BY <1>1, <1>2, <1>4

\* A set with {}, and with each subset of S that has all its one-smaller subsets in
\* it, has every subset of S.
LEMMA SubsetInduct ==
    ASSUME NEW S, IsFiniteSet(S), NEW Good, {} \in Good,
           \A s \in SUBSET S : s # {} /\ (\A x \in s : s \ {x} \in Good) => s \in Good
    PROVE  SUBSET S \subseteq Good
<1> DEFINE Bad == (SUBSET S) \ Good
<1> SUFFICES ASSUME Bad # {} PROVE FALSE
  OBVIOUS
<1>1. IsWellFoundedOn(StrictSubsetOrdering(S), SUBSET S)
  BY FS_StrictSubsetOrderingWellFounded, FS_FiniteSubsetsOfFinite
<1>2. PICK s \in Bad : \A t \in Bad : <<t, s>> \notin StrictSubsetOrdering(S)
  <2>1. Bad \subseteq SUBSET S
    OBVIOUS
  <2> HIDE DEF Bad
  <2> QED BY <1>1, <2>1, WFMin
<1>3. s \in SUBSET S /\ s \notin Good /\ s # {}
  BY <1>2
<1>4. ASSUME NEW x \in s PROVE s \ {x} \in Good
  <2>1. s \ {x} \in SUBSET S /\ s \ {x} # s /\ s \ {x} \subseteq s
    BY <1>3
  <2>2. <<s \ {x}, s>> \in StrictSubsetOrdering(S)
    BY <1>3, <2>1 DEF StrictSubsetOrdering
  <2> QED BY <1>2, <2>1, <2>2
<1> QED BY <1>3, <1>4

-----------------------------------------------------------------------------
(* The recursion behind SumFunction.                                       *)

\* The element that is added to the sum of the others.
Pick(s) == CHOOSE x \in s : TRUE

\* g[s] is the sum of f over s, for each s of `sets`.
IsSumOn(g, f, sets) ==
    g = [s \in sets |-> IF s = {} THEN 0 ELSE f[Pick(s)] + g[s \ {Pick(s)}]]

LEMMA PickFromSet == ASSUME NEW s, s # {} PROVE Pick(s) \in s
BY DEF Pick

LEMMA SumUnfolds ==
    ASSUME NEW f
    PROVE  SumFunction(f) = (CHOOSE g : IsSumOn(g, f, SUBSET DOMAIN f))[DOMAIN f]
BY DEF SumFunction, SumFunctionOnSet, FoldFunctionOnSet, MapThenFoldSet, Pick, IsSumOn

\* The recursion is well-founded: some function satisfies it, which is built up by
\* the size of the sets.
UpTo(S, n) == {s \in SUBSET S : Cardinality(s) <= n}

LEMMA SumExists ==
    ASSUME NEW f, IsFiniteSet(DOMAIN f)
    PROVE  \E g : IsSumOn(g, f, SUBSET DOMAIN f)
<1> DEFINE S == DOMAIN f
           Good == {n \in Nat : \E g : IsSumOn(g, f, UpTo(S, n))}
<1>1. \A s \in SUBSET S : IsFiniteSet(s) /\ Cardinality(s) \in Nat /\ Cardinality(s) <= Cardinality(S)
  BY FS_Subset, FS_CardinalityType
<1>2. 0 \in Good
  <2>1. \A s \in UpTo(S, 0) : s = {}
    BY <1>1, FS_EmptySet DEF UpTo
  <2>2. PICK g : g = [s \in UpTo(S, 0) |-> 0]
    OBVIOUS
  <2>3. IsSumOn(g, f, UpTo(S, 0))
    BY <2>1, <2>2 DEF IsSumOn
  <2> QED BY <2>3
<1>3. ASSUME NEW n \in Nat, n \in Good PROVE n + 1 \in Good
  <2>1. PICK g : IsSumOn(g, f, UpTo(S, n))
    BY <1>3
  <2>2. PICK h : h = [s \in UpTo(S, n + 1) |->
                        IF s = {} THEN 0 ELSE f[Pick(s)] + g[s \ {Pick(s)}]]
    OBVIOUS
  <2>3. ASSUME NEW s \in UpTo(S, n + 1), s # {}
        PROVE  s \ {Pick(s)} \in UpTo(S, n)
    <3>1. s \in SUBSET S /\ Cardinality(s) <= n + 1
      BY DEF UpTo
    <3>2. Cardinality(s \ {Pick(s)}) = Cardinality(s) - 1 /\ Cardinality(s) \in Nat
      BY <1>1, <2>3, <3>1, PickFromSet, FS_RemoveElement
    <3> QED BY <3>1, <3>2 DEF UpTo
  <2>4. \A s \in UpTo(S, n) : s \in UpTo(S, n + 1)
    BY <1>1 DEF UpTo
  <2>5. ASSUME NEW s \in UpTo(S, n) PROVE h[s] = g[s]
    <3>1. h[s] = IF s = {} THEN 0 ELSE f[Pick(s)] + g[s \ {Pick(s)}]
      BY <2>2, <2>4
    <3>2. g[s] = IF s = {} THEN 0 ELSE f[Pick(s)] + g[s \ {Pick(s)}]
      BY <2>1 DEF IsSumOn
    <3> QED BY <3>1, <3>2
  <2>6. \A s \in UpTo(S, n + 1) :
          (IF s = {} THEN 0 ELSE f[Pick(s)] + g[s \ {Pick(s)}])
            = (IF s = {} THEN 0 ELSE f[Pick(s)] + h[s \ {Pick(s)}])
    BY <2>3, <2>5
  <2>7. IsSumOn(h, f, UpTo(S, n + 1))
    BY <2>2, <2>6 DEF IsSumOn
  <2> QED BY <2>7
<1>4. Nat \subseteq Good
  <2> HIDE DEF Good
  <2> QED BY <1>2, <1>3, NatInduct
<1>5. UpTo(S, Cardinality(S)) = SUBSET S
  BY <1>1 DEF UpTo
<1>6. Cardinality(S) \in Good
  BY <1>1, <1>4
<1> QED BY <1>5, <1>6

LEMMA SumIsRecursive ==
    ASSUME NEW f, IsFiniteSet(DOMAIN f)
    PROVE  \E g : IsSumOn(g, f, SUBSET DOMAIN f) /\ SumFunction(f) = g[DOMAIN f]
BY SumUnfolds, SumExists

-----------------------------------------------------------------------------
(* What the sum is.                                                        *)

LEMMA SumOfZeroes ==
    ASSUME NEW S, IsFiniteSet(S), NEW f \in [S -> {0}]
    PROVE  SumFunction(f) = 0
<1>1. PICK g : IsSumOn(g, f, SUBSET S) /\ SumFunction(f) = g[S]
  BY SumIsRecursive
<1> DEFINE Good == {s \in SUBSET S : g[s] = 0}
<1>2. {} \in Good
  BY <1>1 DEF IsSumOn
<1>3. ASSUME NEW s \in SUBSET S, s # {}, \A x \in s : s \ {x} \in Good PROVE s \in Good
  <2>1. Pick(s) \in s
    BY <1>3, PickFromSet
  <2>2. g[s] = f[Pick(s)] + g[s \ {Pick(s)}]
    BY <1>1, <1>3 DEF IsSumOn
  <2>3. g[s \ {Pick(s)}] = 0 /\ f[Pick(s)] = 0
    BY <1>3, <2>1
  <2> QED BY <2>2, <2>3
<1>4. SUBSET S \subseteq Good
  <2> HIDE DEF Good
  <2> QED BY <1>2, <1>3, SubsetInduct
<1> QED BY <1>1, <1>4

LEMMA SumOfOneMore ==
    ASSUME NEW S, IsFiniteSet(S), NEW f \in [S -> Int], NEW x \in S, NEW a \in Int
    PROVE  SumFunction([f EXCEPT ![x] = @ + a]) = SumFunction(f) + a
<1>1. PICK h : h = [f EXCEPT ![x] = @ + a]
  OBVIOUS
<1>2. h \in [S -> Int] /\ \A y \in S : h[y] = IF y = x THEN f[y] + a ELSE f[y]
  BY <1>1
<1>3. PICK g : IsSumOn(g, f, SUBSET S) /\ SumFunction(f) = g[S]
  BY SumIsRecursive
<1>4. PICK k : IsSumOn(k, h, SUBSET S) /\ SumFunction(h) = k[S]
  BY <1>2, SumIsRecursive
<1> DEFINE Good == {s \in SUBSET S : /\ g[s] \in Int
                                     /\ k[s] = IF x \in s THEN g[s] + a ELSE g[s]}
<1>5. {} \in Good
  BY <1>3, <1>4 DEF IsSumOn
<1>6. ASSUME NEW s \in SUBSET S, s # {}, \A y \in s : s \ {y} \in Good PROVE s \in Good
  <2>1. PICK y : y = Pick(s)
    OBVIOUS
  <2>2. y \in s
    BY <1>6, <2>1, PickFromSet
  <2>3. g[s] = f[y] + g[s \ {y}] /\ k[s] = h[y] + k[s \ {y}]
    BY <1>3, <1>4, <1>6, <2>1 DEF IsSumOn
  <2>4. /\ g[s \ {y}] \in Int
        /\ k[s \ {y}] = IF x \in s \ {y} THEN g[s \ {y}] + a ELSE g[s \ {y}]
    BY <1>6, <2>2
  <2>5. f[y] \in Int /\ h[y] = IF y = x THEN f[y] + a ELSE f[y]
    BY <1>2, <2>2
  <2>6. PICK rest \in Int : rest = g[s \ {y}]
    BY <2>4
  <2>7. g[s] \in Int
    BY <2>3, <2>5, <2>6
  <2>8. k[s] = IF x \in s THEN g[s] + a ELSE g[s]
    <3>1. CASE y = x
      BY <2>2, <2>3, <2>4, <2>5, <2>6, <3>1
    <3>2. CASE y # x
      BY <2>2, <2>3, <2>4, <2>5, <2>6, <3>2
    <3> QED BY <3>1, <3>2
  <2> QED BY <2>7, <2>8
<1>7. SUBSET S \subseteq Good
  <2> HIDE DEF Good
  <2> QED BY <1>5, <1>6, SubsetInduct
<1>8. k[S] = g[S] + a
  BY <1>7
<1> QED BY <1>1, <1>3, <1>4, <1>8
=============================================================================
