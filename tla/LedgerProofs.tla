---------------------------- MODULE LedgerProofs ----------------------------
(***************************************************************************)
(* What Ledger's Total does, for any finite set of miners: its value is    *)
(* found by induction over the sets of miners.  The library's induction    *)
(* theorems take the statement as an operator; here the induction is over  *)
(* a set of good sets instead, by the well-foundedness of the subsets of a *)
(* finite set.                                                             *)
(***************************************************************************)
EXTENDS Ledger, FiniteSetTheorems, TLAPS

-----------------------------------------------------------------------------
(* Induction *)

\* A set of sets that holds every set all of whose proper subsets it holds
\* holds all.
LEMMA SubsetInduction ==
    ASSUME NEW S, IsFiniteSet(S), NEW Good,
           \A T \in SUBSET S : (\A U \in SUBSET T : U # T => U \in Good) => T \in Good
    PROVE  \A T \in SUBSET S : T \in Good
<1> DEFINE Bad == {T \in SUBSET S : T \notin Good}
<1>1. IsWellFoundedOn(StrictSubsetOrdering(S), FiniteSubsetsOf(S))
  BY FS_StrictSubsetOrderingWellFounded
<1>2. FiniteSubsetsOf(S) = SUBSET S
  BY FS_FiniteSubsetsOfFinite
<1> SUFFICES ASSUME Bad # {} PROVE FALSE
  OBVIOUS
<1>3. PICK T \in Bad : \A U \in Bad : <<U, T>> \notin StrictSubsetOrdering(S)
  <2>1. Bad \subseteq SUBSET S
    OBVIOUS
  <2> HIDE DEF Bad
  <2> QED
    BY <1>1, <1>2, <2>1, WFMin
<1>4. ASSUME NEW U \in SUBSET T, U # T PROVE U \in Good
  <2>1. <<U, T>> \in StrictSubsetOrdering(S)
    BY <1>4 DEF StrictSubsetOrdering
  <2> QED
    BY <1>3, <2>1
<1> QED
  BY <1>4

\* The same for numbers.
LEMMA NumberInduction ==
    ASSUME NEW Good, 0 \in Good, \A n \in Nat : n \in Good => n + 1 \in Good
    PROVE  \A n \in Nat : n \in Good
<1> DEFINE Bad  == {n \in Nat : n \notin Good}
           Less == {p \in Nat \X Nat : p[1] < p[2]}
<1> SUFFICES ASSUME Bad # {} PROVE FALSE
  OBVIOUS
<1>1. PICK n \in Bad : \A k \in Bad : <<k, n>> \notin Less
  <2>1. Bad \subseteq Nat
    OBVIOUS
  <2>2. IsWellFoundedOn(Less, Nat)
    BY NatLessThanWellFounded DEF OpToRel
  <2> HIDE DEF Bad, Less
  <2> QED
    BY <2>1, <2>2, WFMin
<1>2. n # 0 /\ n - 1 \in Nat
  OBVIOUS
<1>3. n - 1 \notin Bad
  <2>1. <<n - 1, n>> \in Less
    BY <1>2
  <2> QED
    BY <1>1, <2>1
<1> QED
  BY <1>2, <1>3

-----------------------------------------------------------------------------
(* The function behind the fold *)

First(s) == CHOOSE m \in s : TRUE

\* Total's recursive function is one that satisfies its equation.
IsSumOf(g, f) ==
    g = [s \in SUBSET Miners |-> IF s = {} THEN 0 ELSE f[First(s)] + g[s \ {First(s)}]]

SumOf(f) == CHOOSE g : IsSumOf(g, f)

LEMMA TotalIsSum == ASSUME NEW f PROVE Total(f) = SumOf(f)[Miners]
BY DEF Total, MapThenSumSet, MapThenFoldSet, SumOf, IsSumOf, First

LEMMA FirstIsMember == ASSUME NEW s, s # {} PROVE First(s) \in s
BY DEF First

\* It exists: on the sets of at most n miners for every n, and so on all.
LEMMA SumExists == ASSUME NEW f \in [Miners -> Int] PROVE \E g \in [SUBSET Miners -> Int] : IsSumOf(g, f)
<1> DEFINE Small(n) == {s \in SUBSET Miners : Cardinality(s) <= n}
           Step(g, s) == IF s = {} THEN 0 ELSE f[First(s)] + g[s \ {First(s)}]
           Good == {n \in Nat : \E g \in [Small(n) -> Int] : \A s \in Small(n) : g[s] = Step(g, s)}
<1>1. \A s \in SUBSET Miners : IsFiniteSet(s) /\ Cardinality(s) \in Nat
  BY MinersFinite, FS_Subset, FS_CardinalityType
<1>2. ASSUME NEW s \in SUBSET Miners, s # {}
      PROVE  /\ First(s) \in Miners /\ s \ {First(s)} \in SUBSET Miners
             /\ Cardinality(s \ {First(s)}) = Cardinality(s) - 1
  BY <1>1, <1>2, FirstIsMember, FS_RemoveElement
<1>3. 0 \in Good
  <2>1. \A s \in Small(0) : s = {}
    BY <1>1, FS_EmptySet
  <2>2. [s \in Small(0) |-> 0] \in [Small(0) -> Int]
    OBVIOUS
  <2> QED
    BY <2>1, <2>2
<1>4. ASSUME NEW n \in Nat, n \in Good PROVE n + 1 \in Good
  <2>1. PICK g \in [Small(n) -> Int] : \A s \in Small(n) : g[s] = Step(g, s)
    BY <1>4
  <2> DEFINE h == [s \in Small(n + 1) |-> Step(g, s)]
  <2>2. ASSUME NEW s \in Small(n + 1), s # {}
        PROVE  s \ {First(s)} \in Small(n) /\ s \ {First(s)} \in Small(n + 1)
    BY <1>1, <1>2, <2>2
  <2>3. \A s \in Small(n + 1) : Step(g, s) \in Int
    BY <1>2, <2>1, <2>2
  <2>4. h \in [Small(n + 1) -> Int]
    BY <2>3
  <2>5. \A s \in Small(n) : s \in Small(n + 1) /\ h[s] = g[s]
    BY <1>1, <2>1
  <2>6. \A s \in Small(n + 1) : h[s] = Step(h, s)
    BY <2>2, <2>5
  <2>7. n + 1 \in Nat
    OBVIOUS
  <2> HIDE DEF h, Step, Small
  <2> QED
    BY <2>4, <2>6, <2>7
<1>5. \A n \in Nat : n \in Good
  <2> HIDE DEF Good
  <2> QED
    BY <1>3, <1>4, NumberInduction
<1>6. Small(Cardinality(Miners)) = SUBSET Miners /\ Cardinality(Miners) \in Nat
  BY <1>1, MinersFinite, FS_Subset, FS_CardinalityType
<1>7. PICK g \in [SUBSET Miners -> Int] : \A s \in SUBSET Miners : g[s] = Step(g, s)
  BY <1>5, <1>6
<1>8. g = [s \in SUBSET Miners |-> Step(g, s)]
  BY <1>7
<1> QED
  BY <1>8 DEF IsSumOf

LEMMA SumIs ==
    ASSUME NEW f \in [Miners -> Int]
    PROVE  /\ SumOf(f)[{}] = 0
           /\ \A s \in (SUBSET Miners) \ {{}} :
                 /\ First(s) \in s
                 /\ SumOf(f)[s] = f[First(s)] + SumOf(f)[s \ {First(s)}]
<1>1. IsSumOf(SumOf(f), f)
  BY SumExists DEF SumOf
<1> QED
  BY <1>1, FirstIsMember DEF IsSumOf

\* What holds of the sum over a set of miners when it holds of the sum over
\* the others than its first, holds of the sum over every set of miners.
LEMMA SumInduction ==
    ASSUME NEW Good, {} \in Good,
           \A s \in (SUBSET Miners) \ {{}} : s \ {First(s)} \in Good => s \in Good
    PROVE  \A T \in SUBSET Miners : T \in Good
<1>1. ASSUME NEW T \in SUBSET Miners, \A U \in SUBSET T : U # T => U \in Good PROVE T \in Good
  <2>1. T # {} => T \ {First(T)} \in SUBSET T /\ T \ {First(T)} # T
    BY FirstIsMember
  <2> QED
    BY <1>1, <2>1
<1> QED
  BY <1>1, MinersFinite, SubsetInduction

-----------------------------------------------------------------------------
(* What Total does *)

LEMMA SumType ==
    ASSUME NEW f \in [Miners -> Int]
    PROVE  \A s \in SUBSET Miners : SumOf(f)[s] \in Int
<1> DEFINE Good == {s \in SUBSET Miners : SumOf(f)[s] \in Int}
<1>1. {} \in Good
  BY SumIs
<1>2. ASSUME NEW s \in (SUBSET Miners) \ {{}}, s \ {First(s)} \in Good PROVE s \in Good
  <2>1. First(s) \in Miners /\ SumOf(f)[s] = f[First(s)] + SumOf(f)[s \ {First(s)}]
    BY SumIs
  <2> QED
    BY <1>2, <2>1
<1>3. \A s \in SUBSET Miners : s \in Good
  <2> HIDE DEF Good
  <2> QED
    BY <1>1, <1>2, SumInduction
<1> QED
  BY <1>3

\* The sum of miners' counters is a number.
LEMMA TotalType == ASSUME NEW f \in [Miners -> Int] PROVE Total(f) \in Int
BY SumType, TotalIsSum

\* The sum of sums.
LEMMA TotalAdd ==
    ASSUME NEW f \in [Miners -> Int], NEW g \in [Miners -> Int], NEW h \in [Miners -> Int],
           \A m \in Miners : h[m] = f[m] + g[m]
    PROVE  Total(h) = Total(f) + Total(g)
<1> DEFINE Good == {s \in SUBSET Miners : SumOf(h)[s] = SumOf(f)[s] + SumOf(g)[s]}
<1>1. {} \in Good
  BY SumIs
<1>2. ASSUME NEW s \in (SUBSET Miners) \ {{}}, s \ {First(s)} \in Good PROVE s \in Good
  <2>1. /\ First(s) \in Miners
        /\ SumOf(f)[s] = f[First(s)] + SumOf(f)[s \ {First(s)}]
        /\ SumOf(g)[s] = g[First(s)] + SumOf(g)[s \ {First(s)}]
        /\ SumOf(h)[s] = h[First(s)] + SumOf(h)[s \ {First(s)}]
    BY SumIs
  <2>2. /\ SumOf(f)[s \ {First(s)}] \in Int
        /\ SumOf(g)[s \ {First(s)}] \in Int
    BY SumType
  <2> QED
    BY <1>2, <2>1, <2>2
<1>3. Miners \in Good
  <2> HIDE DEF Good
  <2> QED
    BY <1>1, <1>2, SumInduction
<1> QED
  BY <1>3, TotalIsSum

\* A sum grows with what is summed.
LEMMA TotalMono ==
    ASSUME NEW f \in [Miners -> Int], NEW g \in [Miners -> Int],
           \A m \in Miners : f[m] <= g[m]
    PROVE  Total(f) <= Total(g)
<1> DEFINE Good == {s \in SUBSET Miners : SumOf(f)[s] <= SumOf(g)[s]}
<1>1. {} \in Good
  BY SumIs
<1>2. ASSUME NEW s \in (SUBSET Miners) \ {{}}, s \ {First(s)} \in Good PROVE s \in Good
  <2>1. /\ First(s) \in Miners
        /\ SumOf(f)[s] = f[First(s)] + SumOf(f)[s \ {First(s)}]
        /\ SumOf(g)[s] = g[First(s)] + SumOf(g)[s \ {First(s)}]
    BY SumIs
  <2>2. /\ SumOf(f)[s \ {First(s)}] \in Int
        /\ SumOf(g)[s \ {First(s)}] \in Int
    BY SumType
  <2> QED
    BY <1>2, <2>1, <2>2
<1>3. Miners \in Good
  <2> HIDE DEF Good
  <2> QED
    BY <1>1, <1>2, SumInduction
<1> QED
  BY <1>3, TotalIsSum

\* A common factor can be taken out of a sum.
LEMMA TotalScale ==
    ASSUME NEW f \in [Miners -> Int], NEW g \in [Miners -> Int], NEW k \in Int,
           \A m \in Miners : g[m] = k * f[m]
    PROVE  Total(g) = k * Total(f)
<1> DEFINE Good == {s \in SUBSET Miners : SumOf(g)[s] = k * SumOf(f)[s]}
<1>1. {} \in Good
  BY SumIs
<1>2. ASSUME NEW s \in (SUBSET Miners) \ {{}}, s \ {First(s)} \in Good PROVE s \in Good
  <2>1. /\ First(s) \in Miners
        /\ SumOf(f)[s] = f[First(s)] + SumOf(f)[s \ {First(s)}]
        /\ SumOf(g)[s] = g[First(s)] + SumOf(g)[s \ {First(s)}]
    BY SumIs
  <2>2. SumOf(f)[s \ {First(s)}] \in Int
    BY SumType
  <2>3. \A a, b \in Int : k * a + k * b = k * (a + b)
    OBVIOUS
  <2> QED
    BY <1>2, <2>1, <2>2, <2>3
<1>3. Miners \in Good
  <2> HIDE DEF Good
  <2> QED
    BY <1>1, <1>2, SumInduction
<1> QED
  BY <1>3, TotalIsSum

\* A sum of zeros.
LEMMA TotalZero ==
    ASSUME NEW f \in [Miners -> Int], \A m \in Miners : f[m] = 0
    PROVE  Total(f) = 0
<1>1. Total(f) = Total(f) + Total(f)
  BY TotalAdd
<1> QED
  BY <1>1, TotalType

\* The sum of the indicator of S counts its members.
LEMMA TotalIndicator ==
    ASSUME NEW S \in SUBSET Miners
    PROVE  Total([m \in Miners |-> IF m \in S THEN 1 ELSE 0]) = Cardinality(S)
<1> DEFINE f == [m \in Miners |-> IF m \in S THEN 1 ELSE 0]
           Good == {s \in SUBSET Miners : SumOf(f)[s] = Cardinality(s \intersect S)}
<1>1. f \in [Miners -> Int]
  OBVIOUS
<1>2. {} \in Good
  <2>1. {} \intersect S = {}
    OBVIOUS
  <2> HIDE DEF f
  <2> QED
    BY <1>1, <2>1, SumIs, FS_EmptySet
<1>3. ASSUME NEW s \in (SUBSET Miners) \ {{}}, s \ {First(s)} \in Good PROVE s \in Good
  <2>1. /\ First(s) \in s /\ First(s) \in Miners
        /\ SumOf(f)[s] = f[First(s)] + SumOf(f)[s \ {First(s)}]
    <3> HIDE DEF f
    <3> QED
      BY <1>1, SumIs
  <2>2. IsFiniteSet(s \intersect S)
    BY MinersFinite, FS_Subset
  <2>3. CASE First(s) \in S
    <3>1. (s \ {First(s)}) \intersect S = (s \intersect S) \ {First(s)}
      OBVIOUS
    <3>2. Cardinality((s \intersect S) \ {First(s)}) = Cardinality(s \intersect S) - 1
      BY <2>1, <2>2, <2>3, FS_RemoveElement
    <3>3. Cardinality(s \intersect S) \in Nat
      BY <2>2, FS_CardinalityType
    <3>4. f[First(s)] = 1
      BY <2>1, <2>3
    <3> HIDE DEF f
    <3> QED
      BY <1>3, <2>1, <3>1, <3>2, <3>3, <3>4
  <2>4. CASE First(s) \notin S
    <3>1. (s \ {First(s)}) \intersect S = s \intersect S
      BY <2>4
    <3>2. f[First(s)] = 0
      BY <2>1, <2>4
    <3>3. Cardinality(s \intersect S) \in Nat
      BY <2>2, FS_CardinalityType
    <3> HIDE DEF f
    <3> QED
      BY <1>3, <2>1, <3>1, <3>2, <3>3
  <2> QED
    BY <2>3, <2>4
<1>4. Miners \in Good
  <2> HIDE DEF Good
  <2> QED
    BY <1>2, <1>3, SumInduction
<1>5. Miners \intersect S = S
  OBVIOUS
<1> QED
  BY <1>4, <1>5, TotalIsSum

\* A sum with a single member that is not zero.
LEMMA TotalOne ==
    ASSUME NEW f \in [Miners -> Int], NEW m \in Miners,
           \A n \in Miners : n # m => f[n] = 0
    PROVE  Total(f) = f[m]
<1> DEFINE one == [n \in Miners |-> IF n \in {m} THEN 1 ELSE 0]
<1>1. Total(one) = 1
  <2>1. Total(one) = Cardinality({m})
    BY TotalIndicator
  <2> QED
    BY <2>1, FS_Singleton
<1>2. one \in [Miners -> Int] /\ f[m] \in Int /\ \A n \in Miners : f[n] = f[m] * one[n]
  OBVIOUS
<1> HIDE DEF one
<1>3. Total(f) = f[m] * Total(one)
  BY <1>2, TotalScale
<1> QED
  BY <1>1, <1>2, <1>3

\* Adding to one member adds to the sum.
LEMMA TotalAt ==
    ASSUME NEW f \in [Miners -> Int], NEW m \in Miners, NEW a \in Int
    PROVE  Total([f EXCEPT ![m] = @ + a]) = Total(f) + a
<1> DEFINE g == [n \in Miners |-> IF n = m THEN a ELSE 0]
           h == [f EXCEPT ![m] = @ + a]
<1>1. g \in [Miners -> Int] /\ h \in [Miners -> Int] /\ g[m] = a
  OBVIOUS
<1>2. \A n \in Miners : h[n] = f[n] + g[n]
  OBVIOUS
<1>3. \A n \in Miners : n # m => g[n] = 0
  OBVIOUS
<1> HIDE DEF g, h
<1>4. Total(g) = g[m]
  BY <1>1, <1>3, TotalOne
<1>5. Total(h) = Total(f) + Total(g)
  BY <1>1, <1>2, TotalAdd
<1>6. Total(h) = Total(f) + a
  BY <1>1, <1>4, <1>5
<1> QED
  BY <1>6 DEF h
=============================================================================
