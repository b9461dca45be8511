-------------------------- MODULE StatisticsProofs --------------------------
(***************************************************************************)
(* Whatever the comparator and the projection answer, for containers of    *)
(* every size: no loop leaves the container or its buffer, and the scan of *)
(* the mode counts what the sorted buffer holds.                           *)
(***************************************************************************)
EXTENDS Statistics, FiniteSetTheorems, TLAPS

-----------------------------------------------------------------------------
(* Numbers.                                                                *)

\* A set of numbers that is not empty has a least.
LEMMA Least ==
    ASSUME NEW T \in SUBSET Nat, T # {}
    PROVE  \E x \in T : \A y \in T : x <= y
<1> DEFINE Below == {0 .. n : n \in T}
<1>1. IsWellFoundedOn(StrictSubsetOrdering(Nat), FiniteSubsetsOf(Nat))
  BY FS_StrictSubsetOrderingWellFounded
<1>2. Below \subseteq FiniteSubsetsOf(Nat) /\ Below # {}
  <2>1. \A n \in T : IsFiniteSet(0 .. n)
    BY FS_Interval
  <2>2. \A n \in T : 0 .. n \subseteq Nat
    OBVIOUS
  <2> QED
    BY <2>1, <2>2 DEF FiniteSubsetsOf
<1> HIDE DEF Below
<1>3. PICK D \in Below : \A E \in Below : ~ (<<E, D>> \in StrictSubsetOrdering(Nat))
  BY <1>1, <1>2, WFMin
<1>4. PICK x \in T : D = 0 .. x
  BY DEF Below
<1>5. ASSUME NEW y \in T, y < x
      PROVE  FALSE
  <2> DEFINE A == 0 .. y
             B == 0 .. x
  <2>1. A \in Below /\ A \in SUBSET Nat /\ B \in SUBSET Nat /\ A \subseteq B
    BY <1>5 DEF Below
  <2>2. A # B
    BY <1>5
  <2> HIDE DEF A
  <2>3. <<A, B>> \in StrictSubsetOrdering(Nat)
    <3> HIDE DEF B
    <3> QED
      BY <2>1, <2>2 DEF StrictSubsetOrdering
  <2> QED
    BY <1>3, <1>4, <2>1, <2>3
<1> QED
  BY <1>5

\* An interval has more subsets than elements.
LEMMA PowerLemma ==
    ASSUME NEW n \in Nat
    PROVE  2 ^ n \in Nat /\ n + 1 <= 2 ^ n
<1> DEFINE P == SUBSET (1 .. n)
           f == [k \in 0 .. n |-> IF k = 0 THEN {} ELSE {k}]
<1>1. IsFiniteSet(1 .. n) /\ Cardinality(1 .. n) = n
  BY FS_Interval
<1>2. IsFiniteSet(P) /\ Cardinality(P) = 2 ^ n
  BY <1>1, FS_SUBSET
<1>3. 2 ^ n \in Nat
  BY <1>2, FS_CardinalityType
<1>4. f \in Injection(0 .. n, P)
  <2>1. \A k \in 0 .. n : f[k] \in P
    OBVIOUS
  <2>2. \A k, l \in 0 .. n : f[k] = f[l] => k = l
    OBVIOUS
  <2> QED
    BY <2>1, <2>2 DEF Injection, IsInjective
<1>5. Cardinality(0 .. n) = n + 1
  BY FS_Interval
<1> HIDE DEF P, f
<1>6. Cardinality(0 .. n) <= Cardinality(P)
  BY <1>2, <1>4, FS_Injection
<1> QED
  BY <1>2, <1>3, <1>5, <1>6

LEMMA MaxFiniteNat == MaxFinite \in Nat
<1>1. 2 ^ Precision \in Nat /\ 2 ^ Precision >= 1 /\ 2 ^ MaxExponent \in Nat
  BY PowerLemma, DoublesAssumption
<1>2. \A a, b \in Nat : a >= 1 => (a - 1) * b \in Nat
  OBVIOUS
<1> QED
  BY <1>1, <1>2 DEF MaxFinite

\* Rounding finds an exponent, so that a rounded number is one.
LEMMA NearestLemma ==
    ASSUME NEW num \in Int, NEW p \in Nat
    PROVE  Nearest(num, 1, p) \in Int
<1> DEFINE m == Magnitude(num)
           Fits(e) == m < 1 * 2 ^ (p + e)
           Is(e) == Fits(e) /\ (e > 0 => m >= 1 * 2 ^ (p + e - 1))
           T == {e \in 0 .. m : Fits(e)}
<1>1. m \in Nat
  BY DEF Magnitude
<1>2. \E e \in 0 .. m : Is(e)
  <2> HIDE DEF m
  <2>1. \A e \in Nat : 2 ^ (p + e) \in Nat /\ p + e + 1 <= 2 ^ (p + e)
    BY PowerLemma
  <2>2. m \in T
    BY <1>1, <2>1
  <2>3. T \in SUBSET Nat
    BY <1>1
  <2>4. PICK e \in T : \A d \in T : e <= d
    BY <2>2, <2>3, Least
  <2>5. ASSUME e > 0
        PROVE  m >= 1 * 2 ^ (p + e - 1)
    <3>1. e - 1 \in 0 .. m /\ e - 1 \notin T
      BY <1>1, <2>3, <2>4, <2>5
    <3>2. ~ Fits(e - 1) /\ p + (e - 1) = p + e - 1
      BY <1>1, <2>3, <3>1
    <3> QED
      BY <1>1, <2>1, <3>1, <3>2
  <2> QED
    BY <2>4, <2>5
<1>3. ExponentOf(num, 1, p) \in 0 .. m
  <2>1. ExponentOf(num, 1, p) = CHOOSE e \in 0 .. m : Is(e)
    BY DEF ExponentOf
  <2> HIDE DEF m, Is
  <2> QED
    BY <1>2, <2>1
<1>4. 2 ^ ExponentOf(num, 1, p) \in Nat /\ 2 ^ ExponentOf(num, 1, p) >= 1
  BY <1>1, <1>3, PowerLemma
<1>5. \A ulp \in Nat : ulp >= 1 => NearestWhole(num, 1 * ulp) * ulp \in Int
  <2> SUFFICES ASSUME NEW ulp \in Nat, ulp >= 1
               PROVE  NearestWhole(num, 1 * ulp) * ulp \in Int
    OBVIOUS
  <2> DEFINE q == num \div (1 * ulp)
  <2>1. q \in Int /\ q + 1 \in Int
    OBVIOUS
  <2> HIDE DEF q
  <2>2. NearestWhole(num, 1 * ulp) \in {q, q + 1}
    BY Zenon DEF NearestWhole, q
  <2> QED
    BY <2>1, <2>2
<1> QED
  BY <1>4, <1>5 DEF Nearest

-----------------------------------------------------------------------------
(* The order of CompareDouble.                                             *)

\* Where a double stands among the others, NaN last.
Rank(x) ==
    CASE x.class = "finite"   -> x.units
      [] x.class = "infinite" -> x.units * (MaxFinite + 1)
      [] x.class = "NaN"      -> MaxFinite + 2

LEMMA RankLemma ==
    /\ MaxFinite \in Nat
    /\ \A x \in Numbers : Rank(x) \in -(MaxFinite + 1) .. MaxFinite + 2
    /\ \A x, y \in Numbers :
          /\ CompareDouble(x, y) \in {-1, 0, 1}
          /\ CompareDouble(x, y) < 0 <=> Rank(x) < Rank(y)
          /\ CompareDouble(x, y) <= 0 <=> Rank(x) <= Rank(y)
          /\ CompareDouble(x, y) = 0 <=> x = y
<1> DEFINE m == MaxFinite
<1>1. m \in Nat
  BY MaxFiniteNat
<1>2. \A x \in Numbers :
         /\ x = [class |-> x.class, units |-> x.units]
         /\ \/ x.class = "finite" /\ x.units \in -m .. m /\ Rank(x) = x.units
            \/ x.class = "infinite" /\ x.units = -1 /\ Rank(x) = -(m + 1)
            \/ x.class = "infinite" /\ x.units = 1 /\ Rank(x) = m + 1
            \/ x.class = "NaN" /\ x.units = 0 /\ Rank(x) = m + 2
  BY <1>1 DEF Numbers, Rank, Finite, Infinite, NaN
<1>3. \A x \in Numbers : Rank(x) \in -(m + 1) .. m + 2
  BY <1>1, <1>2
<1>4. ASSUME NEW x \in Numbers, NEW y \in Numbers
      PROVE  /\ CompareDouble(x, y) = IF Rank(x) > Rank(y) THEN 1
                                      ELSE IF Rank(x) < Rank(y) THEN -1 ELSE 0
             /\ Rank(x) = Rank(y) => x = y
  <2> HIDE DEF m
  <2>1. Rank(x) = Rank(y) => x.class = y.class /\ x.units = y.units
    BY <1>1, <1>2
  <2>2. CASE x.class = "NaN"
    <3>1. Rank(x) = m + 2 /\ (y.class = "NaN" => Rank(y) = m + 2)
          /\ (y.class # "NaN" => Rank(y) < m + 2)
      BY <1>1, <1>2, <2>2
    <3>2. CompareDouble(x, y) = IF y.class = "NaN" THEN 0 ELSE 1
      BY <2>2 DEF CompareDouble
    <3> QED
      BY <1>1, <1>2, <2>1, <3>1, <3>2
  <2>3. CASE y.class = "NaN" /\ x.class # "NaN"
    <3>1. Rank(y) = m + 2 /\ Rank(x) < m + 2
      BY <1>1, <1>2, <2>3
    <3>2. CompareDouble(x, y) = -1
      BY <2>3 DEF CompareDouble
    <3> QED
      BY <1>1, <1>3, <3>1, <3>2
  <2>4. CASE x.class # "NaN" /\ y.class # "NaN"
    <3>1. CompareDouble(x, y) = IF Above(x, y) THEN 1 ELSE IF Above(y, x) THEN -1 ELSE 0
      BY <2>4 DEF CompareDouble
    <3>2. ASSUME NEW a \in Numbers, NEW b \in Numbers, a.class # "NaN", b.class # "NaN"
          PROVE  Above(a, b) <=> Rank(a) > Rank(b)
      <4>1. CASE a.class = "finite" /\ b.class = "finite"
        BY <1>1, <1>2, <4>1 DEF Above
      <4>2. CASE a.class = "finite" /\ b.class = "infinite"
        BY <1>1, <1>2, <4>2 DEF Above
      <4>3. CASE a.class = "infinite" /\ b.class = "finite"
        BY <1>1, <1>2, <4>3 DEF Above
      <4>4. CASE a.class = "infinite" /\ b.class = "infinite"
        BY <1>1, <1>2, <4>4 DEF Above
      <4> QED
        BY <1>2, <3>2, <4>1, <4>2, <4>3, <4>4
    <3>3. (Above(x, y) <=> Rank(x) > Rank(y)) /\ (Above(y, x) <=> Rank(y) > Rank(x))
      BY <2>4, <3>2
    <3>4. Rank(x) \in Int /\ Rank(y) \in Int
      BY <1>1, <1>3
    <3>5. CompareDouble(x, y) = IF Rank(x) > Rank(y) THEN 1
                                ELSE IF Rank(x) < Rank(y) THEN -1 ELSE 0
      BY <3>1, <3>3, <3>4
    <3> QED
      BY <1>2, <2>1, <3>5
  <2> QED
    BY <2>2, <2>3, <2>4
<1>5. \A x, y \in Numbers : Rank(x) \in Int /\ Rank(y) \in Int
  BY <1>1, <1>3
<1> QED
  BY <1>1, <1>3, <1>4, <1>5

\* Of some positions of a buffer, one holds the least number and one the greatest.
LEMMA ExtremeRanks ==
    ASSUME NEW D, NEW f \in [D -> Numbers], NEW S \in SUBSET D, S # {}
    PROVE  /\ \E j \in S : \A k \in S : Rank(f[j]) <= Rank(f[k])
           /\ \E j \in S : \A k \in S : Rank(f[k]) <= Rank(f[j])
<1> DEFINE m == MaxFinite + 2
           Up(j) == Rank(f[j]) + m
           Down(j) == m - Rank(f[j])
<1>1. m \in Nat /\ \A j \in S : Rank(f[j]) \in -m .. m
  BY RankLemma
<1> HIDE DEF m
<1>2. \E j \in S : \A k \in S : Up(j) <= Up(k)
  <2>1. {Up(j) : j \in S} \in SUBSET Nat /\ {Up(j) : j \in S} # {}
    BY <1>1
  <2>2. PICK x \in {Up(j) : j \in S} : \A y \in {Up(j) : j \in S} : x <= y
    BY <2>1, Least
  <2> QED
    BY <2>2
<1>3. \E j \in S : \A k \in S : Down(j) <= Down(k)
  <2>1. {Down(j) : j \in S} \in SUBSET Nat /\ {Down(j) : j \in S} # {}
    BY <1>1
  <2>2. PICK x \in {Down(j) : j \in S} : \A y \in {Down(j) : j \in S} : x <= y
    BY <2>1, Least
  <2> QED
    BY <2>2
<1> QED
  BY <1>1, <1>2, <1>3

\* The positions of what comes before f[j], and of what does not come after it.
Before(D, f, j) == {k \in D : CompareDouble(f[k], f[j]) < 0}
UpTo(D, f, j) == {k \in D : CompareDouble(f[k], f[j]) <= 0}

LEMMA CountsLemma ==
    ASSUME NEW n \in Nat, NEW f \in [0 .. n - 1 -> Numbers], NEW j \in 0 .. n - 1
    PROVE  LET D == 0 .. n - 1
           IN  /\ \A k \in D : k \in Before(D, f, j) <=> Rank(f[k]) < Rank(f[j])
               /\ \A k \in D : k \in UpTo(D, f, j) <=> Rank(f[k]) <= Rank(f[j])
               /\ Before(D, f, j) \subseteq D /\ UpTo(D, f, j) \subseteq D
               /\ IsFiniteSet(Before(D, f, j)) /\ Cardinality(Before(D, f, j)) \in Nat
               /\ IsFiniteSet(UpTo(D, f, j)) /\ Cardinality(UpTo(D, f, j)) \in Nat
<1> DEFINE D == 0 .. n - 1
<1>1. IsFiniteSet(D)
  BY FS_Interval
<1> HIDE DEF D
<1>2. f \in [D -> Numbers] /\ j \in D
  BY DEF D
<1>3. Before(D, f, j) \subseteq D /\ UpTo(D, f, j) \subseteq D
  BY DEF Before, UpTo
<1>4. /\ IsFiniteSet(Before(D, f, j)) /\ Cardinality(Before(D, f, j)) \in Nat
      /\ IsFiniteSet(UpTo(D, f, j)) /\ Cardinality(UpTo(D, f, j)) \in Nat
  BY <1>1, <1>3, FS_Subset, FS_CardinalityType
<1>5. \A k \in D : /\ k \in Before(D, f, j) <=> Rank(f[k]) < Rank(f[j])
                   /\ k \in UpTo(D, f, j) <=> Rank(f[k]) <= Rank(f[j])
  BY <1>2, RankLemma DEF Before, UpTo
<1> QED
  BY <1>3, <1>4, <1>5 DEF D

\* There is a number for every place of the order.
LEMMA PlaceLemma ==
    ASSUME NEW n \in Nat, NEW f \in [0 .. n - 1 -> Numbers], NEW i \in 0 .. n - 1
    PROVE  LET D == 0 .. n - 1
           IN  \E j \in D : /\ Cardinality(Before(D, f, j)) <= i
                            /\ Cardinality(UpTo(D, f, j)) > i
<1> DEFINE D == 0 .. n - 1
           T == {j \in D : Cardinality(UpTo(D, f, j)) > i}
<1>1. IsFiniteSet(D) /\ Cardinality(D) = n /\ i \in D /\ i \in Nat /\ i < n
  BY FS_Interval
<1>2. f \in [D -> Numbers]
  OBVIOUS
<1>3. \A j \in D : /\ \A k \in D : k \in Before(D, f, j) <=> Rank(f[k]) < Rank(f[j])
                   /\ \A k \in D : k \in UpTo(D, f, j) <=> Rank(f[k]) <= Rank(f[j])
                   /\ Before(D, f, j) \subseteq D /\ UpTo(D, f, j) \subseteq D
                   /\ IsFiniteSet(Before(D, f, j)) /\ Cardinality(Before(D, f, j)) \in Nat
                   /\ IsFiniteSet(UpTo(D, f, j)) /\ Cardinality(UpTo(D, f, j)) \in Nat
  BY CountsLemma
<1>4. \A j \in D : Rank(f[j]) \in Int
  BY <1>2, RankLemma
<1> HIDE DEF D
<1>5. T # {}
  <2>1. PICK j \in D : \A k \in D : Rank(f[k]) <= Rank(f[j])
    <3>1. D \in SUBSET D /\ D # {}
      BY <1>1
    <3> QED
      BY <1>2, <3>1, ExtremeRanks
  <2>2. UpTo(D, f, j) = D
    BY <1>3, <2>1
  <2> QED
    BY <1>1, <2>2
<1>6. PICK j \in T : \A k \in T : Rank(f[j]) <= Rank(f[k])
  BY <1>2, <1>5, ExtremeRanks
<1>7. ASSUME Cardinality(Before(D, f, j)) > i
      PROVE  FALSE
  <2>1. Before(D, f, j) # {}
    BY <1>1, <1>7, FS_EmptySet
  <2>2. Before(D, f, j) \in SUBSET D
    BY <1>3
  <2>3. PICK k \in Before(D, f, j) : \A l \in Before(D, f, j) : Rank(f[l]) <= Rank(f[k])
    BY <1>2, <2>1, <2>2, ExtremeRanks
  <2>4. k \in D /\ j \in D /\ Rank(f[k]) < Rank(f[j])
    BY <1>3, <2>3
  <2>5. \A l \in D : l \in UpTo(D, f, k) <=> l \in Before(D, f, j)
    BY <1>3, <1>4, <2>3, <2>4
  <2>6. UpTo(D, f, k) = Before(D, f, j)
    BY <1>3, <2>4, <2>5
  <2>7. k \in T
    BY <1>7, <2>4, <2>6
  <2> QED
    BY <1>4, <1>6, <2>4, <2>7
<1>8. Cardinality(Before(D, f, j)) <= i
  BY <1>1, <1>3, <1>7
<1> QED
  BY <1>6, <1>8 DEF D

\* qsort: what it leaves are numbers of the buffer, in the order of CompareDouble.
LEMMA SortedLemma ==
    ASSUME NEW n \in Nat, NEW f \in [0 .. n - 1 -> Numbers]
    PROVE  /\ Sorted(f) \in [0 .. n - 1 -> Numbers]
           /\ \A i, k \in 0 .. n - 1 : i <= k => Rank(Sorted(f)[i]) <= Rank(Sorted(f)[k])
<1> DEFINE D == 0 .. n - 1
           At(i, j) == /\ Cardinality(Before(D, f, j)) <= i
                       /\ Cardinality(UpTo(D, f, j)) > i
           place(i) == CHOOSE j \in D : At(i, j)
<1>1. \A i \in D : place(i) \in D /\ At(i, place(i))
  <2> SUFFICES ASSUME NEW i \in D
               PROVE  place(i) \in D /\ At(i, place(i))
    OBVIOUS
  <2>1. \E j \in D : At(i, j)
    BY PlaceLemma
  <2> HIDE DEF At
  <2> QED
    BY <2>1
<1>2. Sorted(f) = [i \in D |-> f[place(i)]]
  <2>1. DOMAIN f = D
    OBVIOUS
  <2> HIDE DEF D
  <2> QED
    BY <2>1 DEF Sorted, Before, UpTo
<1> HIDE DEF place
<1>3. Sorted(f) \in [D -> Numbers]
  BY <1>1, <1>2
<1>4. ASSUME NEW i \in D, NEW k \in D, i <= k
      PROVE  Rank(Sorted(f)[i]) <= Rank(Sorted(f)[k])
  <2> DEFINE a == place(i)
             b == place(k)
  <2>1. a \in D /\ b \in D /\ At(i, a) /\ At(k, b)
    BY <1>1
  <2> HIDE DEF a, b
  <2>2. Rank(f[a]) \in Int /\ Rank(f[b]) \in Int
    BY <2>1, RankLemma
  <2>3. ASSUME Rank(f[b]) < Rank(f[a])
        PROVE  FALSE
    <3>1. /\ \A l \in D : l \in UpTo(D, f, b) <=> Rank(f[l]) <= Rank(f[b])
          /\ \A l \in D : l \in Before(D, f, a) <=> Rank(f[l]) < Rank(f[a])
          /\ UpTo(D, f, b) \subseteq D
          /\ IsFiniteSet(Before(D, f, a)) /\ Cardinality(Before(D, f, a)) \in Nat
          /\ Cardinality(UpTo(D, f, b)) \in Nat
      BY <2>1, CountsLemma
    <3>2. \A l \in D : Rank(f[l]) \in Int
      BY RankLemma
    <3> HIDE DEF D
    <3>3. UpTo(D, f, b) \subseteq Before(D, f, a)
      BY <2>2, <2>3, <3>1, <3>2
    <3>4. Cardinality(UpTo(D, f, b)) <= Cardinality(Before(D, f, a))
      BY <3>1, <3>3, FS_Subset
    <3>5. i \in Int /\ k \in Int
      BY DEF D
    <3> QED
      BY <1>4, <2>1, <3>1, <3>4, <3>5
  <2>4. Sorted(f)[i] = f[a] /\ Sorted(f)[k] = f[b]
    BY <1>2 DEF a, b
  <2> QED
    BY <2>2, <2>3, <2>4
<1> QED
  BY <1>3, <1>4

-----------------------------------------------------------------------------
(* The invariant.                                                          *)

\* What TypeOK needs besides: a call that runs has elements to work on, and after
\* qsort the buffer holds numbers only, in their order.
InOrder ==
    /\ values \in [Positions -> Numbers]
    /\ \A i, k \in Positions : i <= k => Rank(values[i]) <= Rank(values[k])

Inv ==
    /\ TypeOK
    /\ pc \in {"idle", "extremum", "mean", "collect", "median", "mode"}
    /\ pc # "idle" => size >= 1
    /\ pc \in {"median", "mode"} => InOrder
    /\ ScanCounts

LEMMA SizeNat == Inv => size \in Nat /\ size <= MaxSize
<1>1. MaxSize \in Nat
  BY StatisticsAssumption
<1> QED
  BY <1>1 DEF Inv, TypeOK

LEMMA ProjectionNumber ==
    ASSUME Inv, NEW i \in Positions
    PROVE  contents[i] \in Elements /\ Projection(contents[i]) \in Numbers
<1>1. contents[i] \in type.values /\ type \in ElementTypes
  BY DEF Inv, TypeOK
<1>2. type.values \subseteq Elements
  BY <1>1, StatisticsAssumption DEF Types
<1> QED
  BY <1>1, <1>2, StatisticsAssumption

\* The buffer of a call that does not sort is not allocated.
LEMMA QuietInv ==
    ASSUME NEW C,
           type' \in ElementTypes, size' \in 0 .. MaxSize, contents' \in [Positions' -> type'.values],
           values' = NULL, pc' = C, C \in {"idle", "extremum", "mean"},
           C = "idle" => loop' = <<>>,
           C # "idle" => size' >= 1,
           C = "extremum" =>
              /\ loop' \in [index : 0 .. size', selected : Positions' \cup {NULL}]
              /\ loop'.selected = NULL <=> loop'.index = 0,
           C = "mean" =>
              /\ loop'.index \in 0 .. size'
              /\ loop'.sum.class = "finite" => loop'.sum.units \in Int
    PROVE  Inv'
<1>1. TypeOK'
  BY DEF TypeOK
<1> QED
  BY <1>1 DEF Inv, ScanCounts

LEMMA LeaveInv ==
    ASSUME Inv, NEW ok, NEW wrote, Leave(ok, wrote), contents' \in [Positions -> type.values]
    PROVE  Inv'
<1>1. /\ type' = type /\ size' = size /\ type \in ElementTypes /\ size \in 0 .. MaxSize
      /\ Positions' = Positions /\ values' = NULL /\ pc' = "idle" /\ loop' = <<>>
  BY DEF Inv, TypeOK, Leave, Positions
<1> QED
  BY <1>1, QuietInv

LEMMA RefuseInv ==
    ASSUME Inv, NEW c, Refuse(c)
    PROVE  Inv'
BY DEF Inv, TypeOK, ScanCounts, InOrder, Positions, Counted, Refuse, container

LEMMA InitInv == Init => Inv
BY DEF Init, Inv, TypeOK, ScanCounts

-----------------------------------------------------------------------------
(* Calls.                                                                  *)

LEMMA EnterQuiet ==
    ASSUME Inv, pc = "idle", size # 0, NEW c, NEW context,
           \/ Enter(c, "extremum", [index |-> 0, selected |-> NULL])
           \/ Enter(c, "mean", [index |-> 0, sum |-> LongZero]),
           UNCHANGED values
    PROVE  Inv'
<1>1. /\ type' = type /\ size' = size /\ contents' = contents /\ Positions' = Positions
      /\ type \in ElementTypes /\ size \in 0 .. MaxSize /\ contents \in [Positions -> type.values]
      /\ values' = NULL
  BY DEF Inv, TypeOK, Enter, container, Positions
<1>2. size >= 1 /\ 0 \in 0 .. size
  BY SizeNat
<1>3. CASE Enter(c, "extremum", [index |-> 0, selected |-> NULL])
  <2>1. /\ pc' = "extremum" /\ loop' = [index |-> 0, selected |-> NULL]
    BY <1>3 DEF Enter
  <2>2. /\ loop' \in [index : 0 .. size', selected : Positions' \cup {NULL}]
        /\ loop'.selected = NULL <=> loop'.index = 0
    BY <1>1, <1>2, <2>1
  <2> QED
    BY <1>1, <1>2, <2>1, <2>2, QuietInv
<1>4. CASE Enter(c, "mean", [index |-> 0, sum |-> LongZero])
  <2>1. /\ pc' = "mean" /\ loop' = [index |-> 0, sum |-> LongZero]
    BY <1>4 DEF Enter
  <2>2. loop'.index \in 0 .. size' /\ loop'.sum.units \in Int
    BY <1>1, <1>2, <2>1 DEF LongZero, Finite
  <2> QED
    BY <1>1, <1>2, <2>1, <2>2, QuietInv
<1> QED
  BY <1>3, <1>4

LEMMA CollectInv ==
    ASSUME Inv, pc = "idle", NEW c, CollectNumericValues(c)
    PROVE  Inv'
<1>1. CASE Refuse(c)
  BY <1>1, RefuseInv
<1>2. CASE /\ size # 0
           /\ values' = [i \in Positions |-> Junk]
           /\ Enter(c, "collect", [index |-> 0])
  <2>1. /\ type' = type /\ size' = size /\ contents' = contents /\ Positions' = Positions
        /\ type \in ElementTypes /\ size \in 0 .. MaxSize /\ contents \in [Positions -> type.values]
        /\ pc' = "collect" /\ loop' = [index |-> 0]
    BY <1>2 DEF Inv, TypeOK, Enter, container, Positions
  <2>2. size >= 1 /\ 0 \in 0 .. size /\ \A i \in Positions : i >= 0
    BY <1>2, SizeNat DEF Positions
  <2>3. TypeOK'
    BY <1>2, <2>1, <2>2 DEF TypeOK
  <2> QED
    BY <2>1, <2>2, <2>3 DEF Inv, ScanCounts
<1> QED
  BY <1>1, <1>2 DEF CollectNumericValues

LEMMA ExtremumCallInv ==
    ASSUME Inv, pc = "idle", NEW c, CopyExtremum(c)
    PROVE  Inv'
BY EnterQuiet, RefuseInv DEF CopyExtremum

LEMMA CallInv ==
    ASSUME Inv, Call
    PROVE  Inv'
<1>1. pc = "idle"
  BY DEF Call
<1>2. ASSUME NEW c, CopyExtremum(c) \/ CollectNumericValues(c) \/ Refuse(c)
      PROVE  Inv'
  BY <1>1, <1>2, ExtremumCallInv, CollectInv, RefuseInv
<1>3. ASSUME NEW toNumber, NEW out, adt_MeanBy(toNumber, out)
      PROVE  Inv'
  BY <1>1, <1>3, EnterQuiet, RefuseInv DEF adt_MeanBy
<1>4. CASE \E out, compare : adt_MinBy(compare, out) \/ adt_MaxBy(compare, out)
  BY <1>2, <1>4 DEF adt_MinBy, adt_MaxBy
<1>5. CASE \E out, toNumber : adt_MedianBy(toNumber, out) \/ adt_ModeBy(toNumber, out)
  BY <1>2, <1>5 DEF adt_MedianBy, adt_ModeBy
<1>6. CASE \E out, toNumber : adt_MeanBy(toNumber, out)
  BY <1>3, <1>6
<1>7. \/ \E out, compare : adt_MinBy(compare, out) \/ adt_MaxBy(compare, out)
      \/ \E out, toNumber : adt_MedianBy(toNumber, out) \/ adt_ModeBy(toNumber, out)
      \/ \E out, toNumber : adt_MeanBy(toNumber, out)
  BY Zenon DEF Call, adt_Min, adt_Max, adt_Mean, adt_Median, adt_Mode
<1> QED
  BY <1>4, <1>5, <1>6, <1>7

-----------------------------------------------------------------------------
(* Extrema and the mean.                                                   *)

LEMMA ExtremumInv ==
    ASSUME Inv, FindExtremum \/ CopySelected
    PROVE  Inv'
<1>1. /\ pc = "extremum" /\ values = NULL /\ size >= 1 /\ size \in Nat
      /\ loop \in [index : 0 .. size, selected : Positions \cup {NULL}]
      /\ loop.selected = NULL <=> loop.index = 0
      /\ type \in ElementTypes /\ size \in 0 .. MaxSize /\ contents \in [Positions -> type.values]
  BY SizeNat DEF FindExtremum, CopySelected, Inv, TypeOK
<1>2. CASE FindExtremum
  <2>1. /\ UNCHANGED <<type, size, contents, pc, values>> /\ Positions' = Positions
        /\ loop.index < size
    BY <1>2 DEF FindExtremum, Running, container, Positions
  <2>2. loop.index + 1 \in 0 .. size /\ loop.index + 1 # 0 /\ loop.index \in Positions
    BY <1>1, <2>1 DEF Positions
  <2>3. PICK s \in {loop.index, loop.selected} :
           loop' = [index |-> loop.index + 1, selected |-> s] /\ s # NULL
    <3>1. loop.index # NULL
      BY <1>1, StatisticsAssumption
    <3> QED
      BY <1>2, <3>1, Zenon DEF FindExtremum
  <2>4. s \in Positions
    BY <1>1, <2>2, <2>3
  <2>5. /\ loop' \in [index : 0 .. size', selected : Positions' \cup {NULL}]
        /\ loop'.selected = NULL <=> loop'.index = 0
    BY <2>1, <2>2, <2>3, <2>4
  <2> QED
    BY <1>1, <2>1, <2>5, QuietInv
<1>3. CASE CopySelected
  <2>1. loop.selected \in Positions
    <3>1. loop.index >= size /\ loop.index # 0
      BY <1>1, <1>3 DEF CopySelected
    <3> QED
      BY <1>1, <3>1
  <2>2. contents' \in [Positions -> type.values]
    BY <1>1, <1>3, <2>1 DEF CopySelected
  <2> QED
    BY <1>3, <2>2, LeaveInv DEF CopySelected
<1> QED
  BY <1>2, <1>3

LEMMA SumLemma ==
    ASSUME NEW sum, sum.class = "finite" => sum.units \in Int, NEW p \in Numbers
    PROVE  LET new == LongPlus(sum, ToLong(p))
           IN  new.class = "finite" => new.units \in Int
<1> DEFINE y == ToLong(p)
           near == Nearest(sum.units + y.units, 1, LongPrecision)
<1>1. y.class = "finite" => y.units \in Int
  <2>1. 2 ^ LongFraction \in Nat
    BY PowerLemma, DoublesAssumption
  <2>2. p.class = "finite" => p.units \in Int
    BY DEF Numbers, Finite, Infinite, NaN
  <2>3. \A a \in Int, b \in Nat : a * b \in Int
    OBVIOUS
  <2> QED
    BY <2>1, <2>2, <2>3 DEF ToLong, Finite
<1> HIDE DEF y
<1>2. sum.class = "finite" /\ y.class = "finite" => near \in Int
  BY <1>1, NearestLemma, DoublesAssumption
<1> HIDE DEF near
<1>3. \/ sum.class = "finite" /\ y.class = "finite" /\ LongPlus(sum, y) = Finite(near)
      \/ LongPlus(sum, y) = NaN
      \/ LongPlus(sum, y) = sum
      \/ LongPlus(sum, y) = y
  BY Zenon DEF LongPlus, Added, near
<1> QED
  BY <1>1, <1>2, <1>3 DEF Finite, NaN, y

LEMMA MeanInv ==
    ASSUME Inv, AddToMean \/ DivideSum
    PROVE  Inv'
<1>1. /\ pc = "mean" /\ values = NULL /\ size >= 1 /\ size \in Nat
      /\ loop.index \in 0 .. size
      /\ loop.sum.class = "finite" => loop.sum.units \in Int
      /\ type \in ElementTypes /\ size \in 0 .. MaxSize /\ contents \in [Positions -> type.values]
  BY SizeNat DEF AddToMean, DivideSum, Inv, TypeOK
<1>2. CASE AddToMean
  <2>1. /\ UNCHANGED <<type, size, contents, pc, values>> /\ Positions' = Positions
        /\ loop.index < size
    BY <1>2 DEF AddToMean, Running, container, Positions
  <2>2. loop.index + 1 \in 0 .. size /\ loop.index \in Positions
    BY <1>1, <2>1 DEF Positions
  <2>3. Projection(contents[loop.index]) \in Numbers
    BY <2>2, ProjectionNumber
  <2> DEFINE new == LongPlus(loop.sum, ToLong(Projection(contents[loop.index])))
  <2>4. new.class = "finite" => new.units \in Int
    BY <1>1, <2>3, SumLemma
  <2>5. loop' = [index |-> loop.index + 1, sum |-> new]
    BY <1>2 DEF AddToMean
  <2> HIDE DEF new
  <2>6. loop'.index \in 0 .. size' /\ (loop'.sum.class = "finite" => loop'.sum.units \in Int)
    BY <2>1, <2>2, <2>4, <2>5
  <2> QED
    BY <1>1, <2>1, <2>6, QuietInv
<1>3. CASE DivideSum
  <2>1. contents' \in [Positions -> type.values]
    BY <1>1, <1>3 DEF DivideSum
  <2> QED
    BY <1>3, <2>1, LeaveInv DEF DivideSum
<1> QED
  BY <1>2, <1>3

-----------------------------------------------------------------------------
(* Collecting and sorting the numbers.                                     *)

\* What a step in a call that sorts leaves alone, and what that says of it.
Unmoved == UNCHANGED <<type, size, contents>> /\ Positions' = Positions

LEMMA RunningLemma == Running => Unmoved
BY DEF Running, container, Unmoved, Positions

LEMMA CollectStepInv ==
    ASSUME Inv, CollectNumericValue
    PROVE  Inv'
<1>1. /\ pc = "collect" /\ size >= 1 /\ size \in Nat
      /\ values \in [Positions -> Numbers \cup {Junk}]
      /\ loop \in [index : 0 .. size]
      /\ \A i \in Positions : values[i] = Junk <=> i >= loop.index
      /\ type \in ElementTypes /\ size \in 0 .. MaxSize /\ contents \in [Positions -> type.values]
  BY SizeNat DEF CollectNumericValue, Inv, TypeOK
<1>2. /\ Unmoved /\ pc' = pc /\ loop.index < size
      /\ values' = [values EXCEPT ![loop.index] = Projection(contents[loop.index])]
      /\ loop' = [index |-> loop.index + 1]
  BY RunningLemma DEF CollectNumericValue
<1>3. loop.index \in Positions /\ loop.index + 1 \in 0 .. size
  BY <1>1, <1>2 DEF Positions
<1>4. Projection(contents[loop.index]) \in Numbers /\ Junk \notin Numbers
  BY <1>3, ProjectionNumber, StatisticsAssumption
<1>5. values' \in [Positions -> Numbers \cup {Junk}]
  BY <1>1, <1>2, <1>3, <1>4
<1>6. \A i \in Positions : values'[i] = Junk <=> i >= loop.index + 1
  <2> SUFFICES ASSUME NEW i \in Positions
               PROVE  values'[i] = Junk <=> i >= loop.index + 1
    OBVIOUS
  <2>1. i \in Nat /\ loop.index \in Nat
    BY <1>1, <1>3 DEF Positions
  <2>2. CASE i = loop.index
    BY <1>1, <1>2, <1>3, <1>4, <2>1, <2>2
  <2>3. CASE i # loop.index
    <3>1. values'[i] = values[i]
      BY <1>1, <1>2, <2>3
    <3> QED
      BY <1>1, <2>1, <2>3, <3>1
  <2> QED
    BY <2>2, <2>3
<1>7. TypeOK'
  BY <1>1, <1>2, <1>3, <1>5, <1>6 DEF TypeOK, Unmoved
<1> QED
  BY <1>1, <1>2, <1>7 DEF Inv, ScanCounts, Unmoved

LEMMA SortInv ==
    ASSUME Inv, SortValues
    PROVE  Inv'
<1>1. /\ pc = "collect" /\ size >= 1 /\ size \in Nat
      /\ values \in [Positions -> Numbers \cup {Junk}]
      /\ loop \in [index : 0 .. size] /\ loop.index >= size
      /\ \A i \in Positions : values[i] = Junk <=> i >= loop.index
      /\ type \in ElementTypes /\ size \in 0 .. MaxSize /\ contents \in [Positions -> type.values]
  BY SizeNat DEF SortValues, Inv, TypeOK
<1>2. Unmoved /\ values' = Sorted(values)
  BY RunningLemma DEF SortValues
<1>3. values \in [Positions -> Numbers]
  <2>1. \A i \in Positions : values[i] # Junk
    BY <1>1 DEF Positions
  <2> QED
    BY <1>1, <2>1
<1>4. InOrder'
  BY <1>1, <1>2, <1>3, SortedLemma DEF InOrder, Positions, Unmoved
<1>5. values' \in [Positions -> Numbers]
  BY <1>2, <1>4 DEF InOrder, Unmoved
<1>6. CASE pc' = "median" /\ loop' = <<>>
  <2>1. TypeOK'
    BY <1>1, <1>2, <1>5, <1>6 DEF TypeOK, Unmoved
  <2> QED
    BY <1>1, <1>2, <1>4, <1>6, <2>1 DEF Inv, ScanCounts, Unmoved
<1>7. CASE /\ pc' = "mode"
           /\ loop' = [i |-> 1, currentCount |-> 1, bestCount |-> 1, bestValue |-> values'[0]]
  <2>1. 0 \in Positions /\ values'[0] \in Numbers
    BY <1>1, <1>5 DEF Positions
  <2>2. loop' \in [i : 1 .. size, currentCount : 1 .. 1, bestCount : 1 .. 1, bestValue : Numbers]
    BY <1>1, <1>7, <2>1
  <2>3. TypeOK'
    BY <1>1, <1>2, <1>5, <1>7, <2>2 DEF TypeOK, Unmoved
  <2>4. loop'.i = 1 /\ loop'.currentCount = 1 /\ loop'.bestCount = 1 /\ loop'.bestValue = values'[0]
    BY <1>7
  <2>5. {j \in 0 .. loop'.i - 1 : values'[j] = values'[0]} = {0}
    BY <2>4
  <2>6. Counted(values[0])' = 1
    BY <2>5, FS_Singleton DEF Counted
  <2>7. CompareDouble(values'[0], values'[0]) <= 0
    BY <2>1, RankLemma
  <2>8. ScanCounts'
    <3>1. loop'.i - 1 = 0 /\ \A j \in 0 .. loop'.i - 1 : j = 0
      BY <2>4
    <3> QED
      BY <2>4, <2>6, <2>7, <3>1 DEF ScanCounts, Counted
  <2> QED
    BY <1>1, <1>2, <1>4, <1>7, <2>3, <2>8 DEF Inv, Unmoved
<1> QED
  BY <1>6, <1>7 DEF SortValues

-----------------------------------------------------------------------------
(* The scan of the mode.                                                   *)

\* How often x is among the first n of the values.
Occurrences(f, n, x) == {j \in 0 .. n - 1 : f[j] = x}

LEMMA OneMore ==
    ASSUME NEW f, NEW n \in Nat, NEW x
    PROVE  /\ Cardinality(Occurrences(f, n, x)) \in Nat
           /\ Cardinality(Occurrences(f, n + 1, x))
                 = Cardinality(Occurrences(f, n, x)) + IF f[n] = x THEN 1 ELSE 0
           /\ (\A j \in 0 .. n - 1 : f[j] # x) => Cardinality(Occurrences(f, n, x)) = 0
           /\ Cardinality(Occurrences(f, n, x)) >= 1 => \E j \in 0 .. n - 1 : f[j] = x
<1> DEFINE S == Occurrences(f, n, x)
           T == Occurrences(f, n + 1, x)
<1>1. IsFiniteSet(S) /\ Cardinality(S) \in Nat
  <2>1. IsFiniteSet(0 .. n - 1)
    BY FS_Interval
  <2>2. S \subseteq 0 .. n - 1
    BY DEF Occurrences
  <2> QED
    BY <2>1, <2>2, FS_Subset, FS_CardinalityType
<1>2. Cardinality({}) = 0
  BY FS_EmptySet
<1>3. (\A j \in 0 .. n - 1 : f[j] # x) => S = {}
  BY DEF Occurrences
<1>4. Cardinality(T) = Cardinality(S) + IF f[n] = x THEN 1 ELSE 0
  <2>1. CASE f[n] = x
    <3>1. T = S \cup {n} /\ n \notin S
      BY <2>1 DEF Occurrences
    <3> HIDE DEF S, T
    <3>2. Cardinality(T) = Cardinality(S) + 1
      BY <1>1, <3>1, FS_AddElement
    <3> QED
      BY <2>1, <3>2
  <2>2. CASE f[n] # x
    <3>1. T = S
      BY <2>2 DEF Occurrences
    <3> QED
      BY <1>1, <2>2, <3>1
  <2> QED
    BY <2>1, <2>2
<1> HIDE DEF S, T
<1>5. Cardinality(S) >= 1 => \E j \in 0 .. n - 1 : f[j] = x
  BY <1>2, <1>3
<1> QED
  BY <1>1, <1>2, <1>3, <1>4, <1>5 DEF S, T

LEMMA CountInv ==
    ASSUME Inv, CountRun
    PROVE  Inv'
<1> DEFINE i == loop.i
           n == loop.i - 1
           v == values[i]
           last == values[n]
           Count(x) == Cardinality(Occurrences(values, i, x))
           Next1(x) == Cardinality(Occurrences(values, i + 1, x))
           current == IF Repeats(i) THEN loop.currentCount + 1 ELSE 1
<1>1. /\ pc = "mode" /\ size >= 1 /\ size \in Nat
      /\ loop \in [i : 1 .. size, currentCount : 1 .. loop.i,
                   bestCount : 1 .. loop.i, bestValue : Numbers]
      /\ InOrder /\ ScanCounts
      /\ type \in ElementTypes /\ size \in 0 .. MaxSize /\ contents \in [Positions -> type.values]
  BY SizeNat DEF CountRun, Inv, TypeOK
<1>2. Unmoved /\ pc' = pc /\ values' = values /\ i < size
  BY RunningLemma DEF CountRun
<1>3. /\ i \in Nat /\ i >= 1 /\ i \in Positions /\ n \in Positions /\ n + 1 = i
      /\ \A j \in 0 .. i - 1 : j \in Positions /\ j <= n /\ j < i
  BY <1>1, <1>2 DEF Positions
<1>4. /\ \A j \in Positions : values[j] \in Numbers /\ Rank(values[j]) \in Int
      /\ v \in Numbers /\ last \in Numbers /\ loop.bestValue \in Numbers
      /\ Rank(loop.bestValue) \in Int /\ Rank(v) \in Int /\ Rank(last) \in Int
  BY <1>1, <1>3, RankLemma DEF InOrder
<1>5. \A x : /\ Count(x) \in Nat
             /\ Next1(x) = Count(x) + IF v = x THEN 1 ELSE 0
             /\ (\A j \in 0 .. i - 1 : values[j] # x) => Count(x) = 0
             /\ Count(x) >= 1 => \E j \in 0 .. i - 1 : values[j] = x
  BY <1>3, OneMore
<1>6. /\ loop.currentCount = Count(last)
      /\ loop.bestCount = Count(loop.bestValue)
      /\ \A j \in 0 .. i - 1 :
            \/ Count(values[j]) < loop.bestCount
            \/ /\ Count(values[j]) = loop.bestCount
               /\ Rank(loop.bestValue) <= Rank(values[j])
  <2>1. \A x : Counted(x) = Count(x)
    BY DEF Counted, Occurrences
  <2>2. \A j \in 0 .. i - 1 :
           CompareDouble(loop.bestValue, values[j]) <= 0 <=> Rank(loop.bestValue) <= Rank(values[j])
    BY <1>3, <1>4, RankLemma
  <2> QED
    BY <1>1, <2>1, <2>2 DEF ScanCounts
<1>7. loop.bestCount \in Nat /\ loop.bestCount >= 1 /\ loop.currentCount \in Nat
  BY <1>1
<1>8. Repeats(i) <=> last = v
  BY <1>4, RankLemma DEF Repeats
\* Equal values are adjacent, for they are in order.
<1>9. current = Next1(v)
  <2>1. CASE last = v
    BY <1>5, <1>6, <1>8, <2>1
  <2>2. CASE last # v
    <3>1. Rank(last) < Rank(v)
      <4>1. Rank(last) <= Rank(v)
        BY <1>1, <1>3 DEF InOrder
      <4>2. Rank(last) # Rank(v)
        BY <1>4, <2>2, RankLemma
      <4> QED
        BY <1>4, <4>1, <4>2
    <3>2. \A j \in 0 .. i - 1 : values[j] # v
      <4>1. \A j \in 0 .. i - 1 : Rank(values[j]) <= Rank(last)
        BY <1>1, <1>3 DEF InOrder
      <4> QED
        BY <1>3, <1>4, <3>1, <4>1
    <3>3. Count(v) = 0
      BY <1>5, <3>2
    <3> QED
      BY <1>5, <1>8, <2>2, <3>3
  <2> QED
    BY <2>1, <2>2
<1> HIDE DEF Count, Next1, current, v, last
<1>10. current \in 1 .. i + 1
  <2>1. current = loop.currentCount + 1 \/ current = 1
    BY Zenon DEF current
  <2> QED
    BY <1>1, <1>3, <2>1
<1>11. PICK best, count :
          /\ loop' = [i |-> i + 1, currentCount |-> current, bestCount |-> count, bestValue |-> best]
          /\ \/ current > loop.bestCount /\ count = current /\ best = v
             \/ ~ (current > loop.bestCount) /\ count = loop.bestCount /\ best = loop.bestValue
  BY Zenon DEF CountRun, current, v
<1>12. count \in 1 .. i + 1 /\ best \in Numbers
  BY <1>1, <1>3, <1>4, <1>7, <1>10, <1>11
<1>13. count = Next1(best)
  <2>1. CASE current > loop.bestCount /\ count = current /\ best = v
    BY <1>9, <2>1
  <2>2. CASE ~ (current > loop.bestCount) /\ count = loop.bestCount /\ best = loop.bestValue
    <3>1. v # loop.bestValue
      <4> SUFFICES ASSUME v = loop.bestValue PROVE FALSE
        OBVIOUS
      <4>1. Next1(v) = loop.bestCount + 1
        BY <1>5, <1>6
      <4> QED
        BY <1>7, <1>9, <2>2, <4>1
    <3> QED
      BY <1>5, <1>6, <1>7, <2>2, <3>1
  <2> QED
    BY <1>11, <2>1, <2>2
<1>14. ASSUME NEW j \in 0 .. i
       PROVE  \/ Next1(values[j]) < count
              \/ Next1(values[j]) = count /\ Rank(best) <= Rank(values[j])
  <2>1. Next1(values[j]) \in Nat /\ Next1(v) \in Nat
    BY <1>5
  <2>2. CASE values[j] = v
    <3>1. CASE current > loop.bestCount /\ count = current /\ best = v
      BY <1>4, <1>9, <2>2, <3>1
    <3>2. CASE ~ (current > loop.bestCount) /\ count = loop.bestCount /\ best = loop.bestValue
      <4>1. Next1(v) <= count
        BY <1>7, <1>9, <2>1, <3>2
      <4>2. Rank(loop.bestValue) <= Rank(v)
        <5>1. PICK k \in 0 .. i - 1 : values[k] = loop.bestValue
          BY <1>5, <1>6, <1>7
        <5> QED
          BY <1>1, <1>3, <5>1 DEF InOrder, v
      <4> QED
        BY <1>7, <2>1, <2>2, <3>2, <4>1, <4>2
    <3> QED
      BY <1>11, <3>1, <3>2
  <2>3. CASE values[j] # v
    <3>1. j \in 0 .. i - 1
      <4>1. j # i
        BY <2>3 DEF v
      <4> QED
        BY <1>3, <4>1
    <3>2. Next1(values[j]) = Count(values[j])
      BY <1>5, <2>3
    <3> QED
      BY <1>6, <1>7, <1>10, <1>11, <2>1, <3>1, <3>2
  <2> QED
    BY <2>2, <2>3
<1>15. ScanCounts'
  <2>1. /\ loop'.i = i + 1 /\ loop'.currentCount = current
        /\ loop'.bestCount = count /\ loop'.bestValue = best
    BY <1>11
  <2>2. loop'.i - 1 = i
    BY <1>3, <2>1
  <2>3. \A x : Cardinality({j \in 0 .. loop'.i - 1 : values'[j] = x}) = Next1(x)
    BY <1>2, <1>3, <2>1 DEF Next1, Occurrences
  <2>4. \A j \in 0 .. i : CompareDouble(best, values[j]) <= 0 <=> Rank(best) <= Rank(values[j])
    <3>1. \A j \in 0 .. i : j \in Positions
      BY <1>1, <1>2, <1>3 DEF Positions
    <3> QED
      BY <1>4, <1>12, <3>1, RankLemma
  <2>5. values'[loop'.i - 1] = v
    BY <1>2, <2>2 DEF v
  <2> HIDE DEF i
  <2> QED
    BY <1>2, <1>9, <1>13, <1>14, <2>1, <2>2, <2>3, <2>4, <2>5 DEF ScanCounts, Counted
<1>16. TypeOK'
  <2>1. /\ values \in [Positions -> Numbers \cup {Junk}]
    BY <1>1 DEF InOrder
  <2>2. i + 1 \in 1 .. size
    BY <1>1, <1>2, <1>3
  <2>3. loop' \in [i : 1 .. size, currentCount : 1 .. i + 1, bestCount : 1 .. i + 1,
                   bestValue : Numbers]
    BY <1>10, <1>11, <1>12, <2>2
  <2>4. loop'.i = i + 1
    BY <1>11
  <2> HIDE DEF i
  <2> QED
    BY <1>1, <1>2, <2>1, <2>3, <2>4 DEF TypeOK, Unmoved
<1>17. InOrder'
  BY <1>1, <1>2 DEF InOrder, Unmoved
<1> QED
  BY <1>1, <1>2, <1>15, <1>16, <1>17 DEF Inv, Unmoved

LEMMA ReturnInv ==
    ASSUME Inv, TakeMiddle \/ TakeBest
    PROVE  Inv'
<1>1. contents' \in [Positions -> type.values]
  BY DEF TakeMiddle, TakeBest, Inv, TypeOK
<1>2. \E ok, wrote : Leave(ok, wrote)
  BY DEF TakeMiddle, TakeBest
<1> QED
  BY <1>1, <1>2, LeaveInv

-----------------------------------------------------------------------------
(* The theorems.                                                           *)

LEMMA NextInv == Inv /\ [Next]_vars => Inv'
<1> SUFFICES ASSUME Inv, [Next]_vars
             PROVE  Inv'
  OBVIOUS
<1>1. CASE Call
  BY <1>1, CallInv
<1>2. CASE FindExtremum \/ CopySelected
  BY <1>2, ExtremumInv
<1>3. CASE AddToMean \/ DivideSum
  BY <1>3, MeanInv
<1>4. CASE CollectNumericValue
  BY <1>4, CollectStepInv
<1>5. CASE SortValues
  BY <1>5, SortInv
<1>6. CASE CountRun
  BY <1>6, CountInv
<1>7. CASE TakeMiddle \/ TakeBest
  BY <1>7, ReturnInv
<1>8. CASE UNCHANGED vars
  BY <1>8 DEF vars, container, Inv, TypeOK, InOrder, ScanCounts, Counted, Positions
<1> QED
  BY <1>1, <1>2, <1>3, <1>4, <1>5, <1>6, <1>7, <1>8, Zenon DEF Next, Step

\* The statistics keep their invariant: what is sorted stays in order while it is
\* scanned, and a call that was accepted has an element to work on.
THEOREM Invariance == Spec => []Inv
BY InitInv, NextInv, PTL DEF Spec

\* No loop passes the end of the container or of its buffer, the buffer is
\* written before it is read, and it is freed when the call returns.
THEOREM TypeSafety == Spec => []TypeOK
<1>1. Inv => TypeOK
  BY DEF Inv
<1> QED
  BY <1>1, Invariance, PTL

\* The scan of the mode (statistics.c:274-290) counts each value as often as it
\* occurs, and prefers the least of those that occur most often.
THEOREM ScanSafety == Spec => []ScanCounts
<1>1. Inv => ScanCounts
  BY DEF Inv
<1> QED
  BY <1>1, Invariance, PTL
=============================================================================
