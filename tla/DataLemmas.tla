----------------------------- MODULE DataLemmas -----------------------------
(***************************************************************************)
(* Lemmas about data: the median of a family and the first dates of a set  *)
(* (OrderStatistics), and the sum of a function over a finite set.         *)
(*                                                                         *)
(* The inductions are by the least counterexample: a set of natural        *)
(* numbers that is not empty has a least element.  Over a finite set they  *)
(* are stated for a family of subsets in place of a predicate, because no  *)
(* backend instantiates a theorem about every predicate.                   *)
(***************************************************************************)
EXTENDS OrderStatistics, FiniteSetsExt, FiniteSetTheorems, WellFoundedInduction, TLAPS

LEMMA LeastNatural ==
  ASSUME NEW S \in SUBSET Nat, S # {}
  PROVE  \E m \in S : \A n \in S : m <= n
<1>1. PICK m \in S : \A n \in S : ~ (<<n, m>> \in OpToRel(<, Nat))
  <2> HIDE DEF OpToRel
  <2> QED BY NatLessThanWellFounded, WFMin
<1>2. \A n \in S : ~ (n < m)
  BY <1>1 DEF OpToRel
<1> QED BY <1>2

\* A finite, non-empty set of natural numbers has a greatest element.
LEMMA GreatestNatural ==
  ASSUME NEW S \in SUBSET Nat, S # {}, IsFiniteSet(S)
  PROVE  \E m \in S : \A n \in S : n <= m
<1> DEFINE HasMax(T) == \E m \in T : \A n \in T : n <= m
           Bad == {k \in Nat : \E T \in SUBSET S : T # {} /\ Cardinality(T) = k /\ ~HasMax(T)}
<1>1. SUFFICES ASSUME Bad # {} PROVE FALSE
  <2>1. Bad = {} => HasMax(S)
    BY FS_CardinalityType
  <2> QED BY <2>1
<1>2. PICK k \in Bad : \A j \in Bad : k <= j
  BY <1>1, LeastNatural
<1>3. PICK T \in SUBSET S : T # {} /\ Cardinality(T) = k /\ ~HasMax(T)
  BY <1>2
<1>4. PICK x \in T : TRUE
  BY <1>3
<1> DEFINE U == T \ {x}
<1>5. IsFiniteSet(T)
  BY <1>3, FS_Subset
<1>6. Cardinality(U) = k - 1 /\ Cardinality(U) \in Nat
  BY <1>3, <1>4, <1>5, FS_RemoveElement, FS_CardinalityType
<1>7. CASE U = {}
  <2>1. \A n \in T : n = x
    BY <1>7
  <2> QED BY <2>1, <1>3, <1>4
<1>8. CASE U # {}
  <2>1. Cardinality(U) \notin Bad
    BY <1>2, <1>6
  <2>2. HasMax(U)
    BY <2>1, <1>8, <1>6
  <2>3. PICK m \in U : \A n \in U : n <= m
    BY <2>2
  <2>4. CASE x <= m
    BY <2>3, <2>4, <1>3
  <2>5. CASE m < x
    <3>1. \A n \in T : n <= x
      BY <2>3, <2>5
    <3> QED BY <3>1, <1>3, <1>4
  <2> QED BY <2>4, <2>5
<1> QED BY <1>7, <1>8

\* The values a function takes on a finite set.
LEMMA ImageNumber ==
  ASSUME NEW S, IsFiniteSet(S), NEW p, NEW T, T = {p[x] : x \in S}
  PROVE  /\ IsFiniteSet(T) /\ Cardinality(T) <= Cardinality(S)
         /\ (\A x, y \in S : p[x] = p[y] => x = y) => Cardinality(T) = Cardinality(S)
<1> DEFINE g == [x \in S |-> p[x]]
<1>1. g \in Surjection(S, T)
  BY DEF Surjection
<1>2. (\A x, y \in S : p[x] = p[y] => x = y) => g \in Injection(S, T)
  BY DEF Injection, IsInjective
<1> HIDE DEF g
<1> QED BY <1>1, <1>2, FS_Surjection

LEMMA LeastValue ==
  ASSUME NEW S, S # {}, NEW p, \A x \in S : p[x] \in Nat
  PROVE  \E x \in S : \A y \in S : p[x] <= p[y]
<1> DEFINE V == {p[x] : x \in S}
<1>1. V \in SUBSET Nat /\ V # {}
  OBVIOUS
<1>2. PICK m \in V : \A n \in V : m <= n
  <2> HIDE DEF V
  <2> QED BY <1>1, LeastNatural
<1> QED BY <1>2

LEMMA MinMaxOf ==
  ASSUME NEW S \in SUBSET Nat, S # {}, IsFiniteSet(S)
  PROVE  /\ Min(S) \in S /\ Max(S) \in S
         /\ \A n \in S : Min(S) <= n /\ n <= Max(S)
         /\ Cardinality(S) > 1 <=> Min(S) < Max(S)
<1>1. Min(S) \in S /\ \A n \in S : Min(S) <= n
  BY LeastNatural DEF Min
<1>2. Max(S) \in S /\ \A n \in S : n <= Max(S)
  <2>1. \E m \in S : \A n \in S : m >= n
    <3>1. PICK m \in S : \A n \in S : n <= m
      BY GreatestNatural
    <3>2. \A n \in S : m >= n
      BY <3>1
    <3> QED BY <3>2
  <2>2. Max(S) \in S /\ \A n \in S : Max(S) >= n
    BY <2>1 DEF Max
  <2> QED BY <2>2
<1>3. Cardinality(S) \in Nat /\ Cardinality(S) # 0
  BY FS_CardinalityType, FS_EmptySet
<1>4. ASSUME Cardinality(S) = 1 PROVE Min(S) = Max(S)
  BY <1>1, <1>2, <1>4, FS_Singleton
<1>5. ASSUME Min(S) = Max(S) PROVE Cardinality(S) = 1
  <2>1. ASSUME NEW n \in S PROVE n = Min(S)
    <3>1. n \in Nat /\ Min(S) \in Nat /\ Min(S) <= n /\ n <= Min(S)
      BY <1>1, <1>2, <1>5
    <3> QED BY <3>1
  <2>2. S = {Min(S)}
    BY <1>1, <2>1
  <2> QED BY <2>2, FS_Singleton
<1>6. Min(S) \in Nat /\ Max(S) \in Nat /\ Min(S) <= Max(S)
  BY <1>1, <1>2
<1>7. Cardinality(S) > 1 <=> Min(S) < Max(S)
  BY <1>3, <1>4, <1>5, <1>6
<1> QED BY <1>1, <1>2, <1>7

-----------------------------------------------------------------------------
\* Every rank has its value: AtRank is a value of the family, fewer than k values
\* are below it and at least k are not above it.
THEOREM AtRankCorrect ==
  ASSUME NEW D, IsFiniteSet(D), NEW f \in [D -> Nat], NEW k \in 1..Cardinality(D)
  PROVE  /\ AtRank(f, k) \in Values(f)
         /\ Cardinality(Below(f, AtRank(f, k))) < k
         /\ k <= Cardinality(UpTo(f, AtRank(f, k)))
<1> DEFINE V == {v \in Values(f) : k <= Cardinality(UpTo(f, v))}
<1> HIDE DEF V
<1>1. Values(f) \in SUBSET Nat
  BY DEF Values
<1>2. Cardinality(D) \in Nat
  BY FS_CardinalityType
<1>3. \A v : /\ IsFiniteSet(Below(f, v)) /\ IsFiniteSet(UpTo(f, v))
             /\ Cardinality(Below(f, v)) \in Nat /\ Cardinality(UpTo(f, v)) \in Nat
  BY FS_Subset, FS_CardinalityType DEF Below, UpTo
<1>4. V # {}
  <2>1. IsFiniteSet(Values(f))
    <3>1. f \in Surjection(D, Values(f))
      BY DEF Surjection, Values
    <3> QED BY <3>1, FS_Surjection
  <2>2. Values(f) # {}
    BY FS_EmptySet, <1>2 DEF Values
  <2>3. PICK top \in Values(f) : \A v \in Values(f) : v <= top
    BY <2>1, <2>2, <1>1, GreatestNatural
  <2>4. UpTo(f, top) = D
    BY <2>3 DEF UpTo, Values
  <2> QED BY <2>3, <2>4, <1>2 DEF V
<1>5. PICK v \in V : \A w \in V : v <= w
  BY <1>4, <1>1, LeastNatural DEF V
<1>6. Cardinality(Below(f, v)) < k
  <2>1. SUFFICES ASSUME k <= Cardinality(Below(f, v)) PROVE FALSE
    BY <1>3
  <2> DEFINE W == {f[d] : d \in Below(f, v)}
  <2>2. W \in SUBSET Nat /\ W # {}
    <3>1. Below(f, v) # {}
      BY <2>1, FS_EmptySet
    <3> QED BY <3>1 DEF Below
  <2>3. IsFiniteSet(W)
    <3> DEFINE g == [d \in Below(f, v) |-> f[d]]
    <3>1. g \in Surjection(Below(f, v), W)
      BY DEF Surjection
    <3> QED BY <3>1, <1>3, FS_Surjection
  <2>4. PICK w \in W : \A u \in W : u <= w
    BY <2>2, <2>3, GreatestNatural
  <2>5. w < v /\ w \in Values(f) /\ v \in Nat /\ w \in Nat
    BY <2>4, <1>1 DEF Below, Values, V
  <2>6. UpTo(f, w) = Below(f, v)
    BY <2>4, <2>5 DEF UpTo, Below
  <2>7. w \in V
    BY <2>1, <2>5, <2>6 DEF V
  <2> QED BY <2>5, <2>7, <1>5
<1>7. v \in Values(f) /\ k <= Cardinality(UpTo(f, v))
  BY <1>5 DEF V
<1> QED BY <1>6, <1>7 DEF AtRank

\* decimal_median of prices in lo..hi is in lo..hi.
THEOREM MedianBetween ==
  ASSUME NEW D, IsFiniteSet(D), D # {},
         NEW lo \in Nat, NEW hi \in Nat, NEW f \in [D -> lo..hi]
  PROVE  TwiceMedian(f) \in (2 * lo)..(2 * hi)
<1> DEFINE n == Cardinality(D)
<1>1. n \in Nat /\ n # 0
  BY FS_CardinalityType, FS_EmptySet
<1>2. f \in [D -> Nat] /\ DOMAIN f = D
  OBVIOUS
<1>3. (n + 1) \div 2 \in 1..n /\ n \div 2 + 1 \in 1..n
  BY <1>1
<1>4. Values(f) \subseteq lo..hi
  BY DEF Values
<1>5. AtRank(f, (n + 1) \div 2) \in lo..hi /\ AtRank(f, n \div 2 + 1) \in lo..hi
  BY <1>2, <1>3, <1>4, AtRankCorrect
<1> QED BY <1>2, <1>5 DEF TwiceMedian

\* The median is between two of the prices.
LEMMA MedianWitness ==
  ASSUME NEW D, IsFiniteSet(D), D # {}, NEW f \in [D -> Nat]
  PROVE  /\ TwiceMedian(f) \in Nat
         /\ \E d, e \in D : 2 * f[d] <= TwiceMedian(f) /\ TwiceMedian(f) <= 2 * f[e]
<1> DEFINE n == Cardinality(D)
           a == AtRank(f, (n + 1) \div 2)
           b == AtRank(f, n \div 2 + 1)
<1>1. n \in Nat /\ n # 0 /\ DOMAIN f = D
  BY FS_CardinalityType, FS_EmptySet
<1>2. (n + 1) \div 2 \in 1..n /\ n \div 2 + 1 \in 1..n
  BY <1>1
<1>3. a \in Values(f) /\ b \in Values(f)
  BY <1>2, AtRankCorrect
<1>4. TwiceMedian(f) = a + b
  BY <1>1 DEF TwiceMedian
<1> HIDE DEF a, b
<1>5. PICK d, e \in D : a = f[d] /\ b = f[e]
  BY <1>1, <1>3 DEF Values
<1>6. a \in Nat /\ b \in Nat
  BY <1>5
<1>7. CASE a <= b
  BY <1>4, <1>5, <1>6, <1>7
<1>8. CASE b < a
  BY <1>4, <1>5, <1>6, <1>8
<1> QED BY <1>4, <1>6, <1>7, <1>8

\* Less than half of a family lies above twice its median.
LEMMA FewAboveMedian ==
  ASSUME NEW D, IsFiniteSet(D), D # {}, NEW f \in [D -> Nat]
  PROVE  2 * Cardinality({d \in D : f[d] > TwiceMedian(f)}) < Cardinality(D)
<1> DEFINE n == Cardinality(D)
           b == AtRank(f, n \div 2 + 1)
           H == {d \in D : f[d] > TwiceMedian(f)}
<1>1. n \in Nat /\ n # 0 /\ DOMAIN f = D
  BY FS_CardinalityType, FS_EmptySet
<1>2. (n + 1) \div 2 \in 1..n /\ n \div 2 + 1 \in 1..n
  BY <1>1
<1>3. Values(f) \subseteq Nat
  BY DEF Values
<1>4. TwiceMedian(f) \in Nat /\ TwiceMedian(f) >= b /\ b \in Nat /\ n \div 2 + 1 <= Cardinality(UpTo(f, b))
  <2>1. AtRank(f, (n + 1) \div 2) \in Nat
    BY <1>2, <1>3, AtRankCorrect
  <2>2. b \in Nat /\ n \div 2 + 1 <= Cardinality(UpTo(f, b))
    BY <1>2, <1>3, AtRankCorrect
  <2>3. TwiceMedian(f) = AtRank(f, (n + 1) \div 2) + b
    BY <1>1 DEF TwiceMedian
  <2> HIDE DEF b
  <2> QED BY <2>1, <2>2, <2>3
<1> HIDE DEF b
<1>5. H \subseteq D \ UpTo(f, b)
  <2> SUFFICES ASSUME NEW d \in H PROVE d \in D /\ d \notin UpTo(f, b)
    OBVIOUS
  <2>1. f[d] \in Nat /\ f[d] > TwiceMedian(f)
    OBVIOUS
  <2>2. f[d] > b
    <3> DEFINE m == TwiceMedian(f)
    <3> HIDE DEF m
    <3>1. m \in Nat /\ m >= b /\ f[d] > m
      BY <1>4, <2>1 DEF m
    <3> QED BY <3>1, <2>1, <1>4
  <2> QED BY <2>1, <2>2, <1>4 DEF UpTo
<1>6. Cardinality(D \ UpTo(f, b)) = n - Cardinality(UpTo(f, b)) /\ UpTo(f, b) \subseteq D
  <2>1. UpTo(f, b) \subseteq D
    BY <1>1 DEF UpTo
  <2>2. UpTo(f, b) \cap D = UpTo(f, b) /\ D \cap UpTo(f, b) = UpTo(f, b)
    BY <2>1
  <2>3. IsFiniteSet(UpTo(f, b))
    BY <2>1, FS_Subset
  <2>4. Cardinality(D \ UpTo(f, b)) = Cardinality(D) - Cardinality(D \cap UpTo(f, b))
    <3> DEFINE U == UpTo(f, b)
    <3> HIDE DEF U
    <3>1. Cardinality(D \ U) = Cardinality(D) - Cardinality(D \cap U)
      BY <2>3, FS_Difference DEF U
    <3> QED BY <3>1 DEF U
  <2> QED BY <2>1, <2>2, <2>4
<1>7. Cardinality(H) <= Cardinality(D \ UpTo(f, b)) /\ Cardinality(H) \in Nat
  <2>1. IsFiniteSet(D \ UpTo(f, b))
    BY FS_Subset
  <2> QED BY <1>5, <2>1, FS_Subset, FS_CardinalityType
<1>8. Cardinality(UpTo(f, b)) \in Nat
  BY <1>6, FS_Subset, FS_CardinalityType
<1>9. 2 * (n - (n \div 2 + 1)) < n
  BY <1>1
<1> HIDE DEF H
<1>10. 2 * Cardinality(H) < n
  <2> HIDE DEF n
  <2>1. n \div 2 \in Nat
    BY <1>1
  <2> QED BY <1>1, <1>4, <1>6, <1>7, <1>8, <1>9, <2>1
<1> QED BY <1>10 DEF H

-----------------------------------------------------------------------------
\* The ordered query with its limit returns n dates, and every other date is later
\* than all of them.
THEOREM EarliestCorrect ==
  ASSUME NEW D \in SUBSET Nat, IsFiniteSet(D), NEW n \in 0..Cardinality(D)
  PROVE  /\ Earliest(D, n) \subseteq D
         /\ Cardinality(Earliest(D, n)) = n
         /\ \A d \in Earliest(D, n), c \in D \ Earliest(D, n) : d < c
<1> DEFINE Before(d) == {c \in D : c < d}
<1>1. Cardinality(D) \in Nat /\ \A d \in D : d \in Nat
  BY FS_CardinalityType
<1>2. \A d : IsFiniteSet(Before(d)) /\ Cardinality(Before(d)) \in Nat
  BY FS_Subset, FS_CardinalityType
<1>3. \A d, k : d \in Earliest(D, k) <=> d \in D /\ Cardinality(Before(d)) < k
  BY DEF Earliest
<1>4. \A c, d : c \in Before(d) <=> c \in D /\ c < d
  OBVIOUS
<1>5. \A k : Earliest(D, k) \in SUBSET D /\ IsFiniteSet(Earliest(D, k))
  BY FS_Subset DEF Earliest
<1> HIDE DEF Before
<1>6. ASSUME NEW k \in Nat, NEW d \in Earliest(D, k), NEW c \in D, c <= d
      PROVE  c \in Earliest(D, k)
  <2>1. d \in D /\ c \in Nat /\ d \in Nat
    BY <1>1, <1>3, <1>6
  <2>2. \A b \in Before(c) : b \in Before(d)
    <3>1. SUFFICES ASSUME NEW b \in D, b < c PROVE b < d
      BY <1>4
    <3> QED BY <1>1, <1>6, <2>1, <3>1
  <2>3. Cardinality(Before(c)) <= Cardinality(Before(d))
    BY <2>2, <1>2, FS_Subset
  <2>4. Cardinality(Before(d)) < k
    BY <1>3, <1>6
  <2> QED BY <2>3, <2>4, <1>2, <1>3
<1> DEFINE Bad == {k \in 0..Cardinality(D) : Cardinality(Earliest(D, k)) # k}
<1>7. Bad = {}
  <2>1. SUFFICES ASSUME Bad # {} PROVE FALSE
    OBVIOUS
  <2>2. PICK k \in Bad : \A j \in Bad : k <= j
    <3>1. Bad \in SUBSET Nat
      BY <1>1
    <3> HIDE DEF Bad
    <3> QED BY <2>1, <3>1, LeastNatural
  <2>3. k \in Nat /\ k # 0
    <3>1. Earliest(D, 0) = {}
      BY <1>2, <1>3
    <3> QED BY <3>1, <2>2, <1>1, FS_EmptySet
  <2> DEFINE E == Earliest(D, k - 1)
  <2>4. Cardinality(E) = k - 1 /\ k - 1 \in Nat
    BY <2>2, <2>3, <1>1
  <2>5. E \in SUBSET D /\ IsFiniteSet(E)
    BY <1>5
  <2>6. D \ E # {}
    <3>1. k <= Cardinality(D)
      BY <2>2, <1>1
    <3> QED BY <2>4, <2>5, <3>1, <1>1
  <2>7. PICK m \in D \ E : \A d \in D \ E : m <= d
    <3>1. D \ E \in SUBSET Nat
      OBVIOUS
    <3> QED BY <2>6, <3>1, LeastNatural
  <2> HIDE DEF E
  <2>8. Before(m) = E
    <3>1. ASSUME NEW d \in Before(m) PROVE d \in E
      <4>1. d \in D /\ d < m /\ m \in Nat /\ d \in Nat
        BY <3>1, <2>7, <1>1, <1>4
      <4>2. ~ (m <= d)
        BY <4>1
      <4> QED BY <4>1, <4>2, <2>7
    <3>2. ASSUME NEW d \in E PROVE d \in Before(m)
      <4>1. d \in D /\ m \in Nat /\ d \in Nat
        BY <3>2, <2>5, <2>7, <1>1
      <4>2. ~ (m <= d)
        BY <3>2, <2>4, <2>7, <1>6 DEF E
      <4> QED BY <4>1, <4>2, <1>4
    <3> QED BY <3>1, <3>2
  <2>9. m \in Earliest(D, k)
    <3>1. Cardinality(Before(m)) < k
      BY <2>3, <2>4, <2>8
    <3> QED BY <3>1, <2>7, <1>3
  <2>10. Cardinality(E \cup {m}) = k
    <3>1. Cardinality(E \cup {m}) = Cardinality(E) + 1
      BY <2>5, <2>7, FS_AddElement
    <3> QED BY <2>3, <2>4, <3>1
  <2>11. ASSUME NEW d \in D, d \notin E, d # m PROVE d \notin Earliest(D, k)
    <3>1. E \cup {m} \in SUBSET Before(d)
      <4>1. d \in D \ E /\ m \in Nat /\ d \in Nat
        BY <2>7, <2>11, <1>1
      <4>2. m < d
        BY <4>1, <2>7, <2>11
      <4>3. m \in Before(d)
        BY <4>2, <2>7, <1>4
      <4>4. ASSUME NEW c \in E PROVE c \in Before(d)
        <5>1. c \in D /\ c < m
          BY <4>4, <2>8, <1>4
        <5> QED BY <5>1, <4>1, <4>2, <1>1, <1>4
      <4> QED BY <4>3, <4>4
    <3>2. Cardinality(E \cup {m}) = k
      BY <2>10
    <3>3. k <= Cardinality(Before(d))
      BY <3>1, <3>2, <1>2, FS_Subset
    <3> QED BY <3>3, <2>3, <1>2, <1>3
  <2>12. ASSUME NEW d \in E PROVE d \in Earliest(D, k)
    <3>1. d \in D /\ Cardinality(Before(d)) < k - 1
      BY <2>12, <1>3 DEF E
    <3> QED BY <3>1, <2>3, <1>2, <1>3
  <2>13. Earliest(D, k) = E \cup {m}
    BY <2>5, <2>9, <2>11, <2>12, <1>5
  <2>14. Cardinality(Earliest(D, k)) = k
    BY <2>10, <2>13
  <2> QED BY <2>2, <2>14
<1>8. Cardinality(Earliest(D, n)) = n
  BY <1>7
<1>9. ASSUME NEW d \in Earliest(D, n), NEW c \in D \ Earliest(D, n) PROVE d < c
  <2>1. d \in Nat /\ c \in Nat /\ n \in Nat
    <3>1. d \in D /\ c \in D
      BY <1>5
    <3> QED BY <3>1, <1>1
  <2>2. ~ (c <= d)
    BY <1>6, <1>9, <2>1
  <2> QED BY <2>1, <2>2
<1> QED BY <1>5, <1>8, <1>9

\* A finite set of dates has one at every rank.
LEMMA RankTaken ==
  ASSUME NEW D \in SUBSET Nat, IsFiniteSet(D), NEW k \in 1..Cardinality(D)
  PROVE  \E d \in D : Cardinality({c \in D : c < d}) = k - 1
<1>1. Cardinality(D) \in Nat /\ k \in 0..Cardinality(D) /\ k - 1 \in 0..Cardinality(D)
  BY FS_CardinalityType
<1>2. Cardinality(Earliest(D, k)) = k /\ Cardinality(Earliest(D, k - 1)) = k - 1
  BY <1>1, EarliestCorrect
<1>3. /\ Earliest(D, k) \in SUBSET D /\ Earliest(D, k - 1) \in SUBSET D
      /\ IsFiniteSet(Earliest(D, k - 1))
  BY FS_Subset DEF Earliest
<1>4. PICK d \in Earliest(D, k) : d \notin Earliest(D, k - 1)
  <2>1. ASSUME Earliest(D, k) \in SUBSET Earliest(D, k - 1) PROVE FALSE
    <3>1. Cardinality(Earliest(D, k)) <= Cardinality(Earliest(D, k - 1))
      BY <1>3, <2>1, FS_Subset
    <3> QED BY <3>1, <1>1, <1>2
  <2> QED BY <2>1
<1> DEFINE before == Cardinality({c \in D : c < d})
<1>5. before \in Nat
  BY FS_Subset, FS_CardinalityType
<1>6. before < k /\ ~ (before < k - 1) /\ d \in D
  BY <1>3, <1>4 DEF Earliest
<1>7. before = k - 1
  <2> HIDE DEF before
  <2> QED BY <1>1, <1>5, <1>6
<1> QED BY <1>6, <1>7

-----------------------------------------------------------------------------
\* Induction over a finite set: a family A that has each subset of S of which it
\* has all the smaller ones has S.
LEMMA SubsetInduction ==
  ASSUME NEW S, IsFiniteSet(S), NEW A,
         \A T \in SUBSET S : (\A U \in SUBSET T : U # T => U \in A) => T \in A
  PROVE  S \in A
<1> DEFINE Bad == {k \in Nat : \E T \in SUBSET S : T \notin A /\ Cardinality(T) = k}
<1>1. SUFFICES ASSUME S \notin A PROVE FALSE
  OBVIOUS
<1>2. Cardinality(S) \in Bad
  BY <1>1, FS_CardinalityType
<1>3. Bad \in SUBSET Nat
  OBVIOUS
<1> HIDE DEF Bad
<1>4. PICK k \in Bad : \A j \in Bad : k <= j
  BY <1>2, <1>3, LeastNatural
<1>5. PICK T \in SUBSET S : T \notin A /\ Cardinality(T) = k
  BY <1>4 DEF Bad
<1>6. ASSUME NEW U \in SUBSET T, U # T PROVE U \in A
  <2>1. IsFiniteSet(T)
    BY FS_Subset
  <2>2. Cardinality(U) \in Nat /\ k \in Nat /\ Cardinality(U) < k
    BY <1>5, <1>6, <2>1, FS_Subset, FS_CardinalityType
  <2>3. Cardinality(U) \notin Bad
    BY <1>4, <2>2
  <2> QED BY <2>2, <2>3 DEF Bad
<1> QED BY <1>5, <1>6

\* The same, one element at a time.
LEMMA ElementInduction ==
  ASSUME NEW S, IsFiniteSet(S), NEW A, {} \in A,
         \A T \in SUBSET S, x \in S : T \in A /\ x \notin T => T \cup {x} \in A
  PROVE  S \in A
<1>1. ASSUME NEW T \in SUBSET S, \A U \in SUBSET T : U # T => U \in A
      PROVE  T \in A
  <2>1. CASE T = {}
    BY <2>1
  <2>2. CASE T # {}
    <3>1. PICK x \in T : TRUE
      BY <2>2
    <3>2. T \ {x} \in A /\ (T \ {x}) \cup {x} = T
      BY <1>1, <3>1
    <3> QED BY <3>2
  <2> QED BY <2>1, <2>2
<1> QED BY <1>1, SubsetInduction

-----------------------------------------------------------------------------
(* Sums of a function over a finite set: the recursion of SumFunctionOnSet  *)
(* has a solution, and only one.                                           *)

Pick(s) == CHOOSE x \in s : TRUE

\* g holds the sums of w over the subsets of S, as SumFunctionOnSet computes them.
HoldsSums(g, w, S) ==
  g = [s \in SUBSET S |-> IF s = {} THEN 0 ELSE w[Pick(s)] + g[s \ {Pick(s)}]]

LEMMA SumUnfold ==
  ASSUME NEW w, NEW S
  PROVE  SumFunctionOnSet(w, S) = (CHOOSE g : HoldsSums(g, w, S))[S]
BY DEF SumFunctionOnSet, FoldFunctionOnSet, MapThenFoldSet, HoldsSums, Pick

LEMMA PickIn == ASSUME NEW s, s # {} PROVE Pick(s) \in s
BY DEF Pick

LEMMA SumsUnique ==
  ASSUME NEW S, NEW T \in SUBSET S, IsFiniteSet(T), NEW w, NEW g, NEW h,
         HoldsSums(g, w, S), HoldsSums(h, w, T)
  PROVE  g[T] = h[T]
<1> DEFINE A == {s \in SUBSET T : g[s] = h[s]}
<1>1. ASSUME NEW s \in SUBSET T, \A u \in SUBSET s : u # s => u \in A
      PROVE  s \in A
  <2>1. CASE s = {}
    BY <2>1 DEF HoldsSums
  <2>2. CASE s # {}
    <3>1. s \ {Pick(s)} \in A
      BY <1>1, <2>2, PickIn
    <3>2. g[s] = w[Pick(s)] + g[s \ {Pick(s)}] /\ h[s] = w[Pick(s)] + h[s \ {Pick(s)}]
      BY <2>2 DEF HoldsSums
    <3> QED BY <3>1, <3>2
  <2> QED BY <2>1, <2>2
<1>2. T \in A
  <2> HIDE DEF A
  <2> QED BY <1>1, SubsetInduction
<1> QED BY <1>2

LEMMA SumsExist ==
  ASSUME NEW S, IsFiniteSet(S), NEW w
  PROVE  \E g : HoldsSums(g, w, S)
<1> DEFINE A == {T \in SUBSET S : \E g : HoldsSums(g, w, T)}
           sum(s) == (CHOOSE g : HoldsSums(g, w, s))[s]
<1>1. ASSUME NEW T \in SUBSET S, \A U \in SUBSET T : U # T => U \in A
      PROVE  T \in A
  <2> DEFINE g == [s \in SUBSET T |-> IF s = {} THEN 0 ELSE w[Pick(s)] + sum(s \ {Pick(s)})]
  <2>1. ASSUME NEW s \in SUBSET T, s # T PROVE g[s] = sum(s)
    <3> DEFINE h == CHOOSE h : HoldsSums(h, w, s)
    <3>1. HoldsSums(h, w, s)
      <4>1. s \in A
        BY <1>1, <2>1
      <4> QED BY <4>1
    <3> HIDE DEF h
    <3>2. CASE s = {}
      <4>1. h[s] = 0
        BY <3>1, <3>2 DEF HoldsSums
      <4> QED BY <3>2, <4>1 DEF h
    <3>3. CASE s # {}
      <4> DEFINE r == s \ {Pick(s)}
                 k == CHOOSE k : HoldsSums(k, w, r)
      <4>1. r \in SUBSET s /\ r # T /\ r \in SUBSET T /\ IsFiniteSet(r)
        BY <2>1, <3>3, PickIn, FS_Subset
      <4>2. HoldsSums(k, w, r)
        <5>1. r \in A
          BY <1>1, <4>1
        <5> QED BY <5>1
      <4> HIDE DEF k, r
      <4>3. h[r] = k[r]
        BY <3>1, <4>1, <4>2, SumsUnique
      <4>4. h[s] = w[Pick(s)] + h[r]
        BY <3>1, <3>3 DEF HoldsSums, r
      <4> QED BY <3>3, <4>3, <4>4 DEF h, k, r
    <3> QED BY <3>2, <3>3
  <2> HIDE DEF sum
  <2>2. g = [s \in SUBSET T |-> IF s = {} THEN 0 ELSE w[Pick(s)] + g[s \ {Pick(s)}]]
    <3>1. \A s \in SUBSET T : s # {} => sum(s \ {Pick(s)}) = g[s \ {Pick(s)}]
      BY <2>1, PickIn
    <3> QED BY <3>1
  <2>3. HoldsSums(g, w, T)
    BY <2>2 DEF HoldsSums
  <2> QED BY <2>3
<1>2. S \in A
  <2> HIDE DEF A
  <2> QED BY <1>1, SubsetInduction
<1> QED BY <1>2

LEMMA SumEmpty == ASSUME NEW w PROVE SumFunctionOnSet(w, {}) = 0
<1>1. PICK g : HoldsSums(g, w, {})
  BY SumsExist, FS_EmptySet
<1>2. HoldsSums(CHOOSE h : HoldsSums(h, w, {}), w, {})
  BY <1>1
<1> QED BY <1>2, SumUnfold DEF HoldsSums

LEMMA SumStep ==
  ASSUME NEW S, IsFiniteSet(S), S # {}, NEW w
  PROVE  SumFunctionOnSet(w, S) = w[Pick(S)] + SumFunctionOnSet(w, S \ {Pick(S)})
<1> DEFINE R == S \ {Pick(S)}
           g == CHOOSE g : HoldsSums(g, w, S)
           h == CHOOSE h : HoldsSums(h, w, R)
<1>1. IsFiniteSet(R) /\ R \in SUBSET S
  BY FS_Subset
<1>2. HoldsSums(g, w, S)
  BY SumsExist
<1>3. HoldsSums(h, w, R)
  <2> HIDE DEF R
  <2> QED BY <1>1, SumsExist
<1>4. SumFunctionOnSet(w, S) = g[S] /\ SumFunctionOnSet(w, R) = h[R]
  BY SumUnfold
<1> HIDE DEF g, h
<1>5. g[R] = h[R]
  <2> HIDE DEF R
  <2> QED BY <1>1, <1>2, <1>3, SumsUnique
<1>6. g[S] = w[Pick(S)] + g[R]
  BY <1>2 DEF HoldsSums
<1> QED BY <1>4, <1>5, <1>6

LEMMA SumInt ==
  ASSUME NEW S, IsFiniteSet(S), NEW w, \A x \in S : w[x] \in Int
  PROVE  SumFunctionOnSet(w, S) \in Int
<1> DEFINE A == {T \in SUBSET S : SumFunctionOnSet(w, T) \in Int}
<1>1. ASSUME NEW T \in SUBSET S, \A U \in SUBSET T : U # T => U \in A PROVE T \in A
  <2>1. CASE T = {}
    BY <2>1, SumEmpty
  <2>2. CASE T # {}
    <3>1. Pick(T) \in T /\ IsFiniteSet(T)
      BY <2>2, PickIn, FS_Subset
    <3>2. SumFunctionOnSet(w, T \ {Pick(T)}) \in Int
      BY <1>1, <3>1
    <3>3. SumFunctionOnSet(w, T) = w[Pick(T)] + SumFunctionOnSet(w, T \ {Pick(T)})
      BY <2>2, <3>1, SumStep
    <3>4. w[Pick(T)] \in Int
      BY <3>1
    <3> QED BY <3>2, <3>3, <3>4
  <2> QED BY <2>1, <2>2
<1> HIDE DEF A
<1>2. S \in A
  BY <1>1, SubsetInduction
<1> QED BY <1>2 DEF A

\* The order of summation does not matter.
LEMMA SumRemove ==
  ASSUME NEW S, IsFiniteSet(S), NEW w, \A x \in S : w[x] \in Int, NEW y \in S
  PROVE  SumFunctionOnSet(w, S) = w[y] + SumFunctionOnSet(w, S \ {y})
<1> DEFINE A == {T \in SUBSET S : \A x \in T :
                   SumFunctionOnSet(w, T) = w[x] + SumFunctionOnSet(w, T \ {x})}
<1>0. \A T \in SUBSET S : IsFiniteSet(T) /\ SumFunctionOnSet(w, T) \in Int
  <2> SUFFICES ASSUME NEW T \in SUBSET S PROVE IsFiniteSet(T) /\ SumFunctionOnSet(w, T) \in Int
    OBVIOUS
  <2>1. IsFiniteSet(T)
    BY FS_Subset
  <2> QED BY <2>1, SumInt
<1>1. ASSUME NEW T \in SUBSET S, \A U \in SUBSET T : U # T => U \in A PROVE T \in A
  <2> SUFFICES ASSUME NEW x \in T
               PROVE  SumFunctionOnSet(w, T) = w[x] + SumFunctionOnSet(w, T \ {x})
    OBVIOUS
  <2> DEFINE p == Pick(T)
  <2>1. p \in T /\ SumFunctionOnSet(w, T) = w[p] + SumFunctionOnSet(w, T \ {p})
    BY <1>0, PickIn, SumStep
  <2> HIDE DEF p
  <2>2. CASE x = p
    BY <2>1, <2>2
  <2>3. CASE x # p
    <3> DEFINE R == (T \ {p}) \ {x}
    <3>1. SumFunctionOnSet(w, T \ {p}) = w[x] + SumFunctionOnSet(w, R)
      <4>1. T \ {p} \in A /\ x \in T \ {p}
        BY <1>1, <2>1, <2>3
      <4> QED BY <4>1
    <3>2. SumFunctionOnSet(w, T \ {x}) = w[p] + SumFunctionOnSet(w, R)
      <4>1. T \ {x} \in A /\ p \in T \ {x}
        BY <1>1, <2>1, <2>3
      <4>2. (T \ {x}) \ {p} = R
        OBVIOUS
      <4>3. SumFunctionOnSet(w, T \ {x}) = w[p] + SumFunctionOnSet(w, (T \ {x}) \ {p})
        BY <4>1
      <4> QED BY <4>2, <4>3
    <3>3. w[x] \in Int /\ w[p] \in Int /\ SumFunctionOnSet(w, R) \in Int
      BY <1>0, <2>1
    <3> QED BY <2>1, <3>1, <3>2, <3>3
  <2> QED BY <2>2, <2>3
<1> HIDE DEF A
<1>2. S \in A
  BY <1>1, SubsetInduction
<1> QED BY <1>2 DEF A

LEMMA SumAdd ==
  ASSUME NEW S, IsFiniteSet(S), NEW w, NEW y, y \notin S, \A x \in S \cup {y} : w[x] \in Int
  PROVE  SumFunctionOnSet(w, S \cup {y}) = w[y] + SumFunctionOnSet(w, S)
<1> DEFINE T == S \cup {y}
<1>1. IsFiniteSet(T) /\ y \in T /\ T \ {y} = S /\ \A x \in T : w[x] \in Int
  BY FS_AddElement
<1> HIDE DEF T
<1>2. SumFunctionOnSet(w, T) = w[y] + SumFunctionOnSet(w, T \ {y})
  BY <1>1, SumRemove
<1> QED BY <1>1, <1>2 DEF T

\* Two functions that agree on the set have the same sum.
LEMMA SumAgree ==
  ASSUME NEW S, IsFiniteSet(S), NEW w, NEW v,
         \A x \in S : w[x] \in Int /\ v[x] = w[x]
  PROVE  SumFunctionOnSet(v, S) = SumFunctionOnSet(w, S)
<1> DEFINE A == {T \in SUBSET S : SumFunctionOnSet(v, T) = SumFunctionOnSet(w, T)}
<1>1. {} \in A
  BY SumEmpty
<1>2. ASSUME NEW T \in SUBSET S, NEW y \in S, T \in A, y \notin T PROVE T \cup {y} \in A
  <2>1. IsFiniteSet(T)
    BY FS_Subset
  <2>2. SumFunctionOnSet(w, T \cup {y}) = w[y] + SumFunctionOnSet(w, T)
    BY <1>2, <2>1, SumAdd
  <2>3. SumFunctionOnSet(v, T \cup {y}) = v[y] + SumFunctionOnSet(v, T)
    BY <1>2, <2>1, SumAdd
  <2> QED BY <1>2, <2>2, <2>3
<1> HIDE DEF A
<1>3. S \in A
  BY <1>1, <1>2, ElementInduction
<1> QED BY <1>3 DEF A

\* A function between lo and hi times another has a sum between lo and hi times its.
THEOREM SumBetween ==
  ASSUME NEW S, IsFiniteSet(S), NEW w, NEW v, NEW lo \in Int, NEW hi \in Int,
         \A x \in S : /\ w[x] \in Int /\ v[x] \in Int
                      /\ lo * w[x] <= v[x] /\ v[x] <= hi * w[x]
  PROVE  /\ lo * SumFunctionOnSet(w, S) <= SumFunctionOnSet(v, S)
         /\ SumFunctionOnSet(v, S) <= hi * SumFunctionOnSet(w, S)
<1> DEFINE Q(T) == /\ lo * SumFunctionOnSet(w, T) <= SumFunctionOnSet(v, T)
                   /\ SumFunctionOnSet(v, T) <= hi * SumFunctionOnSet(w, T)
           A == {T \in SUBSET S : Q(T)}
<1>1. {} \in A
  BY SumEmpty
<1>2. ASSUME NEW T \in SUBSET S, NEW y \in S, T \in A, y \notin T PROVE T \cup {y} \in A
  <2>1. IsFiniteSet(T)
    BY FS_Subset
  <2>2. SumFunctionOnSet(w, T \cup {y}) = w[y] + SumFunctionOnSet(w, T)
    BY <1>2, <2>1, SumAdd
  <2>3. SumFunctionOnSet(v, T \cup {y}) = v[y] + SumFunctionOnSet(v, T)
    BY <1>2, <2>1, SumAdd
  <2>4. SumFunctionOnSet(w, T) \in Int /\ SumFunctionOnSet(v, T) \in Int
    BY <2>1, SumInt
  <2>5. ASSUME NEW a \in Int, NEW b \in Int, NEW c \in Int PROVE c * (a + b) = c * a + c * b
    OBVIOUS
  <2>6. /\ lo * (w[y] + SumFunctionOnSet(w, T)) = lo * w[y] + lo * SumFunctionOnSet(w, T)
        /\ hi * (w[y] + SumFunctionOnSet(w, T)) = hi * w[y] + hi * SumFunctionOnSet(w, T)
    BY <2>4, <2>5
  <2>7. Q(T) /\ w[y] \in Int /\ v[y] \in Int /\ lo * w[y] <= v[y] /\ v[y] <= hi * w[y]
    BY <1>2
  <2>8. /\ lo * w[y] \in Int /\ hi * w[y] \in Int
        /\ lo * SumFunctionOnSet(w, T) \in Int /\ hi * SumFunctionOnSet(w, T) \in Int
    BY <2>4, <2>7
  <2>9. Q(T \cup {y})
    BY <2>2, <2>3, <2>4, <2>6, <2>7, <2>8
  <2> HIDE DEF Q
  <2> QED BY <2>9
<1> HIDE DEF A, Q
<1>3. S \in A
  BY <1>1, <1>2, ElementInduction
<1> QED BY <1>3 DEF A, Q

\* Pointwise at most, so at most in all.
LEMMA SumAtMost ==
  ASSUME NEW S, IsFiniteSet(S), NEW w, NEW v,
         \A x \in S : w[x] \in Int /\ v[x] \in Int /\ v[x] <= w[x]
  PROVE  SumFunctionOnSet(v, S) <= SumFunctionOnSet(w, S)
<1> DEFINE A == {T \in SUBSET S : SumFunctionOnSet(v, T) <= SumFunctionOnSet(w, T)}
<1>1. {} \in A
  BY SumEmpty
<1>2. ASSUME NEW T \in SUBSET S, NEW y \in S, T \in A, y \notin T PROVE T \cup {y} \in A
  <2>1. IsFiniteSet(T)
    BY FS_Subset
  <2>2. SumFunctionOnSet(w, T \cup {y}) = w[y] + SumFunctionOnSet(w, T)
    BY <1>2, <2>1, SumAdd
  <2>3. SumFunctionOnSet(v, T \cup {y}) = v[y] + SumFunctionOnSet(v, T)
    BY <1>2, <2>1, SumAdd
  <2>4. SumFunctionOnSet(w, T) \in Int /\ SumFunctionOnSet(v, T) \in Int
    BY <2>1, SumInt
  <2>5. SumFunctionOnSet(v, T) <= SumFunctionOnSet(w, T)
    BY <1>2
  <2> QED BY <2>2, <2>3, <2>4, <2>5
<1> HIDE DEF A
<1>3. S \in A
  BY <1>1, <1>2, ElementInduction
<1> QED BY <1>3 DEF A

\* The sum of ones is the number of elements.
LEMMA SumOfOnes ==
  ASSUME NEW S, IsFiniteSet(S), NEW w, \A x \in S : w[x] = 1
  PROVE  SumFunctionOnSet(w, S) = Cardinality(S)
<1> DEFINE A == {T \in SUBSET S : SumFunctionOnSet(w, T) = Cardinality(T)}
<1>1. {} \in A
  BY SumEmpty, FS_EmptySet
<1>2. ASSUME NEW T \in SUBSET S, NEW y \in S, T \in A, y \notin T PROVE T \cup {y} \in A
  <2>1. IsFiniteSet(T) /\ Cardinality(T) \in Nat
    BY FS_Subset, FS_CardinalityType
  <2>2. SumFunctionOnSet(w, T \cup {y}) = w[y] + SumFunctionOnSet(w, T)
    <3>1. \A x \in T \cup {y} : w[x] \in Int
      OBVIOUS
    <3> QED BY <1>2, <2>1, <3>1, SumAdd
  <2>3. Cardinality(T \cup {y}) = Cardinality(T) + 1
    BY <1>2, <2>1, FS_AddElement
  <2> QED BY <1>2, <2>1, <2>2, <2>3
<1> HIDE DEF A
<1>3. S \in A
  BY <1>1, <1>2, ElementInduction
<1> QED BY <1>3 DEF A

\* Summing part by part, p[x] being the part of x.
LEMMA SumByPart ==
  ASSUME NEW S, IsFiniteSet(S), NEW T, IsFiniteSet(T),
         NEW p, NEW w, \A x \in S : p[x] \in T /\ w[x] \in Int
  PROVE  SumFunctionOnSet([t \in T |-> SumFunctionOnSet(w, {x \in S : p[x] = t})], T)
           = SumFunctionOnSet(w, S)
<1> DEFINE part(X, t) == {x \in X : p[x] = t}
           u(X) == [t \in T |-> SumFunctionOnSet(w, part(X, t))]
           A == {X \in SUBSET S : SumFunctionOnSet(u(X), T) = SumFunctionOnSet(w, X)}
<1>0. ASSUME NEW X \in SUBSET S
      PROVE  /\ IsFiniteSet(X) /\ SumFunctionOnSet(w, X) \in Int
             /\ \A t \in T : IsFiniteSet(part(X, t)) /\ u(X)[t] \in Int
  <2>1. IsFiniteSet(X) /\ \A t : IsFiniteSet(part(X, t))
    BY FS_Subset
  <2>2. ASSUME NEW t \in T PROVE u(X)[t] \in Int
    BY <2>1, SumInt
  <2>3. SumFunctionOnSet(w, X) \in Int
    BY <2>1, SumInt
  <2> QED BY <2>1, <2>2, <2>3
<1>1. {} \in A
  <2>1. \A t \in T : u({})[t] = 0
    <3>1. \A t : part({}, t) = {}
      OBVIOUS
    <3> QED BY <3>1, SumEmpty
  <2>2. SumFunctionOnSet(u({}), T) = 0
    <3> DEFINE z == u({})
    <3>1. \A t \in T : z[t] = 0 /\ 0 * z[t] = 0
      BY <2>1
    <3> HIDE DEF z
    <3>2. /\ 0 * SumFunctionOnSet(z, T) <= SumFunctionOnSet(z, T)
          /\ SumFunctionOnSet(z, T) <= 0 * SumFunctionOnSet(z, T)
      BY <3>1, SumBetween
    <3>3. SumFunctionOnSet(z, T) \in Int
      BY <3>1, SumInt
    <3> QED BY <3>2, <3>3 DEF z
  <2> QED BY <2>2, SumEmpty
<1>2. ASSUME NEW X \in SUBSET S, NEW y \in S, X \in A, y \notin X PROVE X \cup {y} \in A
  <2> DEFINE Y == X \cup {y}
             v == u(X)
             v2 == u(Y)
             q == p[y]
  <2>1. Y \in SUBSET S /\ q \in T /\ w[y] \in Int
    OBVIOUS
  <2>2. /\ \A t \in T : v[t] \in Int /\ v2[t] \in Int
        /\ SumFunctionOnSet(w, X) \in Int
        /\ IsFiniteSet(X) /\ IsFiniteSet(part(X, q))
    BY <1>0, <2>1
  <2>3. v2[q] = w[y] + v[q]
    <3>1. part(Y, q) = part(X, q) \cup {y} /\ y \notin part(X, q)
      BY <1>2
    <3>2. SumFunctionOnSet(w, part(X, q) \cup {y}) = w[y] + SumFunctionOnSet(w, part(X, q))
      <4> DEFINE P == part(X, q)
      <4>1. IsFiniteSet(P) /\ y \notin P /\ \A x \in P \cup {y} : w[x] \in Int
        BY <2>2, <3>1
      <4> HIDE DEF P
      <4>2. SumFunctionOnSet(w, P \cup {y}) = w[y] + SumFunctionOnSet(w, P)
        BY <4>1, SumAdd
      <4> QED BY <4>2 DEF P
    <3> QED BY <2>1, <3>1, <3>2
  <2>4. \A t \in T \ {q} : v2[t] = v[t]
    <3>1. \A t \in T \ {q} : part(Y, t) = part(X, t)
      OBVIOUS
    <3> QED BY <3>1
  <2>5. SumFunctionOnSet(v, T) = SumFunctionOnSet(w, X)
    BY <1>2
  <2>6. SumFunctionOnSet(w, Y) = w[y] + SumFunctionOnSet(w, X)
    BY <1>2, <2>2, SumAdd
  <2> HIDE DEF v, v2, q, Y
  <2>7. SumFunctionOnSet(v2, T) = v2[q] + SumFunctionOnSet(v2, T \ {q})
    BY <2>1, <2>2, SumRemove
  <2>8. SumFunctionOnSet(v, T) = v[q] + SumFunctionOnSet(v, T \ {q})
    BY <2>1, <2>2, SumRemove
  <2>9. SumFunctionOnSet(v2, T \ {q}) = SumFunctionOnSet(v, T \ {q})
    <3>1. IsFiniteSet(T \ {q})
      BY FS_Subset
    <3> QED BY <2>2, <2>4, <3>1, SumAgree
  <2>10. SumFunctionOnSet(v, T \ {q}) \in Int /\ v[q] \in Int
    <3>1. IsFiniteSet(T \ {q})
      BY FS_Subset
    <3> QED BY <2>1, <2>2, <3>1, SumInt
  <2>11. SumFunctionOnSet(v2, T) = SumFunctionOnSet(w, Y)
    BY <2>1, <2>3, <2>5, <2>6, <2>7, <2>8, <2>9, <2>10
  <2> QED BY <2>1, <2>11 DEF v2, Y
<1>3. S \in A
  <2> HIDE DEF A
  <2> QED BY <1>1, <1>2, ElementInduction
<1> QED BY <1>3

\* Counting part by part.
THEOREM CountByPart ==
  ASSUME NEW S, IsFiniteSet(S), NEW T, IsFiniteSet(T), NEW p, \A x \in S : p[x] \in T,
         NEW c, c = [t \in T |-> Cardinality({x \in S : p[x] = t})]
  PROVE  SumFunctionOnSet(c, T) = Cardinality(S)
<1> DEFINE w == [x \in S |-> 1]
           part(t) == {x \in S : p[x] = t}
           sums == [t \in T |-> SumFunctionOnSet(w, part(t))]
<1>1. \A x \in S : w[x] = 1 /\ w[x] \in Int
  OBVIOUS
<1> HIDE DEF w
<1>2. ASSUME NEW t \in T PROVE SumFunctionOnSet(w, part(t)) = Cardinality(part(t))
  <2>1. part(t) \in SUBSET S
    OBVIOUS
  <2> HIDE DEF part
  <2>2. IsFiniteSet(part(t)) /\ \A x \in part(t) : w[x] = 1
    BY <1>1, <2>1, FS_Subset
  <2> QED BY <2>2, SumOfOnes
<1>3. sums = c
  BY <1>2
<1>4. SumFunctionOnSet(sums, T) = SumFunctionOnSet(w, S)
  BY <1>1, SumByPart
<1>5. SumFunctionOnSet(w, S) = Cardinality(S)
  BY <1>1, SumOfOnes
<1> HIDE DEF sums
<1> QED BY <1>3, <1>4, <1>5
=============================================================================
