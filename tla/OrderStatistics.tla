--------------------------- MODULE OrderStatistics ---------------------------
(***************************************************************************)
(* The median of a family of prices (indexing/aggregate.py, decimal_median)*)
(* and the first dates of a set (the ordered, limited query of             *)
(* indexing/basket.py).                                                    *)
(***************************************************************************)
EXTENDS Naturals, FiniteSets

Values(f) == {f[d] : d \in DOMAIN f}

Below(f, v)  == {d \in DOMAIN f : f[d] < v}
UpTo(f, v)   == {d \in DOMAIN f : f[d] <= v}

\* sorted(values)[k - 1].
AtRank(f, k) ==
  CHOOSE v \in Values(f) : Cardinality(Below(f, v)) < k /\ k <= Cardinality(UpTo(f, v))

\* decimal_median, times two: the middle value twice, or the two middle values.
TwiceMedian(f) ==
  LET n == Cardinality(DOMAIN f)
  IN  AtRank(f, (n + 1) \div 2) + AtRank(f, n \div 2 + 1)

\* (A slip: the limit is one too high.)
EarliestOneMore(D, n) == {d \in D : Cardinality({c \in D : c < d}) <= n}

\* The n earliest of a set of dates: order_by(date).limit(n).
Earliest(D, n) == {d \in D : Cardinality({c \in D : c < d}) < n}
=============================================================================
