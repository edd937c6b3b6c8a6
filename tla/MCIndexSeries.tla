--------------------------- MODULE MCIndexSeries ---------------------------
(***************************************************************************)
(* Instances of IndexSeries for TLC: four dates over two weeks of one      *)
(* month, and the runs of them with their prices.                          *)
(***************************************************************************)
EXTENDS IndexSeriesInvariant, TLC

CONSTANTS r1, r2, r3, r4, manual, near, far, week1, week2, month

\* manual is a second run of date 1, which does not count for the base.
MCRuns     == {r1, r2, r3, r4, manual}
MCDates    == 1..4
MCDateOf   == [r \in MCRuns |-> CASE r = r2 -> 2 [] r = r3 -> 3 [] r = r4 -> 4
                                  [] OTHER -> 1]
MCEligible == {r1, r2, r3, r4}

\* far has no fare on date 1, and near none on date 4.
MCItems    == {near, far}
MCPriceOf  == [r \in MCRuns |-> [i \in MCItems |->
                CASE i = near /\ r = r4 -> 0
                  [] i = far /\ r = r1 -> 0
                  [] OTHER -> 10 * MCDateOf[r] + (IF i = near THEN 1 ELSE 5)]]

MCPeriods   == {week1, week2, month}
MCPeriodsOf == [d \in MCDates |-> <<IF d <= 2 THEN week1 ELSE week2, month>>]

\* Two dates, and two runs of the first.
SmallRuns      == {r1, r2, manual}
SmallDates     == 1..2
SmallDateOf    == [r \in SmallRuns |-> MCDateOf[r]]
SmallEligible  == {r1, r2}
SmallPriceOf   == [r \in SmallRuns |-> MCPriceOf[r]]
SmallPeriods   == {week1, month}
SmallPeriodsOf == [d \in SmallDates |-> MCPeriodsOf[d]]

\* Requests are interchangeable.
MCSymmetry == Permutations(Sessions)
=============================================================================
