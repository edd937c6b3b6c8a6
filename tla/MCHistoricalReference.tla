------------------------ MODULE MCHistoricalReference ------------------------
(* Small instances of HistoricalReference.                                 *)
EXTENDS HistoricalReference

Line(m, scope, v) == [month |-> m, scope |-> scope, value |-> v]

\* Two contents of one code (one starts at zero), a series with a month twice and
\* a zero later, a file whose route rows clash and one with a bad line.
Full  == [code |-> "A", lines |-> <<Line(1, "NATIONAL", 2), Line(2, "NATIONAL", 3), Line(3, "NATIONAL", 4)>>]
Other == [code |-> "A", lines |-> <<Line(1, "NATIONAL", 0), Line(2, "ROUTE", 5)>>]
Zero  == [code |-> "B", lines |-> <<Line(1, "NATIONAL", 2), Line(1, "NATIONAL", 3), Line(2, "NATIONAL", 0)>>]
Clash == [code |-> "C", lines |-> <<Line(1, "ROUTE", 2), Line(1, "ROUTE", 3)>>]
Bad   == [code |-> "A", lines |-> <<Line(1, "NATIONAL", 2), Line(2, "BAD", 2)>>]

MCPayloads == {Full, Other, Zero, Clash, Bad}

Months3(a, b, c) == [m \in 1..3 |-> IF m = 1 THEN a ELSE IF m = 2 THEN b ELSE c]
MCMonths == 1..3
MCHistories == {Months3(4, 5, 6), Months3(None, 5, NoRow)}
=============================================================================
