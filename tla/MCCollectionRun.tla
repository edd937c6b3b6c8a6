-------------------------- MODULE MCCollectionRun --------------------------
(***************************************************************************)
(* Instances of CollectionRun for TLC: the quotes of the instance.         *)
(***************************************************************************)
EXTENDS CollectionRunInvariant, TLC

CONSTANTS g1, g2, g3, g4, broken

\* g2 repeats the flight and total of g1, g3 is another total for that flight, g4
\* another flight, and normalization raises on broken.
MCOffers   == {g1, g2, g3, g4, broken}
MCEligible == MCOffers \ {broken}
MCFlightOf == [o \in MCEligible |-> IF o = g4 THEN "second" ELSE "first"]
MCTotalOf  == [o \in MCEligible |-> IF o = g3 THEN 2 ELSE 1]

\* A quote, its duplicate and the broken one.
TinyOffers   == {g1, g2, broken}
TinyEligible == TinyOffers \ {broken}
TinyFlightOf == [o \in TinyEligible |-> MCFlightOf[o]]
TinyTotalOf  == [o \in TinyEligible |-> MCTotalOf[o]]

MCBroken == {broken}

\* Sessions are interchangeable.
MCSymmetry == Permutations(Executors)
=============================================================================
