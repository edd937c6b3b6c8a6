\* Three sessions execute the same run at the same time.
CONSTANTS
  Executors = {e1, e2, e3}
  Sources = {s1}
  Searches = {q1}
  g1 = g1
  g2 = g2
  g3 = g3
  g4 = g4
  broken = broken
  Offers <- MCOffers
  Eligible <- MCEligible
  FlightOf <- MCFlightOf
  TotalOf <- MCTotalOf
  Broken <- MCBroken
  MaxAttempts = 1
  MaxCrashes = 0
  Serial = FALSE
SPECIFICATION Spec
INVARIANTS
  TypeOK
  CanonicalSupported
PROPERTIES
  CanonicalFrozen
SYMMETRY MCSymmetry
