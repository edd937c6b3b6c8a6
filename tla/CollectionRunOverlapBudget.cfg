\* Two sessions execute the same run at the same time.
CONSTANTS
  Executors = {e1, e2}
  Sources = {s1}
  Searches = {q1}
  g1 = g1
  g2 = g2
  g3 = g3
  g4 = g4
  broken = broken
  Offers <- TinyOffers
  Eligible <- TinyEligible
  FlightOf <- TinyFlightOf
  TotalOf <- TinyTotalOf
  Broken <- MCBroken
  MaxAttempts = 2
  MaxCrashes = 0
  Serial = FALSE
SPECIFICATION Spec
INVARIANTS
  AttemptBudget
