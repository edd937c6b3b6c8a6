\* One session at a time, killed once and started again.
CONSTANTS
  Executors = {e1}
  Sources = {s1}
  Searches = {q1}
  g1 = g1
  g2 = g2
  g3 = g3
  g4 = g4
  broken = broken
  Offers <- TinyOffers
  Eligible <- TinyEligible
  FlightOf <- TinyFlightOf
  TotalOf <- TinyTotalOf
  Broken <- MCBroken
  MaxAttempts = 2
  MaxCrashes = 1
  Serial = TRUE
SPECIFICATION Spec
INVARIANTS
  OneAnswerPerQuery
