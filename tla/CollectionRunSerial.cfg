\* One session at a time, killed at any point and asked for again.
CONSTANTS
  Executors = {e1}
  Sources = {s1, s2}
  Searches = {q1}
  g1 = g1
  g2 = g2
  g3 = g3
  g4 = g4
  broken = broken
  Offers <- TinyOffers
  Eligible <- TinyEligible
  FlightOf <- TinyFlightOf
  TotalOf <- TinyTotalOf
  Broken <- MCBroken
  MaxAttempts = 2
  MaxCrashes = 2
  Serial = TRUE
SPECIFICATION AskedSpec
INVARIANTS
  AttemptBudget
  FinishedRunAccounts
  FinishedRunIsCanonical
  SerialInv
PROPERTIES
  SettledStays
  ContractSpec
  SessionEnds
  RunSettles
