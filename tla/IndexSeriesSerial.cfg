\* One request at a time, killed at any point and repeated in any order.
CONSTANTS
  Sessions = {e1}
  r1 = r1
  r2 = r2
  r3 = r3
  r4 = r4
  manual = manual
  near = near
  far = far
  week1 = week1
  week2 = week2
  month = month
  Runs <- MCRuns
  NoRun = NoRun
  Dates <- MCDates
  DateOf <- MCDateOf
  Eligible <- MCEligible
  Items <- MCItems
  PriceOf <- MCPriceOf
  BaseDates = 2
  MinCoverage = 80
  Periods <- MCPeriods
  PeriodsOf <- MCPeriodsOf
  MaxCrashes = 1
  Serial = TRUE
SPECIFICATION AskedSpec
INVARIANTS
  SeriesSharesBase
  BaseDated
  PeriodLineage
  PeriodsCurrent
  ContractInv
PROPERTIES
  ContractSpec
  PeriodsCatchUp
