\* Two requests at the same time.
CONSTANTS
  Sessions = {e1, e2}
  r1 = r1
  r2 = r2
  r3 = r3
  r4 = r4
  manual = manual
  near = near
  far = far
  week1 = week1
  week2 = week2
  month = month
  Runs <- SmallRuns
  NoRun = NoRun
  Dates <- SmallDates
  DateOf <- SmallDateOf
  Eligible <- SmallEligible
  Items <- MCItems
  PriceOf <- SmallPriceOf
  BaseDates = 1
  MinCoverage = 80
  Periods <- SmallPeriods
  PeriodsOf <- SmallPeriodsOf
  MaxCrashes = 0
  Serial = FALSE
SPECIFICATION Spec
PROPERTIES
  BaseFrozen
