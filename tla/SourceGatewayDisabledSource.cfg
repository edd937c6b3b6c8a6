\* A run left open by a crash is resumed after the operator disabled its source.
CONSTANTS
  Searches = {q1}
  Settings <- OperatorSettings
  Interval = 1
  CrawlDelay = 1
  Timeout = 1
  MaxAttempts = 1
  MaxOthers = 0
  MaxCrashes = 1
SPECIFICATION Spec
INVARIANTS
  CallsEnabled
CHECK_DEADLOCK FALSE
