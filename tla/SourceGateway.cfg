\* One session at a time; settings, administrators and crashes around it.
CONSTANTS
  Searches = {q1, q2}
  Settings <- MCSettings
  Interval = 2
  CrawlDelay = 2
  Timeout = 1
  MaxAttempts = 2
  MaxOthers = 1
  MaxCrashes = 1
SPECIFICATION Spec
INVARIANTS
  TypeOK
PROPERTIES
  CallsPermitted
  Spaced
  RefusalStands
  SessionEnds
CHECK_DEADLOCK FALSE
