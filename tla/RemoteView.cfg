\* One page, opened twice, with three clicks while the server's data changes.
CONSTANTS
  Parts <- MCParts
  Listed <- MCListed
  MaxClicks = 3
  MaxVisits = 1
SPECIFICATION Spec
INVARIANTS
  ShownIsAsked
  DetailNotOlder
PROPERTIES
  LoadingEnds
CHECK_DEADLOCK FALSE
