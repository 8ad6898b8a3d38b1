SPECIFICATION Spec
CONSTANTS
  Conns = {c1, c2, c3}
  Limit = 2
  Backlog = 1
  MaxRequests = 2
INVARIANTS
  ServedWithinLimit
  NoSlotLost
  LocalityInForce
PROPERTIES
  FlagStops
  NobodyWaitsForEver
CHECK_DEADLOCK FALSE
