SPECIFICATION Spec
CONSTANTS
  Second = 3
  Timeouts = {0, 1, 2, 4}
  MaxStep = 3
  MaxSets = 2
  MaxFaults = 2
INVARIANTS
  NotExtended
PROPERTY StopsInTheEnd
CHECK_DEADLOCK FALSE
