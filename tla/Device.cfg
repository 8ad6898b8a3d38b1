SPECIFICATION Spec
CONSTANTS
  Clients = {a, b}
  MaxCommands = 3
SYMMETRY Symmetry
INVARIANTS
  RefusedStaysOut
  AckedIsDurable
  NothingSeenLate
  QuietIsSaved
CHECK_DEADLOCK FALSE
