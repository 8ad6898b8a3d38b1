SPECIFICATION ObjectsSpec
CONSTANTS
  Primaries <- MCPrimaries
  Children <- MCChildren
  Externals <- MCExternals
  MaxLoaded = 2
  MaxKept = 1
  MaxMade = 3
  MaxTurns = 2
INVARIANTS
  NothingOutlivesItsHierarchy
  StateClearEnds
  OffMeansEmpty
CHECK_DEADLOCK FALSE
