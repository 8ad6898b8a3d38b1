SPECIFICATION Spec
CONSTANTS
  Handles = {n1, n2}
  Publics <- Areas
  Counters = 1
  OrderlyStep = 2
  MaxCount = 3
  MaxBoots = 2
SYMMETRY Symmetry
PROPERTIES
  IncrementsNeverRepeat
  CounterOnlyGrows
  WriteLockHolds
CHECK_DEADLOCK FALSE
