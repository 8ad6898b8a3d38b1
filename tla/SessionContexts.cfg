SPECIFICATION Spec
CONSTANTS
  MaxLoaded = 2
  MaxActive = 2
  Gap = 1
  U64Max = 4
  MaxEpoch = 2
INVARIANTS
  
  SavedStaysLoadable
  GapHasRemedy
CHECK_DEADLOCK FALSE
