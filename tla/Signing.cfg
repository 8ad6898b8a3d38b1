SPECIFICATION SigningSpec
CONSTANTS
  Keys <- MCKeys
  N = 2
  W = 4
  MaxCount = 5
  MaxEpoch = 1
INVARIANTS
  
  StillUsable
  NothingPassedOff

  
CHECK_DEADLOCK FALSE
