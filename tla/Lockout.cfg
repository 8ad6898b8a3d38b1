SPECIFICATION Spec
CONSTANTS
  Default <- MCDefault
  Params <- MCParams
  PinLimit = 1
  MaxStep = 1
  MaxLived = 2
  MaxGuesses = 3
  MaxBusy = 2
INVARIANTS
  NoGuessForgotten
  RecoveryIsEarned
  
CHECK_DEADLOCK FALSE
