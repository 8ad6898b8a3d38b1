SPECIFICATION Spec
CONSTANTS
  Interval = 2
  MaxStep = 1
  Bounds <- MCBounds
INVARIANTS
  ClockNeverRepeats
  Pcr0TellsMethod
  IdentityNamesOneBoot
PROPERTY
  ResumeRestores
CHECK_DEADLOCK FALSE
