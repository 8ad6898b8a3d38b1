SPECIFICATION AuthorizationSpec
CONSTANTS
  Callers = {"old", "new"}
  Knows <- MCKnows
  Entities = {1}
  MaxSessions = 2
  MaxNonces = 4
  MaxNet = 1
INVARIANTS
  
  OldValueCutOff
  LogUnbroken
CHECK_DEADLOCK FALSE
