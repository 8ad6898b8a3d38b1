SPECIFICATION ExecutionSpec
CONSTANTS
  Handles = {1, 2}
  Auditable <- MCAuditable
  Pages = {1}
  MaxLog = 2
  MaxCounter = 1
INVARIANTS
  ReportsChain
  PagesComplete
  
CHECK_DEADLOCK FALSE
