SPECIFICATION PolicySpec
CONSTANTS
  Policies <- MCPolicies
  Approved <- MCApproved
  NvPolicy <- MCNvPolicy
  Requests <- MCRequests
  Restricted <- MCRestricted
  Limit = 1
  MaxTime = 2
  MaxBoots = 1
  MaxNonces = 2
  MaxMoves = 1
INVARIANTS
  
  PolicyMet
  
CHECK_DEADLOCK FALSE
