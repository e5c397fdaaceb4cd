SPECIFICATION Spec
CONSTANTS
  BaseNum = 2
  VoleNum = 5
  SetupNum = 3
  MaxRequest = 10
  MaxCalls = 3
INVARIANTS
  SeedsSpentOnce
