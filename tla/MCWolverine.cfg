SPECIFICATION FairSpec
CONSTANTS
  BaseNum = 2
  VoleNum = 5
  SetupNum = 3
  InplaceFrom = 6
  RefreshReserve = TRUE
  MaxRequest = 10
  MaxCalls = 3
INVARIANTS
  TypeOK
  CursorsInBounds
  SeedsSpentOnce
  SeedsPaired
  NothingLost
PROPERTIES
  StreamSpec
  CallsReturn
