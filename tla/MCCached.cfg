SPECIFICATION Spec
CONSTANTS
  Requests <- SmallRequests
  MaxEvents = 4
INVARIANTS
  TypeOK
  GenerationsMatch
  OfflineIsEnough
PROPERTY Streams
