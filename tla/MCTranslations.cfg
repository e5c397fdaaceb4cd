SPECIFICATION Spec
CONSTANTS
  Q = 11
  Key <- MCKey
  KeyR = 4
  KeyT = 7
  Draw <- MCDraw
  GenPerm <- MCGenPerm
  Jobs <- MCJobs
  Seeds = {3, 6}
  MergeRounds = 3
  BatchSize = 4
  Errors <- MCErrors
  Places = {1}
INVARIANTS TypeOK ChecksPass FaultsAreFound MasksSpentOnce EachTranslationOnce DeltasFit EveryPermutation
CHECK_DEADLOCK FALSE
