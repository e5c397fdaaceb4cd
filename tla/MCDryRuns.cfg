SPECIFICATION Spec
CONSTANTS
  Programs <- AnyPrograms
  NoiseNum = 1
  TripleBatch = 2
  ASTRounds = 1
  BlockSize = 2
  FindB = 1
  WordBits = 2
  BatchMax = 6
  BatchOts = 16
  DoubleRounds = 2
  MergeRounds = 2
  CallRounds = 2
  Elements = 4
  NdssMax = 40
INVARIANTS
  TypeOK
  OfflineCovers
  NothingWasted
  TapesAgree
