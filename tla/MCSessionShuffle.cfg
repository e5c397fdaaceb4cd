SPECIFICATION Spec
CONSTANTS
  Programs <- LongPrograms
  NoiseNum = 1
  TripleBatch = 2
  ASTRounds = 10
  BlockSize = 2
  FindB = 1
  WordBits = 2
  BatchMax = 6
  BatchOts = 16
  DoubleRounds = 2
  MergeRounds = 3
  CallRounds = 2
  Reserve = 2
  VoleNum = 40
  SetupLeft = 3
  LineMax = 14
  DelayMax = 7
  NdssMax = 20
  Crashes = FALSE
INVARIANTS
  RightMessage
  NothingUnread
  VerdictsAgree
  NoFalseAlarm
  WrongMacIsFound
