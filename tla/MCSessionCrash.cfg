SPECIFICATION FairSpec
CONSTANTS
  Programs <- SinglePrograms
  NoiseNum = 2
  TripleBatch = 2
  ASTRounds = 1
  BlockSize = 2
  FindB = 1
  WordBits = 2
  BatchMax = 6
  BatchOts = 16
  DoubleRounds = 2
  MergeRounds = 2
  CallRounds = 2
  Reserve = 2
  VoleNum = 10
  SetupLeft = 3
  LineMax = 100
  DelayMax = 100
  NdssMax = 20
  Crashes = TRUE
INVARIANTS
  RightMessage
  VerdictsAgree
PROPERTY Completes
