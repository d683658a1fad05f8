SPECIFICATION FairSpec
CONSTANTS
  BlockCount = 12
  PerBlock = 4
  MinCount = 2
  MaxBlocks = 1
  U64Max = 20
  Images <- MCImages
PROPERTY InitReturns
