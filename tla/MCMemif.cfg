CONSTANTS
  Depth = 8
  BlockSize = 2
  Words = 5
  MaxOps = 4
  Drained = FALSE
  Ops <- MixedOps
SPECIFICATION FairSpec
PROPERTIES SoundWithRoom ArrivedWithRoom OpEnds
