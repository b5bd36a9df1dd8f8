CONSTANTS
  Depths <- MCDepths
  Sizes <- MCSizes
  RamSize = 2
  RemMod = 8
  Tags = 2
SPECIFICATION FairSpec
INVARIANTS LinksInStep ReplyMatched
PROPERTY CallReturns
