CONSTANTS
  p1 = p1
  c1 = c1
  NoPage = NoPage
  NumSlots = 1
  Pages <- MCOnePage
  Clients <- MCOneClient
  Depth = 16
  ResetTicks = 2
  MaxProcs = 3
  InitLate = TRUE
  Setups <- MCSetups
SPECIFICATION FairSpec
INVARIANTS RetryReady ReplyExpected CoreSound
PROPERTIES FaultServed ClientReturns InitTakes
CHECK_DEADLOCK FALSE
