CONSTANTS
  p1 = p1
  p2 = p2
  g1 = g1
  g2 = g2
  m1 = m1
  m2 = m2
  NoMessage = NoMessage
  NoThread = NoThread
  Size = 2
  Putters <- MCPutters
  Getters <- MCGetters
  Messages <- MCMessages
SPECIFICATION MboxFairSpec
INVARIANT NoSlotRace
PROPERTIES RefinesFifo NoCreditLost
