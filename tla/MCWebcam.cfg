SPECIFICATION FairSpec
CONSTANTS
  Lines = 3
  HeaderLen = 2
  Window = 3
  MaxFrames = 2
  MaxClients = 2
PROPERTIES FrameReturned FrameComesBack ServesAgain
CHECK_DEADLOCK FALSE
