SPECIFICATION FairSpec
CONSTANTS
  Ports = 3
  Depth = 3
  Page = 3
  Burst = 2
  Requests <- MCRequests
INVARIANTS Framed Returned ChunkFits
PROPERTY Served
