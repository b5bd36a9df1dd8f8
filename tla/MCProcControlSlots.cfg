CONSTANTS
  p1 = p1
  c1 = c1
  NoPage = NoPage
  NumSlots = 2
  Pages <- MCNone
  Clients <- MCNone
  Depth = 16
  ResetTicks = 2
  MaxProcs = 1
  InitLate = TRUE
  Setups <- MCPlain
SPECIFICATION Spec
INVARIANT StartedRuns
CHECK_DEADLOCK FALSE
