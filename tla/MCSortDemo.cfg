SPECIFICATION FairSpec
CONSTANTS
  HwThreads = {h1, h2}
  SwThreads = {s1}
  Blocks = 4
  N = 3
  Depth = 2
INVARIANTS MergesSorted SortsRight
PROPERTY Finishes
CHECK_DEADLOCK FALSE
