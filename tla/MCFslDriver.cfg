CONSTANTS
  r1 = r1
  r2 = r2
  p1 = p1
  Readers <- MCReaders
  Pollers <- MCPollers
  Depth = 3
  MaxRead = 2
  Residue = FALSE
SPECIFICATION FslFairSpec
INVARIANTS SleeperArmed CountsSound
PROPERTY WordWakes
