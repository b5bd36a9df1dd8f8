CONSTANTS
  Dirs = {d1}
  Tables = {t1, t2, t3}
  Frames = {f1, f2}
  MayMap <- MCMayMap
  Unmapped = none
  TlbSize = 2
  Lens = {1, 2}
  Resets = 2
  d1 = d1 t1 = t1 t2 = t2 t3 = t3 f1 = f1 f2 = f2 none = none
SPECIFICATION FairSpec
INVARIANTS TlbUnique TlbCurrent RequestsSound
PROPERTY Served
