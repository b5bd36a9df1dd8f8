CONSTANTS
  s1 = s1
  s2 = s2
  s3 = s3
  mu1 = mu1
  sem1 = sem1
  cond1 = cond1
  mb1 = mb1
  rq1 = rq1
  m1 = m1
  b1 = b1
  b2 = b2
  Nothing = Nothing
  BadHandle = BadHandle
  Slots <- MCSlots
  Mutexes <- MCMutexes
  Sems <- MCSems
  Conds <- MCConds
  Mboxes <- MCMboxes
  Rqs <- MCRqs
  Programs <- MCPrograms
  Messages <- MCMessages
  MsgSizes <- MCMsgSizes
  Blocks <- MCBlocks
  Capacity = 1
  SemMax = 1
  Misuse <- MCMisuse
SPECIFICATION FairSpec
INVARIANTS HeldIsOwned HeapSound
PROPERTY Answered
CHECK_DEADLOCK FALSE
