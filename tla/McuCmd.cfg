CONSTANTS
  m1 = m1
  m2 = m2
  m3 = m3
  NoCmd = NoCmd
  Cmds <- ThreeCmds
  Sync <- TwoSync
  StaRec <- OneStaRec
  SeqMax = 1
SPECIFICATION FairSpec
INVARIANTS TypeOK OneList NoDangling AckqHoldsWaiters NeverSpins OwnAnswer ReturnTellsAnswer NothingLeft
PROPERTY EveryCallReturns
CHECK_DEADLOCK FALSE
