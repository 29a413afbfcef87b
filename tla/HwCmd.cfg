CONSTANTS
  c1 = c1
  c2 = c2
  NoCmd = NoCmd
  Cmds <- TwoCmds
  Waits <- FirstWaits
  Buffered <- SecondBuffered
  MaxOpens = 1
SPECIFICATION FairSpec
INVARIANTS HeldIsLive NoOtherLeak SuccessMeansSettled ClosedIsEmpty
PROPERTIES EveryCommandSettled EveryUpdateMade
