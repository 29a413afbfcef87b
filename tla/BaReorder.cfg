CONSTANTS
  Nothing = Nothing
  Msdus <- MCMsdus
  SeqSpace = 16
  StartSeq = 13
  BAWinSize = 3
  MaxRenewals = 1
SPECIFICATION FairSpec
INVARIANTS TypeOK WindowHeld NothingReadyWaits NoWriteToFreed
  InOrderUnlessPulled
PROPERTIES BufferEmpties
