CONSTANTS
  mt = mt
  t1 = t1
  w1 = w1
  w2 = w2
  NoStation = NoStation
  Stations <- TwoStations
  Callers <- OneTx
  Mlme = mt
  TableSize = 2
  MaxRetry = 2
  NumSpace = 3
  MaxQueued = 1
SPECIFICATION FairSpec
INVARIANTS RefusalMeansFull CountersExact SessionReachable BitmapBacked
PROPERTY WaitingEnds
CONSTRAINT NotStale
