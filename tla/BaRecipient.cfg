CONSTANTS
  w1 = w1
  w2 = w2
  NoStation = NoStation
  Stations <- TwoStations
  TableSize = 2
  BAWinSize = 2
SPECIFICATION Spec
INVARIANTS SessionsMatch FramesSafe RefusalMeansFull
SYMMETRY Symmetry
