CONSTANTS
  mt = mt
  t1 = t1
  w1 = w1
  w2 = w2
  NoStation = NoStation
  Stations <- OneStation
  Callers <- OneTx
  Mlme = mt
  TableSize = 2
  MaxRetry = 2
  NumSpace = 8
  MaxQueued = 1
SPECIFICATION Spec
INVARIANT CounterNotZero
