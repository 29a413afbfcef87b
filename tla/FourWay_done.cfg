SPECIFICATION Spec
CONSTANTS
  MsgLimit = 1
  GroupLimit = 0
  MaxRC = 3
  Rekeys = 1
PROPERTY TimeoutMeansUnfinished
CHECK_DEADLOCK FALSE
