SPECIFICATION Spec
CONSTANTS
  MsgLimit = 1
  GroupLimit = 0
  MaxRC = 3
  Rekeys = 1
INVARIANTS KeysAgree InstallOnce GroupKeyCurrent
PROPERTIES FinishedStaysUp HandshakeEnds RekeyEnds
CHECK_DEADLOCK FALSE
