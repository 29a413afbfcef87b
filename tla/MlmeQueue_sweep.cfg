CONSTANTS
  l1 = l1
  l2 = l2
  r1 = r1
  k1 = k1
  w1 = w1
  w2 = w2
  s1 = s1
  s2 = s2
  NoMsg = NoMsg
  NoWdev = NoWdev
  Msgs <- MCMsgs
  Kind <- MCKind
  Owner <- MCOwner
  Unknown <- MCUnknown
  Wdevs <- MCWdevs
  Senders <- MCSenders
  Cap = 3
  MaxCloses = 1
  MaxReopens = 0
SPECIFICATION Spec
PROPERTY SweepSparesOthers
