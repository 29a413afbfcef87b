CONSTANTS
  l1 = l1
  l2 = l2
  k1 = k1
  r1 = r1
  w1 = w1
  w2 = w2
  s1 = s1
  s2 = s2
  NoMsg = NoMsg
  NoWdev = NoWdev
  Msgs <- FewMsgs
  Kind <- MCKind
  Owner <- MCOwner
  Unknown <- MCUnknown
  Wdevs <- MCWdevs
  Senders <- OneSender
  Cap = 2
  MaxCloses = 1
  MaxReopens = 1
SPECIFICATION FairSpec
INVARIANTS TypeOK RingConsistent PendingInOnePlace
PROPERTIES EveryMessageServed ImplementsMailbox
