CONSTANTS
  Nothing = Nothing
  Msdus <- FewMsdus
  SeqSpace = 16
  StartSeq = 13
  BAWinSize = 3
  MaxRenewals = 0
SPECIFICATION Spec
INVARIANT OldNeverGoesUp
