SPECIFICATION FairSpec
CONSTANTS
  n = 5
  MaxFreq = 5
  MaxLens = {3, 4}
  UNIT = 13
  UNINIT = UNINIT
INVARIANT LengthsTypeOK
INVARIANT ForestIntact
INVARIANT CompleteCode
INVARIANT Optimal
PROPERTY Terminates
CHECK_DEADLOCK FALSE
