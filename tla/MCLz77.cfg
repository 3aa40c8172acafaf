SPECIFICATION FairSpec
CONSTANTS
  Byte <- MCTwoBytes
  MaxSrcLen = 10
  HASH_SIZE = 3
  HASH_SHIFT = 1
  LZ_WND_SIZE = 4
  LZ_MAX_LEN = 5
  MAX_MATCH_STEPS = 4
  GOOD_MATCH_LEN = 9
  NO_POS = NO_POS
  UNINIT = UNINIT
INVARIANT TypeOK
INVARIANT IndexExact
INVARIANT WalkInsideChain
INVARIANT FindsLongestMostRecent
PROPERTY LazyParse
PROPERTY DescribesSource
PROPERTY Terminates
CHECK_DEADLOCK FALSE
