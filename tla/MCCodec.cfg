SPECIFICATION CodecSpec
CONSTANTS
  Byte <- MCTwoBytes
  MaxSrcLen = 12
  HASH_SIZE = 2
  HASH_SHIFT = 1
  LZ_WND_SIZE = 7
  LZ_MAX_LEN = 5
  MAX_MATCH_STEPS = 4
  GOOD_MATCH_LEN = 3
  NO_POS = NO_POS
  UNINIT = UNINIT
INVARIANT FindsBestTried
INVARIANT DecodedIsSource
CHECK_DEADLOCK FALSE
