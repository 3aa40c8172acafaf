SPECIFICATION Spec
CONSTANTS
  MAX_HUFFMAN_SYMBOLS = 6
  MAX_HUFFMAN_BITS = 4
  HUFFMAN_LOOKUP_TABLE_BITS = 2
  WORD = 32
  UNINIT = UNINIT
INVARIANT TypeOK
INVARIANT RefusesNonPrefixCodes
INVARIANT SentinelsExact
INVARIANT DecodesTheCode
CHECK_DEADLOCK FALSE
