CONSTANTS
  CHAR_BIT = 3
  WORD = 2
  MaxCap = 3
SPECIFICATION Spec
INVARIANT StreamIsExact
CHECK_DEADLOCK FALSE
