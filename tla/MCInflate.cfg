SPECIFICATION FairSpec
CONSTANTS
  Byte = {a, b}
  MaxSrcLen = 6
  MaxDstCap = 7
  SymBits <- MCSymBits
  RefBits <- MCRefBits
  HeaderBits <- MCHeaderBits
  MIN_LEN = 2
  MAX_LEN = 4
  MAX_DISTANCE = 5
  MaxStored = 2
  WIDE = 2
  UNINIT = UNINIT
INVARIANT TypeOK
INVARIANT ChunksInBuffer
INVARIANT OutputIsDecoded
INVARIANT WithinInput
PROPERTY OutputsSymbols
PROPERTY Terminates
CHECK_DEADLOCK FALSE
