SPECIFICATION HeaderSpec
CONSTANTS
  LITLEN_EOB = 7
  LITLEN_MAX = 8
  DISTSYM_MAX = 2
  HLIT = 2
  HDIST = 2
  HCLEN = 2
  CODELEN_MAX_LIT = 3
  COPY_EBITS = 1
  ZEROS_EBITS = 1
  ZEROS2_EBITS = 1
  COPY_MIN = 2
  ZEROS_MIN = 2
  MaxChanges = 2
  AnySym = {0, 1, 4, 5, 6}
  UNINIT = UNINIT
  LitlenLens <- MCLitlenLens
  DistLens <- MCDistLens
  codelen_lengths_order <- MCOrder
  CodelenLength <- MCCodelenLength
INVARIANT HeaderRoundTrip
INVARIANT HeaderMeasured
INVARIANT LengthsAnnounced
CHECK_DEADLOCK FALSE
