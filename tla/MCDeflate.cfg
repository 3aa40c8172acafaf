SPECIFICATION Spec
CONSTANTS
  MaxSrcLen = 7
  DstCap <- MCDstCap
  Lit <- MCLit
  LITLEN_EOB = "EOB"
  Ref <- MCRef
  LenSym = {"L"}
  DistSym = {"D"}
  len2litlen <- MCLen2Litlen
  distance2dist <- MCDistance2Dist
  litlen_ebits <- MCLitlenEbits
  dist_ebits <- MCDistEbits
  fixed_litlen_lengths <- MCFixedLitlen
  fixed_dist_lengths <- MCFixedDist
  DynLitlen <- MCDynLitlen
  DynDist <- MCDynDist
  DynHeader <- MCDynHeader
  MAX_BLOCK_LEN_BYTES = 3
  WORD = 5
  SIZE_RANGE = 1024
INVARIANT TypeOK
INVARIANT BlockWithinLimits
INVARIANT WrittenAsMeasured
INVARIANT FailsOnlyWhenFull
INVARIANT NeverLongerThanStored
PROPERTY WritesStream
CHECK_DEADLOCK FALSE
