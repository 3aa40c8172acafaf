SPECIFICATION Spec
CONSTANTS
  LFH_BASE_SZ = 2
  CFH_BASE_SZ = 2
  EOCDR_BASE_SZ = 2
  UINT16_MAX = 4
  UINT32_MAX = 24
  MaxMembers = 2
  NONE = NONE
  SrcLens <- MCSrcLens
  Names <- MCNames
  Contents <- MCContents
  Comments <- MCComments
  Times <- MCTimes
  AnyEocdr <- MCAnyEocdr
  AnyCfh <- MCAnyCfh
  AnyLfh <- MCAnyLfh
INVARIANT FitsMaxSize
INVARIANT RoundTrip
INVARIANT MembersReadable
CHECK_DEADLOCK FALSE
