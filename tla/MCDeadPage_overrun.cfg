SPECIFICATION Spec
CONSTANTS
  Threads = {t1, t2}
  NumPages = 6
  MaxBlockPages = 3
  MaxCachedBlocks = 1
  CheckAccessFreedBlock = FALSE
  CheckUnderrun = FALSE
  BackTraceAt = "malloc"
  TagsPerBuffer = 2
  KernelRefuses = FALSE
  Null = Null
  PageSize = 4
  HeaderSize = 2
  Alignment = 1
  Sizes = {0, 1, 4, 6}
  MinBlockSize = 0
  MaxBlockSize = 5
  HeadersPerBuffer = 1
  MaxHeaders = 0
  ForeignAddrs = {1000}
SYMMETRY ThreadSymmetry
INVARIANTS
  CacheBound
  UserBlockGuarded
  DoubleFreeCaught
  NoBlockLost
PROPERTY SysSpec
