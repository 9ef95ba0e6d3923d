SPECIFICATION Spec
CONSTANTS
  Threads = {t1}
  NumPages = 6
  MaxBlockPages = 3
  MaxCachedBlocks = 1
  CheckAccessFreedBlock = FALSE
  CheckUnderrun = FALSE
  BackTraceAt = "never"
  TagsPerBuffer = 2
  KernelRefuses = FALSE
  Null = Null
  PageSize = 4
  HeaderSize = 2
  Alignment = 1
  Sizes = {1, 4}
  MinBlockSize = 1
  MaxBlockSize = 5
  HeadersPerBuffer = 1
  MaxHeaders = 0
  ForeignAddrs = {1000}
INVARIANT DeadPageSet
