SPECIFICATION Spec
CONSTANTS
  Threads = {t1, t2}
  NumPages = 4
  MaxBlockPages = 3
  MaxCachedBlocks = 1
  CheckAccessFreedBlock = TRUE
  CheckUnderrun = TRUE
  BackTraceAt = "never"
  TagsPerBuffer = 2
  KernelRefuses = FALSE
  Null = Null
  PageSize = 4
  HeaderSize = 2
  Alignment = 1
  Sizes = {1, 2, 4}
  MinBlockSize = 2
  MaxBlockSize = 4
  HeadersPerBuffer = 1
  MaxHeaders = 2
  ForeignAddrs = {1000}
SYMMETRY ThreadSymmetry
INVARIANTS
  BlockRecognised
  QuarantineTraps
