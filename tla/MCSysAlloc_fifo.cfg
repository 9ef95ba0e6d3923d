SPECIFICATION FifoSpec
CONSTANTS
  Threads = {t1, t2}
  NumPages = 7
  MaxBlockPages = 3
  MaxCachedBlocks = 2
  CheckAccessFreedBlock = TRUE
  CheckUnderrun = TRUE
  BackTraceAt = "free"
  TagsPerBuffer = 2
  KernelRefuses = TRUE
  Null = Null
SYMMETRY ThreadSymmetry
INVARIANTS
  SysTypeOK
  NoPageTwice
  NoPageLost
  TagsConserved
  HeadersAccessible
PROPERTY QuarantineInOrder
