SPECIFICATION Spec
CONSTANTS
  Threads = {t1, t2}
  Blocks = {b1, b2, b3}
  Sizes = {0, 1, 5}
  MinBlockSize = 1
  MaxBlockSize = 5
  DeferLimits = {0, 2}
  WordSize = 64
  FaultSets = {{"realloc"}, {"overrun", "underrun", "double"}}
  Null = Null
SYMMETRY Symmetry
INVARIANTS
  InUseListExact
  HeapAccounted
  NoFalseAlarm
  DeferredBounded
  OwnBlocksRecognisedUnlessFailed
PROPERTY OverrunCaught
