SPECIFICATION Spec
CONSTANTS
  Threads = {t1, t2}
  Blocks = {b1, b2, b3, b4}
  Sizes = {1, 3}
  MinBlockSize = 1
  MaxBlockSize = 3
  DeferLimits = {3}
  WordSize = 64
  FaultSets = {{}}
  Null = Null
SYMMETRY Symmetry
INVARIANT NoFreedAccess
