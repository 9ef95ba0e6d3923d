SPECIFICATION Spec
CONSTANTS
  Threads = {t1, t2}
  Chunks = {c1, c2, c3, c4}
  ChunkPages = 16
  HeadersPerGrowth = 2
  Requests = {1, 3}
  Null = Null
CHECK_DEADLOCK FALSE
INVARIANT ChunksKnown
