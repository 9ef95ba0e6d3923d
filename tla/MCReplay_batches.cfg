SPECIFICATION ToolSpec
CONSTANTS
  Threads = {1, 2}
  NumOps = 3
  Scripts <- MCScripts
  TotalThreads = 2
  SizeInBytes <- MCSizeInBytes
  gBucketBoundary <- MCBoundary
  ChunkSize = 6
  NodeSize = 1
  EntrySize = 2
INVARIANTS
  BatchInLog
  HeapAsLogged
  BufferNotOverwritten
  NodesExact
  AnalysisExact
  BlocksApart
PROPERTY Terminates
