SPECIFICATION Spec
CONSTANTS
  Threads = {main, t1}
  Main = main
  Addrs = {a, b}
  Null = Null
  NullPtr = Null
  MaxOps = 3
  MaxTime = 1
  BufferUnits = 5
  IOFails = TRUE
  MaxTimestamp = 2
  MaxRecNum = 4
  MaxThreadID = 16777216
  ThreadIdRange = 262144
  WriteFails = TRUE
CHECK_DEADLOCK FALSE
INVARIANTS
  LogsComplete
  OutputMatched
  OutputSeparated
  PairedTruly
  ViewsAgree
PROPERTY Finishes
