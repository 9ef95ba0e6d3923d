------------------------------ MODULE LogAnalysis ------------------------------
(***************************************************************************)
(* The two modes of the replay tool that execute nothing: AnalyzeTiming    *)
(* (-t) follows the outstanding blocks through a consolidated log in a     *)
(* hash table of its own, whose entries live in the internal buffer;       *)
(* PrintAll (-p) lists the records and counts them.  The figures per       *)
(* module and the wording of the reports are left out.                     *)
(***************************************************************************)
EXTENDS ConsolidatedLog, InternalBuffer

CONSTANTS
  TotalThreads,      \* of the log's header
  SizeInBytes,       \* the bytes "small" and "big" stand for
  gBucketBoundary    \* the upper ends of the size buckets but the last

ASSUME AnalysisAssumption ==
  TotalThreads \in Nat /\ SizeInBytes \in [{"small", "big"} -> Nat]

VARIABLES
  cursor,            \* lpCursor, lTotalReadSize: the records read
  recSeqNo,          \* lRecSeqNumber
  gHashTable,        \* the outstanding blocks: number, size, address of the entry
  outstanding,       \* lOutstandingBlockSz, lOutstandingBlocks, lOutstandingBlocksPerThread
  peaks,             \* lPeakOutstandBytes, lPeakOutstandBlocks, with their numbers, and
                     \* lPeakOutstandBlocksPerThread
  totalBuckets,      \* TotalBuckets
  opCounts           \* PrintAll's figures

timingVars == <<gHashTable, outstanding, peaks, totalBuckets>>
analysisVars == <<cursor, recSeqNo, timingVars, opCounts, pool>>

AllZero(S) == [x \in S |-> 0]

AnalysisInit ==
  /\ cursor = 0 /\ recSeqNo = 1 /\ gHashTable = {}
  /\ outstanding = [bytes |-> 0, blocks |-> 0, perThread |-> AllZero(0 .. TotalThreads)]
  /\ peaks = [bytes |-> 0, bytesSeqNo |-> 0, blocks |-> 0, blocksSeqNo |-> 0,
              perThread |-> AllZero(0 .. TotalThreads)]
  /\ totalBuckets = AllZero(0 .. Len(gBucketBoundary))
  /\ opCounts = AllZero({"malloc", "free", "realloc", "unknown"})
  /\ PoolInit

-------------------------------------------------------------------------------
\* BlockSize2BucketIndex: the boundaries below the size.
BucketIndex(size) ==
  Cardinality({i \in DOMAIN gBucketBoundary : size > gBucketBoundary[i]})

\* Bug: a block is taken off the thread that frees it.
BugCounted(byOther, t) == t

\* Blocks another thread frees are counted for thread 0.
Counted(byOther, t) == IF byOther THEN 0 ELSE t

\* HashFindBlock: take the entry of block n out and release it.
Taken(n) == {e \in gHashTable : e.mSeqNo = n}
AfterRelease(y, r, e) ==
  [bytes     |-> y.bytes - e.mSize,
   blocks    |-> y.blocks - 1,
   perThread |-> [y.perThread EXCEPT ![Counted(r.mAllocatedByOtherThread, r.mThreadID)] = @ - 1]]

AfterAllocation(y, r) ==
  [bytes     |-> y.bytes + SizeInBytes[AllocatedSize(r)],
   blocks    |-> y.blocks + 1,
   perThread |-> [y.perThread EXCEPT ![Counted(r.mFreeByOtherThread, r.mThreadID)] = @ + 1]]

\* lThreadIndex: whose count a record has changed last, nobody's if it is an unmatched free.
ThreadIndex(r) ==
  IF Allocates(r) THEN {Counted(r.mFreeByOtherThread, r.mThreadID)}
  ELSE IF Releases(r) THEN {Counted(r.mAllocatedByOtherThread, r.mThreadID)} ELSE {}

\* Record r is counted; then the peaks are compared, under the next number.
Higher(q, y, n, r) ==
  [bytes       |-> IF q.bytes < y.bytes THEN y.bytes ELSE q.bytes,
   bytesSeqNo  |-> IF q.bytes < y.bytes THEN n ELSE q.bytesSeqNo,
   blocks      |-> IF q.blocks < y.blocks THEN y.blocks ELSE q.blocks,
   blocksSeqNo |-> IF q.blocks < y.blocks THEN n ELSE q.blocksSeqNo,
   perThread   |-> [t \in 0 .. TotalThreads |->
                     IF t \in ThreadIndex(r) /\ q.perThread[t] < y.perThread[t]
                     THEN y.perThread[t] ELSE q.perThread[t]]]

AnalyzeTimestamp(log) ==
  /\ IsTimestamp(log[cursor + 1])
  /\ cursor' = cursor + 1
  /\ UNCHANGED <<recSeqNo, timingVars, opCounts, pool>>

\* The block a record makes: its entry, number and size.
NewEntry(p, r) == [mSeqNo |-> recSeqNo, mSize |-> SizeInBytes[AllocatedSize(r)], at |-> Popped(p).at]

\* A record whose block is not in the table is read again and again: no step.
AnalyzeOperation(log) ==
  LET r == log[cursor + 1]
      taken == IF Releases(r) THEN Taken(r.mMatchedMalloc) ELSE {}
      old == CHOOSE e \in taken : TRUE
      p == IF taken = {} THEN pool ELSE Released(pool, old.at)
      y == IF taken = {} THEN outstanding ELSE AfterRelease(outstanding, r, old)
  IN  /\ ~IsTimestamp(r)
      /\ Releases(r) => taken # {}
      /\ pool' = IF Allocates(r) THEN Got(p) ELSE p
      /\ gHashTable' = (gHashTable \ taken) \cup (IF Allocates(r) THEN {NewEntry(p, r)} ELSE {})
      /\ outstanding' = IF Allocates(r) THEN AfterAllocation(y, r) ELSE y
      /\ totalBuckets' =
           IF Allocates(r)
           THEN [totalBuckets EXCEPT ![BucketIndex(SizeInBytes[AllocatedSize(r)])] = @ + 1]
           ELSE totalBuckets
      /\ recSeqNo' = recSeqNo + 1
      /\ peaks' = Higher(peaks, outstanding', recSeqNo', r)
      /\ cursor' = cursor + 1
      /\ UNCHANGED opCounts

AnalyzeTiming(log) == AnalyzeTimestamp(log) \/ AnalyzeOperation(log)

\* PrintAll: what is counted for a record.  A timestamp has no number.
Kinds(r) ==
  {k \in {"malloc", "realloc"} : r.mType = k}
    \cup (IF r.mType = "free" /\ Releases(r) THEN {"free"} ELSE {})
    \cup (IF r.mType \in {"free", "realloc"} /\ ~Releases(r) THEN {"unknown"} ELSE {})

PrintAll(log) ==
  LET r == log[cursor + 1]
  IN  /\ cursor' = cursor + 1
      /\ recSeqNo' = IF IsTimestamp(r) THEN recSeqNo ELSE recSeqNo + 1
      /\ opCounts' = [k \in DOMAIN opCounts |-> IF k \in Kinds(r) THEN opCounts[k] + 1 ELSE opCounts[k]]
      /\ UNCHANGED <<timingVars, pool>>

\* Both loops end with the file or behind the operation AT_END_RECORD names.  AnalyzeTiming
\* tests that after an operation, PrintAll after any record, so one is always read.
TimingFinished(log, gEndRecNo) ==
  cursor = Len(log) \/ (recSeqNo > 1 /\ recSeqNo > gEndRecNo)
PrintFinished(log, gEndRecNo) ==
  cursor = Len(log) \/ (cursor > 0 /\ recSeqNo > gEndRecNo)

-------------------------------------------------------------------------------
\* The figures the records of a log ask for, from what the logged program had.
BytesUpTo(log, S) ==
  LET upTo[n \in 0 .. Len(Operations(log))] ==
        IF n = 0 THEN 0
        ELSE IF n \in S THEN upTo[n - 1] + SizeInBytes[AllocatedSize(Operations(log)[n])]
        ELSE upTo[n - 1]
  IN upTo
BytesOf(log, S) == BytesUpTo(log, S)[Len(Operations(log))]

\* The analysis follows the program: after every record the table is the blocks the
\* program had, with an entry of its own each, the bytes and blocks are theirs, also per
\* thread, and the peaks are the highest there were, those of all threads under the number
\* behind the one that reached them.
TimingExact(log) ==
  LET n == recSeqNo - 1
      out == Outstanding(log)[n]
      op(m) == Operations(log)[m]
      BlocksAfter(k) == Cardinality(Outstanding(log)[k])
      BytesAfter(k) == BytesOf(log, Outstanding(log)[k])
      ThreadsAfter(k, t) ==
        Cardinality({m \in Outstanding(log)[k] :
                       t = IF op(m).mFreeByOtherThread THEN 0 ELSE op(m).mThreadID})
  IN  /\ {e.mSeqNo : e \in gHashTable} = out
      /\ Cardinality(gHashTable) = Cardinality(out)
      /\ {e.at : e \in gHashTable} = pool.handed
      /\ Cardinality(pool.handed) = Cardinality(out)
      /\ outstanding.blocks = Cardinality(out) /\ outstanding.bytes = BytesAfter(n)
      /\ \A t \in 0 .. TotalThreads :
           /\ outstanding.perThread[t] = ThreadsAfter(n, t)
           /\ \A k \in 0 .. n : ThreadsAfter(k, t) <= peaks.perThread[t]
           /\ \E k \in 0 .. n : ThreadsAfter(k, t) = peaks.perThread[t]
      /\ \A k \in 0 .. n : BytesAfter(k) <= peaks.bytes /\ BlocksAfter(k) <= peaks.blocks
      /\ peaks.bytes > 0 => BytesAfter(peaks.bytesSeqNo - 1) = peaks.bytes
      /\ peaks.blocks > 0 => BlocksAfter(peaks.blocksSeqNo - 1) = peaks.blocks

\* What PrintAll counts accounts for every operation, an unmatched realloc twice, and the
\* matched ones for the blocks that are left.
PrintExact(log) ==
  LET n == recSeqNo - 1
      read == 1 .. n
      matched(k) == Cardinality({m \in read : Operations(log)[m].mType = k
                                              /\ Releases(Operations(log)[m])})
  IN  /\ opCounts["malloc"] + opCounts["realloc"] - opCounts["free"] - matched("realloc")
           = Cardinality(Outstanding(log)[n])
      /\ opCounts["unknown"] + matched("free") + matched("realloc")
           = Cardinality({m \in read : Operations(log)[m].mType # "malloc"})
================================================================================
