---------------------------- MODULE ConsolidatedLog ----------------------------
(***************************************************************************)
(* The consolidated log (the AT_CONSOLIDATED_ structs of                   *)
(* src/src/MallocLogger.h): what the consolidator writes and the replay    *)
(* tool reads.  A log is a sequence of records.  Timestamps separate the   *)
(* operations; an operation is known by its sequence number, which counts  *)
(* the operations from 1 and skips the timestamps; 0 is "no operation".    *)
(* Sizes and positions in the file are in units of four bytes.             *)
(***************************************************************************)
EXTENDS Integers, Sequences, FiniteSets

\* sizeof of the four structs, and of AT_CONSOLIDATED_GENERIC, their common part.
RecordSize == [timestamp |-> 2, malloc |-> 2, free |-> 3, realloc |-> 4]
GenericSize == 1

Timestamp == [mType |-> "timestamp"]
Malloc(t, size, byOther) ==
  [mType |-> "malloc", mThreadID |-> t, mSize |-> size, mFreeByOtherThread |-> byOther]
Free(t, size, matched, byOther) ==
  [mType |-> "free", mThreadID |-> t, mSize |-> size,
   mMatchedMalloc |-> matched, mAllocatedByOtherThread |-> byOther]
Realloc(t, size, oldSize, matched, allocByOther, freeByOther) ==
  [mType |-> "realloc", mThreadID |-> t, mNewSize |-> size, mOldSize |-> oldSize,
   mMatchedMalloc |-> matched, mAllocatedByOtherThread |-> allocByOther,
   mFreeByOtherThread |-> freeByOther]

IsTimestamp(r) == r.mType = "timestamp"
Allocates(r) == r.mType \in {"malloc", "realloc"}
Releases(r) == r.mType \in {"free", "realloc"} /\ r.mMatchedMalloc # 0
AllocatedSize(r) == IF r.mType = "malloc" THEN r.mSize ELSE r.mNewSize
ReleasedSize(r) == IF r.mType = "free" THEN r.mSize ELSE r.mOldSize

\* The records of a log with these threads and sizes.
RecordsOf(threads, sizes) ==
  [mType : {"timestamp"}]
    \cup [mType : {"malloc"}, mThreadID : threads, mSize : sizes, mFreeByOtherThread : BOOLEAN]
    \cup [mType : {"free"}, mThreadID : threads, mSize : sizes, mMatchedMalloc : Nat,
          mAllocatedByOtherThread : BOOLEAN]
    \cup [mType : {"realloc"}, mThreadID : threads, mNewSize : sizes, mOldSize : sizes,
          mMatchedMalloc : Nat, mAllocatedByOtherThread : BOOLEAN, mFreeByOtherThread : BOOLEAN]

\* The operations among the first records of a log, in order.  Operation n of the log is the
\* one with sequence number n.
OperationsUpTo(log) ==
  LET upTo[i \in 0 .. Len(log)] ==
        IF i = 0 THEN <<>>
        ELSE IF IsTimestamp(log[i]) THEN upTo[i - 1] ELSE Append(upTo[i - 1], log[i])
  IN upTo
Operations(log) == OperationsUpTo(log)[Len(log)]

\* Sequence number of the i-th record of the log, an operation.
SeqNo(log, i) == Len(OperationsUpTo(log)[i])

\* The unit at which the i-th record starts; the last entry is the size of the file.
RecordStart(log) ==
  LET start[i \in 1 .. Len(log) + 1] ==
        IF i = 1 THEN 0 ELSE start[i - 1] + RecordSize[log[i - 1].mType]
  IN start
FileSize(log) == RecordStart(log)[Len(log) + 1]

\* The blocks, named by the operations that made them, the program had after its
\* first n operations: what replaying the log has to reproduce.
Outstanding(log) ==
  LET ops == Operations(log)
      after[n \in 0 .. Len(ops)] ==
        IF n = 0 THEN {}
        ELSE (after[n - 1] \ (IF Releases(ops[n]) THEN {ops[n].mMatchedMalloc} ELSE {}))
             \cup (IF Allocates(ops[n]) THEN {n} ELSE {})
  IN after

(***************************************************************************)
(* What the replay tool relies on: an operation releases a block that is   *)
(* outstanding, with its size, and both records say whether allocator and  *)
(* releaser are the same thread.                                           *)
(***************************************************************************)
Matched(log) ==
  LET ops == Operations(log) IN
  /\ \A n \in 1 .. Len(ops) : Releases(ops[n]) =>
       LET m == ops[n].mMatchedMalloc IN
       /\ m \in Outstanding(log)[n - 1]
       /\ ReleasedSize(ops[n]) = AllocatedSize(ops[m])
       /\ ops[n].mAllocatedByOtherThread = (ops[n].mThreadID # ops[m].mThreadID)
  /\ \A m \in 1 .. Len(ops) : Allocates(ops[m]) =>
       (ops[m].mFreeByOtherThread <=>
          \E n \in 1 .. Len(ops) : /\ Releases(ops[n])
                                   /\ ops[n].mMatchedMalloc = m
                                   /\ ops[n].mThreadID # ops[m].mThreadID)

\* GenConsolidatedFile2 puts a timestamp between an allocation and its release by
\* another thread.
CrossSeparated(log) ==
  \A i, j \in 1 .. Len(log) :
    (/\ ~IsTimestamp(log[i]) /\ ~IsTimestamp(log[j])
     /\ Releases(log[j]) /\ log[j].mMatchedMalloc = SeqNo(log, i)
     /\ log[i].mThreadID # log[j].mThreadID)
    => \E k \in i + 1 .. j - 1 : IsTimestamp(log[k])
================================================================================
