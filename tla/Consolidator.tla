----------------------------- MODULE Consolidator -----------------------------
(***************************************************************************)
(* The consolidator (src/src/MallocLogConsolidator.cpp): the per-thread    *)
(* log files are merged by time stamp into one log in which every release  *)
(* names the allocation it undoes, and a second pass over that log marks   *)
(* the allocations released by another thread.                             *)
(*                                                                         *)
(* A step is one iteration of the loop over the records, or of the loop    *)
(* over gBlocksFreedByOtherThread.                                         *)
(***************************************************************************)
EXTENDS ConsolidatedLog

CONSTANTS
  NullPtr,        \* the NULL address in a record
  MaxTimestamp,   \* MAX_TIMESTAMP, later than every time stamp
  MaxRecNum,      \* MAX_REC_NUM
  MaxThreadID,    \* MAX_THREAD_ID, 2^24
  ThreadIdRange,  \* 2^18: a record has that many bits for the thread
  WriteFails      \* may fwrite of the output fail?

ASSUME ConsolidatorAssumption ==
  /\ MaxTimestamp \in Nat
  /\ MaxRecNum \in Nat \ {0, 1}
  /\ MaxThreadID \in Nat \ {0}
  /\ ThreadIdRange \in Nat \ {0}
  /\ WriteFails \in BOOLEAN

VARIABLES
  phase,          \* "wait", "refused", "merge", "failed", "mark" or "done"
  logFiles,       \* gMmapFiles: the records of each file
  next,           \* lpNextRecordsArray: index of the next record of each file, 0 at its end
  out,            \* the records written
  merged,         \* for each operation of out, the record it was made from (history)
  totalRecords,   \* lTotalRecords
  prevTimeStamp,  \* lPrevTimeStamp
  prevSeqNo,      \* lPrevTimeStampSeqNo
  blocks,         \* gBlockSetArray: address -> blocks not yet released, oldest first
  freedByOther,   \* gBlocksFreedByOtherThread
  cursor,         \* lpNextRecord of the second pass, an index into out
  currentSeqNo    \* lCurrentSeqNo

consVars == <<phase, logFiles, next, out, merged, totalRecords, prevTimeStamp, prevSeqNo,
              blocks, freedByOther, cursor, currentSeqNo>>

ConsolidatorInit ==
  /\ phase = "wait"
  /\ logFiles = <<>> /\ next = <<>> /\ out = <<>> /\ merged = <<>>
  /\ totalRecords = 1
  /\ prevTimeStamp = MaxTimestamp
  /\ prevSeqNo = 0
  /\ blocks = <<>>
  /\ freedByOther = {}
  /\ cursor = 0 /\ currentSeqNo = 0

\* MmapFile::Open maps a file into memory, but for an empty one.
Opens(file) == file # <<>>

\* The log files are mapped; one that does not open ends the program (main).
LoadLogFiles(loaded) ==
  /\ phase = "wait"
  /\ phase' = IF \A i \in DOMAIN loaded : Opens(loaded[i]) THEN "merge" ELSE "refused"
  /\ logFiles' = loaded
  /\ next' = [i \in DOMAIN loaded |-> 1]
  /\ UNCHANGED <<out, merged, totalRecords, prevTimeStamp, prevSeqNo, blocks, freedByOther,
                 cursor, currentSeqNo>>

-------------------------------------------------------------------------------
(* Blocks by address *)

\* A block is known by its address, but there may be several at one address, when the
\* records of their releases come later.
BlockList(a) == IF a \in DOMAIN blocks THEN blocks[a] ELSE <<>>
Put(known, a, list) == [b \in DOMAIN known \cup {a} |-> IF b = a THEN list ELSE known[b]]

\* AddOutstandingBlock
AddOutstandingBlock(known, a, seqNo, tid, size) ==
  LET list == IF a \in DOMAIN known THEN known[a] ELSE <<>>
  IN  Put(known, a, Append(list, [mSeqNo |-> seqNo, mThreadID |-> tid, mSize |-> size]))

\* GetMallocNumber: the oldest block at a that thread tid allocated, else the oldest.
OwnBlocks(a, tid) == {k \in DOMAIN BlockList(a) : BlockList(a)[k].mThreadID = tid}
FoundBlock(a, tid) ==
  IF OwnBlocks(a, tid) = {} THEN 1
  ELSE CHOOSE k \in OwnBlocks(a, tid) : \A j \in OwnBlocks(a, tid) : k <= j

\* Bug: a block allocated by another thread stays in the set.
BugTakeOutstandingBlock(a, tid) ==
  LET k == FoundBlock(a, tid)
      list == BlockList(a)
  IN  IF list[k].mThreadID # tid THEN blocks
      ELSE Put(blocks, a, SubSeq(list, 1, k - 1) \o SubSeq(list, k + 1, Len(list)))

\* GetMallocNumber takes the block it finds out of the set.
TakeOutstandingBlock(a, tid) ==
  LET k == FoundBlock(a, tid)
      list == BlockList(a)
  IN  Put(blocks, a, SubSeq(list, 1, k - 1) \o SubSeq(list, k + 1, Len(list)))

\* What GetMallocNumber answers for address a.  Nothing is known about a block whose
\* allocation was not logged; NULL has no allocation, and lOldSize stays 0.
UnknownSize == -1
GetMallocNumber(a, tid) ==
  IF a = NullPtr THEN [seqNo |-> 0, byOther |-> FALSE, size |-> 0, known |-> blocks]
  ELSE IF BlockList(a) = <<>>
  THEN [seqNo |-> 0, byOther |-> FALSE, size |-> UnknownSize, known |-> blocks]
  ELSE LET block == BlockList(a)[FoundBlock(a, tid)]
       IN  [seqNo |-> block.mSeqNo, byOther |-> block.mThreadID # tid, size |-> block.mSize,
            known |-> TakeOutstandingBlock(a, tid)]

-------------------------------------------------------------------------------
(* GenConsolidatedFile2, first pass *)

Unfinished == {i \in DOMAIN next : next[i] # 0}
NextRecord(i) == logFiles[i][next[i]]
NextTimeStamp(i) == NextRecord(i).mTimeStamp

\* The next record is the one with the smallest time stamp, of the first file that has it.
IsNext(i) ==
  /\ i \in Unfinished
  /\ \A j \in Unfinished : NextTimeStamp(i) < NextTimeStamp(j)
                             \/ (NextTimeStamp(i) = NextTimeStamp(j) /\ i <= j)

\* CheckThreadID, and the bits a record has for the thread, which is known by the number
\* of its file.
ThreadField(i) == (IF i >= MaxThreadID THEN MaxThreadID - 1 ELSE i) % ThreadIdRange

\* Bug: a record that is skipped stays the next one.
BugAfter(i) ==
  IF NextRecord(i).mType = "free" /\ NextRecord(i).old = NullPtr THEN next[i]
  ELSE IF next[i] < Len(logFiles[i]) /\ logFiles[i][next[i] + 1].mType # "truncated"
  THEN next[i] + 1 ELSE 0

\* The record after the next one, unless the file ends there or is truncated.
After(i) ==
  IF next[i] < Len(logFiles[i]) /\ logFiles[i][next[i] + 1].mType # "truncated"
  THEN next[i] + 1 ELSE 0

\* free(NULL) is not written.
IsSkipped(r) == r.mType = "free" /\ r.old = NullPtr

\* The sequence number of the next operation when the time stamp last written (or about to
\* be written before a record stamped stamp) was written.
SeqNoOfStamp(stamp) == IF stamp # prevTimeStamp THEN totalRecords ELSE prevSeqNo

\* Bug: off by one in the test for an allocation made since the last time stamp.
BugNeedsSeparator(found, stamp) == found.byOther /\ found.seqNo > SeqNoOfStamp(stamp)

\* A time stamp is put before a release of a block another thread allocated since the last.
NeedsSeparator(found, stamp) == found.byOther /\ found.seqNo >= SeqNoOfStamp(stamp)

\* The record as it is written; the second pass sets mFreeByOtherThread.
Consolidated(r, i, found) ==
  LET tid == ThreadField(i) IN
  CASE r.mType = "malloc"  -> Malloc(tid, r.mSize, FALSE)
    [] r.mType = "free"    -> Free(tid, found.size, found.seqNo, found.byOther)
    [] r.mType = "realloc" -> Realloc(tid, r.mSize, found.size, found.seqNo, found.byOther, FALSE)

\* One iteration for file i, whose next record is r.
Write(i, r, found) ==
  LET separator == NeedsSeparator(found, r.mTimeStamp)
      stamps == (IF r.mTimeStamp # prevTimeStamp THEN <<Timestamp>> ELSE <<>>)
                  \o (IF separator THEN <<Timestamp>> ELSE <<>>)
  IN  /\ out' = out \o stamps \o (IF IsSkipped(r) THEN <<>> ELSE <<Consolidated(r, i, found)>>)
      /\ merged' = IF IsSkipped(r) THEN merged ELSE Append(merged, r)
      /\ prevTimeStamp' = r.mTimeStamp
      /\ prevSeqNo' = IF separator THEN totalRecords ELSE SeqNoOfStamp(r.mTimeStamp)
      /\ totalRecords' = IF IsSkipped(r) THEN totalRecords ELSE totalRecords + 1
      /\ blocks' = IF r.mType = "free" THEN found.known
                   ELSE AddOutstandingBlock(found.known, r.block, totalRecords, i, r.mSize)
      /\ freedByOther' = IF found.byOther THEN freedByOther \cup {found.seqNo} ELSE freedByOther

MergeRecord(i) ==
  /\ phase = "merge"
  /\ IsNext(i)
  /\ LET r == NextRecord(i)
         found == GetMallocNumber(IF r.mType = "malloc" THEN NullPtr ELSE r.old, i)
     IN  Write(i, r, found)
  /\ IF totalRecords' = MaxRecNum
     THEN phase' = "mark" /\ UNCHANGED next
     ELSE /\ next' = [next EXCEPT ![i] = After(i)]
          /\ phase' = IF Unfinished = {i} /\ After(i) = 0 THEN "mark" ELSE "merge"
  /\ IF phase' = "mark"
     THEN /\ currentSeqNo' = 1
          /\ cursor' = IF Len(Operations(out')) = 0 THEN Len(out') + 1
                       ELSE CHOOSE c \in DOMAIN out' :
                              ~IsTimestamp(out'[c]) /\ \A d \in 1 .. c - 1 : IsTimestamp(out'[d])
     ELSE UNCHANGED <<cursor, currentSeqNo>>
  /\ UNCHANGED logFiles

\* WRITE_FILE gives up and leaves what has been written.
WriteFailed ==
  /\ phase = "merge" /\ WriteFails
  /\ phase' = "failed"
  /\ UNCHANGED <<logFiles, next, out, merged, totalRecords, prevTimeStamp, prevSeqNo, blocks,
                 freedByOther, cursor, currentSeqNo>>

-------------------------------------------------------------------------------
(* GenConsolidatedFile2, second pass *)

\* Bug: time stamps are counted as records.
BugCursorAt(seqNo) ==
  CHOOSE c \in cursor .. Len(out) : c - cursor = seqNo - currentSeqNo

\* The record with a sequence number: forward from the cursor, time stamps skipped.
CursorAt(seqNo) ==
  CHOOSE c \in cursor .. Len(out) :
    /\ ~IsTimestamp(out[c])
    /\ currentSeqNo + Len(Operations(SubSeq(out, cursor, c - 1))) = seqNo

\* The allocations released by another thread are marked in the order of their numbers.
MarkRecord ==
  /\ phase = "mark"
  /\ freedByOther # {}
  /\ LET seqNo == CHOOSE s \in freedByOther : \A u \in freedByOther : s <= u
         c == CursorAt(seqNo)
     IN  /\ out' = IF Allocates(out[c]) THEN [out EXCEPT ![c].mFreeByOtherThread = TRUE] ELSE out
         /\ cursor' = c
         /\ currentSeqNo' = seqNo
         /\ freedByOther' = freedByOther \ {seqNo}
  /\ UNCHANGED <<phase, logFiles, next, merged, totalRecords, prevTimeStamp, prevSeqNo, blocks>>

Finish ==
  /\ phase = "mark"
  /\ freedByOther = {}
  /\ phase' = "done"
  /\ UNCHANGED <<logFiles, next, out, merged, totalRecords, prevTimeStamp, prevSeqNo, blocks,
                 freedByOther, cursor, currentSeqNo>>

ConsolidatorStep == (\E i \in DOMAIN logFiles : MergeRecord(i)) \/ MarkRecord \/ Finish
ConsolidatorNext == ConsolidatorStep \/ WriteFailed
===============================================================================
