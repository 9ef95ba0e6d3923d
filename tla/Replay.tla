-------------------------------- MODULE Replay --------------------------------
(***************************************************************************)
(* The replay tool (ReplayAll in src/src/MallocReplay.cpp).  The           *)
(* controller reads a consolidated log through two buffers that a disk     *)
(* thread fills ahead, cuts it into batches at the timestamps, wakes the   *)
(* worker of every thread with a job in the batch and waits for the last   *)
(* of them.  A worker finds the block it has to free in its own table, or, *)
(* when another thread allocated it, in a table all workers share.         *)
(*                                                                         *)
(* The mutexes gWorkingThreadsLockArry, gControllerLock and mSleepLock are *)
(* used as binary semaphores: who waits locks, who wakes unlocks, so TRUE  *)
(* below is "locked, a waiter blocks".  A step ends where another thread   *)
(* can tell: at one of those, at a section under mCmdLock or under         *)
(* gFreeByOtherThreadBlocksLock, and at an access to gNumWorkingThreads.   *)
(* Buffers hold positions of the file, in units of four bytes.  Statistics *)
(* and AT_TEST_BASELINE, which replays nothing, are left out.              *)
(***************************************************************************)
EXTENDS ConsolidatedLog

CONSTANTS
  Threads,  \* the threads of the log, 1 .. gTotalThreads
  Scripts   \* what is replayed: a log and the options of the environment

\* A queue buffer keeps room for one record in front of what is read into it.
Reserved == RecordSize.realloc

ASSUME ReplayAssumption ==
  /\ Threads \subseteq Nat \ {0} /\ IsFiniteSet(Threads)
  /\ \A s \in Scripts : /\ s.gEndRecNo \in Nat
                        /\ s.gJobQueueBufferSz \in Nat
                        /\ s.gJobQueueBufferSz >= 2 * Reserved
                        /\ s.gIgnoreTimeStamp \in BOOLEAN
                        /\ s.gFreeAllAtEnd \in BOOLEAN
                        /\ s.log \in Seq(RecordsOf(Threads, {"small", "big"}))
                        /\ Matched(s.log)

VARIABLES
  script,             \* the log and the options
  ctl,                \* where the controller is
  active,             \* lpActiveBufStart .. lpActiveBufEnd: the units not yet batched
  inUse,              \* the buffer mpRecordBuffer points into, 0 for NULL
  lbRefillBuffer, lTotalReadSize, lRecSeqNumber,
  again,              \* history: has a buffer been taken that was used up already?
  gpJobs,             \* the batch: its first sequence number and its records
  toWake,             \* the workers still to be woken
  gNumWorkingThreads, gControllerLock, gAllDone,
  dsk,                \* where the disk thread is
  mStatus, mpBuffer, mReadSz, mSleepLock,   \* DiskIOJob
  buffer,             \* what each buffer holds behind its reserved part
  filePos,            \* units read from the file
  wrk,                \* where each worker is
  done,               \* the jobs of the batch each worker is past
  workerLock,         \* gWorkingThreadsLockArry
  own, gFreeByOtherThreadHash,  \* the tables: sequence number and size of the blocks
  heap,               \* the blocks allocated, named by their operations
  nodes               \* GetBlockInternal's nodes in use

ctlVars  == <<ctl, active, inUse, lbRefillBuffer, lTotalReadSize, lRecSeqNumber, again, gpJobs,
              toWake>>
diskVars == <<dsk, mStatus, mpBuffer, mReadSz, mSleepLock, buffer, filePos>>
syncVars == <<gNumWorkingThreads, gControllerLock, gAllDone, workerLock>>
workVars == <<wrk, done, own, gFreeByOtherThreadHash, heap, nodes>>
vars     == <<script, ctlVars, diskVars, syncVars, workVars>>

log == script.log
ChunkSz == script.gJobQueueBufferSz - Reserved
Bounded(n, limit) == IF n < limit THEN n ELSE limit
LeastOf(S) == CHOOSE x \in S : \A y \in S : x <= y

Init ==
  /\ script \in Scripts
  /\ ctl = "start" /\ active = <<>> /\ inUse = 0
  /\ lbRefillBuffer = TRUE /\ lTotalReadSize = 0 /\ lRecSeqNumber = 1 /\ again = FALSE
  /\ gpJobs = [mSequenceNo |-> 0, records |-> <<>>] /\ toWake = {}
  /\ gNumWorkingThreads = 0 /\ gControllerLock = TRUE /\ gAllDone = FALSE
  /\ dsk = "sleep" /\ mStatus = "idle" /\ mpBuffer = 0 /\ mReadSz = 0 /\ mSleepLock = FALSE
  /\ buffer = [b \in 1 .. 2 |-> <<>>] /\ filePos = 0
  /\ wrk = [t \in Threads |-> "parked"] /\ done = [t \in Threads |-> 0]
  /\ workerLock = [t \in Threads |-> TRUE]
  /\ own = [t \in Threads |-> {}] /\ gFreeByOtherThreadHash = {}
  /\ heap = {} /\ nodes = 0

-----------------------------------------------------------------------------
\* The disk thread.  StartRead and Stop set a job under mCmdLock and then wake it.
StartRead(b, n) ==
  /\ mpBuffer' = b /\ mReadSz' = n /\ mStatus' = "read"
  /\ lTotalReadSize' = lTotalReadSize + n

WakeDisk == mSleepLock' = FALSE

\* The disk thread takes mSleepLock and then looks at its job.
DiskSleep ==
  /\ dsk = "sleep" /\ ~mSleepLock
  /\ mSleepLock' = TRUE
  /\ dsk' = "look"
  /\ UNCHANGED <<script, ctlVars, mStatus, mpBuffer, mReadSz, buffer, filePos, syncVars, workVars>>

DiskLook ==
  /\ dsk = "look"
  /\ dsk' = CASE mStatus = "exit" -> "leave" [] mStatus = "read" -> "read" [] OTHER -> "sleep"
  /\ UNCHANGED <<script, ctlVars, mStatus, mpBuffer, mReadSz, mSleepLock, buffer, filePos,
                 syncVars, workVars>>

\* ReadFile sets the status to idle, whatever it has become since the look.
ReadFile ==
  /\ dsk = "read"
  /\ buffer' = [buffer EXCEPT ![mpBuffer] = [k \in 1 .. mReadSz |-> filePos + k - 1]]
  /\ filePos' = filePos + mReadSz
  /\ mStatus' = "idle"
  /\ dsk' = "sleep"
  /\ UNCHANGED <<script, ctlVars, mpBuffer, mReadSz, mSleepLock, syncVars, workVars>>

DiskLeave ==
  /\ dsk = "leave"
  /\ WakeDisk
  /\ dsk' = "exited"
  /\ UNCHANGED <<script, ctlVars, mStatus, mpBuffer, mReadSz, buffer, filePos, syncVars, workVars>>

Disk == DiskSleep \/ DiskLook \/ ReadFile \/ DiskLeave

-----------------------------------------------------------------------------
\* The controller.
FirstRead ==
  /\ ctl = "start"
  /\ StartRead(1, Bounded(ChunkSz, FileSize(log)))
  /\ ctl' = "wakeFirst"
  /\ UNCHANGED <<script, active, inUse, lbRefillBuffer, lRecSeqNumber, again, gpJobs, toWake,
                 dsk, mSleepLock, buffer, filePos, syncVars, workVars>>

WakeDiskToRead ==
  /\ ctl \in {"wakeFirst", "wakeNext"}
  /\ WakeDisk
  /\ ctl' = IF ctl = "wakeFirst" THEN "loop" ELSE "fill"
  /\ UNCHANGED <<script, active, inUse, lbRefillBuffer, lTotalReadSize, lRecSeqNumber, again,
                 gpJobs, toWake, dsk, mStatus, mpBuffer, mReadSz, buffer, filePos, syncVars, workVars>>

MoreToDo == \/ lTotalReadSize < FileSize(log)
            \/ active # <<>>
            \/ lRecSeqNumber - 1 < Len(Operations(log))

NeedsBuffer == lbRefillBuffer \/ Len(active) < Reserved

\* What is left moves in front of the buffer the disk thread filled, and the disk
\* thread is given the other one while the file has more.  Nobody looks whether the buffer
\* is a new one: when the file is read to its end and less than a record is left to be
\* batched, it is the one in use (NeedsBuffer; line 1526).
NextReadSz == Bounded((ChunkSz \div 4) * 4, FileSize(log) - lTotalReadSize)
\* Bug: the disk thread is given the buffer it has just filled.
BugOtherBuffer == mpBuffer

OtherBuffer == 3 - mpBuffer

\* (Bound: a buffer is taken again once.)
TakeBuffer ==
  /\ ctl = "loop" /\ MoreToDo /\ NeedsBuffer
  /\ mStatus # "read"
  /\ ~again
  /\ again' = (mpBuffer = inUse)
  /\ active' = active \o buffer[mpBuffer]
  /\ inUse' = mpBuffer
  /\ lbRefillBuffer' = FALSE
  /\ IF NextReadSz > 0
     THEN StartRead(OtherBuffer, NextReadSz) /\ ctl' = "wakeNext"
     ELSE UNCHANGED <<mpBuffer, mReadSz, mStatus, lTotalReadSize>> /\ ctl' = "fill"
  /\ UNCHANGED <<script, lRecSeqNumber, gpJobs, toWake, dsk, mSleepLock, buffer, filePos,
                 syncVars, workVars>>

\* The record of the log that holds unit u of the file.  The controller is at its
\* first unit as long as BatchInLog holds.
RecordAt(u) ==
  CHOOSE i \in 1 .. Len(log) : RecordStart(log)[i] <= u /\ u < RecordStart(log)[i + 1]

\* The batch from the p-th active unit on: the operations in it, the threads marked
\* as having a job, and where it ends.  A record the buffer cuts off ends it; its
\* thread is marked all the same.
Ended(p, marked, cut) == [ops |-> <<>>, marked |-> marked, end |-> p, cut |-> cut]
WithJob(b, n, t) == [b EXCEPT !.ops = <<n>> \o @, !.marked = @ \cup {t}]
BatchFrom(from, p) ==
  LET i == RecordAt(active[p])
      next == p + RecordSize[log[i].mType]
  IN IF p - 1 + GenericSize >= Len(active) THEN Ended(p, {}, FALSE)
     ELSE IF next - 1 > Len(active)
     THEN Ended(p, IF IsTimestamp(log[i]) THEN {} ELSE {log[i].mThreadID}, TRUE)
     ELSE IF IsTimestamp(log[i])
     THEN IF script.gIgnoreTimeStamp THEN from[next] ELSE Ended(next, {}, FALSE)
     ELSE WithJob(from[next], SeqNo(log, i), log[i].mThreadID)
Batch == LET from[p \in 1 .. Len(active) + 1] == BatchFrom(from, p) IN from[1]

\* Bug: the record the buffer cut off is counted.
BugNextSeqNo(b) == lRecSeqNumber + Len(b.ops) + (IF b.cut THEN 1 ELSE 0)

NextSeqNo(b) == lRecSeqNumber + Len(b.ops)

FillBatch ==
  /\ ctl = "fill" \/ (ctl = "loop" /\ MoreToDo /\ ~NeedsBuffer)
  /\ LET b == Batch IN
     /\ gpJobs' = [mSequenceNo |-> IF b.marked = {} THEN 0 ELSE lRecSeqNumber,
                   records     |-> b.ops]
     /\ lRecSeqNumber' = NextSeqNo(b)
     /\ active' = SubSeq(active, b.end, Len(active))
     /\ lbRefillBuffer' = (lbRefillBuffer \/ b.cut)
     /\ toWake' = b.marked
     /\ IF b.marked = {} THEN ctl' = "loop" /\ UNCHANGED gNumWorkingThreads
        ELSE ctl' = "wake" /\ gNumWorkingThreads' = Cardinality(b.marked)
  /\ UNCHANGED <<script, inUse, lTotalReadSize, again, diskVars, gControllerLock, gAllDone, workerLock,
                 workVars>>

\* Both at a batch ("wake") and at the end ("release").
WakeWorker ==
  /\ ctl \in {"wake", "release"} /\ toWake # {}
  /\ LET t == LeastOf(toWake) IN
     /\ workerLock' = [workerLock EXCEPT ![t] = FALSE]
     /\ toWake' = toWake \ {t}
  /\ UNCHANGED <<script, ctl, active, inUse, lbRefillBuffer, lTotalReadSize, lRecSeqNumber, again,
                 gpJobs, diskVars, gNumWorkingThreads, gControllerLock, gAllDone, workVars>>

\* Bug: the controller does not wait.
BugWaitForBatch ==
  /\ ctl = "wake" /\ toWake = {}
  /\ gControllerLock' = TRUE
  /\ ctl' = IF lRecSeqNumber > script.gEndRecNo THEN "stop" ELSE "loop"
  /\ UNCHANGED <<script, active, inUse, lbRefillBuffer, lTotalReadSize, lRecSeqNumber, again,
                 gpJobs, toWake, diskVars, gNumWorkingThreads, gAllDone, workerLock, workVars>>

WaitForBatch ==
  /\ ctl = "wake" /\ toWake = {}
  /\ ~gControllerLock
  /\ gControllerLock' = TRUE
  /\ ctl' = IF lRecSeqNumber > script.gEndRecNo THEN "stop" ELSE "loop"
  /\ UNCHANGED <<script, active, inUse, lbRefillBuffer, lTotalReadSize, lRecSeqNumber, again,
                 gpJobs, toWake, diskVars, gNumWorkingThreads, gAllDone, workerLock, workVars>>

StopDisk ==
  /\ ctl = "stop" \/ (ctl = "loop" /\ ~MoreToDo)
  /\ mStatus' = "exit"
  /\ ctl' = "wakeDisk"
  /\ UNCHANGED <<script, active, inUse, lbRefillBuffer, lTotalReadSize, lRecSeqNumber, again,
                 gpJobs, toWake, dsk, mpBuffer, mReadSz, mSleepLock, buffer, filePos, syncVars, workVars>>

ReleaseAll ==
  /\ ctl = "wakeDisk"
  /\ WakeDisk
  /\ gAllDone' = TRUE
  /\ toWake' = Threads
  /\ ctl' = "release"
  /\ UNCHANGED <<script, active, inUse, lbRefillBuffer, lTotalReadSize, lRecSeqNumber, again,
                 gpJobs, dsk, mStatus, mpBuffer, mReadSz, buffer, filePos,
                 gNumWorkingThreads, gControllerLock, workerLock, workVars>>

\* AllocatedBlock does not fit in a small block: its entry is a node of its own.
NodesOf(size) == IF size = "small" THEN 1 ELSE 0

\* What gFreeAllAtEnd frees of a table.
FreedAtEnd(S) == IF script.gFreeAllAtEnd THEN {e.mSeqNo : e \in S} ELSE {}
\* All threads are joined; with gFreeAllAtEnd the blocks left in the shared table go.
JoinAll ==
  /\ ctl = "release" /\ toWake = {}
  /\ \A t \in Threads : wrk[t] = "exited"
  /\ dsk = "exited"
  /\ ctl' = "done"
  /\ gControllerLock' = FALSE
  /\ heap' = heap \ FreedAtEnd(gFreeByOtherThreadHash)
  /\ nodes' = IF script.gFreeAllAtEnd THEN 0 ELSE nodes
  /\ gFreeByOtherThreadHash' = {}
  /\ UNCHANGED <<script, active, inUse, lbRefillBuffer, lTotalReadSize, lRecSeqNumber, again,
                 gpJobs, toWake, diskVars, gNumWorkingThreads, gAllDone, workerLock, wrk, done, own>>

\* gFreeAllAtEnd frees a block and then reads mpNext of the entry, which lies in the block
\* unless it is a node of its own: what is read may not be mapped any more, or be garbage.
ReadFreedEntry ==
  /\ ctl = "release" /\ toWake = {}
  /\ \A t \in Threads : wrk[t] = "exited"
  /\ dsk = "exited"
  /\ script.gFreeAllAtEnd
  /\ \E e \in gFreeByOtherThreadHash : NodesOf(e.mSize) = 0
  /\ ctl' = "crashed"
  /\ UNCHANGED <<script, active, inUse, lbRefillBuffer, lTotalReadSize, lRecSeqNumber, again,
                 gpJobs, toWake, diskVars, syncVars, workVars>>

Controller == \/ FirstRead \/ WakeDiskToRead \/ TakeBuffer \/ FillBatch \/ WakeWorker
              \/ WaitForBatch \/ StopDisk \/ ReleaseAll \/ JoinAll \/ ReadFreedEntry

-----------------------------------------------------------------------------
\* A worker.  Operation number n of the batch is the one it looks up and stores under.
JobsOf(t) == {k \in 1 .. Len(gpJobs.records) : Operations(log)[gpJobs.records[k]].mThreadID = t}
JobsLeft(t) == {k \in JobsOf(t) : k > done[t]}
NextJob(t) == LeastOf(JobsLeft(t))
Job(t) == Operations(log)[gpJobs.records[NextJob(t)]]
CurrentSeqNo(t) == gpJobs.mSequenceNo + NextJob(t) - 1

Working(t) == wrk[t] = "working" /\ JobsLeft(t) # {}

Entry(n, size) == [mSeqNo |-> n, mSize |-> size]
Found(table, n) == {e \in table : e.mSeqNo = n}

\* Bug: the block goes to the thread's own table.
BugStash(t, kept, shared, byOther, e) ==
  own' = [own EXCEPT ![t] = kept \cup {e}] /\ gFreeByOtherThreadHash' = shared

\* HashInsertAllocatedBlock, in the table of the thread or in the shared one.
Stash(t, kept, shared, byOther, e) ==
  IF byOther
  THEN own' = [own EXCEPT ![t] = kept] /\ gFreeByOtherThreadHash' = shared \cup {e}
  ELSE own' = [own EXCEPT ![t] = kept \cup {e}] /\ gFreeByOtherThreadHash' = shared

JobDone(t) == done' = [done EXCEPT ![t] = NextJob(t)]

\* Malloc_0 .. Malloc_255, Free_0 .. and Realloc_0 ..: a routine for every module number, so
\* that stack traces tell the modules apart; each passes the call on to the heap.
CustomMalloc(blocks, n) == blocks \cup {n}
CustomFree(blocks, entries) == blocks \ {e.mSeqNo : e \in entries}
CustomRealloc(blocks, entries, n) == CustomMalloc(CustomFree(blocks, entries), n)

EnterBatch(t) ==
  /\ wrk[t] = "parked" /\ ~workerLock[t]
  /\ workerLock' = [workerLock EXCEPT ![t] = TRUE]
  /\ done' = [done EXCEPT ![t] = 0]
  /\ wrk' = [wrk EXCEPT ![t] = IF gAllDone THEN "leaving" ELSE "working"]
  /\ UNCHANGED <<script, ctlVars, diskVars, gNumWorkingThreads, gControllerLock, gAllDone,
                 own, gFreeByOtherThreadHash, heap, nodes>>

OpMalloc(t) ==
  /\ Working(t) /\ Job(t).mType = "malloc"
  /\ heap' = CustomMalloc(heap, CurrentSeqNo(t))
  /\ nodes' = nodes + NodesOf(Job(t).mSize)
  /\ Stash(t, own[t], gFreeByOtherThreadHash, Job(t).mFreeByOtherThread,
           Entry(CurrentSeqNo(t), Job(t).mSize))
  /\ JobDone(t)
  /\ UNCHANGED <<script, ctlVars, diskVars, syncVars, wrk>>

\* The entries HashFindAllocatedBlock finds for the block of the job; a block of
\* another thread is waited for (GetBlockAllocatedByOtherThread).
OldBlock(t) ==
  IF ~Releases(Job(t)) THEN {}
  ELSE Found(IF Job(t).mAllocatedByOtherThread THEN gFreeByOtherThreadHash ELSE own[t],
             Job(t).mMatchedMalloc)
MayProceed(t) == (Releases(Job(t)) /\ Job(t).mAllocatedByOtherThread) => OldBlock(t) # {}
\* The block is not there yet: the worker yields and looks again.
AwaitBlock(t) == Working(t) /\ ~MayProceed(t) /\ UNCHANGED vars

\* Bug: the size of the new block decides.
BugNodesFreed(t) ==
  IF OldBlock(t) = {} THEN 0
  ELSE NodesOf(IF Job(t).mType = "free" THEN Job(t).mSize ELSE Job(t).mNewSize)

NodesFreed(t) == IF OldBlock(t) = {} THEN 0 ELSE NodesOf(ReleasedSize(Job(t)))
OpFree(t) ==
  /\ Working(t) /\ Job(t).mType = "free" /\ MayProceed(t)
  /\ heap' = CustomFree(heap, OldBlock(t))
  /\ nodes' = nodes - NodesFreed(t)
  /\ own' = [own EXCEPT ![t] = @ \ OldBlock(t)]
  /\ gFreeByOtherThreadHash' = gFreeByOtherThreadHash \ OldBlock(t)
  /\ JobDone(t)
  /\ UNCHANGED <<script, ctlVars, diskVars, syncVars, wrk>>

\* An old block that is not known, or not found, makes it a malloc.  (The look-up and the
\* stash are two sections, but nobody else looks for either of the two numbers between.)
OpRealloc(t) ==
  /\ Working(t) /\ Job(t).mType = "realloc" /\ MayProceed(t)
  /\ heap' = IF OldBlock(t) = {} THEN CustomMalloc(heap, CurrentSeqNo(t))
             ELSE CustomRealloc(heap, OldBlock(t), CurrentSeqNo(t))
  /\ nodes' = nodes - NodesFreed(t) + NodesOf(Job(t).mNewSize)
  /\ Stash(t, own[t] \ OldBlock(t), gFreeByOtherThreadHash \ OldBlock(t),
           Job(t).mFreeByOtherThread, Entry(CurrentSeqNo(t), Job(t).mNewSize))
  /\ JobDone(t)
  /\ UNCHANGED <<script, ctlVars, diskVars, syncVars, wrk>>

LastToFinish == gNumWorkingThreads = 1
FinishQueuedJobs(t) ==
  /\ wrk[t] = "working" /\ JobsLeft(t) = {}
  /\ gNumWorkingThreads' = gNumWorkingThreads - 1
  /\ wrk' = [wrk EXCEPT ![t] = IF LastToFinish THEN "last" ELSE "parked"]
  /\ UNCHANGED <<script, ctlVars, diskVars, gControllerLock, gAllDone, workerLock,
                 done, own, gFreeByOtherThreadHash, heap, nodes>>

WakeController(t) ==
  /\ wrk[t] = "last"
  /\ gControllerLock' = FALSE
  /\ wrk' = [wrk EXCEPT ![t] = "parked"]
  /\ UNCHANGED <<script, ctlVars, diskVars, gNumWorkingThreads, gAllDone, workerLock,
                 done, own, gFreeByOtherThreadHash, heap, nodes>>

\* The table goes with its thread, and with gFreeAllAtEnd the blocks in it.
Leave(t) ==
  /\ wrk[t] = "leaving"
  /\ wrk' = [wrk EXCEPT ![t] = "exited"]
  /\ own' = [own EXCEPT ![t] = {}]
  /\ heap' = heap \ FreedAtEnd(own[t])
  /\ nodes' = IF script.gFreeAllAtEnd
              THEN nodes - Cardinality({e \in own[t] : NodesOf(e.mSize) = 1}) ELSE nodes
  /\ UNCHANGED <<script, ctlVars, diskVars, syncVars, done, gFreeByOtherThreadHash>>

Worker(t) == \/ EnterBatch(t) \/ OpMalloc(t) \/ OpFree(t) \/ OpRealloc(t)
             \/ AwaitBlock(t) \/ FinishQueuedJobs(t) \/ WakeController(t) \/ Leave(t)

\* The process ends or crashes, or waits for ever for the disk thread, whose order to stop
\* ReadFile has overwritten.  (Or the bound of TakeBuffer is reached.)
StopLost == ctl \in {"wakeDisk", "release"} /\ mStatus # "exit"
Terminated ==
  /\ ctl \in {"done", "crashed"} \/ StopLost \/ (ctl = "loop" /\ NeedsBuffer /\ again)
  /\ UNCHANGED vars

Next == Controller \/ Disk \/ (\E t \in Threads : Worker(t)) \/ Terminated

\* Every thread that can go on does.  A wait ends by an unlock that only the waiter
\* takes back, so weak fairness is enough.
Fairness == WF_vars(Controller) /\ WF_vars(Disk) /\ \A t \in Threads : WF_vars(Worker(t))

Spec == Init /\ [][Next]_vars /\ Fairness

-----------------------------------------------------------------------------
\* Behind a timestamp there is more than the buffer keeps in reserve.  Such a log is never
\* replayed again; the consolidator does not care to write only such logs.
LastBatchFits(s) ==
  s.gIgnoreTimeStamp \/
    \A i \in 1 .. Len(s.log) : IsTimestamp(s.log[i]) =>
      FileSize(s.log) - RecordStart(s.log)[i + 1] >= Reserved

\* Every job of a batch is the operation of the log that has the number the workers
\* count for it: mMatchedMalloc finds what it means (mSequenceNo, and the record a
\* buffer cuts off), and no operation is replayed again; unless the end of the log is
\* smaller than a record, so that the controller takes the last buffer again.
BatchInLog ==
  ~again => \A k \in 1 .. Len(gpJobs.records) : gpJobs.records[k] = gpJobs.mSequenceNo + k - 1

\* Between two batches the blocks allocated are exactly those the logged program had
\* at this operation, however the workers were scheduled ("sync all threads by time
\* stamp"), as long as no buffer is taken again; with AT_FREE_ALL_AT_END nothing is left
\* when the tool has joined its threads and not crashed on the way (ReadFreedEntry).
HeapAsLogged ==
  ~again =>
    /\ ctl = "loop" => heap = Outstanding(log)[lRecSeqNumber - 1]
    /\ (ctl = "done" /\ script.gFreeAllAtEnd) => heap = {} /\ nodes = 0

\* The disk thread never fills the buffer the controller and the workers read from.
BufferNotOverwritten == (mStatus = "read" \/ dsk = "read") => mpBuffer # inUse

\* The nodes taken for small blocks are those whose entries are in a table; they go
\* back when the entry is taken out, by the size the later record gives.  (As long as no
\* buffer is taken again.)
SmallEntries(S) == Cardinality({e \in S : e.mSize = "small"})
NodesExact ==
  (~again /\ \A t \in Threads : wrk[t] # "exited") =>
     nodes = SmallEntries((UNION {own[t] : t \in Threads}) \cup gFreeByOtherThreadHash)

\* The tool never processes more records than the "Log file says" (line 1778).  It does when
\* the last batch is smaller than a record: what the buffer held is replayed again.
EachRecordOnce == lRecSeqNumber - 1 <= Len(Operations(log))
================================================================================
