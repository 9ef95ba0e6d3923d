----------------------------- MODULE MallocLogger -----------------------------
(***************************************************************************)
(* The recording routines (src/src/MallocLogger.cpp): every thread of the  *)
(* application appends a record of each allocation and release to a buffer *)
(* of its own and writes the full buffer to a file of its own.  A routine  *)
(* first performs the operation and then stamps and logs it, so that       *)
(* records of different threads need not be in the order of the            *)
(* operations.  The process ends by exit (AT_FiniMallocLogger runs in the  *)
(* thread that exits, the buffers of the others are lost) or is killed.    *)
(*                                                                         *)
(* The application keeps the rules of malloc: it releases blocks it has,   *)
(* once.  Calls the logger itself makes run under mTouched and leave no    *)
(* record.  Sizes in the files are in units of eight bytes.                *)
(***************************************************************************)
EXTENDS Integers, Sequences, FiniteSets

CONSTANTS
  Threads,      \* the application's threads
  Main,         \* the thread that returns from main
  Addrs,        \* the addresses the C library hands out
  Null,         \* the NULL pointer; also "no FileControl"
  MaxOps,       \* bound: operations of the application
  MaxTime,      \* bound: milliseconds the process runs
  BufferUnits,  \* BUFFER_SIZE
  IOFails       \* may fopen and fwrite fail?

\* sizeof of the three records.
RecordUnits == [malloc |-> 3, free |-> 2, realloc |-> 4]

\* The records of a log file.
LogRecords == [mType : DOMAIN RecordUnits, mTimeStamp : Nat, mSize : Nat,
               block : Addrs \cup {Null}, old : Addrs \cup {Null}, n : Nat]

ASSUME LoggerAssumption ==
  /\ Main \in Threads
  /\ Null \notin Addrs
  /\ Null \notin Seq(LogRecords) /\ Null \notin [mpFile : BOOLEAN, mBuffer : Seq(LogRecords)]
  /\ MaxOps \in Nat /\ MaxTime \in Nat
  /\ BufferUnits \in Nat /\ \A type \in DOMAIN RecordUnits : RecordUnits[type] <= BufferUnits
  /\ IOFails \in BOOLEAN

VARIABLES
  heap,             \* number of the operation that made the block at each address, or 0
  history,          \* the operations in the order they took effect (history variable)
  now,              \* milliseconds since gStartTime
  tls,              \* FileControl of each thread, or Null
  files,            \* content of each thread's log file, or Null if there is no such file
  pc,               \* where each thread is
  made,             \* the operation a thread has made and not yet logged
  gProcessExitting,
  process,          \* "running", "ended", "killed" or "crashed"
  ioFailed          \* has an fopen or fwrite failed? (history variable)

loggerVars == <<heap, history, now, tls, files, pc, made, gProcessExitting, process, ioFailed>>

\* A FileControl: is mpFile open, and the records in mBuffer.
FileControl(open, buffer) == [mpFile |-> open, mBuffer |-> buffer]

\* The sizes of the requests tell the blocks apart: the n-th operation asks for n bytes.
\* released: the operation that made the block at old (history field).
Op(type, n, size, block, old, released) ==
  [mType |-> type, n |-> n, mSize |-> size, block |-> block, old |-> old, released |-> released]
NoOp == Op("malloc", 0, 0, Null, Null, 0)

\* A record cut off by the end of the file.
Truncated == [mType |-> "truncated"]

LoggerInit ==
  /\ heap = [a \in Addrs |-> 0]
  /\ history = <<>>
  /\ now = 0
  /\ tls = [t \in Threads |-> Null]
  /\ files = [t \in Threads |-> Null]
  /\ pc = [t \in Threads |-> "app"]
  /\ made = [t \in Threads |-> NoOp]
  /\ gProcessExitting = FALSE
  /\ process = "running"
  /\ ioFailed = FALSE

Goto(t, l) == pc' = [pc EXCEPT ![t] = l]

Tick ==
  /\ process = "running"
  /\ now < MaxTime
  /\ now' = now + 1
  /\ UNCHANGED <<heap, history, tls, files, pc, made, gProcessExitting, process, ioFailed>>

-------------------------------------------------------------------------------
(* AT_AllocateLog, AT_DeallocateLog, AT_ReallocLog *)

\* Operations made or entered.
Underway == Len(history) + Cardinality({t \in Threads : pc[t] = "default"})

\* CreateAndSetFileControlTLS: a thread gets its FileControl at its first operation,
\* unless the process is winding down.
Enter(t) ==
  /\ process = "running" /\ pc[t] = "app" /\ tls[t] = Null
  /\ Underway < MaxOps
  /\ tls' = IF gProcessExitting THEN tls ELSE [tls EXCEPT ![t] = FileControl(FALSE, <<>>)]
  /\ Goto(t, "default")
  /\ UNCHANGED <<heap, history, now, files, made, gProcessExitting, process, ioFailed>>

\* The thread calls the default routine: at once if it has a FileControl.
CallsDefault(t) ==
  /\ process = "running"
  /\ \/ pc[t] = "default"
     \/ pc[t] = "app" /\ tls[t] # Null /\ Underway < MaxOps

\* The default routine has done o; it is logged if the thread has a FileControl.
Done(t, o) ==
  /\ history' = Append(history, o)
  /\ IF tls[t] = Null
     THEN Goto(t, "app") /\ UNCHANGED made
     ELSE Goto(t, "log") /\ made' = [made EXCEPT ![t] = o]
  /\ UNCHANGED <<now, tls, files, gProcessExitting, process, ioFailed>>

Here == Len(history) + 1
FreeAddrs == {a \in Addrs : heap[a] = 0}
UsedAddrs == Addrs \ FreeAddrs

\* malloc, calloc, operator new: a block, or NULL.
Allocate(t) ==
  /\ CallsDefault(t)
  /\ \/ \E a \in FreeAddrs :
          /\ heap' = [heap EXCEPT ![a] = Here]
          /\ Done(t, Op("malloc", Here, Here, a, Null, 0))
     \/ /\ FreeAddrs = {}
        /\ UNCHANGED heap
        /\ Done(t, Op("malloc", Here, Here, Null, Null, 0))

\* free, operator delete: any thread may release a block, or NULL.
Deallocate(t) ==
  /\ CallsDefault(t)
  /\ \/ \E a \in UsedAddrs :
          /\ heap' = [heap EXCEPT ![a] = 0]
          /\ Done(t, Op("free", Here, 0, Null, a, heap[a]))
     \/ /\ UNCHANGED heap
        /\ Done(t, Op("free", Here, 0, Null, Null, 0))

\* realloc of a block, or of NULL: the block stays, moves or is new, or there is no memory and
\* nothing changes; a block that is asked to have no bytes is released.  Either way there is
\* one record.
Reallocate(t) ==
  /\ CallsDefault(t)
  /\ \E a \in UsedAddrs \cup {Null} :
       LET released == IF a = Null THEN 0 ELSE heap[a]
           others == [b \in Addrs |-> IF b = a THEN 0 ELSE heap[b]]
       IN  \/ \E b \in {x \in Addrs : others[x] = 0} :
                /\ heap' = [others EXCEPT ![b] = Here]
                /\ Done(t, Op("realloc", Here, Here, b, a, released))
           \/ /\ FreeAddrs = {}
              /\ UNCHANGED heap
              /\ Done(t, Op("realloc", Here, Here, Null, a, released))
           \/ /\ a # Null
              /\ heap' = others
              /\ Done(t, Op("realloc", Here, 0, Null, a, released))

Units(buffer) ==
  LET u[i \in 0 .. Len(buffer)] == IF i = 0 THEN 0 ELSE u[i - 1] + RecordUnits[buffer[i].mType]
  IN  u[Len(buffer)]

Stamped(o) == [mType |-> o.mType, mTimeStamp |-> now, mSize |-> o.mSize,
               block |-> o.block, old |-> o.old, n |-> o.n]

\* What is in the file t has open, or finds when it opens it to append.
FileOf(t) == IF files[t] = Null THEN <<>> ELSE files[t]

\* The record has been dealt with, whatever became of it.
Logged(t) ==
  /\ Goto(t, "app")
  /\ made' = [made EXCEPT ![t] = NoOp]
  /\ UNCHANGED <<heap, history, now, gProcessExitting>>

\* Is there room in the buffer for t's record?
Fits(t) == Units(tls[t].mBuffer) + RecordUnits[made[t].mType] <= BufferUnits

\* AT_LogRecord with room in the buffer.
LogRecord(t) ==
  /\ process = "running" /\ pc[t] = "log" /\ Fits(t)
  /\ \/ /\ files' = [files EXCEPT ![t] = FileOf(t)]
        /\ tls' = [tls EXCEPT ![t] = FileControl(TRUE, Append(tls[t].mBuffer, Stamped(made[t])))]
        /\ UNCHANGED ioFailed
     \/ /\ IOFails /\ ~tls[t].mpFile
        /\ tls' = [tls EXCEPT ![t] = FileControl(FALSE, Append(tls[t].mBuffer, Stamped(made[t])))]
        /\ ioFailed' = TRUE
        /\ UNCHANGED files
  /\ Logged(t)
  /\ UNCHANGED process

\* Bug: the record goes into the file before the buffer that is older.
BugLogFullBuffer(t) ==
  /\ process = "running" /\ pc[t] = "log" /\ ~Fits(t)
  /\ files' = [files EXCEPT ![t] = Append(FileOf(t), Stamped(made[t])) \o tls[t].mBuffer]
  /\ tls' = [tls EXCEPT ![t] = FileControl(TRUE, <<>>)]
  /\ Logged(t)
  /\ UNCHANGED <<process, ioFailed>>

\* AT_LogRecord with a full buffer: it is written out first.  If fwrite fails the
\* record is dropped and the buffer stays; if fopen failed, fwrite is given NULL.
LogFullBuffer(t) ==
  /\ process = "running" /\ pc[t] = "log" /\ ~Fits(t)
  /\ \/ /\ files' = [files EXCEPT ![t] = FileOf(t) \o tls[t].mBuffer]
        /\ tls' = [tls EXCEPT ![t] = FileControl(TRUE, <<Stamped(made[t])>>)]
        /\ UNCHANGED <<process, ioFailed>>
     \/ /\ IOFails
        /\ files' = [files EXCEPT ![t] = FileOf(t)]
        /\ tls' = [tls EXCEPT ![t] = FileControl(TRUE, tls[t].mBuffer)]
        /\ ioFailed' = TRUE
        /\ UNCHANGED process
     \/ /\ IOFails /\ ~tls[t].mpFile
        /\ ioFailed' = TRUE
        /\ process' = "crashed"
        /\ UNCHANGED <<tls, files>>
  /\ Logged(t)

-------------------------------------------------------------------------------
(* buffer_destroy, AT_FiniMallocLogger and the end of the process *)

\* buffer_destroy writes the rest of the buffer, if there is a file, and drops it.
Flush(t) ==
  \/ /\ tls[t].mpFile
     /\ files' = [files EXCEPT ![t] = FileOf(t) \o tls[t].mBuffer]
     /\ UNCHANGED ioFailed
  \/ /\ ~tls[t].mpFile
     /\ UNCHANGED <<files, ioFailed>>
  \/ /\ IOFails /\ tls[t].mpFile /\ tls[t].mBuffer # <<>>
     /\ ioFailed' = TRUE
     /\ UNCHANGED files

\* The destructor of the key.  The thread may go on for a while, allocate in another
\* destructor and get a FileControl again, that appends to the same file.
BufferDestroy(t) ==
  /\ process = "running" /\ pc[t] = "app" /\ t # Main
  /\ tls[t] # Null
  /\ Flush(t)
  /\ tls' = [tls EXCEPT ![t] = Null]
  /\ UNCHANGED <<heap, history, now, pc, made, gProcessExitting, process>>

ThreadExit(t) ==
  /\ process = "running" /\ pc[t] = "app" /\ t # Main
  /\ tls[t] = Null
  /\ Goto(t, "gone")
  /\ UNCHANGED <<heap, history, now, tls, files, made, gProcessExitting, process, ioFailed>>

\* AT_FiniMallocLogger, first half.  If the main thread has a FileControl without a file
\* it frees it and keeps the pointer to it: the run ends here.
FiniMallocLogger ==
  /\ process = "running" /\ pc[Main] = "app" /\ ~gProcessExitting
  /\ IF tls[Main] = Null
     THEN UNCHANGED <<tls, files, ioFailed, process>>
     ELSE /\ Flush(Main)
          /\ tls' = [tls EXCEPT ![Main] = Null]
          /\ process' = IF tls[Main].mpFile THEN process ELSE "crashed"
  /\ Goto(Main, "fini")
  /\ UNCHANGED <<heap, history, now, made, gProcessExitting>>

\* ... second half.  Other atexit handlers and destructors may still allocate.
SetProcessExitting ==
  /\ process = "running" /\ pc[Main] = "fini"
  /\ gProcessExitting' = TRUE
  /\ Goto(Main, "app")
  /\ UNCHANGED <<heap, history, now, tls, files, made, process, ioFailed>>

\* The process is gone, and what was in memory with it.
Vanish(how) ==
  /\ process' = how
  /\ heap' = [a \in Addrs |-> 0]
  /\ tls' = [t \in Threads |-> Null]
  /\ pc' = [t \in Threads |-> "gone"]
  /\ made' = [t \in Threads |-> NoOp]
  /\ now' = 0 /\ gProcessExitting' = FALSE /\ ioFailed' = FALSE
  /\ UNCHANGED history

\* exit closes the files: all that was given to fwrite is in them.
EndProcess ==
  /\ process = "running" /\ pc[Main] = "app" /\ gProcessExitting
  /\ Vanish("ended")
  /\ UNCHANGED files

\* What a file that was open when the process was killed may contain: stdio has written
\* some of it, in blocks that end anywhere in a record (never in the first).
Cuts(file) ==
  {SubSeq(file, 1, k) : k \in 0 .. Len(file)}
    \cup {Append(SubSeq(file, 1, k), Truncated) : k \in 1 .. Len(file) - 1}

Kill ==
  /\ process = "running"
  /\ files' \in {f \in [Threads -> UNION {IF files[t] = Null THEN {Null} ELSE Cuts(files[t])
                                            : t \in Threads}] :
                   \A t \in Threads :
                     f[t] \in IF tls[t] = Null THEN {files[t]}
                              ELSE IF files[t] = Null THEN {Null} ELSE Cuts(files[t])}
  /\ Vanish("killed")

-------------------------------------------------------------------------------
LoggerStep(t) ==
  \/ Enter(t) \/ Allocate(t) \/ Deallocate(t) \/ Reallocate(t)
  \/ LogRecord(t) \/ LogFullBuffer(t) \/ BufferDestroy(t) \/ ThreadExit(t)

LoggerNext ==
  \/ Tick
  \/ \E t \in Threads : LoggerStep(t)
  \/ FiniMallocLogger \/ SetProcessExitting \/ EndProcess \/ Kill
===============================================================================
