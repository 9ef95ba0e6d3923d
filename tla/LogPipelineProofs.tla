--------------------------- MODULE LogPipelineProofs ---------------------------
(***************************************************************************)
(* No record is lost, doubled or out of order between a thread's buffer    *)
(* and its file (LogPipeline!LogsComplete), for any number of threads,     *)
(* addresses, operations and any size of the buffer.                       *)
(*                                                                         *)
(* The invariant speaks of the records a thread has logged, wherever they  *)
(* are: writing the buffer out moves them and changes nothing.  It needs   *)
(* that a buffer without an open file is empty (it is dropped unwritten),  *)
(* that a thread about to log has a FileControl, that one that makes an    *)
(* operation without can only be late, and that numbers and stamps do not  *)
(* run ahead of the process.                                               *)
(*                                                                         *)
(* The log written from the files a process leaves, even one that failed   *)
(* to write some or was killed, keeps the threads apart by time stamps     *)
(* (OutputSeparated) and pairs each release with the allocation of an      *)
(* outstanding block (OutputMatched).  The invariant ties the consolidator *)
(* to the log it has written: each block it knows is outstanding there,    *)
(* with the size and the thread known, and is known once; the number kept  *)
(* with the last time stamp is that of the operation after it; releases    *)
(* are right when written, marks when the second pass has reached them,    *)
(* which goes forward from the record whose number it keeps.               *)
(*                                                                         *)
(* Where the records of an address are in the order of the operations on   *)
(* it, the release is paired with the allocation of the very block it      *)
(* released (PairedTruly).  The invariant ties the log to the heap.  The   *)
(* history is true of the heap: a release names the operation that made    *)
(* the block, and a block is made where none is.  Whatever a thread is     *)
(* about to log, holds in its buffer or has in its file is the record of   *)
(* an operation of the history.  And where the records merged so far show  *)
(* the operations on an address up to the last shown, none left out, none  *)
(* out of order and none a realloc that failed, the consolidator knows at  *)
(* that address the block the last of them made, if it made one.           *)
(***************************************************************************)
EXTENDS LogPipeline, ConsolidatedLogProofs, SequenceTheorems

Controls == [mpFile : BOOLEAN, mBuffer : Seq(LogRecords)]
HeapOps == [mType : DOMAIN RecordUnits, n : Nat, mSize : Nat,
            block : Addrs \cup {Null}, old : Addrs \cup {Null}, released : Nat]

Running == process = "running" /\ ~ioFailed

LogTypes ==
  /\ heap \in [Addrs -> Nat]
  /\ history \in Seq(HeapOps)
  /\ now \in Nat
  /\ tls \in [Threads -> Controls \cup {Null}]
  /\ files \in [Threads -> Seq(LogRecords) \cup {Null}]
  /\ pc \in [Threads -> {"app", "default", "log", "fini", "gone"}]
  /\ made \in [Threads -> HeapOps]
  /\ gProcessExitting \in BOOLEAN

\* Who has a FileControl, and what is in one without a file.
Controlled ==
  \A t \in Threads :
    /\ pc[t] = "log" => tls[t] # Null
    /\ (pc[t] = "default" /\ tls[t] = Null) => gProcessExitting
    /\ (tls[t] # Null /\ ~tls[t].mpFile) => tls[t].mBuffer = <<>>

\* What a thread has logged, in its file and in its buffer.
Buffered(t) == IF tls[t] = Null THEN <<>> ELSE tls[t].mBuffer
Recorded(t) == FileOf(t) \o Buffered(t)
Pending(t) == pc[t] = "log"

InOrder ==
  \A t \in Threads : \A i, j \in DOMAIN Recorded(t) :
    i < j => /\ Recorded(t)[i].n < Recorded(t)[j].n
             /\ Recorded(t)[i].mTimeStamp <= Recorded(t)[j].mTimeStamp

NotAhead ==
  \A t \in Threads :
    /\ \A i \in DOMAIN Recorded(t) :
         /\ Recorded(t)[i].n \in 1 .. Len(history)
         /\ Recorded(t)[i].mTimeStamp <= now
         /\ Pending(t) => Recorded(t)[i].n < made[t].n
    /\ Pending(t) => made[t].n \in 1 .. Len(history)

\* Operation n is in the log of t, or about to be.
Holds(t, n) ==
  \/ \E i \in DOMAIN Recorded(t) : Recorded(t)[i].n = n
  \/ Pending(t) /\ made[t].n = n

HeldOnce == \A t, u \in Threads : \A n \in Nat : (Holds(t, n) /\ Holds(u, n)) => t = u
HeldAll == ~gProcessExitting => \A n \in 1 .. Len(history) : \E t \in Threads : Holds(t, n)

\* The inductive invariant, as long as the process runs and no file operation has failed.
Placed == LogTypes /\ Controlled
Told == InOrder /\ NotAhead /\ HeldOnce /\ HeldAll
LogInv == Running => Placed /\ Told

-------------------------------------------------------------------------------
(* Types *)

LEMMA KindsOfRecords == DOMAIN RecordUnits = {"malloc", "free", "realloc"}
BY DEF RecordUnits

LEMMA NullApart == Null \notin Seq(LogRecords) /\ Null \notin Controls
BY LoggerAssumption DEF Controls

\* What is in the file and in the buffer are lists of records.
LEMMA ListTypes ==
  ASSUME LogTypes
  PROVE  \A t \in Threads :
           /\ FileOf(t) \in Seq(LogRecords)
           /\ tls[t] # Null => /\ tls[t] \in Controls
                               /\ tls[t].mpFile \in BOOLEAN
                               /\ tls[t].mBuffer \in Seq(LogRecords)
<1> SUFFICES ASSUME NEW t \in Threads
             PROVE  /\ FileOf(t) \in Seq(LogRecords)
                    /\ tls[t] # Null => /\ tls[t] \in Controls
                                        /\ tls[t].mpFile \in BOOLEAN
                                        /\ tls[t].mBuffer \in Seq(LogRecords)
  OBVIOUS
<1>1. /\ tls[t] \in Controls \cup {Null}
      /\ files[t] \in Seq(LogRecords) \cup {Null}
      /\ <<>> \in Seq(LogRecords)
  BY EmptySeq DEF LogTypes
<1>2. tls[t] # Null => /\ tls[t] \in Controls
                       /\ tls[t].mpFile \in BOOLEAN
                       /\ tls[t].mBuffer \in Seq(LogRecords)
  BY <1>1 DEF Controls
<1>3. FileOf(t) \in Seq(LogRecords)
  BY <1>1 DEF FileOf
<1> QED
  BY <1>2, <1>3

LEMMA RecordedType ==
  ASSUME Placed
  PROVE  \A t \in Threads :
           /\ FileOf(t) \in Seq(LogRecords) /\ Buffered(t) \in Seq(LogRecords)
           /\ Recorded(t) \in Seq(LogRecords)
           /\ tls[t] # Null => /\ tls[t] \in Controls
                               /\ tls[t].mpFile \in BOOLEAN
                               /\ tls[t].mBuffer \in Seq(LogRecords)
<1>1. \A t \in Threads : Buffered(t) \in Seq(LogRecords)
  BY ListTypes, EmptySeq DEF Placed, Buffered
<1> QED
  BY <1>1, ListTypes, ConcatProperties DEF Placed, Recorded

\* A stamped operation is a record.
LEMMA StampedRecord ==
  ASSUME LogTypes, NEW t \in Threads
  PROVE  /\ Stamped(made[t]) \in LogRecords
         /\ Stamped(made[t]).n = made[t].n
         /\ Stamped(made[t]).mTimeStamp = now
<1>1. made[t] \in HeapOps /\ now \in Nat
  BY DEF LogTypes
<1> QED
  BY <1>1 DEF Stamped, LogRecords, HeapOps

LEMMA StampedType ==
  ASSUME Placed, NEW t \in Threads
  PROVE  /\ Stamped(made[t]) \in LogRecords
         /\ Stamped(made[t]).n = made[t].n
         /\ Stamped(made[t]).mTimeStamp = now
BY StampedRecord DEF Placed

-------------------------------------------------------------------------------
(* What is told of the records, by the kind of step *)

\* The records stay where they are, or move from the buffer to the file.
LEMMA SameRecords ==
  ASSUME Told,
         \A u \in Threads : /\ Recorded(u)' = Recorded(u)
                            /\ Pending(u)' <=> Pending(u)
                            /\ made'[u] = made[u],
         history' = history, now \in Nat, now' \in Nat, now <= now',
         gProcessExitting => gProcessExitting',
         Placed
  PROVE  Told'
<1>1. \A u \in Threads : \A n : Holds(u, n)' <=> Holds(u, n)
  BY DEF Holds
<1>2. InOrder'
  BY DEF Told, InOrder
<1>3. NotAhead'
  <2>1. \A u \in Threads : \A i \in DOMAIN Recorded(u) : Recorded(u)[i].mTimeStamp \in Nat
    <3> SUFFICES ASSUME NEW u \in Threads, NEW i \in DOMAIN Recorded(u)
                 PROVE  Recorded(u)[i].mTimeStamp \in Nat
      OBVIOUS
    <3>1. Recorded(u) \in Seq(LogRecords)
      BY RecordedType
    <3>2. Recorded(u)[i] \in LogRecords
      BY <3>1
    <3> QED
      BY <3>2 DEF LogRecords
  <2> QED
    BY <2>1 DEF Told, NotAhead
<1>4. HeldOnce' /\ HeldAll'
  BY <1>1 DEF Told, HeldOnce, HeldAll
<1> QED
  BY <1>2, <1>3, <1>4 DEF Told

\* Thread t makes the next operation: it is to be logged, or made late without FileControl.
LEMMA NewOperation ==
  ASSUME Told, Placed, NEW t \in Threads, NEW o \in HeapOps,
         o.n = Here, history' = Append(history, o),
         \A u \in Threads : Recorded(u)' = Recorded(u),
         \A u \in Threads \ {t} : (Pending(u)' <=> Pending(u)) /\ made'[u] = made[u],
         ~Pending(t),
         \/ Pending(t)' /\ made'[t] = o
         \/ ~Pending(t)' /\ gProcessExitting,
         now' = now, gProcessExitting' = gProcessExitting
  PROVE  Told'
<1>1. /\ Len(history) \in Nat /\ Len(history') = Len(history) + 1 /\ o.n = Len(history')
  BY DEF Here, Placed, LogTypes
<1>2. InOrder'
  BY DEF Told, InOrder
<1>3. \A u \in Threads : \A i \in DOMAIN Recorded(u) :
        Recorded(u)[i].n \in 1 .. Len(history) /\ Recorded(u)[i].mTimeStamp <= now
  BY DEF Told, NotAhead
<1>4. \A u \in Threads : Pending(u) => made[u].n \in 1 .. Len(history)
  BY DEF Told, NotAhead
<1>5. NotAhead'
  <2> SUFFICES ASSUME NEW u \in Threads
               PROVE  /\ \A i \in DOMAIN Recorded(u)' :
                           /\ Recorded(u)'[i].n \in 1 .. Len(history')
                           /\ Recorded(u)'[i].mTimeStamp <= now'
                           /\ Pending(u)' => Recorded(u)'[i].n < made'[u].n
                      /\ Pending(u)' => made'[u].n \in 1 .. Len(history')
    BY DEF NotAhead
  <2>1. CASE u = t
    BY <2>1, <1>1, <1>3
  <2>2. CASE u # t
    <3>1. \A i \in DOMAIN Recorded(u) : Pending(u) => Recorded(u)[i].n < made[u].n
      BY DEF Told, NotAhead
    <3> QED
      BY <2>2, <3>1, <1>1, <1>3, <1>4
  <2> QED
    BY <2>1, <2>2
<1>6. \A u \in Threads : \A n : Holds(u, n) => n \in 1 .. Len(history)
  BY <1>3, <1>4 DEF Holds
<1>7. \A u \in Threads : \A n : u # t => (Holds(u, n)' <=> Holds(u, n))
  BY DEF Holds
<1>8. \A n : Holds(t, n)' <=> (Holds(t, n) \/ (Pending(t)' /\ n = o.n))
  BY DEF Holds
<1>9. HeldOnce'
  <2> SUFFICES ASSUME NEW u \in Threads, NEW v \in Threads, NEW n \in Nat,
                      Holds(u, n)', Holds(v, n)'
               PROVE  u = v
    BY DEF HeldOnce
  <2>1. CASE n = o.n
    BY <2>1, <1>1, <1>6, <1>7
  <2>2. CASE n # o.n
    BY <2>2, <1>7, <1>8 DEF Told, HeldOnce
  <2> QED
    BY <2>1, <2>2
<1>10. HeldAll'
  <2> SUFFICES ASSUME ~gProcessExitting, NEW n \in 1 .. Len(history')
               PROVE  \E u \in Threads : Holds(u, n)'
    BY DEF HeldAll
  <2>1. CASE n = o.n
    BY <2>1, <1>8
  <2>2. CASE n # o.n
    <3>1. n \in 1 .. Len(history)
      BY <2>2, <1>1
    <3> QED
      BY <3>1, <1>7, <1>8 DEF Told, HeldAll
  <2> QED
    BY <2>1, <2>2
<1> QED
  BY <1>2, <1>5, <1>9, <1>10 DEF Told

\* Thread t logs what it has made.
LEMMA RecordLogged ==
  ASSUME Told, Placed, NEW t \in Threads, NEW r \in LogRecords,
         Pending(t), ~Pending(t)',
         r.n = made[t].n, r.mTimeStamp = now,
         Recorded(t)' = Append(Recorded(t), r),
         \A u \in Threads \ {t} : /\ Recorded(u)' = Recorded(u)
                                  /\ Pending(u)' <=> Pending(u)
                                  /\ made'[u] = made[u],
         history' = history, now' = now, gProcessExitting' = gProcessExitting
  PROVE  Told'
<1> DEFINE s == Recorded(t)
<1>1. /\ s \in Seq(LogRecords) /\ Len(s) \in Nat /\ DOMAIN s = 1 .. Len(s)
      /\ DOMAIN (Recorded(t)') = 1 .. Len(s) + 1
      /\ \A i \in 1 .. Len(s) : (Recorded(t)')[i] = s[i]
      /\ (Recorded(t)')[Len(s) + 1] = r
      /\ now \in Nat /\ Len(history) \in Nat
  <2>1. s \in Seq(LogRecords) /\ now \in Nat /\ Len(history) \in Nat
    BY RecordedType DEF Placed, LogTypes
  <2> QED
    BY <2>1, AppendProperties, LenProperties
<1>2. \A i \in 1 .. Len(s) : /\ s[i].n \in Nat /\ s[i].n < r.n
                             /\ s[i].mTimeStamp \in Nat /\ s[i].mTimeStamp <= now
                             /\ s[i].n \in 1 .. Len(history)
  <2> SUFFICES ASSUME NEW i \in 1 .. Len(s)
               PROVE  /\ s[i].n \in Nat /\ s[i].n < r.n
                      /\ s[i].mTimeStamp \in Nat /\ s[i].mTimeStamp <= now
                      /\ s[i].n \in 1 .. Len(history)
    OBVIOUS
  <2>1. s[i] \in LogRecords
    BY <1>1
  <2>2. s[i].n < r.n /\ s[i].mTimeStamp <= now /\ s[i].n \in 1 .. Len(history)
    BY <1>1 DEF Told, NotAhead
  <2> QED
    BY <2>1, <2>2 DEF LogRecords
<1>3. r.n \in 1 .. Len(history)
  BY DEF Told, NotAhead
<1>4. InOrder'
  <2> SUFFICES ASSUME NEW u \in Threads,
                      NEW i \in DOMAIN (Recorded(u)'), NEW j \in DOMAIN (Recorded(u)'), i < j
               PROVE  /\ (Recorded(u)')[i].n < (Recorded(u)')[j].n
                      /\ (Recorded(u)')[i].mTimeStamp <= (Recorded(u)')[j].mTimeStamp
    BY DEF InOrder
  <2>1. CASE u # t
    BY <2>1 DEF Told, InOrder
  <2>2. CASE u = t /\ j = Len(s) + 1
    <3>1. i \in 1 .. Len(s)
      BY <2>2, <1>1
    <3> QED
      BY <2>2, <3>1, <1>1, <1>2
  <2>3. CASE u = t /\ j # Len(s) + 1
    <3>1. i \in 1 .. Len(s) /\ j \in 1 .. Len(s)
      BY <2>3, <1>1
    <3> QED
      BY <2>3, <3>1, <1>1 DEF Told, InOrder
  <2> QED
    BY <2>1, <2>2, <2>3
<1>5. NotAhead'
  <2> SUFFICES ASSUME NEW u \in Threads
               PROVE  /\ \A i \in DOMAIN (Recorded(u)') :
                           /\ (Recorded(u)')[i].n \in 1 .. Len(history')
                           /\ (Recorded(u)')[i].mTimeStamp <= now'
                           /\ Pending(u)' => (Recorded(u)')[i].n < made'[u].n
                      /\ Pending(u)' => made'[u].n \in 1 .. Len(history')
    BY DEF NotAhead
  <2>1. CASE u # t
    BY <2>1 DEF Told, NotAhead
  <2>2. CASE u = t
    BY <2>2, <1>1, <1>2, <1>3
  <2> QED
    BY <2>1, <2>2
<1>6. \A u \in Threads : \A n : Holds(u, n)' <=> Holds(u, n)
  <2> SUFFICES ASSUME NEW u \in Threads, NEW n PROVE Holds(u, n)' <=> Holds(u, n)
    OBVIOUS
  <2>1. CASE u # t
    BY <2>1 DEF Holds
  <2>2. CASE u = t
    <3>1. Holds(t, n) <=> (n = r.n \/ \E i \in 1 .. Len(s) : s[i].n = n)
      BY <1>1 DEF Holds
    <3>2. Holds(t, n)' <=> \E i \in 1 .. Len(s) + 1 : (Recorded(t)')[i].n = n
      BY <1>1 DEF Holds
    <3> HIDE DEF s
    <3>3. (\E i \in 1 .. Len(s) + 1 : (Recorded(t)')[i].n = n)
             <=> (n = r.n \/ \E i \in 1 .. Len(s) : s[i].n = n)
      <4>1. 1 .. Len(s) + 1 = (1 .. Len(s)) \cup {Len(s) + 1}
        BY <1>1
      <4> QED
        BY <4>1, <1>1
    <3> QED
      BY <2>2, <3>1, <3>2, <3>3
  <2> QED
    BY <2>1, <2>2
<1>7. HeldOnce' /\ HeldAll'
  BY <1>6 DEF Told, HeldOnce, HeldAll
<1> QED
  BY <1>4, <1>5, <1>7 DEF Told

-------------------------------------------------------------------------------
(* The steps of the application and its logger *)

\* File and buffer of a thread alone say what it has recorded.
LEMMA RecordedKept ==
  \A u \in Threads :
    (files'[u] = files[u] /\ tls'[u] = tls[u]) => Recorded(u)' = Recorded(u)
BY DEF Recorded, FileOf, Buffered

LEMMA TickKept ==
  ASSUME Placed, Told, Tick
  PROVE  (Placed /\ Told)'
<1>1. /\ now \in Nat /\ now' = now + 1
      /\ UNCHANGED <<heap, history, tls, files, pc, made, gProcessExitting>>
  BY DEF Tick, Placed, LogTypes
<1>2. Placed'
  BY <1>1 DEF Placed, LogTypes, Controlled
<1>3. Told'
  BY <1>1, RecordedKept, SameRecords DEF Pending
<1> QED
  BY <1>2, <1>3

\* A new FileControl is empty.
LEMMA EnterKept ==
  ASSUME Placed, Told, NEW t \in Threads, Enter(t)
  PROVE  (Placed /\ Told)'
<1>1. /\ pc[t] = "app" /\ tls[t] = Null /\ pc' = [pc EXCEPT ![t] = "default"]
      /\ tls' = IF gProcessExitting THEN tls ELSE [tls EXCEPT ![t] = FileControl(FALSE, <<>>)]
      /\ UNCHANGED <<heap, history, now, files, made, gProcessExitting>>
  BY DEF Enter, Goto
<1>2. FileControl(FALSE, <<>>) \in Controls /\ FileControl(FALSE, <<>>) # Null
  <2>1. <<>> \in Seq(LogRecords)
    BY EmptySeq
  <2>2. FileControl(FALSE, <<>>) \in Controls
    BY <2>1 DEF FileControl, Controls
  <2> QED
    BY <2>2, NullApart
<1>3. LogTypes'
  BY <1>1, <1>2 DEF Placed, LogTypes
<1>4. /\ pc'[t] = "default" /\ \A u \in Threads \ {t} : pc'[u] = pc[u] /\ tls'[u] = tls[u]
      /\ gProcessExitting => tls'[t] = Null
      /\ ~gProcessExitting => tls'[t] = FileControl(FALSE, <<>>)
  BY <1>1 DEF Placed, LogTypes
<1>5. Controlled'
  BY <1>1, <1>2, <1>4 DEF Placed, Controlled, FileControl
<1>6. \A u \in Threads : Recorded(u)' = Recorded(u)
  <2>1. Buffered(t) = <<>> /\ Buffered(t)' = <<>>
    BY <1>1, <1>2, <1>4 DEF Buffered, FileControl
  <2> QED
    BY <2>1, <1>1, <1>4, RecordedKept DEF Recorded, FileOf
<1>7. \A u \in Threads : (Pending(u)' <=> Pending(u)) /\ made'[u] = made[u]
  BY <1>1, <1>4 DEF Pending
<1>8. now \in Nat
  BY DEF Placed, LogTypes
<1> QED
  BY <1>1, <1>3, <1>5, <1>6, <1>7, <1>8, SameRecords DEF Placed

\* The default routine has run.
LEMMA DoneKept ==
  ASSUME Placed, Told, NEW t \in Threads, NEW o \in HeapOps, o.n = Here,
         CallsDefault(t), Done(t, o), heap' \in [Addrs -> Nat]
  PROVE  (Placed /\ Told)'
<1>1. /\ history' = Append(history, o)
      /\ UNCHANGED <<now, tls, files, gProcessExitting>>
      /\ \/ tls[t] = Null /\ pc' = [pc EXCEPT ![t] = "app"] /\ made' = made
         \/ tls[t] # Null /\ pc' = [pc EXCEPT ![t] = "log"] /\ made' = [made EXCEPT ![t] = o]
      /\ pc[t] \in {"default", "app"}
      /\ tls[t] = Null => pc[t] = "default"
  BY DEF CallsDefault, Done, Goto
<1>2. LogTypes'
  <2>1. history' \in Seq(HeapOps)
    BY <1>1, AppendProperties DEF Placed, LogTypes
  <2> QED
    BY <2>1, <1>1 DEF Placed, LogTypes
<1>3. /\ \A u \in Threads \ {t} : pc'[u] = pc[u] /\ made'[u] = made[u]
      /\ tls[t] = Null => pc'[t] = "app"
      /\ tls[t] # Null => pc'[t] = "log" /\ made'[t] = o
  BY <1>1 DEF Placed, LogTypes
<1>4. Controlled'
  BY <1>1, <1>3 DEF Placed, Controlled
<1>5. tls[t] = Null => gProcessExitting
  BY <1>1 DEF Placed, Controlled
<1>6. \A u \in Threads : Recorded(u)' = Recorded(u)
  BY <1>1, RecordedKept
<1>7. /\ \A u \in Threads \ {t} : (Pending(u)' <=> Pending(u)) /\ made'[u] = made[u]
      /\ ~Pending(t)
      /\ \/ Pending(t)' /\ made'[t] = o
         \/ ~Pending(t)' /\ gProcessExitting
  BY <1>1, <1>3, <1>5 DEF Pending
<1>8. Told'
  BY <1>1, <1>6, <1>7, NewOperation
<1> QED
  BY <1>2, <1>4, <1>8 DEF Placed

\* The three ends of realloc, with its local names spelt out.
Released(a) == IF a = Null THEN 0 ELSE heap[a]
HeapWithout(a) == [b \in Addrs |-> IF b = a THEN 0 ELSE heap[b]]
Reallocated(t, a) ==
  \/ \E b \in {x \in Addrs : HeapWithout(a)[x] = 0} :
       /\ heap' = [HeapWithout(a) EXCEPT ![b] = Here]
       /\ Done(t, Op("realloc", Here, Here, b, a, Released(a)))
  \/ /\ FreeAddrs = {}
     /\ UNCHANGED heap
     /\ Done(t, Op("realloc", Here, Here, Null, a, Released(a)))
  \/ /\ a # Null
     /\ heap' = HeapWithout(a)
     /\ Done(t, Op("realloc", Here, 0, Null, a, Released(a)))

LEMMA ReallocCases ==
  ASSUME NEW t, Reallocate(t)
  PROVE  \E a \in UsedAddrs \cup {Null} : Reallocated(t, a)
  BY DEF Reallocate, Reallocated, Released, HeapWithout

LEMMA DefaultDone ==
  ASSUME NEW t, Allocate(t) \/ Deallocate(t) \/ Reallocate(t)
  PROVE  \E o : Done(t, o)
<1>1. CASE Allocate(t) \/ Deallocate(t)
  BY <1>1 DEF Allocate, Deallocate
<1>2. CASE Reallocate(t)
  BY <1>2, ReallocCases DEF Reallocated
<1> QED
  BY <1>1, <1>2

\* malloc, free and realloc differ in what becomes of the heap.
LEMMA DefaultMakes ==
  ASSUME LogTypes, NEW t \in Threads, Allocate(t) \/ Deallocate(t) \/ Reallocate(t)
  PROVE  \E o \in HeapOps : o.n = Here /\ Done(t, o) /\ heap' \in [Addrs -> Nat]
<1>1. heap \in [Addrs -> Nat] /\ Here \in Nat
  BY DEF LogTypes, Here
<1>2. \A type \in DOMAIN RecordUnits, size \in Nat, released \in Nat,
         block \in Addrs \cup {Null}, old \in Addrs \cup {Null} :
        LET o == Op(type, Here, size, block, old, released) IN o \in HeapOps /\ o.n = Here
  BY <1>1 DEF Op, HeapOps
<1>3. /\ \A a \in FreeAddrs : a \in Addrs
      /\ \A a \in UsedAddrs : a \in Addrs /\ heap[a] \in Nat
  BY <1>1 DEF FreeAddrs, UsedAddrs
<1>4. CASE Allocate(t)
  <2>1. CASE \E a \in FreeAddrs : /\ heap' = [heap EXCEPT ![a] = Here]
                                  /\ Done(t, Op("malloc", Here, Here, a, Null, 0))
    BY <2>1, <1>1, <1>2, <1>3, KindsOfRecords
  <2>2. CASE UNCHANGED heap /\ Done(t, Op("malloc", Here, Here, Null, Null, 0))
    BY <2>2, <1>1, <1>2, KindsOfRecords
  <2> QED
    BY <1>4, <2>1, <2>2 DEF Allocate
<1>5. CASE Deallocate(t)
  <2>1. CASE \E a \in UsedAddrs : /\ heap' = [heap EXCEPT ![a] = 0]
                                  /\ Done(t, Op("free", Here, 0, Null, a, heap[a]))
    <3>1. PICK a \in UsedAddrs : /\ heap' = [heap EXCEPT ![a] = 0]
                                 /\ Done(t, Op("free", Here, 0, Null, a, heap[a]))
      BY <2>1
    <3>2. Op("free", Here, 0, Null, a, heap[a]) \in HeapOps
          /\ Op("free", Here, 0, Null, a, heap[a]).n = Here
      BY <1>2, <1>3, KindsOfRecords
    <3>3. heap' \in [Addrs -> Nat]
      BY <3>1, <1>1
    <3> QED
      BY <3>1, <3>2, <3>3
  <2>2. CASE UNCHANGED heap /\ Done(t, Op("free", Here, 0, Null, Null, 0))
    BY <2>2, <1>1, <1>2, KindsOfRecords
  <2> QED
    BY <1>5, <2>1, <2>2 DEF Deallocate
<1>6. CASE Reallocate(t)
  <2>1. PICK a \in UsedAddrs \cup {Null} : Reallocated(t, a)
    BY <1>6, ReallocCases
  <2>2. Released(a) \in Nat /\ HeapWithout(a) \in [Addrs -> Nat] /\ a \in Addrs \cup {Null}
    BY <1>1, <1>3 DEF Released, HeapWithout
  <2>3. CASE \E b \in {x \in Addrs : HeapWithout(a)[x] = 0} :
               /\ heap' = [HeapWithout(a) EXCEPT ![b] = Here]
               /\ Done(t, Op("realloc", Here, Here, b, a, Released(a)))
    <3>1. PICK b \in Addrs : /\ heap' = [HeapWithout(a) EXCEPT ![b] = Here]
                             /\ Done(t, Op("realloc", Here, Here, b, a, Released(a)))
      BY <2>3
    <3>2. Op("realloc", Here, Here, b, a, Released(a)) \in HeapOps
          /\ Op("realloc", Here, Here, b, a, Released(a)).n = Here
      BY <1>1, <1>2, <2>2, KindsOfRecords
    <3>3. heap' \in [Addrs -> Nat]
      BY <3>1, <2>2, <1>1
    <3> QED
      BY <3>1, <3>2, <3>3
  <2>4. CASE UNCHANGED heap /\ Done(t, Op("realloc", Here, Here, Null, a, Released(a)))
    BY <2>4, <1>1, <1>2, <2>2, KindsOfRecords
  <2>5. CASE heap' = HeapWithout(a) /\ Done(t, Op("realloc", Here, 0, Null, a, Released(a)))
    BY <2>5, <1>1, <1>2, <2>2, KindsOfRecords
  <2> QED
    BY <2>1, <2>3, <2>4, <2>5 DEF Reallocated
<1> QED
  BY <1>4, <1>5, <1>6

LEMMA DefaultKept ==
  ASSUME Placed, Told, NEW t \in Threads, Allocate(t) \/ Deallocate(t) \/ Reallocate(t)
  PROVE  (Placed /\ Told)'
<1>1. CallsDefault(t)
  BY DEF Allocate, Deallocate, Reallocate
<1>2. PICK o \in HeapOps : o.n = Here /\ Done(t, o) /\ heap' \in [Addrs -> Nat]
  BY DefaultMakes DEF Placed
<1> QED
  BY <1>1, <1>2, DoneKept

\* A thread deals with its record: file and buffer hold one more.
LEMMA LoggedKept ==
  ASSUME Placed, Told, NEW t \in Threads, NEW r \in LogRecords,
         NEW f \in Seq(LogRecords), NEW b \in Seq(LogRecords),
         pc[t] = "log", tls[t] # Null, r = Stamped(made[t]),
         f \o b = Append(Recorded(t), r),
         files' = [files EXCEPT ![t] = f],
         tls' = [tls EXCEPT ![t] = FileControl(TRUE, b)],
         Logged(t)
  PROVE  (Placed /\ Told)'
<1>1. /\ pc' = [pc EXCEPT ![t] = "app"] /\ made' = [made EXCEPT ![t] = NoOp]
      /\ UNCHANGED <<heap, history, now, gProcessExitting>>
  BY DEF Logged, Goto
<1>2. NoOp \in HeapOps
  BY KindsOfRecords DEF NoOp, Op, HeapOps
<1>3. FileControl(TRUE, b) \in Controls /\ FileControl(TRUE, b).mpFile
      /\ FileControl(TRUE, b).mBuffer = b
  BY DEF FileControl, Controls
<1>4. FileControl(TRUE, b) # Null /\ f # Null
  BY <1>3, NullApart
<1>5. LogTypes'
  BY <1>1, <1>2, <1>3 DEF Placed, LogTypes
<1>6. /\ \A u \in Threads \ {t} : /\ pc'[u] = pc[u] /\ tls'[u] = tls[u]
                                  /\ files'[u] = files[u] /\ made'[u] = made[u]
      /\ pc'[t] = "app" /\ tls'[t] = FileControl(TRUE, b) /\ files'[t] = f
  BY <1>1 DEF Placed, LogTypes
<1>7. Controlled'
  BY <1>1, <1>3, <1>6 DEF Placed, Controlled
<1>8. Recorded(t)' = f \o b
  BY <1>3, <1>4, <1>6 DEF Recorded, FileOf, Buffered
<1>9. /\ \A u \in Threads \ {t} : /\ Recorded(u)' = Recorded(u)
                                  /\ Pending(u)' <=> Pending(u)
                                  /\ made'[u] = made[u]
      /\ Pending(t) /\ ~Pending(t)'
  BY <1>6, RecordedKept DEF Pending
<1>10. r.n = made[t].n /\ r.mTimeStamp = now
  BY StampedType
<1>11. Told'
  BY <1>1, <1>8, <1>9, <1>10, RecordLogged
<1> QED
  BY <1>5, <1>7, <1>11 DEF Placed

\* The record goes into the buffer, behind those that are there ...
LEMMA LogRecordKept ==
  ASSUME Placed, Told, NEW t \in Threads, LogRecord(t), Running'
  PROVE  (Placed /\ Told)'
<1> DEFINE r == Stamped(made[t])
           b == Append(tls[t].mBuffer, r)
<1>1. /\ pc[t] = "log" /\ tls[t] # Null /\ Logged(t)
      /\ files' = [files EXCEPT ![t] = FileOf(t)]
      /\ tls' = [tls EXCEPT ![t] = FileControl(TRUE, b)]
  BY DEF LogRecord, Running, Placed, Controlled
<1>2. r \in LogRecords
  BY StampedType
<1>3. /\ FileOf(t) \in Seq(LogRecords) /\ tls[t].mBuffer \in Seq(LogRecords)
      /\ Recorded(t) \in Seq(LogRecords) /\ Recorded(t) = FileOf(t) \o tls[t].mBuffer
  BY <1>1, RecordedType DEF Recorded, Buffered
<1> HIDE DEF r
<1>4. <<r>> \in Seq(LogRecords)
  BY <1>2
<1>5. /\ b \in Seq(LogRecords) /\ b = tls[t].mBuffer \o <<r>>
      /\ Append(Recorded(t), r) = Recorded(t) \o <<r>>
  BY <1>2, <1>3, AppendProperties, AppendIsConcat
<1>6. FileOf(t) \o b = Append(Recorded(t), r)
  <2> DEFINE x == FileOf(t)
             y == tls[t].mBuffer
             z == <<r>>
  <2>1. x \in Seq(LogRecords) /\ y \in Seq(LogRecords) /\ z \in Seq(LogRecords)
    BY <1>3, <1>4
  <2>2. b = y \o z /\ Append(Recorded(t), r) = (x \o y) \o z
    BY <1>3, <1>5
  <2> HIDE DEF x, y, z, b
  <2>3. (x \o y) \o z = x \o (y \o z)
    BY <2>1, ConcatAssociative
  <2>4. x \o b = Append(Recorded(t), r)
    BY <2>2, <2>3
  <2> QED
    BY <2>4 DEF x
<1> HIDE DEF b
<1>7. r = Stamped(made[t])
  BY DEF r
<1> QED
  BY <1>1, <1>2, <1>3, <1>5, <1>6, <1>7, LoggedKept

\* ... or into an empty buffer, when those that are there have gone into the file.
LEMMA LogFullBufferKept ==
  ASSUME Placed, Told, NEW t \in Threads, LogFullBuffer(t), Running'
  PROVE  (Placed /\ Told)'
<1> DEFINE r == Stamped(made[t])
           f == FileOf(t) \o tls[t].mBuffer
<1>1. /\ pc[t] = "log" /\ tls[t] # Null /\ Logged(t)
      /\ files' = [files EXCEPT ![t] = f]
      /\ tls' = [tls EXCEPT ![t] = FileControl(TRUE, <<r>>)]
  BY DEF LogFullBuffer, Running, Placed, Controlled
<1>2. r \in LogRecords
  BY StampedType
<1>3. Recorded(t) \in Seq(LogRecords) /\ Recorded(t) = f
  BY <1>1, RecordedType DEF Recorded, Buffered
<1>4. r = Stamped(made[t])
  OBVIOUS
<1> HIDE DEF r, f
<1>5. <<r>> \in Seq(LogRecords) /\ f \in Seq(LogRecords)
  BY <1>2, <1>3
<1>6. f \o <<r>> = Append(Recorded(t), r)
  BY <1>2, <1>3, AppendIsConcat
<1> QED
  BY <1>1, <1>2, <1>4, <1>5, <1>6, LoggedKept

\* A FileControl goes: its buffer has been written, or is empty.
LEMMA FlushKept ==
  ASSUME Placed, Told, NEW t \in Threads, Flush(t), ~ioFailed', tls[t] # Null,
         tls' = [tls EXCEPT ![t] = Null],
         UNCHANGED <<heap, history, now, made, gProcessExitting>>,
         NEW l \in {"app", "fini"}, pc[t] = "app", pc' = [pc EXCEPT ![t] = l]
  PROVE  (Placed /\ Told)'
<1> DEFINE f == FileOf(t) \o tls[t].mBuffer
<1>1. /\ FileOf(t) \in Seq(LogRecords) /\ f \in Seq(LogRecords)
      /\ tls[t].mBuffer \in Seq(LogRecords)
      /\ Recorded(t) = f
  BY RecordedType DEF Recorded, Buffered
<1>2. f # Null
  BY <1>1, NullApart
<1>3. \/ files' = [files EXCEPT ![t] = f]
      \/ tls[t].mBuffer = <<>> /\ files' = files
  BY DEF Flush, Placed, Controlled
<1>4. f = FileOf(t) \/ tls[t].mBuffer # <<>>
  BY <1>1, ConcatEmptySeq
<1> HIDE DEF f
<1>5. LogTypes'
  BY <1>1, <1>3 DEF Placed, LogTypes
<1>6. /\ \A u \in Threads \ {t} : /\ pc'[u] = pc[u] /\ tls'[u] = tls[u]
                                  /\ files'[u] = files[u]
      /\ pc'[t] = l /\ tls'[t] = Null
      /\ files'[t] = f \/ (f = FileOf(t) /\ files'[t] = files[t])
  BY <1>1, <1>3, <1>4 DEF Placed, LogTypes
<1>7. Controlled'
  BY <1>6 DEF Placed, Controlled
<1>8. FileOf(t)' = f /\ Buffered(t)' = <<>>
  BY <1>2, <1>6 DEF FileOf, Buffered
<1>9. Recorded(t)' = Recorded(t)
  BY <1>1, <1>8, ConcatEmptySeq DEF Recorded
<1>10. \A u \in Threads : /\ Recorded(u)' = Recorded(u)
                          /\ Pending(u)' <=> Pending(u)
                          /\ made'[u] = made[u]
  BY <1>6, <1>9, RecordedKept DEF Pending
<1>11. now \in Nat /\ gProcessExitting' = gProcessExitting
  BY DEF Placed, LogTypes
<1>12. Told'
  BY <1>10, <1>11, SameRecords
<1> QED
  BY <1>5, <1>7, <1>12 DEF Placed

\* A step that only moves a thread that is not about to log.
LEMMA MoveKept ==
  ASSUME Placed, Told, NEW t \in Threads, NEW l \in {"app", "fini", "gone"},
         pc[t] # "log", pc' = [pc EXCEPT ![t] = l],
         UNCHANGED <<heap, history, now, tls, files, made>>,
         gProcessExitting' \in BOOLEAN, gProcessExitting => gProcessExitting'
  PROVE  (Placed /\ Told)'
<1>1. \A u \in Threads \ {t} : pc'[u] = pc[u]
  BY DEF Placed, LogTypes
<1>2. pc'[t] = l /\ now \in Nat
  BY DEF Placed, LogTypes
<1>3. Placed'
  BY <1>1, <1>2 DEF Placed, LogTypes, Controlled
<1>4. \A u \in Threads : /\ Recorded(u)' = Recorded(u)
                         /\ Pending(u)' <=> Pending(u)
                         /\ made'[u] = made[u]
  BY <1>1, <1>2, RecordedKept DEF Pending
<1>5. Told'
  BY <1>2, <1>4, SameRecords
<1> QED
  BY <1>3, <1>5

-------------------------------------------------------------------------------
LEMMA LogInvInit == Init => LogInv
<1> SUFFICES ASSUME Init PROVE Placed /\ Told
  BY DEF LogInv
<1>1. LoggerInit
  BY DEF Init
<1>2. NoOp \in HeapOps
  BY KindsOfRecords DEF NoOp, Op, HeapOps
<1>3. <<>> \in Seq(HeapOps)
  BY EmptySeq
<1>4. Placed
  BY <1>1, <1>2, <1>3 DEF LoggerInit, Placed, LogTypes, Controlled
<1>5. \A t \in Threads : Recorded(t) = <<>> /\ ~Pending(t)
  <2>1. <<>> \o <<>> = <<>>
    BY <1>3, ConcatEmptySeq
  <2> QED
    BY <1>1, <2>1 DEF LoggerInit, Recorded, FileOf, Buffered, Pending
<1>6. DOMAIN <<>> = {} /\ Len(history) = 0
  BY <1>1 DEF LoggerInit
<1>7. Told
  BY <1>5, <1>6 DEF Told, InOrder, NotAhead, Holds, HeldOnce, HeldAll
<1> QED
  BY <1>4, <1>7

LEMMA LogInvKept == LogInv /\ [Next]_vars => LogInv'
<1> SUFFICES ASSUME LogInv, [Next]_vars, Running' PROVE (Placed /\ Told)'
  BY DEF LogInv
<1>1. CASE UNCHANGED loggerVars
  <2>1. Placed /\ Told
    BY <1>1 DEF LogInv, Running, loggerVars
  <2>2. Placed'
    BY <1>1, <2>1 DEF loggerVars, Placed, LogTypes, Controlled
  <2>3. now \in Nat
    BY <2>1 DEF Placed, LogTypes
  <2>4. Told'
    BY <1>1, <2>1, <2>3, RecordedKept, SameRecords DEF loggerVars, Pending
  <2> QED
    BY <2>2, <2>4
<1>2. CASE LoggerNext
  <2>1. CASE Tick
    <3>1. Running
      BY <2>1 DEF Tick, Running
    <3> QED
      BY <2>1, <3>1, TickKept DEF LogInv
  <2>2. ASSUME NEW t \in Threads, LoggerStep(t)
        PROVE  (Placed /\ Told)'
    <3>1. CASE Enter(t)
      <4>1. Running
        BY <3>1 DEF Enter, Running
      <4> QED
        BY <3>1, <4>1, EnterKept DEF LogInv
    <3>2. CASE Allocate(t) \/ Deallocate(t) \/ Reallocate(t)
      <4>1. PICK o : Done(t, o)
        BY <3>2, DefaultDone
      <4>2. Running
        BY <4>1 DEF Done, Running
      <4> QED
        BY <3>2, <4>2, DefaultKept DEF LogInv
    <3>3. CASE LogRecord(t)
      <4>1. process = "running" /\ (UNCHANGED ioFailed \/ ioFailed' = TRUE)
        BY <3>3 DEF LogRecord
      <4>2. Running
        BY <4>1 DEF Running
      <4> QED
        BY <3>3, <4>2, LogRecordKept DEF LogInv
    <3>4. CASE LogFullBuffer(t)
      <4>1. process = "running" /\ (UNCHANGED ioFailed \/ ioFailed' = TRUE)
        BY <3>4 DEF LogFullBuffer
      <4>2. Running
        BY <4>1 DEF Running
      <4> QED
        BY <3>4, <4>2, LogFullBufferKept DEF LogInv
    <3>5. CASE BufferDestroy(t)
      <4>1. Running /\ ~ioFailed'
        BY <3>5 DEF BufferDestroy, Flush, Running
      <4>2. Placed /\ Told
        BY <4>1 DEF LogInv
      <4>3. /\ Flush(t) /\ tls[t] # Null /\ tls' = [tls EXCEPT ![t] = Null] /\ pc[t] = "app"
            /\ UNCHANGED <<heap, history, now, pc, made, gProcessExitting>>
        BY <3>5 DEF BufferDestroy
      <4>4. pc' = [pc EXCEPT ![t] = "app"]
        BY <4>2, <4>3 DEF Placed, LogTypes
      <4> QED
        BY <4>1, <4>2, <4>3, <4>4, FlushKept
    <3>6. CASE ThreadExit(t)
      <4>1. Running
        BY <3>6 DEF ThreadExit, Running
      <4>2. Placed /\ Told
        BY <4>1 DEF LogInv
      <4>3. /\ pc[t] # "log" /\ pc' = [pc EXCEPT ![t] = "gone"]
            /\ UNCHANGED <<heap, history, now, tls, files, made, gProcessExitting>>
        BY <3>6 DEF ThreadExit, Goto
      <4>4. gProcessExitting' \in BOOLEAN
        BY <4>2, <4>3 DEF Placed, LogTypes
      <4> QED
        BY <4>2, <4>3, <4>4, MoveKept
    <3> QED
      BY <2>2, <3>1, <3>2, <3>3, <3>4, <3>5, <3>6 DEF LoggerStep
  <2>3. CASE FiniMallocLogger
    <3>1. Running /\ ~ioFailed' /\ Main \in Threads
      BY <2>3, LoggerAssumption DEF FiniMallocLogger, Flush, Running
    <3>2. Placed /\ Told
      BY <3>1 DEF LogInv
    <3>3. /\ pc[Main] = "app" /\ pc' = [pc EXCEPT ![Main] = "fini"]
          /\ UNCHANGED <<heap, history, now, made, gProcessExitting>>
      BY <2>3 DEF FiniMallocLogger, Goto
    <3>4. CASE tls[Main] = Null
      <4>1. UNCHANGED <<tls, files>> /\ gProcessExitting' \in BOOLEAN
        BY <2>3, <3>2, <3>3, <3>4 DEF FiniMallocLogger, Placed, LogTypes
      <4> QED
        BY <3>1, <3>2, <3>3, <4>1, MoveKept
    <3>5. CASE tls[Main] # Null
      <4>1. Flush(Main) /\ tls' = [tls EXCEPT ![Main] = Null]
        BY <2>3, <3>5 DEF FiniMallocLogger
      <4> QED
        BY <3>1, <3>2, <3>3, <3>5, <4>1, FlushKept
    <3> QED
      BY <3>4, <3>5
  <2>4. CASE SetProcessExitting
    <3>1. Running /\ Main \in Threads
      BY <2>4, LoggerAssumption DEF SetProcessExitting, Running
    <3>2. Placed /\ Told
      BY <3>1 DEF LogInv
    <3>3. /\ pc[Main] # "log" /\ pc' = [pc EXCEPT ![Main] = "app"] /\ gProcessExitting' = TRUE
          /\ UNCHANGED <<heap, history, now, tls, files, made>>
      BY <2>4 DEF SetProcessExitting, Goto
    <3> QED
      BY <3>1, <3>2, <3>3, MoveKept
  <2>5. CASE EndProcess \/ Kill
    BY <2>5 DEF EndProcess, Kill, Vanish, Running
  <2> QED
    BY <1>2, <2>1, <2>2, <2>3, <2>4, <2>5 DEF LoggerNext
<1> QED
  BY <1>1, <1>2 DEF Next, vars, Consolidate

-------------------------------------------------------------------------------
(* The property *)

\* The numbers of a list of records, and of two such lists.
LEMMA NumbersOf ==
  ASSUME NEW s \in Seq(LogRecords)
  PROVE  /\ Numbers(s) \in Seq(Nat) /\ Len(Numbers(s)) = Len(s)
         /\ \A i \in 1 .. Len(s) : Numbers(s)[i] = s[i].n
<1>1. Len(s) \in Nat /\ DOMAIN s = 1 .. Len(s)
  OBVIOUS
<1>2. \A i \in 1 .. Len(s) : s[i].n \in Nat
  <2> SUFFICES ASSUME NEW i \in 1 .. Len(s) PROVE s[i].n \in Nat
    OBVIOUS
  <2>1. s[i] \in LogRecords
    OBVIOUS
  <2> QED
    BY <2>1 DEF LogRecords
<1> QED
  BY <1>1, <1>2 DEF Numbers

\* Two lists of numbers, one behind the other.
LEMMA TwoLists ==
  ASSUME NEW x \in Seq(Nat), NEW y \in Seq(Nat)
  PROVE  /\ x \o y \in Seq(Nat) /\ Len(x \o y) = Len(x) + Len(y)
         /\ \A i \in 1 .. Len(x) + Len(y) :
              (x \o y)[i] = IF i <= Len(x) THEN x[i] ELSE y[i - Len(x)]
BY ConcatProperties

\* LogOf lists what a thread holds, in the order of the records.
LEMMA LogOfHolds ==
  ASSUME Placed, NEW t \in Threads
  PROVE  /\ LogOf(t) \in Seq(Nat)
         /\ Len(LogOf(t)) = Len(Recorded(t)) + (IF Pending(t) THEN 1 ELSE 0)
         /\ \A i \in 1 .. Len(Recorded(t)) : LogOf(t)[i] = Recorded(t)[i].n
         /\ Pending(t) => LogOf(t)[Len(Recorded(t)) + 1] = made[t].n
<1> DEFINE a == FileOf(t)
           b == Buffered(t)
           m == IF pc[t] = "log" THEN <<made[t].n>> ELSE <<>>
           nb == IF tls[t] = Null THEN <<>> ELSE Numbers(tls[t].mBuffer)
<1>1. /\ a \in Seq(LogRecords) /\ b \in Seq(LogRecords)
      /\ Recorded(t) = a \o b /\ made[t].n \in Nat
  BY RecordedType DEF Recorded, Placed, LogTypes, HeapOps
<1>2. LogOf(t) = Numbers(a) \o nb \o m
  BY DEF LogOf
<1>3. nb = Numbers(b)
  BY DEF Buffered, Numbers
<1>4. /\ m \in Seq(Nat) /\ Len(m) = (IF Pending(t) THEN 1 ELSE 0)
      /\ Pending(t) => m[1] = made[t].n
  BY <1>1 DEF Pending
<1> HIDE DEF a, b, m, nb
<1>5. /\ Len(Recorded(t)) = Len(a) + Len(b) /\ Len(a) \in Nat /\ Len(b) \in Nat
      /\ \A i \in 1 .. Len(a) + Len(b) : Recorded(t)[i] = IF i <= Len(a) THEN a[i] ELSE b[i - Len(a)]
  BY <1>1, ConcatProperties, LenProperties
<1> DEFINE na == Numbers(a)
           c == na \o nb
<1>6. /\ na \in Seq(Nat) /\ Len(na) = Len(a)
      /\ \A i \in 1 .. Len(a) : na[i] = a[i].n
      /\ nb \in Seq(Nat) /\ Len(nb) = Len(b)
      /\ \A i \in 1 .. Len(b) : nb[i] = b[i].n
  BY <1>1, <1>3, NumbersOf
<1>61. LogOf(t) = c \o m
  BY <1>2
<1> HIDE DEF na
<1>7. /\ c \in Seq(Nat) /\ Len(c) = Len(a) + Len(b)
      /\ \A i \in 1 .. Len(a) + Len(b) :
           c[i] = IF i <= Len(a) THEN na[i] ELSE nb[i - Len(a)]
  <2>1. na \in Seq(Nat) /\ nb \in Seq(Nat)
    BY <1>6
  <2>2. c \in Seq(Nat) 
    BY <2>1, TwoLists
  <2>3. Len(c) = Len(na) + Len(nb)
    BY <2>1, TwoLists
  <2>4. \A i \in 1 .. Len(na) + Len(nb) : c[i] = IF i <= Len(na) THEN na[i] ELSE nb[i - Len(na)]
    BY <2>1, TwoLists
  <2> QED
    BY <1>6, <2>2, <2>3, <2>4
<1>8. \A i \in 1 .. Len(Recorded(t)) : c[i] = Recorded(t)[i].n
  <2> SUFFICES ASSUME NEW i \in 1 .. Len(a) + Len(b) PROVE c[i] = Recorded(t)[i].n
    BY <1>5
  <2>1. CASE i <= Len(a)
    BY <2>1, <1>5, <1>6, <1>7
  <2>2. CASE ~(i <= Len(a))
    <3>1. i - Len(a) \in 1 .. Len(b)
      BY <2>2, <1>5
    <3> QED
      BY <2>2, <3>1, <1>5, <1>6, <1>7
  <2> QED
    BY <2>1, <2>2
<1> HIDE DEF c
<1>9. LogOf(t) = c \o m
  BY <1>61 DEF c
<1>10. /\ LogOf(t) \in Seq(Nat) /\ Len(LogOf(t)) = Len(c) + Len(m)
       /\ \A i \in 1 .. Len(c) + Len(m) : LogOf(t)[i] = IF i <= Len(c) THEN c[i] ELSE m[i - Len(c)]
  <2>1. c \in Seq(Nat) /\ m \in Seq(Nat)
    BY <1>4, <1>7
  <2>2. /\ c \o m \in Seq(Nat)
        /\ Len(c \o m) = Len(c) + Len(m)
    BY <2>1, TwoLists
  <2>3. \A i \in 1 .. Len(c) + Len(m) : (c \o m)[i] = IF i <= Len(c) THEN c[i] ELSE m[i - Len(c)]
    BY <2>1, TwoLists
  <2> QED
    BY <1>9, <2>2, <2>3
<1>11. Len(c) = Len(Recorded(t)) /\ Len(c) \in Nat
  BY <1>5, <1>7
<1>12. \A i \in 1 .. Len(Recorded(t)) : LogOf(t)[i] = Recorded(t)[i].n
  <2>1. Len(m) \in Nat
    BY <1>4
  <2>2. \A i \in 1 .. Len(c) : LogOf(t)[i] = c[i]
    BY <1>10, <1>11, <2>1
  <2> QED
    BY <1>8, <1>11, <2>2
<1>13. Pending(t) => LogOf(t)[Len(Recorded(t)) + 1] = made[t].n
  BY <1>4, <1>10, <1>11
<1> QED
  BY <1>4, <1>10, <1>11, <1>12, <1>13

LEMMA LogInvImplies == LogInv => LogsComplete
<1> SUFFICES ASSUME Running, Placed, Told PROVE LogsComplete
  BY DEF LogInv, LogsComplete, Running
<1>1. \A t \in Threads :
        /\ Recorded(t) \in Seq(LogRecords) /\ FileOf(t) \in Seq(LogRecords)
        /\ DOMAIN Recorded(t) = 1 .. Len(Recorded(t)) /\ Len(Recorded(t)) \in Nat
        /\ DOMAIN LogOf(t) = 1 .. Len(LogOf(t))
        /\ Len(LogOf(t)) = Len(Recorded(t)) + (IF Pending(t) THEN 1 ELSE 0)
        /\ \A i \in 1 .. Len(Recorded(t)) : LogOf(t)[i] = Recorded(t)[i].n
        /\ Pending(t) => LogOf(t)[Len(Recorded(t)) + 1] = made[t].n
  BY RecordedType, LogOfHolds
<1>2. ASSUME NEW t \in Threads, NEW i \in DOMAIN LogOf(t), NEW j \in DOMAIN LogOf(t), i < j
      PROVE  LogOf(t)[i] < LogOf(t)[j]
  <2>1. i \in 1 .. Len(Recorded(t))
    BY <1>1, <1>2
  <2>2. CASE j \in 1 .. Len(Recorded(t))
    BY <1>1, <1>2, <2>1, <2>2 DEF Told, InOrder
  <2>3. CASE Pending(t) /\ j = Len(Recorded(t)) + 1
    BY <1>1, <2>1, <2>3 DEF Told, NotAhead
  <2> QED
    BY <1>1, <1>2, <2>2, <2>3
<1>3. ASSUME NEW t \in Threads, NEW n
      PROVE  Holds(t, n) <=> \E i \in DOMAIN LogOf(t) : LogOf(t)[i] = n
  <2>1. ASSUME Holds(t, n) PROVE \E i \in DOMAIN LogOf(t) : LogOf(t)[i] = n
    BY <1>1, <2>1 DEF Holds
  <2>2. ASSUME NEW i \in DOMAIN LogOf(t), LogOf(t)[i] = n PROVE Holds(t, n)
    BY <1>1, <2>2 DEF Holds
  <2> QED
    BY <2>1, <2>2
<1>4. ASSUME NEW t \in Threads, NEW u \in Threads, t # u
      PROVE  {LogOf(t)[i] : i \in DOMAIN LogOf(t)} \cap {LogOf(u)[i] : i \in DOMAIN LogOf(u)} = {}
  <2>1. \A i \in DOMAIN LogOf(t) : LogOf(t)[i] \in Nat
    BY LogOfHolds
  <2>2. \A i \in DOMAIN LogOf(t), j \in DOMAIN LogOf(u) : LogOf(t)[i] # LogOf(u)[j]
    BY <1>3, <1>4, <2>1 DEF Told, HeldOnce
  <2> QED
    BY <2>2
<1>5. ASSUME ~gProcessExitting, NEW n \in DOMAIN history
      PROVE  \E t \in Threads : \E i \in DOMAIN LogOf(t) : LogOf(t)[i] = n
  <2>1. n \in 1 .. Len(history)
    BY DEF Placed, LogTypes
  <2> QED
    BY <1>3, <1>5, <2>1 DEF Told, HeldAll
<1>6. ASSUME NEW t \in Threads, NEW i \in DOMAIN FileOf(t), NEW j \in DOMAIN FileOf(t), i < j
      PROVE  FileOf(t)[i].mTimeStamp <= FileOf(t)[j].mTimeStamp
  <2>1. /\ FileOf(t) \in Seq(LogRecords) /\ Buffered(t) \in Seq(LogRecords)
        /\ Recorded(t) = FileOf(t) \o Buffered(t)
    BY RecordedType DEF Recorded
  <2>2. /\ i \in DOMAIN Recorded(t) /\ Recorded(t)[i] = FileOf(t)[i]
        /\ j \in DOMAIN Recorded(t) /\ Recorded(t)[j] = FileOf(t)[j]
    BY <2>1
  <2> QED
    BY <1>6, <2>2 DEF Told, InOrder
<1> QED
  BY <1>2, <1>4, <1>5, <1>6 DEF LogsComplete

\* What has been logged is complete and in order, while the process runs and its files can
\* be written.
THEOREM LogsAreComplete == Spec => []LogsComplete
BY LogInvInit, LogInvKept, LogInvImplies, PTL DEF Spec

-------------------------------------------------------------------------------
\* A file that does not start in the middle of a record.
Readable(f) ==
  /\ f \in Seq(LogRecords \cup {Truncated})
  /\ f # <<>> => f[1] \in LogRecords

Typed == LogTypes /\ \A t \in Threads : pc[t] = "log" => tls[t] # Null

FilesInv ==
  /\ process = "running" => Typed
  /\ \A t \in Threads : files[t] = Null \/ Readable(files[t])

\* Whole records can be read from the start on.
LEMMA WholeRecordsReadable == \A f \in Seq(LogRecords) : Readable(f)
BY DEF Readable

\* So is what is left of it when the process is killed.
LEMMA CutReadable ==
  ASSUME NEW f \in Seq(LogRecords), NEW g \in Cuts(f)
  PROVE  Readable(g)
<1>1. CASE \E k \in 0 .. Len(f) : g = SubSeq(f, 1, k)
  <2>1. g \in Seq(LogRecords)
    BY <1>1, SubSeqProperties
  <2> QED
    BY <2>1, WholeRecordsReadable
<1>2. CASE \E k \in 1 .. Len(f) - 1 : g = Append(SubSeq(f, 1, k), Truncated)
  <2>1. PICK k \in 1 .. Len(f) - 1 : g = Append(SubSeq(f, 1, k), Truncated)
    BY <1>2
  <2> DEFINE h == SubSeq(f, 1, k)
  <2>2. h \in Seq(LogRecords) /\ Len(h) = k /\ h[1] = f[1] /\ f[1] \in LogRecords /\ k \in Nat /\ 1 <= k
    BY <2>1, SubSeqProperties
  <2>3. g = Append(h, Truncated)
    BY <2>1
  <2> HIDE DEF h
  <2>4. h \in Seq(LogRecords \cup {Truncated})
    BY <2>2
  <2>5. g \in Seq(LogRecords \cup {Truncated}) /\ g[1] = h[1]
    BY <2>2, <2>3, <2>4
  <2> QED
    BY <2>2, <2>5 DEF Readable
<1> QED
  BY <1>1, <1>2 DEF Cuts

\* A step of a thread that leaves the files whole.
LEMMA TypedReadable ==
  ASSUME Typed
  PROVE  FilesInv
<1>1. \A t \in Threads : files[t] = Null \/ files[t] \in Seq(LogRecords)
  BY DEF Typed, LogTypes
<1> QED
  BY <1>1, WholeRecordsReadable DEF FilesInv

\* The steps of the threads keep the records typed, whatever has failed.  An operation:
LEMMA OperationTyped ==
  ASSUME Typed, NEW t \in Threads, Allocate(t) \/ Deallocate(t) \/ Reallocate(t)
  PROVE  Typed'
<1>1. PICK o \in HeapOps : o.n = Here /\ Done(t, o) /\ heap' \in [Addrs -> Nat]
  BY DefaultMakes DEF Typed
<1>2. /\ history' = Append(history, o)
      /\ UNCHANGED <<now, tls, files, gProcessExitting>>
      /\ \/ tls[t] = Null /\ pc' = [pc EXCEPT ![t] = "app"] /\ made' = made
         \/ tls[t] # Null /\ pc' = [pc EXCEPT ![t] = "log"] /\ made' = [made EXCEPT ![t] = o]
  BY <1>1 DEF Done, Goto
<1>3. LogTypes'
  <2>1. history' \in Seq(HeapOps)
    BY <1>2, AppendProperties DEF Typed, LogTypes
  <2> QED
    BY <2>1, <1>1, <1>2 DEF Typed, LogTypes
<1>4. \A u \in Threads : pc'[u] = "log" => tls'[u] # Null
  BY <1>2 DEF Typed, LogTypes
<1> QED
  BY <1>3, <1>4 DEF Typed

\* The thread's file and buffer hold records, whatever has failed.
LEMMA WritingTyped ==
  ASSUME Typed, NEW t \in Threads, NEW f \in Seq(LogRecords), NEW b \in Seq(LogRecords),
         NEW open \in BOOLEAN,
         files' = [files EXCEPT ![t] = f] \/ files' = files,
         tls' = [tls EXCEPT ![t] = FileControl(open, b)],
         Logged(t)
  PROVE  Typed'
<1>1. /\ pc' = [pc EXCEPT ![t] = "app"] /\ made' = [made EXCEPT ![t] = NoOp]
      /\ UNCHANGED <<heap, history, now, gProcessExitting>>
  BY DEF Logged, Goto
<1>2. NoOp \in HeapOps
  BY KindsOfRecords DEF NoOp, Op, HeapOps
<1>3. FileControl(open, b) \in Controls
  BY DEF FileControl, Controls
<1>4. LogTypes'
  BY <1>1, <1>2, <1>3 DEF Typed, LogTypes
<1>5. \A u \in Threads : pc'[u] = "log" => tls'[u] # Null
  BY <1>1 DEF Typed, LogTypes
<1> QED
  BY <1>4, <1>5 DEF Typed

\* A record that fits the buffer:
LEMMA LogRecordTyped ==
  ASSUME Typed, NEW t \in Threads, LogRecord(t)
  PROVE  Typed'
<1> DEFINE b == Append(tls[t].mBuffer, Stamped(made[t]))
<1>1. tls[t] # Null /\ Logged(t)
  BY DEF LogRecord, Typed
<1>2. FileOf(t) \in Seq(LogRecords) /\ b \in Seq(LogRecords)
  BY <1>1, ListTypes, StampedRecord, AppendProperties DEF Typed
<1>3. /\ files' = [files EXCEPT ![t] = FileOf(t)] \/ files' = files
      /\ \E open \in BOOLEAN : tls' = [tls EXCEPT ![t] = FileControl(open, b)]
  BY DEF LogRecord
<1> HIDE DEF b
<1> QED
  BY <1>1, <1>2, <1>3, WritingTyped

\* One that does not fit, and the end of the process on a file that does not open:
LEMMA LogFullBufferTyped ==
  ASSUME Typed, NEW t \in Threads, LogFullBuffer(t)
  PROVE  FilesInv'
<1> DEFINE r == Stamped(made[t])
           b == tls[t].mBuffer
           f == FileOf(t) \o b
<1>1. tls[t] # Null /\ Logged(t)
  BY DEF LogFullBuffer, Typed
<1>2. r \in LogRecords /\ b \in Seq(LogRecords) /\ FileOf(t) \in Seq(LogRecords)
  BY <1>1, ListTypes, StampedRecord DEF Typed
<1>3. f \in Seq(LogRecords) /\ <<r>> \in Seq(LogRecords)
  BY <1>2, ConcatProperties
<1>4. \/ files' = [files EXCEPT ![t] = f] /\ tls' = [tls EXCEPT ![t] = FileControl(TRUE, <<r>>)]
      \/ /\ files' = [files EXCEPT ![t] = FileOf(t)]
         /\ tls' = [tls EXCEPT ![t] = FileControl(TRUE, b)]
      \/ process' = "crashed" /\ files' = files
  BY DEF LogFullBuffer
<1> HIDE DEF r, b, f
<1>5. CASE process' = "crashed" /\ files' = files
  BY <1>5, TypedReadable DEF FilesInv
<1>6. CASE files' = [files EXCEPT ![t] = f] /\ tls' = [tls EXCEPT ![t] = FileControl(TRUE, <<r>>)]
  <2>1. Typed'
    BY <1>1, <1>3, <1>6, WritingTyped
  <2> QED
    BY <2>1, TypedReadable, PTL
<1>7. CASE /\ files' = [files EXCEPT ![t] = FileOf(t)]
           /\ tls' = [tls EXCEPT ![t] = FileControl(TRUE, b)]
  <2>1. Typed'
    BY <1>1, <1>2, <1>7, WritingTyped
  <2> QED
    BY <2>1, TypedReadable, PTL
<1> QED
  BY <1>4, <1>5, <1>6, <1>7

\* The buffer of a thread that exits:
LEMMA FlushTyped ==
  ASSUME Typed, NEW t \in Threads, Flush(t), tls[t] # Null,
         tls' = [tls EXCEPT ![t] = Null],
         UNCHANGED <<heap, history, now, made, gProcessExitting>>,
         NEW l \in {"app", "fini"}, pc' = [pc EXCEPT ![t] = l]
  PROVE  Typed'
<1> DEFINE f == FileOf(t) \o tls[t].mBuffer
<1>1. f \in Seq(LogRecords)
  BY ListTypes, ConcatProperties DEF Typed
<1>2. files' = [files EXCEPT ![t] = f] \/ files' = files
  BY DEF Flush
<1> HIDE DEF f
<1>3. LogTypes'
  BY <1>1, <1>2 DEF Typed, LogTypes
<1>4. \A u \in Threads : pc'[u] = "log" => tls'[u] # Null
  BY DEF Typed, LogTypes
<1> QED
  BY <1>3, <1>4 DEF Typed

\* The files a killed process leaves.
LEMMA KillReadable ==
  ASSUME Typed, Kill
  PROVE  FilesInv'
<1>1. process' = "killed"
  BY DEF Kill, Vanish
<1>2. ASSUME NEW t \in Threads PROVE files'[t] = Null \/ Readable(files'[t])
  <2>1. files'[t] \in IF tls[t] = Null THEN {files[t]}
                      ELSE IF files[t] = Null THEN {Null} ELSE Cuts(files[t])
    BY DEF Kill
  <2>2. files[t] = Null \/ files[t] \in Seq(LogRecords)
    BY DEF Typed, LogTypes
  <2> QED
    BY <2>1, <2>2, CutReadable, WholeRecordsReadable
<1> QED
  BY <1>1, <1>2 DEF FilesInv

\* The files of a process hold readable records from the start ...
LEMMA FilesInvInit == Init => FilesInv
<1> SUFFICES ASSUME Init PROVE Typed
  BY TypedReadable
<1>1. LoggerInit
  BY DEF Init
<1>2. NoOp \in HeapOps /\ <<>> \in Seq(HeapOps)
  BY KindsOfRecords, EmptySeq DEF NoOp, Op, HeapOps
<1> QED
  BY <1>1, <1>2 DEF LoggerInit, Typed, LogTypes

\* ... and after each step.
LEMMA FilesInvKept == FilesInv /\ [Next]_vars => FilesInv'
<1> SUFFICES ASSUME FilesInv, [Next]_vars PROVE FilesInv'
  OBVIOUS
<1>1. CASE UNCHANGED loggerVars
  BY <1>1 DEF loggerVars, FilesInv, Typed, LogTypes
<1>2. CASE LoggerNext
  <2>1. process = "running"
    BY <1>2 DEF LoggerNext, LoggerStep, Tick, Enter, Allocate, Deallocate, Reallocate, CallsDefault,
                LogRecord, LogFullBuffer, BufferDestroy, ThreadExit, FiniMallocLogger,
                SetProcessExitting, EndProcess, Kill
  <2>2. Typed
    BY <2>1 DEF FilesInv
  <2>3. ASSUME Typed' PROVE FilesInv'
    BY <2>3, TypedReadable, PTL
  <2>4. CASE Tick
    <3>1. /\ now \in Nat /\ now' = now + 1
          /\ UNCHANGED <<heap, history, tls, files, pc, made, gProcessExitting>>
      BY <2>2, <2>4 DEF Tick, Typed, LogTypes
    <3> QED
      BY <2>2, <2>3, <3>1 DEF Typed, LogTypes
  <2>5. ASSUME NEW t \in Threads, LoggerStep(t) PROVE FilesInv'
    <3>1. CASE Enter(t)
      <4>1. /\ pc' = [pc EXCEPT ![t] = "default"]
            /\ tls' = IF gProcessExitting THEN tls
                      ELSE [tls EXCEPT ![t] = FileControl(FALSE, <<>>)]
            /\ UNCHANGED <<heap, history, now, files, made, gProcessExitting>>
        BY <3>1 DEF Enter, Goto
      <4>2. FileControl(FALSE, <<>>) \in Controls /\ FileControl(FALSE, <<>>) # Null
        <5>1. <<>> \in Seq(LogRecords)
          BY EmptySeq
        <5>2. FileControl(FALSE, <<>>) \in Controls
          BY <5>1 DEF FileControl, Controls
        <5> QED
          BY <5>2, NullApart
      <4>3. LogTypes'
        BY <2>2, <4>1, <4>2 DEF Typed, LogTypes
      <4>4. \A u \in Threads : pc'[u] = "log" => tls'[u] # Null
        BY <2>2, <4>1, <4>2 DEF Typed, LogTypes
      <4> QED
        BY <2>3, <4>3, <4>4 DEF Typed
    <3>2. CASE Allocate(t) \/ Deallocate(t) \/ Reallocate(t)
      BY <2>2, <2>3, <3>2, OperationTyped
    <3>3. CASE LogRecord(t)
      BY <2>2, <2>3, <3>3, LogRecordTyped
    <3>4. CASE LogFullBuffer(t)
      BY <2>2, <3>4, LogFullBufferTyped
    <3>5. CASE BufferDestroy(t)
      <4>1. /\ Flush(t) /\ tls[t] # Null /\ tls' = [tls EXCEPT ![t] = Null] /\ pc[t] = "app"
            /\ UNCHANGED <<heap, history, now, pc, made, gProcessExitting>>
        BY <3>5 DEF BufferDestroy
      <4>2. pc' = [pc EXCEPT ![t] = "app"]
        BY <2>2, <4>1 DEF Typed, LogTypes
      <4> QED
        BY <2>2, <2>3, <4>1, <4>2, FlushTyped
    <3>6. CASE ThreadExit(t)
      BY <2>2, <2>3, <3>6 DEF ThreadExit, Goto, Typed, LogTypes
    <3> QED
      BY <2>5, <3>1, <3>2, <3>3, <3>4, <3>5, <3>6 DEF LoggerStep
  <2>6. CASE FiniMallocLogger
    <3>1. /\ pc' = [pc EXCEPT ![Main] = "fini"] /\ Main \in Threads
          /\ UNCHANGED <<heap, history, now, made, gProcessExitting>>
      BY <2>6, LoggerAssumption DEF FiniMallocLogger, Goto
    <3>2. CASE tls[Main] = Null
      <4>1. UNCHANGED <<tls, files>>
        BY <2>6, <3>2 DEF FiniMallocLogger
      <4> QED
        BY <2>2, <2>3, <3>1, <4>1 DEF Typed, LogTypes
    <3>3. CASE tls[Main] # Null
      <4>1. Flush(Main) /\ tls' = [tls EXCEPT ![Main] = Null]
        BY <2>6, <3>3 DEF FiniMallocLogger
      <4> QED
        BY <2>2, <2>3, <3>1, <3>3, <4>1, FlushTyped
    <3> QED
      BY <3>2, <3>3
  <2>7. CASE SetProcessExitting
    BY <2>2, <2>3, <2>7 DEF SetProcessExitting, Goto, Typed, LogTypes
  <2>8. CASE EndProcess
    <3>1. process' = "ended" /\ files' = files
      BY <2>8 DEF EndProcess, Vanish
    <3> QED
      BY <3>1 DEF FilesInv
  <2>9. CASE Kill
    BY <2>2, <2>9, KillReadable
  <2> QED
    BY <1>2, <2>4, <2>5, <2>6, <2>7, <2>8, <2>9 DEF LoggerNext
<1> QED
  BY <1>1, <1>2 DEF Next, vars, Consolidate

-------------------------------------------------------------------------------
Records == RecordsOf(Nat, Int)
Entries == [mSeqNo : Nat, mThreadID : Nat, mSize : Int]

\* The consolidator is at a record of each file that it has not read to its end.
ReadingInv ==
  /\ \A i \in DOMAIN logFiles : i \in 1 .. Cardinality(Threads) /\ Readable(logFiles[i])
  /\ DOMAIN next = DOMAIN logFiles
  /\ phase = "merge" => \A i \in DOMAIN next : next[i] # 0 =>
       next[i] \in DOMAIN logFiles[i] /\ logFiles[i][next[i]] \in LogRecords

\* The blocks the consolidator knows are outstanding in the log written so far, are what the
\* operation that made them says, and are known once.
Made(log, e) ==
  LET ops == Operations(log) IN
  /\ e \in Entries
  /\ e.mSeqNo \in 1 .. Len(ops)
  /\ e.mSeqNo \in Outstanding(log)[Len(ops)]
  /\ Allocates(ops[e.mSeqNo])
  /\ AllocatedSize(ops[e.mSeqNo]) = e.mSize
  /\ ops[e.mSeqNo].mThreadID = ThreadField(e.mThreadID)
  /\ e.mThreadID \in 1 .. Cardinality(Threads)
Lists(known) == \A a \in DOMAIN known : known[a] \in Seq(Entries)
Once(known) ==
  \A a, b \in DOMAIN known : \A k \in 1 .. Len(known[a]), l \in 1 .. Len(known[b]) :
    known[a][k].mSeqNo = known[b][l].mSeqNo => a = b /\ k = l
KnownIn(log, known) ==
  /\ Lists(known)
  /\ \A a \in DOMAIN known : \A k \in 1 .. Len(known[a]) : Made(log, known[a][k])
  /\ Once(known)

\* No block made by operation n is known.
NotKnown(known, n) == \A a \in DOMAIN known : \A k \in 1 .. Len(known[a]) : known[a][k].mSeqNo # n

\* There is a time stamp before operation n.
StampedAt(log, n) ==
  /\ n \in Nat
  /\ n # 0 => \E p \in 1 .. Len(log) : IsTimestamp(log[p]) /\ SeqNo(log, p) = n - 1

\* What GetMallocNumber finds in the blocks.
None(known, found) ==
  /\ found.seqNo = 0 /\ found.byOther = FALSE /\ found.size \in Int /\ found.known = known
Some(log, tid, found) ==
  \E e : /\ Made(log, e)
         /\ found.seqNo = e.mSeqNo /\ found.size = e.mSize
         /\ found.byOther = (e.mThreadID # tid)
         /\ NotKnown(found.known, e.mSeqNo)

\* A list without its k-th member.
LEMMA ListWithout ==
  ASSUME NEW S, NEW s \in Seq(S), NEW k \in 1 .. Len(s)
  PROVE  LET r == SubSeq(s, 1, k - 1) \o SubSeq(s, k + 1, Len(s)) IN
         /\ r \in Seq(S) /\ Len(r) = Len(s) - 1
         /\ \A j \in 1 .. Len(r) : r[j] = IF j < k THEN s[j] ELSE s[j + 1]
<1> DEFINE x == SubSeq(s, 1, k - 1)
           y == SubSeq(s, k + 1, Len(s))
<1>1. /\ x \in Seq(S) /\ Len(x) = k - 1 /\ \A j \in 1 .. k - 1 : x[j] = s[j]
      /\ k \in Nat /\ 1 <= k /\ k <= Len(s) /\ Len(s) \in Nat
  BY SubSeqProperties
<1>2. y \in Seq(S) /\ Len(y) = Len(s) - k /\ \A j \in 1 .. Len(s) - k : y[j] = s[k + j]
  <2>1. Len(y) = Len(s) - k
    BY SubSeqProperties
  <2>2. \A j \in 1 .. Len(s) - k : k + 1 + j - 1 = k + j /\ y[j] = s[k + 1 + j - 1]
    BY SubSeqProperties
  <2>3. y \in Seq(S)
    BY SubSeqProperties
  <2> QED
    BY <2>1, <2>2, <2>3
<1> DEFINE r == x \o y
<1>3. r \in Seq(S) /\ Len(r) = Len(x) + Len(y)
      /\ \A j \in 1 .. Len(x) + Len(y) : r[j] = IF j <= Len(x) THEN x[j] ELSE y[j - Len(x)]
  <2> HIDE DEF x, y
  <2> QED BY <1>1, <1>2, ConcatProperties
<1> HIDE DEF x, y, r
<1>4. r \in Seq(S) /\ Len(r) = Len(s) - 1
  BY <1>1, <1>2, <1>3
<1>5. ASSUME NEW j \in 1 .. Len(r) PROVE r[j] = IF j < k THEN s[j] ELSE s[j + 1]
  <2>1. CASE j < k
    BY <1>1, <1>2, <1>3, <1>4, <2>1
  <2>2. CASE ~(j < k)
    <3>1. r[j] = y[j - (k - 1)] /\ j - (k - 1) \in 1 .. Len(s) - k /\ k + (j - (k - 1)) = j + 1
      BY <1>1, <1>2, <1>3, <1>4, <2>2
    <3> QED
      BY <1>2, <2>2, <3>1
  <2> QED
    BY <2>1, <2>2
<1>6. /\ r \in Seq(S) /\ Len(r) = Len(s) - 1
      /\ \A j \in 1 .. Len(r) : r[j] = IF j < k THEN s[j] ELSE s[j + 1]
  BY <1>4, <1>5
<1> QED
  BY <1>6 DEF r, x, y

\* The block found is one of the list.
LEMMA FoundInList ==
  ASSUME NEW a \in DOMAIN blocks, NEW tid, blocks[a] \in Seq(Entries), blocks[a] # <<>>
  PROVE  FoundBlock(a, tid) \in 1 .. Len(blocks[a])
<1>1. BlockList(a) = blocks[a] /\ DOMAIN blocks[a] = 1 .. Len(blocks[a]) /\ Len(blocks[a]) \in Nat
      /\ Len(blocks[a]) # 0
  BY DEF BlockList
<1> DEFINE S == OwnBlocks(a, tid)
<1>2. S \subseteq 1 .. Len(blocks[a])
  BY <1>1 DEF OwnBlocks
<1>3. CASE S = {}
  BY <1>1, <1>3 DEF FoundBlock
<1>4. CASE S # {}
  <2>1. S \in SUBSET Nat
    BY <1>1, <1>2
  <2> HIDE DEF S
  <2>2. \E k \in S : \A j \in S : k <= j
    BY <1>4, <2>1, LeastNumber
  <2>3. (CHOOSE k \in S : \A j \in S : k <= j) \in S
    BY <2>2
  <2> QED
    BY <1>2, <1>4, <2>3 DEF FoundBlock, S
<1> QED
  BY <1>3, <1>4

\* What is known when a block has been taken out is known before, but for that block.
LEMMA BlockTaken ==
  ASSUME KnownIn(out, blocks), NEW a \in DOMAIN blocks, NEW tid, blocks[a] # <<>>
  PROVE  LET e == blocks[a][FoundBlock(a, tid)]
             left == TakeOutstandingBlock(a, tid)
         IN  /\ Made(out, e)
             /\ KnownIn(out, left)
             /\ NotKnown(left, e.mSeqNo)
<1> DEFINE k == FoundBlock(a, tid)
           list == blocks[a]
           e == list[k]
           left == TakeOutstandingBlock(a, tid)
           short == SubSeq(list, 1, k - 1) \o SubSeq(list, k + 1, Len(list))
           At(b, j) == IF b = a /\ ~(j < k) THEN j + 1 ELSE j
<1>1. /\ \A b \in DOMAIN blocks : blocks[b] \in Seq(Entries)
      /\ \A b \in DOMAIN blocks : \A j \in 1 .. Len(blocks[b]) : Made(out, blocks[b][j])
      /\ \A b, c \in DOMAIN blocks : \A i \in 1 .. Len(blocks[b]), j \in 1 .. Len(blocks[c]) :
           blocks[b][i].mSeqNo = blocks[c][j].mSeqNo => b = c /\ i = j
  BY DEF KnownIn, Lists, Once
<1>2. k \in 1 .. Len(list) /\ list \in Seq(Entries) /\ Len(list) \in Nat
  BY <1>1, FoundInList
<1>3. /\ DOMAIN left = DOMAIN blocks
      /\ left[a] = short
      /\ \A b \in DOMAIN blocks : b # a => left[b] = blocks[b]
  BY DEF TakeOutstandingBlock, Put, BlockList
<1>4. Made(out, e)
  BY <1>1, <1>2
<1>5. /\ short \in Seq(Entries) /\ Len(short) = Len(list) - 1
      /\ \A j \in 1 .. Len(short) : short[j] = IF j < k THEN list[j] ELSE list[j + 1]
  <2> HIDE DEF list, k
  <2> QED BY <1>2, ListWithout
<1> HIDE DEF k, left, short
\* A member of what is left is one of before, but not the one taken.
<1>6. ASSUME NEW b \in DOMAIN blocks, NEW j \in 1 .. Len(left[b])
      PROVE  /\ At(b, j) \in 1 .. Len(blocks[b])
             /\ left[b][j] = blocks[b][At(b, j)]
             /\ ~(b = a /\ At(b, j) = k)
  <2>1. CASE b # a
    BY <1>1, <1>3, <1>6, <2>1
  <2>2. CASE b = a
    BY <1>2, <1>3, <1>5, <1>6, <2>2
  <2> QED
    BY <2>1, <2>2
<1>7. \A b \in DOMAIN blocks : left[b] \in Seq(Entries)
  BY <1>1, <1>3, <1>5
<1>8. \A b \in DOMAIN blocks : \A i \in 1 .. Len(left[b]), j \in 1 .. Len(left[b]) :
        At(b, i) = At(b, j) => i = j
  <2>1. \A b \in DOMAIN blocks : Len(left[b]) \in Nat
    BY <1>7
  <2> QED
    BY <1>2, <2>1
<1>9. KnownIn(out, left)
  <2>1. Lists(left)
    BY <1>3, <1>7 DEF Lists
  <2>2. \A b \in DOMAIN left : \A j \in 1 .. Len(left[b]) : Made(out, left[b][j])
    <3> HIDE DEF At
    <3> QED BY <1>1, <1>3, <1>6
  <2>3. ASSUME NEW b \in DOMAIN blocks, NEW c \in DOMAIN blocks,
               NEW i \in 1 .. Len(left[b]), NEW j \in 1 .. Len(left[c]),
               left[b][i].mSeqNo = left[c][j].mSeqNo
        PROVE  b = c /\ i = j
    <3> HIDE DEF At
    <3>1. /\ At(b, i) \in 1 .. Len(blocks[b]) /\ At(c, j) \in 1 .. Len(blocks[c])
          /\ blocks[b][At(b, i)].mSeqNo = blocks[c][At(c, j)].mSeqNo
      BY <1>6, <2>3
    <3>2. b = c /\ At(b, i) = At(c, j)
      BY <1>1, <3>1
    <3> QED
      BY <1>8, <3>2
  <2>4. Once(left)
    BY <1>3, <2>3 DEF Once
  <2> QED
    BY <2>1, <2>2, <2>4 DEF KnownIn
<1>10. NotKnown(left, e.mSeqNo)
  <2>1. ASSUME NEW b \in DOMAIN blocks, NEW j \in 1 .. Len(left[b]), left[b][j].mSeqNo = e.mSeqNo
        PROVE  FALSE
    <3> HIDE DEF At
    <3>1. At(b, j) \in 1 .. Len(blocks[b]) /\ blocks[b][At(b, j)].mSeqNo = blocks[a][k].mSeqNo
      BY <1>6, <2>1
    <3>2. b = a /\ At(b, j) = k
      BY <1>1, <1>2, <3>1
    <3> QED
      BY <1>6, <3>2
  <2> QED
    BY <1>3, <2>1 DEF NotKnown
<1> QED
  BY <1>4, <1>9, <1>10 DEF k, left

\* GetMallocNumber finds a block that is outstanding and does not leave it in the set, or
\* finds none.
LEMMA MallocNumber ==
  ASSUME KnownIn(out, blocks), NEW a, NEW tid
  PROVE  LET found == GetMallocNumber(a, tid) IN
         /\ KnownIn(out, found.known)
         /\ None(blocks, found) \/ (a # NullPtr /\ Some(out, tid, found))
         /\ a = NullPtr => None(blocks, found)
<1> DEFINE found == GetMallocNumber(a, tid)
<1>1. CASE a = NullPtr \/ BlockList(a) = <<>>
  <2>1. None(blocks, found)
    BY <1>1 DEF GetMallocNumber, None, UnknownSize
  <2>2. found.known = blocks
    BY <2>1 DEF None
  <2> HIDE DEF found
  <2>3. /\ KnownIn(out, found.known) /\ None(blocks, found)
    BY <2>1, <2>2
  <2> QED
    BY <2>3 DEF found
<1>2. CASE a # NullPtr /\ BlockList(a) # <<>>
  <2> DEFINE e == blocks[a][FoundBlock(a, tid)]
             left == TakeOutstandingBlock(a, tid)
  <2>1. a \in DOMAIN blocks /\ blocks[a] # <<>> /\ BlockList(a) = blocks[a]
    BY <1>2 DEF BlockList
  <2>2. Made(out, e) /\ KnownIn(out, left) /\ NotKnown(left, e.mSeqNo)
    BY <2>1, BlockTaken
  <2>3. found = [seqNo |-> e.mSeqNo, byOther |-> e.mThreadID # tid, size |-> e.mSize, known |-> left]
    BY <1>2, <2>1 DEF GetMallocNumber
  <2> HIDE DEF found, e, left
  <2>4. found.seqNo = e.mSeqNo /\ found.byOther = (e.mThreadID # tid) /\ found.size = e.mSize
        /\ found.known = left
    BY <2>3
  <2>5. Some(out, tid, found) /\ KnownIn(out, found.known)
    BY <2>2, <2>4 DEF Some
  <2> QED
    BY <1>2, <2>5 DEF found
<1> QED
  BY <1>1, <1>2

\* Every release in the log is right, and every allocation that another thread releases is
\* marked or to be marked.
ReleasesRight(log) ==
  LET ops == Operations(log) IN
  \A n \in 1 .. Len(ops) : Releases(ops[n]) =>
    LET m == ops[n].mMatchedMalloc IN
    /\ m \in Outstanding(log)[n - 1]
    /\ ReleasedSize(ops[n]) = AllocatedSize(ops[m])
    /\ ops[n].mAllocatedByOtherThread = (ops[n].mThreadID # ops[m].mThreadID)
MadeBefore(ops) ==
  \A n \in 1 .. Len(ops) : Releases(ops[n]) => ops[n].mMatchedMalloc \in 1 .. n - 1
ReleasedByOther(ops, m) ==
  \E n \in 1 .. Len(ops) : /\ Releases(ops[n])
                           /\ ops[n].mMatchedMalloc = m
                           /\ ops[n].mThreadID # ops[m].mThreadID
ToBeMarked(log, marks) ==
  LET ops == Operations(log) IN
  /\ \A m \in marks : m \in 1 .. Len(ops) /\ Allocates(ops[m])
  /\ \A m \in 1 .. Len(ops) : Allocates(ops[m]) =>
       (ops[m].mFreeByOtherThread \/ m \in marks <=> ReleasedByOther(ops, m))

\* A time stamp is written.
LEMMA StampWritten ==
  ASSUME NEW log \in Seq(Records)
  PROVE  LET l == Append(log, Timestamp) IN
         /\ l \in Seq(Records)
         /\ Operations(l) = Operations(log)
         /\ \A known : KnownIn(log, known) => KnownIn(l, known)
         /\ ReleasesRight(log) => ReleasesRight(l)
         /\ \A marks : ToBeMarked(log, marks) => ToBeMarked(l, marks)
         /\ CrossSeparated(log) => CrossSeparated(l)
         /\ \A n : StampedAt(log, n) => StampedAt(l, n)
         /\ StampedAt(l, Len(Operations(log)) + 1)
<1> DEFINE l == Append(log, Timestamp)
           N == Len(log)
<1>0. Timestamp \in Records /\ IsTimestamp(Timestamp)
  BY DEF Timestamp, Records, RecordsOf, IsTimestamp
<1>1. /\ l \in Seq(Records) /\ Operations(l) = Operations(log)
      /\ \A i \in 0 .. N : OperationsUpTo(l)[i] = OperationsUpTo(log)[i]
  BY <1>0, AppendedLog DEF Records
<1>2. /\ Len(l) = N + 1 /\ l[N + 1] = Timestamp /\ (\A i \in 1 .. N : l[i] = log[i]) /\ N \in Nat
  BY <1>0
<1> HIDE DEF l
<1>3. Outstanding(l) = Outstanding(log)
  BY <1>1 DEF Outstanding
<1>4. \A i \in 1 .. N : SeqNo(l, i) = SeqNo(log, i)
  BY <1>1, <1>2 DEF SeqNo
<1>5. SeqNo(l, N + 1) = Len(Operations(log))
  <2>1. SeqNo(l, N + 1) = Len(Operations(l))
    BY <1>2 DEF SeqNo, Operations
  <2> QED
    BY <1>1, <2>1
<1>6. \A known : KnownIn(log, known) => KnownIn(l, known)
  BY <1>1, <1>3 DEF KnownIn, Made
<1>7. ReleasesRight(log) => ReleasesRight(l)
  BY <1>1, <1>3 DEF ReleasesRight
<1>8. \A marks : ToBeMarked(log, marks) => ToBeMarked(l, marks)
  BY <1>1 DEF ToBeMarked
<1>9. \A n : StampedAt(log, n) => StampedAt(l, n)
  BY <1>2, <1>4 DEF StampedAt
<1>10. StampedAt(l, Len(Operations(log)) + 1)
  <2>1. Len(Operations(log)) \in Nat
    BY OperationsUpToTypes DEF Operations, Records
  <2>2. N + 1 \in 1 .. Len(l) /\ IsTimestamp(l[N + 1])
    BY <1>0, <1>2
  <2> QED
    BY <1>5, <2>1, <2>2 DEF StampedAt
<1>11. ASSUME CrossSeparated(log) PROVE CrossSeparated(l)
  <2> SUFFICES ASSUME NEW i \in 1 .. Len(l), NEW j \in 1 .. Len(l),
                      ~IsTimestamp(l[i]), ~IsTimestamp(l[j]),
                      Releases(l[j]), l[j].mMatchedMalloc = SeqNo(l, i),
                      l[i].mThreadID # l[j].mThreadID
               PROVE  \E k \in i + 1 .. j - 1 : IsTimestamp(l[k])
    BY DEF CrossSeparated
  <2>1. i \in 1 .. N /\ j \in 1 .. N
    BY <1>0, <1>2
  <2>2. PICK k \in i + 1 .. j - 1 : IsTimestamp(log[k])
    BY <1>2, <1>4, <1>11, <2>1 DEF CrossSeparated
  <2> QED
    BY <1>2, <2>1, <2>2
<1> QED
  BY <1>1, <1>6, <1>7, <1>8, <1>9, <1>10, <1>11 DEF l

\* What an operation has to say of the block it releases, so that it can be written.
Fitting(log, r, tid, found, n) ==
  /\ r \in Records /\ ~IsTimestamp(r)
  /\ r.mThreadID = ThreadField(tid)
  /\ Allocates(r) => r.mFreeByOtherThread = FALSE
  /\ Releases(r) => /\ Some(log, tid, found)
                    /\ r.mMatchedMalloc = found.seqNo
                    /\ ReleasedSize(r) = found.size
                    /\ r.mAllocatedByOtherThread = found.byOther
  /\ ~Releases(r) => found.byOther = FALSE
  /\ found.byOther => found.seqNo < n

\* How the log changes when an operation is written.
LEMMA OperationWritten ==
  ASSUME NEW log \in Seq(Records), NEW r \in Records, ~IsTimestamp(r)
  PROVE  LET l == Append(log, r)
             x == Operations(log)
             n == Len(x) + 1
         IN  /\ l \in Seq(Records)
             /\ Len(x) \in Nat
             /\ Len(Operations(l)) = n
             /\ Operations(l)[n] = r
             /\ \A k \in 1 .. Len(x) : Operations(l)[k] = x[k]
             /\ \A k \in 0 .. Len(x) : Outstanding(l)[k] = Outstanding(log)[k]
             /\ Outstanding(l)[n] =
                  (Outstanding(log)[Len(x)] \ (IF Releases(r) THEN {r.mMatchedMalloc} ELSE {}))
                    \cup (IF Allocates(r) THEN {n} ELSE {})
             /\ \A i \in 1 .. Len(log) : l[i] = log[i] /\ SeqNo(l, i) = SeqNo(log, i)
             /\ Len(l) = Len(log) + 1
             /\ l[Len(log) + 1] = r
             /\ SeqNo(l, Len(log) + 1) = n
<1> DEFINE l == Append(log, r)
           x == Operations(log)
           y == Operations(l)
           n == Len(x) + 1
           A == Outstanding(log)
           B == Outstanding(l)
<1>1. /\ l \in Seq(Records) /\ y = Append(x, r)
      /\ \A i \in 0 .. Len(log) : OperationsUpTo(l)[i] = OperationsUpTo(log)[i]
  BY AppendedLog DEF Records
<1>2. /\ Len(l) = Len(log) + 1 /\ l[Len(log) + 1] = r
      /\ (\A i \in 1 .. Len(log) : l[i] = log[i])
      /\ Len(log) \in Nat
  OBVIOUS
<1>3. x \in Seq(Records) /\ Len(x) \in Nat
  BY OperationsUpToTypes, OperationsAreOperations DEF Operations, Records
<1> HIDE DEF l
<1>4. /\ Len(y) = n /\ y[n] = r
      /\ \A k \in 1 .. Len(x) : y[k] = x[k]
  <2> HIDE DEF x, y
  <2> QED BY <1>1, <1>3
<1>5. \A k \in 0 .. Len(x) : B[k] = A[k]
  <2>1. Len(x) <= Len(y) /\ \A k \in 1 .. Len(x) : SameBlocks(x[k], y[k])
    <3> HIDE DEF x, y
    <3> QED BY <1>3, <1>4 DEF SameBlocks
  <2> QED
    <3>1. l \in Seq(RecordsOf(Nat, Int)) /\ log \in Seq(RecordsOf(Nat, Int))
      BY <1>1 DEF Records
    <3>2. Len(x) \in Nat /\ Len(x) <= Len(Operations(log)) /\ Len(x) <= Len(Operations(l))
          /\ \A k \in 1 .. Len(x) : SameBlocks(Operations(log)[k], Operations(l)[k])
      BY <1>3, <2>1
    <3> HIDE DEF x
    <3>3. \A k \in 0 .. Len(x) : Outstanding(log)[k] = Outstanding(l)[k]
      BY <3>1, <3>2, OutstandingAgrees
    <3> QED
      BY <3>3
<1>6. B[n] = (A[Len(x)] \ (IF Releases(r) THEN {r.mMatchedMalloc} ELSE {}))
               \cup (IF Allocates(r) THEN {n} ELSE {})
  <2>1. \A k \in 1 .. Len(y) : B[k] = (B[k - 1] \ (IF Releases(y[k]) THEN {y[k].mMatchedMalloc} ELSE {}))
                                        \cup (IF Allocates(y[k]) THEN {k} ELSE {})
    <3>1. l \in Seq(RecordsOf(Nat, Int))
      BY <1>1 DEF Records
    <3> QED
      BY <3>1, OutstandingValues
  <2>2. n \in 1 .. Len(y) /\ n - 1 = Len(x) /\ Len(x) \in 0 .. Len(x)
    <3> HIDE DEF x, y
    <3> QED BY <1>3, <1>4
  <2> HIDE DEF x, y, n, A, B
  <2> QED
    BY <1>4, <1>5, <2>1, <2>2
<1>7. \A i \in 1 .. Len(log) : SeqNo(l, i) = SeqNo(log, i)
  BY <1>1, <1>2 DEF SeqNo
<1>8. SeqNo(l, Len(log) + 1) = n
  BY <1>2, <1>4 DEF SeqNo, Operations
<1> QED
  BY <1>1, <1>2, <1>3, <1>4, <1>5, <1>6, <1>7, <1>8 DEF l

\* ... what is known stays known: the block the operation releases is not among it.
LEMMA KnownStays ==
  ASSUME NEW log \in Seq(Records), NEW r, NEW tid, NEW found, NEW s,
         Fitting(log, r, tid, found, s), KnownIn(log, found.known)
  PROVE  KnownIn(Append(log, r), found.known)
<1> DEFINE l == Append(log, r)
           x == Operations(log)
           y == Operations(l)
           n == Len(x) + 1
<1>0. r \in Records /\ ~IsTimestamp(r)
  BY DEF Fitting
<1>1. /\ Len(x) \in Nat /\ Len(y) = n
      /\ \A k \in 1 .. Len(x) : y[k] = x[k]
      /\ Outstanding(l)[n] =
           (Outstanding(log)[Len(x)] \ (IF Releases(r) THEN {r.mMatchedMalloc} ELSE {}))
              \cup (IF Allocates(r) THEN {n} ELSE {})
  BY <1>0, OperationWritten
<1> DEFINE A == Outstanding(log)[Len(x)]
           B == Outstanding(l)[Len(y)]
<1>2. Releases(r) => NotKnown(found.known, r.mMatchedMalloc)
  BY DEF Fitting, Some
<1>3. ASSUME NEW e, Made(log, e), Releases(r) => e.mSeqNo # r.mMatchedMalloc
      PROVE  Made(l, e)
  <2>1. /\ e \in Entries /\ e.mSeqNo \in 1 .. Len(x) /\ e.mSeqNo \in A
        /\ Allocates(x[e.mSeqNo])
        /\ AllocatedSize(x[e.mSeqNo]) = e.mSize
        /\ x[e.mSeqNo].mThreadID = ThreadField(e.mThreadID)
        /\ e.mThreadID \in 1 .. Cardinality(Threads)
    BY <1>3 DEF Made
  <2> HIDE DEF l, x, y, A, B
  <2>2. e.mSeqNo \in B
    BY <1>1, <1>3, <2>1 DEF A, B
  <2>3. e.mSeqNo \in 1 .. Len(y) /\ y[e.mSeqNo] = x[e.mSeqNo]
    BY <1>1, <2>1
  <2> QED
    BY <2>1, <2>2, <2>3 DEF Made, B, y
<1> HIDE DEF l, x, y, n
<1>4. \A a \in DOMAIN found.known : \A k \in 1 .. Len(found.known[a]) : Made(l, found.known[a][k])
  BY <1>2, <1>3 DEF KnownIn, NotKnown
<1> QED
  BY <1>4 DEF KnownIn, l

\* ... and the block it makes becomes known.
LEMMA BlockAdded ==
  ASSUME NEW log, NEW known, KnownIn(log, known), NEW e, Made(log, e), NotKnown(known, e.mSeqNo),
         NEW a, NEW tid, NEW size,
         e = [mSeqNo |-> e.mSeqNo, mThreadID |-> tid, mSize |-> size]
  PROVE  KnownIn(log, AddOutstandingBlock(known, a, e.mSeqNo, tid, size))
<1> DEFINE list == IF a \in DOMAIN known THEN known[a] ELSE <<>>
           more == Append(list, e)
           all == AddOutstandingBlock(known, a, e.mSeqNo, tid, size)
           D == DOMAIN known
<1>1. /\ \A b \in D : known[b] \in Seq(Entries)
      /\ \A b \in D : \A k \in 1 .. Len(known[b]) : Made(log, known[b][k])
      /\ \A b, c \in D : \A k \in 1 .. Len(known[b]), l \in 1 .. Len(known[c]) :
           known[b][k].mSeqNo = known[c][l].mSeqNo => b = c /\ k = l
      /\ \A b \in D : \A k \in 1 .. Len(known[b]) : known[b][k].mSeqNo # e.mSeqNo
  BY DEF KnownIn, Lists, Once, NotKnown
<1>2. e \in Entries
  BY DEF Made
<1>3. list \in Seq(Entries)
  BY <1>1
<1>4. /\ DOMAIN all = D \cup {a} /\ all[a] = more
      /\ \A b \in D : b # a => all[b] = known[b]
  BY DEF AddOutstandingBlock, Put
<1>5. a \in D => list = known[a]
  OBVIOUS
<1>6. a \notin D => Len(list) = 0
  OBVIOUS
<1> HIDE DEF list, all, D
<1>7. /\ more \in Seq(Entries) /\ Len(more) = Len(list) + 1 /\ Len(list) \in Nat
      /\ more[Len(list) + 1] = e /\ \A k \in 1 .. Len(list) : more[k] = list[k]
  BY <1>2, <1>3
<1> HIDE DEF more
\* A member of the lists is the new block or one of before.
<1>8. ASSUME NEW b \in DOMAIN all, NEW k \in 1 .. Len(all[b])
      PROVE  \/ b \in D /\ k \in 1 .. Len(known[b]) /\ all[b][k] = known[b][k]
             \/ b = a /\ k = Len(list) + 1 /\ all[b][k] = e
  <2>1. CASE b # a
    BY <1>4, <1>8, <2>1
  <2>2. CASE b = a
    BY <1>4, <1>5, <1>6, <1>7, <1>8, <2>2
  <2> QED
    BY <2>1, <2>2
<1>9. Lists(all)
  BY <1>1, <1>4, <1>7 DEF Lists
<1>10. \A b \in DOMAIN all : \A k \in 1 .. Len(all[b]) : Made(log, all[b][k])
  BY <1>1, <1>8
<1>11. Once(all)
  <2> SUFFICES ASSUME NEW b \in DOMAIN all, NEW c \in DOMAIN all,
                      NEW k \in 1 .. Len(all[b]), NEW l \in 1 .. Len(all[c]),
                      all[b][k].mSeqNo = all[c][l].mSeqNo
               PROVE  b = c /\ k = l
    BY DEF Once
  <2>1. CASE b = a /\ k = Len(list) + 1 /\ all[b][k] = e
    BY <1>1, <1>8, <2>1
  <2>2. CASE b \in D /\ k \in 1 .. Len(known[b]) /\ all[b][k] = known[b][k]
    BY <1>1, <1>8, <2>2
  <2> QED
    BY <1>8, <2>1, <2>2
<1>12. KnownIn(log, all)
  BY <1>9, <1>10, <1>11 DEF KnownIn
<1> QED
  BY <1>12 DEF all

\* A record has room for the numbers of all threads.
FewThreads ==
  /\ IsFiniteSet(Threads)
  /\ Cardinality(Threads) < MaxThreadID
  /\ Cardinality(Threads) < ThreadIdRange

\* Records tell the threads apart, if they have room for all.
LEMMA ThreadsTold ==
  ASSUME FewThreads, NEW i \in 1 .. Cardinality(Threads), NEW j \in 1 .. Cardinality(Threads),
         ThreadField(i) = ThreadField(j)
  PROVE  i = j
<1>1. Cardinality(Threads) \in Nat /\ MaxThreadID \in Nat /\ ThreadIdRange \in Nat \ {0}
  BY FS_CardinalityType, ConsolidatorAssumption DEF FewThreads
<1>2. ThreadField(i) = i % ThreadIdRange /\ ThreadField(j) = j % ThreadIdRange
  BY <1>1 DEF FewThreads, ThreadField
<1>3. i \in 0 .. ThreadIdRange - 1 /\ j \in 0 .. ThreadIdRange - 1
  BY <1>1 DEF FewThreads
<1> DEFINE w == ThreadIdRange
<1>4. \A k \in 0 .. w - 1 : k % w = k
  BY <1>1
<1> QED
  BY <1>2, <1>3, <1>4

\* The operation written releases a block made before.
LEMMA MadeBeforeStays ==
  ASSUME NEW log \in Seq(Records), NEW r, NEW tid, NEW found, NEW s,
         Fitting(log, r, tid, found, s), MadeBefore(Operations(log))
  PROVE  MadeBefore(Operations(Append(log, r)))
<1> DEFINE x == Operations(log)
           y == Operations(Append(log, r))
           n == Len(x) + 1
<1>1. r \in Records /\ ~IsTimestamp(r)
  BY DEF Fitting
<1>2. /\ Len(x) \in Nat /\ Len(y) = n /\ y[n] = r
      /\ \A k \in 1 .. Len(x) : y[k] = x[k]
  BY <1>1, OperationWritten
<1>3. Releases(r) => r.mMatchedMalloc \in 1 .. Len(x)
  BY DEF Fitting, Some, Made
<1>4. \A k \in 1 .. Len(x) : Releases(x[k]) => x[k].mMatchedMalloc \in 1 .. k - 1
  BY DEF MadeBefore
<1> HIDE DEF x, y
<1>5. MadeBefore(y)
  BY <1>2, <1>3, <1>4 DEF MadeBefore
<1> QED
  BY <1>5 DEF y

\* A release that fits the block it takes is right.
LEMMA ReleasesStayRight ==
  ASSUME FewThreads, NEW log \in Seq(Records), NEW r, NEW tid \in 1 .. Cardinality(Threads),
         NEW found, NEW s, Fitting(log, r, tid, found, s), ReleasesRight(log)
  PROVE  ReleasesRight(Append(log, r))
<1> DEFINE l == Append(log, r)
           x == Operations(log)
           y == Operations(l)
           n == Len(x) + 1
           A == Outstanding(log)
           B == Outstanding(l)
<1>1. r \in Records /\ ~IsTimestamp(r)
  BY DEF Fitting
<1>2. /\ Len(x) \in Nat /\ Len(y) = n /\ y[n] = r
      /\ \A k \in 1 .. Len(x) : y[k] = x[k]
      /\ \A k \in 0 .. Len(x) : B[k] = A[k]
  BY <1>1, OperationWritten
<1>3. \A k \in 0 .. Len(x) : A[k] \subseteq 1 .. k
  BY OutstandingMade DEF Records
<1> SUFFICES ASSUME NEW k \in 1 .. Len(y), Releases(y[k])
             PROVE  LET m == y[k].mMatchedMalloc IN
                    /\ m \in B[k - 1]
                    /\ ReleasedSize(y[k]) = AllocatedSize(y[m])
                    /\ y[k].mAllocatedByOtherThread = (y[k].mThreadID # y[m].mThreadID)
  BY DEF ReleasesRight
<1>4. CASE k \in 1 .. Len(x)
  <2> DEFINE m == x[k].mMatchedMalloc
  <2>1. /\ m \in A[k - 1]
        /\ ReleasedSize(x[k]) = AllocatedSize(x[m])
        /\ x[k].mAllocatedByOtherThread = (x[k].mThreadID # x[m].mThreadID)
    BY <1>2, <1>4 DEF ReleasesRight
  <2>2. k - 1 \in 0 .. Len(x)
    BY <1>2, <1>4
  <2> HIDE DEF x, y, A, B, l
  <2>3. m \in 1 .. Len(x)
    BY <1>2, <1>3, <2>1, <2>2
  <2> QED
    BY <1>2, <1>4, <2>1, <2>2, <2>3
<1>5. CASE k = n
  <2>1. y[k] = r
    BY <1>2, <1>5
  <2>2. PICK e : /\ Made(log, e)
                 /\ found.seqNo = e.mSeqNo /\ found.size = e.mSize
                 /\ found.byOther = (e.mThreadID # tid)
    BY <2>1 DEF Fitting, Some
  <2> DEFINE m == e.mSeqNo
  <2>3. /\ m \in 1 .. Len(x) /\ m \in A[Len(x)]
        /\ AllocatedSize(x[m]) = found.size
        /\ x[m].mThreadID = ThreadField(e.mThreadID)
        /\ e.mThreadID \in 1 .. Cardinality(Threads)
    BY <2>2 DEF Made
  <2>4. /\ r.mMatchedMalloc = m /\ ReleasedSize(r) = found.size
        /\ r.mAllocatedByOtherThread = found.byOther
        /\ r.mThreadID = ThreadField(tid)
    BY <2>1, <2>2 DEF Fitting
  <2>5. (r.mThreadID # x[m].mThreadID) = (e.mThreadID # tid)
    BY <2>3, <2>4, ThreadsTold
  <2>6. k - 1 = Len(x) /\ Len(x) \in 0 .. Len(x)
    BY <1>2, <1>5
  <2> HIDE DEF x, y, A, B, l, m, n
  <2>7. m \in B[k - 1] /\ y[m] = x[m]
    BY <1>2, <2>3, <2>6
  <2>8. ReleasedSize(y[k]) = AllocatedSize(y[m])
    BY <2>1, <2>3, <2>4, <2>7
  <2>9. y[k].mAllocatedByOtherThread = (y[k].mThreadID # y[m].mThreadID)
    BY <2>1, <2>2, <2>4, <2>5, <2>7
  <2>10. y[k].mMatchedMalloc = m
    BY <2>1, <2>4
  <2> QED
    BY <2>7, <2>8, <2>9, <2>10
<1> QED
  BY <1>2, <1>4, <1>5

\* The allocation another thread releases is to be marked.
LEMMA MarksStayRight ==
  ASSUME FewThreads, NEW log \in Seq(Records), NEW r, NEW tid \in 1 .. Cardinality(Threads),
         NEW found, NEW s, Fitting(log, r, tid, found, s), MadeBefore(Operations(log)),
         NEW marks, ToBeMarked(log, marks)
  PROVE  ToBeMarked(Append(log, r), IF found.byOther THEN marks \cup {found.seqNo} ELSE marks)
<1> DEFINE l == Append(log, r)
           x == Operations(log)
           y == Operations(l)
           n == Len(x) + 1
           all == IF found.byOther THEN marks \cup {found.seqNo} ELSE marks
<1>1. r \in Records /\ ~IsTimestamp(r)
  BY DEF Fitting
<1>2. /\ Len(x) \in Nat /\ Len(y) = n /\ y[n] = r
      /\ \A k \in 1 .. Len(x) : y[k] = x[k]
  BY <1>1, OperationWritten
<1>3. \A k \in 1 .. Len(x) : Releases(x[k]) => x[k].mMatchedMalloc \in 1 .. k - 1
  BY DEF MadeBefore
<1>4. Releases(r) =>
        /\ r.mMatchedMalloc = found.seqNo
        /\ found.seqNo \in 1 .. Len(x) /\ Allocates(x[found.seqNo])
        /\ found.byOther = (r.mThreadID # x[found.seqNo].mThreadID)
  <2> SUFFICES ASSUME Releases(r)
               PROVE  /\ r.mMatchedMalloc = found.seqNo
                      /\ found.seqNo \in 1 .. Len(x) /\ Allocates(x[found.seqNo])
                      /\ found.byOther = (r.mThreadID # x[found.seqNo].mThreadID)
    OBVIOUS
  <2>1. PICK e : /\ Made(log, e)
                 /\ found.seqNo = e.mSeqNo
                 /\ found.byOther = (e.mThreadID # tid)
    BY DEF Fitting, Some
  <2>2. /\ found.seqNo \in 1 .. Len(x) /\ Allocates(x[found.seqNo])
        /\ x[found.seqNo].mThreadID = ThreadField(e.mThreadID)
        /\ e.mThreadID \in 1 .. Cardinality(Threads)
    BY <2>1 DEF Made
  <2>3. r.mMatchedMalloc = found.seqNo /\ r.mThreadID = ThreadField(tid)
    BY DEF Fitting
  <2>4. (r.mThreadID # x[found.seqNo].mThreadID) = (e.mThreadID # tid)
    BY <2>2, <2>3, ThreadsTold
  <2> QED
    BY <2>1, <2>2, <2>3, <2>4
<1>5. /\ ~Releases(r) => ~found.byOther
      /\ Allocates(r) => r.mFreeByOtherThread = FALSE
  BY DEF Fitting
<1>6. /\ \A m \in marks : m \in 1 .. Len(x) /\ Allocates(x[m])
      /\ \A m \in 1 .. Len(x) : Allocates(x[m]) =>
           (x[m].mFreeByOtherThread \/ m \in marks <=> ReleasedByOther(x, m))
  BY DEF ToBeMarked
<1> HIDE DEF l, x, y, n
<1>7. \A m \in all : m \in 1 .. Len(y) /\ Allocates(y[m])
  BY <1>2, <1>4, <1>5, <1>6 DEF n
\* Another thread releases block m by an operation of before, or by the new one.
<1>8. ASSUME NEW m \in 1 .. Len(x)
      PROVE  ReleasedByOther(y, m) <=>
               \/ ReleasedByOther(x, m)
               \/ Releases(r) /\ r.mMatchedMalloc = m /\ r.mThreadID # x[m].mThreadID
  <2>1. n \in 1 .. Len(y) /\ y[m] = x[m]
    BY <1>2 DEF n
  <2>2. \A k \in 1 .. Len(y) : (k \in 1 .. Len(x) /\ y[k] = x[k]) \/ (k = n /\ y[k] = r)
    BY <1>2 DEF n
  <2>3. \A k \in 1 .. Len(x) : k \in 1 .. Len(y) /\ y[k] = x[k]
    BY <1>2 DEF n
  <2> QED
    BY <1>2, <2>1, <2>2, <2>3 DEF ReleasedByOther
<1>9. ASSUME NEW m \in 1 .. Len(x), Allocates(y[m])
      PROVE  y[m].mFreeByOtherThread \/ m \in all <=> ReleasedByOther(y, m)
  <2>1. y[m] = x[m]
    BY <1>2
  <2>2. m \in all <=> m \in marks \/ (found.byOther /\ m = found.seqNo)
    OBVIOUS
  <2>3. (found.byOther /\ m = found.seqNo) <=>
          (Releases(r) /\ r.mMatchedMalloc = m /\ r.mThreadID # x[m].mThreadID)
    BY <1>4, <1>5
  <2>4. x[m].mFreeByOtherThread \/ m \in marks <=> ReleasedByOther(x, m)
    BY <1>6, <1>9, <2>1
  <2> HIDE DEF all
  <2> QED
    BY <1>8, <2>1, <2>2, <2>3, <2>4
<1>10. ASSUME Allocates(y[n])
       PROVE  y[n].mFreeByOtherThread \/ n \in all <=> ReleasedByOther(y, n)
  <2>1. ~(y[n].mFreeByOtherThread)
    BY <1>2, <1>5, <1>10
  <2>2. n \notin all
    BY <1>2, <1>4, <1>5, <1>6 DEF n
  <2>3. \A k \in 1 .. Len(y) : Releases(y[k]) => y[k].mMatchedMalloc # n
    BY <1>2, <1>3, <1>4 DEF n
  <2> QED
    BY <2>1, <2>2, <2>3 DEF ReleasedByOther
<1>11. \A m \in 1 .. Len(y) : m \in 1 .. Len(x) \/ m = n
  BY <1>2 DEF n
<1> HIDE DEF all
<1>12. ToBeMarked(l, all)
  BY <1>7, <1>9, <1>10, <1>11 DEF ToBeMarked, y
<1> QED
  BY <1>12 DEF l, all

\* A release by another thread comes behind a time stamp that comes behind the allocation.
LEMMA SeparationKept ==
  ASSUME NEW log \in Seq(Records), NEW r, NEW tid, NEW found, NEW s,
         Fitting(log, r, tid, found, s), StampedAt(log, s), CrossSeparated(log),
         MadeBefore(Operations(log))
  PROVE  CrossSeparated(Append(log, r))
<1> DEFINE l == Append(log, r)
           x == Operations(log)
           n == Len(x) + 1
           N == Len(log)
<1>1. r \in Records /\ ~IsTimestamp(r)
  BY DEF Fitting
<1>2. /\ Len(x) \in Nat
      /\ \A i \in 1 .. N : l[i] = log[i] /\ SeqNo(l, i) = SeqNo(log, i)
      /\ Len(l) = N + 1 /\ l[N + 1] = r /\ SeqNo(l, N + 1) = n /\ N \in Nat
      /\ l \in Seq(Records)
  BY <1>1, OperationWritten
<1> SUFFICES ASSUME NEW i \in 1 .. Len(l), NEW j \in 1 .. Len(l),
                    ~IsTimestamp(l[i]), ~IsTimestamp(l[j]),
                    Releases(l[j]), l[j].mMatchedMalloc = SeqNo(l, i),
                    l[i].mThreadID # l[j].mThreadID
             PROVE  \E k \in i + 1 .. j - 1 : IsTimestamp(l[k])
  BY DEF CrossSeparated
<1> HIDE DEF l
<1>3. CASE i \in 1 .. N /\ j \in 1 .. N
  <2>1. PICK k \in i + 1 .. j - 1 : IsTimestamp(log[k])
    BY <1>2, <1>3 DEF CrossSeparated
  <2> QED
    BY <1>2, <1>3, <2>1
<1>4. CASE i = N + 1 /\ j \in 1 .. N
  \* No operation releases a block that is yet to be made.
  <2>1. SeqNo(log, j) \in 1 .. Len(x) /\ x[SeqNo(log, j)] = log[j] /\ l[j] = log[j]
    BY <1>2, <1>4, OperationOfRecord DEF Records
  <2>2. l[j].mMatchedMalloc \in 1 .. SeqNo(log, j) - 1
    BY <2>1 DEF MadeBefore
  <2>3. l[j].mMatchedMalloc = n
    BY <1>2, <1>4
  <2> QED
    BY <1>2, <2>1, <2>2, <2>3
<1>5. CASE j = N + 1
  <2>1. PICK e : /\ Made(log, e) /\ found.seqNo = e.mSeqNo
                 /\ found.byOther = (e.mThreadID # tid)
    BY <1>2, <1>5 DEF Fitting, Some
  <2>2. /\ e.mSeqNo \in 1 .. Len(x)
        /\ x[e.mSeqNo].mThreadID = ThreadField(e.mThreadID)
    BY <2>1 DEF Made
  <2>3. r.mMatchedMalloc = e.mSeqNo /\ r.mThreadID = ThreadField(tid)
        /\ (found.byOther => found.seqNo < s)
    BY <1>2, <1>5, <2>1 DEF Fitting
  <2>4. i \in 1 .. N
    BY <1>2, <1>5, <2>2, <2>3
  <2>5. ~IsTimestamp(log[i]) /\ SeqNo(log, i) = e.mSeqNo
    BY <1>2, <1>5, <2>3, <2>4
  <2>6. x[e.mSeqNo] = log[i]
    BY <2>4, <2>5, OperationOfRecord DEF Records
  <2>7. found.byOther
    BY <1>2, <1>5, <2>1, <2>2, <2>3, <2>4, <2>6
  <2>8. s \in Nat /\ e.mSeqNo \in Nat /\ e.mSeqNo < s
    BY <2>1, <2>2, <2>3, <2>7, <1>2 DEF StampedAt
  <2>9. PICK p \in 1 .. N : IsTimestamp(log[p]) /\ SeqNo(log, p) = s - 1
    BY <2>8 DEF StampedAt
  <2>10. i < p
    <3>1. CASE p < i
      <4>1. SeqNo(log, p) < SeqNo(log, i)
        BY <2>4, <2>5, <3>1, SeqNoGrows DEF Records
      <4> QED
        BY <2>5, <2>8, <2>9, <4>1
    <3>2. p # i
      BY <2>5, <2>9
    <3> QED
      BY <1>2, <2>4, <3>1, <3>2
  <2> QED
    BY <1>2, <1>5, <2>4, <2>9, <2>10
<1> QED
  BY <1>2, <1>3, <1>4, <1>5

\* The log as the first pass leaves it after each record ...
WrittenInv ==
  /\ out \in Seq(Records)
  /\ totalRecords = Len(Operations(out)) + 1
  /\ MadeBefore(Operations(out))
  /\ CrossSeparated(out)
  /\ phase \in {"wait", "merge"} => KnownIn(out, blocks) /\ StampedAt(out, prevSeqNo)
PairedInv == ReleasesRight(out) /\ ToBeMarked(out, freedByOther)
\* ... and where the second pass goes on.
CursorInv ==
  phase = "mark" /\ freedByOther # {} =>
    /\ cursor \in 1 .. Len(out) /\ ~IsTimestamp(out[cursor]) /\ SeqNo(out, cursor) = currentSeqNo
    /\ \A m \in freedByOther : currentSeqNo <= m

\* Log l is log with time stamps written behind it.
OnlyStamps(log, l) ==
  /\ l \in Seq(Records)
  /\ Operations(l) = Operations(log)
  /\ \A e : Made(log, e) => Made(l, e)
  /\ \A known : KnownIn(log, known) => KnownIn(l, known)
  /\ ReleasesRight(log) => ReleasesRight(l)
  /\ \A marks : ToBeMarked(log, marks) => ToBeMarked(l, marks)
  /\ CrossSeparated(log) => CrossSeparated(l)
  /\ \A n : StampedAt(log, n) => StampedAt(l, n)

\* None, one or more time stamps written.
LEMMA OnlyStampsWritten ==
  /\ \A log \in Seq(Records) : /\ OnlyStamps(log, log)
                               /\ OnlyStamps(log, Append(log, Timestamp))
                               /\ StampedAt(Append(log, Timestamp), Len(Operations(log)) + 1)
  /\ \A log, k, l : OnlyStamps(log, k) /\ OnlyStamps(k, l) => OnlyStamps(log, l)
<1>1. ASSUME NEW log \in Seq(Records)
      PROVE  /\ OnlyStamps(log, Append(log, Timestamp))
             /\ StampedAt(Append(log, Timestamp), Len(Operations(log)) + 1)
  <2> DEFINE l == Append(log, Timestamp)
  <2>1. /\ l \in Seq(Records) /\ Operations(l) = Operations(log)
        /\ \A known : KnownIn(log, known) => KnownIn(l, known)
        /\ ReleasesRight(log) => ReleasesRight(l)
        /\ \A marks : ToBeMarked(log, marks) => ToBeMarked(l, marks)
        /\ CrossSeparated(log) => CrossSeparated(l)
        /\ \A n : StampedAt(log, n) => StampedAt(l, n)
        /\ StampedAt(l, Len(Operations(log)) + 1)
    BY StampWritten
  <2> HIDE DEF l
  <2>2. \A e : Made(log, e) => Made(l, e)
    BY <2>1 DEF Made, Outstanding
  <2>3. OnlyStamps(log, l) /\ StampedAt(l, Len(Operations(log)) + 1)
    BY <2>1, <2>2 DEF OnlyStamps
  <2> QED
    BY <2>3 DEF l
<1>2. \A log \in Seq(Records) : OnlyStamps(log, log)
  BY DEF OnlyStamps
<1>3. \A log, k, l : OnlyStamps(log, k) /\ OnlyStamps(k, l) => OnlyStamps(log, l)
  BY DEF OnlyStamps
<1> QED
  BY <1>1, <1>2, <1>3

\* The time stamps written before a record: after the last of them (or the last of before),
\* the number in lPrevTimeStampSeqNo is that of the next operation.
StampsBefore(stamp, separator) ==
  (IF stamp # prevTimeStamp THEN <<Timestamp>> ELSE <<>>)
    \o (IF separator THEN <<Timestamp>> ELSE <<>>)

\* The time stamps written before a record are time stamps only, and number s is right.
LEMMA StampsAreWritten ==
  ASSUME out \in Seq(Records), totalRecords = Len(Operations(out)) + 1, StampedAt(out, prevSeqNo),
         NEW stamp, NEW separator \in BOOLEAN
  PROVE  LET l == out \o StampsBefore(stamp, separator) IN
         /\ OnlyStamps(out, l)
         /\ StampedAt(l, IF separator THEN totalRecords ELSE SeqNoOfStamp(stamp))
<1> DEFINE one == Append(out, Timestamp)
           two == Append(one, Timestamp)
           l == out \o StampsBefore(stamp, separator)
           s == IF separator THEN totalRecords ELSE SeqNoOfStamp(stamp)
<1>0. Timestamp \in Records
  BY DEF Timestamp, Records, RecordsOf
<1>1. one \in Seq(Records) /\ two \in Seq(Records)
  BY <1>0
<1>2. /\ OnlyStamps(out, out) /\ OnlyStamps(out, one) /\ OnlyStamps(one, two)
      /\ OnlyStamps(out, two)
      /\ StampedAt(one, Len(Operations(out)) + 1)
      /\ StampedAt(two, Len(Operations(one)) + 1)
  <2> HIDE DEF two
  <2>1. OnlyStamps(out, one) /\ StampedAt(one, Len(Operations(out)) + 1) /\ OnlyStamps(out, out)
    BY OnlyStampsWritten
  <2> HIDE DEF one
  <2>2. OnlyStamps(one, two) /\ StampedAt(two, Len(Operations(one)) + 1)
    BY <1>1, OnlyStampsWritten DEF two
  <2> QED
    BY <2>1, <2>2, OnlyStampsWritten
<1>3. Operations(one) = Operations(out)
  BY <1>2 DEF OnlyStamps
<1>4. CASE stamp = prevTimeStamp /\ ~separator
  <2>1. StampsBefore(stamp, separator) = <<>>
    BY <1>4 DEF StampsBefore
  <2>2. l = out /\ s = prevSeqNo
    BY <1>4, <2>1, ConcatEmptySeq DEF SeqNoOfStamp
  <2> HIDE DEF l, s
  <2>3. OnlyStamps(out, l) /\ StampedAt(l, s)
    BY <1>2, <2>2
  <2> QED
    BY <2>3 DEF l, s
<1>5. CASE (stamp # prevTimeStamp /\ ~separator) \/ (stamp = prevTimeStamp /\ separator)
  <2>1. StampsBefore(stamp, separator) = <<Timestamp>>
    <3> DEFINE x == <<Timestamp>>
    <3>1. x \in Seq(Records)
      BY <1>0
    <3>2. StampsBefore(stamp, separator) = x \o <<>> \/ StampsBefore(stamp, separator) = <<>> \o x
      BY <1>5 DEF StampsBefore
    <3> HIDE DEF x
    <3>3. StampsBefore(stamp, separator) = x
      BY <3>1, <3>2, ConcatEmptySeq
    <3> QED
      BY <3>3 DEF x
  <2>2. l = one
    BY <1>0, <2>1, AppendIsConcat
  <2>3. s = totalRecords
    BY <1>5 DEF SeqNoOfStamp
  <2> HIDE DEF l, s, one
  <2>4. OnlyStamps(out, l) /\ StampedAt(l, s)
    BY <1>2, <2>2, <2>3
  <2> QED
    BY <2>4 DEF l, s
<1>6. CASE stamp # prevTimeStamp /\ separator
  <2> DEFINE x == <<Timestamp>>
  <2>1. StampsBefore(stamp, separator) = x \o x
    BY <1>6 DEF StampsBefore
  <2>2. x \in Seq(Records)
    BY <1>0
  <2>3. one = out \o x /\ two = one \o x
    BY <1>0, <1>1, AppendIsConcat
  <2> HIDE DEF x
  <2>4. l = two
    BY <2>1, <2>2, <2>3, ConcatAssociative
  <2>5. s = totalRecords
    BY <1>6
  <2> HIDE DEF l, s, one, two
  <2>6. OnlyStamps(out, l) /\ StampedAt(l, s)
    BY <1>2, <1>3, <2>4, <2>5
  <2> QED
    BY <2>6 DEF l, s
<1> QED
  BY <1>4, <1>5, <1>6

\* The next record of a file.
LEMMA NextReadable ==
  ASSUME ReadingInv, NEW i, IsNext(i), phase = "merge"
  PROVE  /\ i \in 1 .. Cardinality(Threads) /\ i \in DOMAIN next /\ i \in DOMAIN logFiles
         /\ NextRecord(i) \in LogRecords
         /\ next[i] \in 1 .. Len(logFiles[i]) /\ Readable(logFiles[i])
<1>1. i \in DOMAIN next /\ next[i] # 0 /\ i \in DOMAIN logFiles
  BY DEF IsNext, Unfinished, ReadingInv
<1>2. /\ i \in 1 .. Cardinality(Threads) /\ Readable(logFiles[i])
      /\ next[i] \in DOMAIN logFiles[i] /\ logFiles[i][next[i]] \in LogRecords
  BY <1>1 DEF ReadingInv
<1> QED
  BY <1>1, <1>2 DEF NextRecord, Readable

\* Reading on does not leave the whole records of a file.
LEMMA ReadingKept ==
  ASSUME ReadingInv, NEW i, MergeRecord(i)
  PROVE  ReadingInv'
<1>1. /\ phase = "merge" /\ IsNext(i) /\ logFiles' = logFiles
      /\ \/ phase' = "mark" /\ next' = next
         \/ next' = [next EXCEPT ![i] = After(i)]
  BY DEF MergeRecord
<1>2. /\ i \in DOMAIN next /\ i \in DOMAIN logFiles
      /\ next[i] \in 1 .. Len(logFiles[i]) /\ Readable(logFiles[i])
  BY <1>1, NextReadable
<1>3. CASE phase' = "mark" /\ next' = next
  BY <1>1, <1>3 DEF ReadingInv
<1>4. CASE next' = [next EXCEPT ![i] = After(i)]
  <2>1. After(i) # 0 => After(i) \in DOMAIN logFiles[i] /\ logFiles[i][After(i)] \in LogRecords
    <3> SUFFICES ASSUME After(i) # 0
                 PROVE  After(i) \in DOMAIN logFiles[i] /\ logFiles[i][After(i)] \in LogRecords
      OBVIOUS
    <3> DEFINE f == logFiles[i]
               k == next[i] + 1
    <3>1. After(i) = k /\ next[i] < Len(f) /\ f[k].mType # "truncated"
      BY DEF After
    <3>2. f \in Seq(LogRecords \cup {Truncated})
      BY <1>2 DEF Readable
    <3> HIDE DEF f
    <3>3. k \in DOMAIN f /\ f[k] \in LogRecords \cup {Truncated}
      BY <1>2, <3>1, <3>2 DEF f
    <3>4. f[k] # Truncated
      BY <3>1 DEF Truncated
    <3> QED
      BY <3>1, <3>3, <3>4 DEF f
  <2>2. DOMAIN next' = DOMAIN next /\ next'[i] = After(i) /\ \A j \in DOMAIN next : j # i => next'[j] = next[j]
    BY <1>2, <1>4
  <2> QED
    BY <1>1, <2>1, <2>2 DEF ReadingInv
<1> QED
  BY <1>1, <1>3, <1>4

\* The record written fits the block that was found.
LEMMA ConsolidatedFits ==
  ASSUME NEW r \in LogRecords, NEW i \in 1 .. Cardinality(Threads), NEW found, NEW log, NEW s,
         \/ None(blocks, found)
         \/ r.mType # "malloc" /\ Some(log, i, found),
         found.byOther => found.seqNo < s
  PROVE  LET c == Consolidated(r, i, found) IN
         /\ Fitting(log, c, i, found, s)
         /\ Allocates(c) <=> r.mType # "free"
         /\ Allocates(c) => AllocatedSize(c) = r.mSize
<1> DEFINE c == Consolidated(r, i, found)
           tid == ThreadField(i)
<1>1. r.mType \in {"malloc", "free", "realloc"} /\ r.mSize \in Nat
  BY KindsOfRecords DEF LogRecords
<1>2. tid \in Nat
  <2>1. MaxThreadID \in Nat \ {0} /\ ThreadIdRange \in Nat \ {0} /\ i \in Nat
    BY ConsolidatorAssumption
  <2> DEFINE k == IF i >= MaxThreadID THEN MaxThreadID - 1 ELSE i
  <2>2. k \in Nat
    BY <2>1
  <2>3. tid = k % ThreadIdRange
    BY DEF ThreadField
  <2> HIDE DEF k, tid
  <2> QED
    BY <2>1, <2>2, <2>3
<1>3. found.seqNo \in Nat /\ found.size \in Int /\ found.byOther \in BOOLEAN
  <2>1. CASE None(blocks, found)
    <3>1. found.seqNo = 0 /\ found.size \in Int
      BY <2>1 DEF None
    <3>2. found.byOther \in BOOLEAN
      <4>1. found.byOther = FALSE
        BY <2>1, Zenon DEF None
      <4> QED
        BY <4>1, Zenon
    <3> QED
      BY <3>1, <3>2
  <2>2. CASE Some(log, i, found)
    <3>1. PICK e : /\ e \in Entries /\ found.seqNo = e.mSeqNo /\ found.size = e.mSize
                   /\ found.byOther = (e.mThreadID # i)
      BY <2>2 DEF Some, Made
    <3>2. e.mSeqNo \in Nat /\ e.mSize \in Int
      BY <3>1 DEF Entries
    <3>3. (e.mThreadID # i) \in BOOLEAN
      OBVIOUS
    <3> QED
      BY <3>1, <3>2, <3>3
  <2> QED
    BY <2>1, <2>2
<1>4. found.seqNo # 0 => Some(log, i, found) /\ r.mType # "malloc"
  BY DEF None
<1>5. found.seqNo = 0 => found.byOther = FALSE
  BY DEF None, Some, Made, Entries
<1> HIDE DEF tid
<1>6. CASE r.mType = "malloc"
  <2>1. c = Malloc(tid, r.mSize, FALSE)
    BY <1>6 DEF Consolidated, tid
  <2> HIDE DEF c
  <2>2. /\ c.mType = "malloc" /\ c.mThreadID = tid /\ c.mSize = r.mSize
        /\ c.mFreeByOtherThread = FALSE
        /\ c \in Records
    BY <1>1, <1>2, <2>1 DEF Malloc, Records, RecordsOf
  <2>3. found.byOther = FALSE
    BY <1>4, <1>5, <1>6
  <2>4. Fitting(log, c, i, found, s)
    BY <2>2, <2>3 DEF Fitting, IsTimestamp, Allocates, Releases, tid
  <2>5. Allocates(c) /\ AllocatedSize(c) = r.mSize
    BY <2>2 DEF Allocates, AllocatedSize
  <2> QED
    BY <1>6, <2>4, <2>5 DEF c
<1>7. CASE r.mType = "free"
  <2>1. c = Free(tid, found.size, found.seqNo, found.byOther)
    BY <1>7 DEF Consolidated, tid
  <2> HIDE DEF c
  <2>2. /\ c.mType = "free" /\ c.mThreadID = tid /\ c.mSize = found.size
        /\ c.mMatchedMalloc = found.seqNo /\ c.mAllocatedByOtherThread = found.byOther
        /\ c \in Records
    BY <1>2, <1>3, <2>1 DEF Free, Records, RecordsOf
  <2>3. ~Allocates(c) /\ ~IsTimestamp(c) /\ (Releases(c) <=> found.seqNo # 0) /\ ReleasedSize(c) = found.size
    BY <2>2 DEF Allocates, IsTimestamp, Releases, ReleasedSize
  <2>4. Fitting(log, c, i, found, s)
    BY <1>4, <1>5, <2>2, <2>3 DEF Fitting, tid
  <2> QED
    BY <1>7, <2>3, <2>4 DEF c
<1>8. CASE r.mType = "realloc"
  <2>1. c = Realloc(tid, r.mSize, found.size, found.seqNo, found.byOther, FALSE)
    BY <1>8 DEF Consolidated, tid
  <2> HIDE DEF c
  <2>2. /\ c.mType = "realloc" /\ c.mThreadID = tid /\ c.mNewSize = r.mSize /\ c.mOldSize = found.size
        /\ c.mMatchedMalloc = found.seqNo /\ c.mAllocatedByOtherThread = found.byOther
        /\ c.mFreeByOtherThread = FALSE
        /\ c \in Records
    BY <1>1, <1>2, <1>3, <2>1 DEF Realloc, Records, RecordsOf
  <2>3. /\ Allocates(c) /\ ~IsTimestamp(c) /\ (Releases(c) <=> found.seqNo # 0)
        /\ ReleasedSize(c) = found.size /\ AllocatedSize(c) = r.mSize
    BY <2>2 DEF Allocates, IsTimestamp, Releases, ReleasedSize, AllocatedSize
  <2>4. Fitting(log, c, i, found, s)
    BY <1>4, <1>5, <2>2, <2>3 DEF Fitting, tid
  <2> QED
    BY <1>8, <2>3, <2>4 DEF c
<1> QED
  BY <1>1, <1>6, <1>7, <1>8

\* A record is merged: its time stamps, and itself unless it releases NULL.
LEMMA MergeKept ==
  ASSUME ReadingInv, WrittenInv, NEW i, MergeRecord(i)
  PROVE  /\ WrittenInv'
         /\ FewThreads /\ PairedInv => PairedInv'
<1> DEFINE r == NextRecord(i)
           found == GetMallocNumber(IF r.mType = "malloc" THEN NullPtr ELSE r.old, i)
           separator == NeedsSeparator(found, r.mTimeStamp)
           log == out \o StampsBefore(r.mTimeStamp, separator)
           c == Consolidated(r, i, found)
           s == IF separator THEN totalRecords ELSE SeqNoOfStamp(r.mTimeStamp)
           x == Operations(out)
           marks == IF found.byOther THEN freedByOther \cup {found.seqNo} ELSE freedByOther
<1>1. phase = "merge" /\ IsNext(i) /\ Write(i, r, found)
  BY DEF MergeRecord
<1>2. i \in 1 .. Cardinality(Threads) /\ r \in LogRecords
  BY <1>1, NextReadable
<1>3. /\ out \in Seq(Records) /\ totalRecords = Len(x) + 1 /\ MadeBefore(x)
      /\ CrossSeparated(out) /\ KnownIn(out, blocks) /\ StampedAt(out, prevSeqNo)
  BY <1>1 DEF WrittenInv
<1>4. Len(x) \in Nat
  BY <1>3, OperationsUpToTypes DEF Operations, Records
<1>5. /\ KnownIn(out, found.known)
      /\ None(blocks, found) \/ (r.mType # "malloc" /\ Some(out, i, found))
      /\ IsSkipped(r) => None(blocks, found)
  <2> DEFINE a == IF r.mType = "malloc" THEN NullPtr ELSE r.old
  <2>1. /\ KnownIn(out, found.known)
        /\ None(blocks, found) \/ (a # NullPtr /\ Some(out, i, found))
        /\ a = NullPtr => None(blocks, found)
    BY <1>3, MallocNumber
  <2>2. r.mType = "malloc" => a = NullPtr
    OBVIOUS
  <2>3. IsSkipped(r) => a = NullPtr
    BY DEF IsSkipped
  <2> HIDE DEF a, r, found
  <2> QED
    BY <2>1, <2>2, <2>3
<1>6. separator \in BOOLEAN
  BY DEF NeedsSeparator
<1>7. /\ out' = log \o (IF IsSkipped(r) THEN <<>> ELSE <<c>>)
      /\ prevSeqNo' = s
      /\ totalRecords' = IF IsSkipped(r) THEN totalRecords ELSE totalRecords + 1
      /\ blocks' = IF r.mType = "free" THEN found.known
                   ELSE AddOutstandingBlock(found.known, r.block, totalRecords, i, r.mSize)
      /\ freedByOther' = marks
  BY <1>1 DEF Write, StampsBefore
<1>8. OnlyStamps(out, log) /\ StampedAt(log, s)
  <2> HIDE DEF separator, r
  <2> QED BY <1>3, <1>6, StampsAreWritten
<1>9. /\ log \in Seq(Records) /\ Operations(log) = x
      /\ CrossSeparated(log) /\ KnownIn(log, found.known)
      /\ Some(out, i, found) => Some(log, i, found)
      /\ ReleasesRight(out) => ReleasesRight(log)
      /\ ToBeMarked(out, freedByOther) => ToBeMarked(log, freedByOther)
  <2> HIDE DEF log, found, r
  <2>1. Some(out, i, found) => Some(log, i, found)
    BY <1>8 DEF OnlyStamps, Some
  <2> QED
    BY <1>3, <1>5, <1>8, <2>1 DEF OnlyStamps
<1>10. found.byOther => found.seqNo < s
  <2> SUFFICES ASSUME found.byOther PROVE found.seqNo < s
    OBVIOUS
  <2>1. ~None(blocks, found)
    BY DEF None
  <2>2. Some(out, i, found)
    BY <1>5, <2>1
  <2>3. found.seqNo \in 1 .. Len(x)
    BY <2>2 DEF Some, Made
  <2>4. CASE separator
    BY <1>3, <1>4, <2>3, <2>4
  <2>5. CASE ~separator
    <3>1. ~(found.seqNo >= SeqNoOfStamp(r.mTimeStamp)) /\ s = SeqNoOfStamp(r.mTimeStamp)
      BY <2>5 DEF NeedsSeparator
    <3>2. s \in Nat
      BY <1>3, <1>4, <3>1 DEF SeqNoOfStamp, StampedAt
    <3> HIDE DEF s, found
    <3> QED
      BY <1>4, <2>3, <3>1, <3>2
  <2> QED
    BY <2>4, <2>5
<1> HIDE DEF r, found, separator, log, c, s, marks
<1>11. CASE IsSkipped(r)
  <2>1. out' = log
    BY <1>7, <1>9, <1>11, ConcatEmptySeq
  <2>2. r.mType = "free"
    BY <1>11 DEF IsSkipped
  <2>3. found.byOther = FALSE
    BY <1>5, <1>11 DEF None
  <2>4. blocks' = found.known /\ totalRecords' = totalRecords /\ prevSeqNo' = s
        /\ freedByOther' = freedByOther
    BY <1>7, <1>11, <2>2, <2>3 DEF marks
  <2>5. WrittenInv'
    BY <1>3, <1>8, <1>9, <2>1, <2>4 DEF WrittenInv
  <2>6. PairedInv => PairedInv'
    BY <1>9, <2>1, <2>4 DEF PairedInv
  <2> QED
    BY <2>5, <2>6
<1>12. CASE ~IsSkipped(r)
  <2> DEFINE n == Len(x) + 1
             l == Append(log, c)
  <2>1. /\ Fitting(log, c, i, found, s)
        /\ Allocates(c) <=> r.mType # "free"
        /\ Allocates(c) => AllocatedSize(c) = r.mSize
    BY <1>2, <1>5, <1>9, <1>10, ConsolidatedFits DEF c
  <2>2. c \in Records /\ ~IsTimestamp(c) /\ c.mThreadID = ThreadField(i)
    BY <2>1 DEF Fitting
  <2>3. out' = l
    BY <1>7, <1>9, <1>12, <2>2, AppendIsConcat
  <2>4. /\ l \in Seq(Records) /\ Len(Operations(l)) = n /\ Operations(l)[n] = c
        /\ Outstanding(l)[n] =
             (Outstanding(log)[Len(x)] \ (IF Releases(c) THEN {c.mMatchedMalloc} ELSE {}))
               \cup (IF Allocates(c) THEN {n} ELSE {})
        /\ \A k \in 1 .. Len(log) : l[k] = log[k] /\ SeqNo(l, k) = SeqNo(log, k)
        /\ Len(l) = Len(log) + 1
    BY <1>9, <2>2, OperationWritten
  <2>5. MadeBefore(Operations(l))
    BY <1>3, <1>9, <2>1, MadeBeforeStays
  <2>6. CrossSeparated(l)
    BY <1>3, <1>8, <1>9, <2>1, SeparationKept
  <2>7. KnownIn(l, found.known)
    BY <1>9, <2>1, KnownStays
  <2>8. StampedAt(l, s)
    <3>1. Len(log) \in Nat
      BY <1>9
    <3> HIDE DEF l
    <3> QED BY <1>8, <2>4, <3>1 DEF StampedAt
  <2>9. totalRecords' = n + 1
    BY <1>3, <1>4, <1>7, <1>12
  <2>10. KnownIn(l, blocks')
    <3>1. CASE r.mType = "free"
      BY <1>7, <2>7, <3>1
    <3>2. CASE r.mType # "free"
      <4> DEFINE e == [mSeqNo |-> n, mThreadID |-> i, mSize |-> r.mSize]
      <4>1. /\ e.mSeqNo = n /\ e.mThreadID = i /\ e.mSize = r.mSize
            /\ e = [mSeqNo |-> e.mSeqNo, mThreadID |-> i, mSize |-> r.mSize]
        OBVIOUS
      <4>2. r.mSize \in Nat /\ n \in Nat /\ i \in Nat
        BY <1>2, <1>4 DEF LogRecords
      <4>3. e \in Entries
        BY <4>2 DEF Entries
      <4> HIDE DEF e, l
      <4>4. Made(l, e)
        <5>1. Allocates(c) /\ AllocatedSize(c) = r.mSize
          BY <2>1, <3>2
        <5>2. n \in Outstanding(l)[n] /\ n \in 1 .. n
          BY <2>4, <4>2, <5>1
        <5> HIDE DEF n
        <5> QED
          BY <1>2, <2>2, <2>4, <4>1, <4>3, <5>1, <5>2 DEF Made
      <4>5. NotKnown(found.known, e.mSeqNo)
        <5>1. \A a \in DOMAIN found.known : \A k \in 1 .. Len(found.known[a]) :
                found.known[a][k].mSeqNo \in 1 .. Len(x)
          BY <1>9 DEF KnownIn, Made
        <5> QED
          BY <1>4, <4>1, <5>1 DEF NotKnown
      <4>6. KnownIn(l, AddOutstandingBlock(found.known, r.block, e.mSeqNo, i, r.mSize))
        BY <2>7, <4>1, <4>4, <4>5, BlockAdded
      <4> QED
        BY <1>3, <1>7, <3>2, <4>1, <4>6
    <3> QED
      BY <3>1, <3>2
  <2>11. WrittenInv'
    <3> HIDE DEF l, n
    <3> QED BY <1>7, <2>3, <2>4, <2>5, <2>6, <2>8, <2>9, <2>10 DEF WrittenInv
  <2>12. ASSUME FewThreads, PairedInv PROVE PairedInv'
    <3>1. ReleasesRight(log) /\ ToBeMarked(log, freedByOther)
      BY <1>9, <2>12 DEF PairedInv
    <3>2. ReleasesRight(l)
      BY <1>2, <1>9, <2>1, <2>12, <3>1, ReleasesStayRight
    <3>3. ToBeMarked(l, marks)
      BY <1>2, <1>3, <1>9, <2>1, <2>12, <3>1, MarksStayRight DEF marks
    <3> HIDE DEF l
    <3> QED
      BY <1>7, <2>3, <3>2, <3>3 DEF PairedInv
  <2> QED
    BY <2>11, <2>12
<1> QED
  BY <1>11, <1>12

\* The second pass begins at the first operation.
LEMMA FirstCursor ==
  ASSUME NEW l \in Seq(Records), Len(Operations(l)) # 0
  PROVE  LET c == CHOOSE c \in DOMAIN l :
                    ~IsTimestamp(l[c]) /\ \A d \in 1 .. c - 1 : IsTimestamp(l[d])
         IN  c \in 1 .. Len(l) /\ ~IsTimestamp(l[c]) /\ SeqNo(l, c) = 1
<1> DEFINE First(c) == ~IsTimestamp(l[c]) /\ \A d \in 1 .. c - 1 : IsTimestamp(l[d])
           N == Len(Operations(l))
<1>0. DOMAIN l = 1 .. Len(l) /\ Len(l) \in Nat /\ N \in Nat
  BY OperationsUpToTypes DEF Operations, Records
<1>1. 1 \in 1 .. N
  BY <1>0
<1>2. PICK i \in 1 .. Len(l) : ~IsTimestamp(l[i]) /\ SeqNo(l, i) = 1
  <2> HIDE DEF N
  <2> QED BY <1>1, RecordOfOperation DEF N, Records
<1>3. \A k \in 1 .. Len(l) : ~IsTimestamp(l[k]) => SeqNo(l, k) \in Nat /\ 1 <= SeqNo(l, k)
  <2>1. \A k \in 1 .. Len(l) : ~IsTimestamp(l[k]) => SeqNo(l, k) \in 1 .. N
    BY OperationOfRecord DEF Records
  <2> HIDE DEF N
  <2> QED BY <1>0, <2>1
<1>4. First(i)
  <2> SUFFICES ASSUME NEW d \in 1 .. i - 1, ~IsTimestamp(l[d]) PROVE FALSE
    BY <1>2
  <2>1. d \in 1 .. Len(l) /\ d < i
    BY <1>0
  <2>2. SeqNo(l, d) < SeqNo(l, i)
    BY <1>2, <2>1, SeqNoGrows DEF Records
  <2> QED
    BY <1>2, <1>3, <2>1, <2>2
<1>5. ASSUME NEW c \in DOMAIN l, First(c) PROVE c = i
  <2>1. CASE c < i
    BY <1>0, <1>4, <1>5, <2>1
  <2>2. CASE i < c
    BY <1>0, <1>2, <1>5, <2>2
  <2> QED
    BY <1>0, <2>1, <2>2
<1>6. (CHOOSE c \in DOMAIN l : First(c)) = i
  <2> HIDE DEF First
  <2>1. (CHOOSE c \in DOMAIN l : First(c)) \in DOMAIN l /\ First(CHOOSE c \in DOMAIN l : First(c))
    BY <1>0, <1>4
  <2> QED
    BY <1>5, <2>1
<1> QED
  BY <1>2, <1>6

\* The second pass starts at the first operation.
LEMMA MergeCursor ==
  ASSUME ReadingInv, WrittenInv, FewThreads, PairedInv, NEW i, MergeRecord(i)
  PROVE  CursorInv'
<1> SUFFICES ASSUME phase' = "mark", freedByOther' # {}
             PROVE  /\ cursor' \in 1 .. Len(out') /\ ~IsTimestamp(out'[cursor'])
                    /\ SeqNo(out', cursor') = currentSeqNo'
                    /\ \A m \in freedByOther' : currentSeqNo' <= m
  BY DEF CursorInv
<1>1. WrittenInv' /\ PairedInv'
  BY MergeKept
<1>2. out' \in Seq(Records) /\ \A m \in freedByOther' : m \in 1 .. Len(Operations(out'))
  BY <1>1 DEF WrittenInv, PairedInv, ToBeMarked
<1>3. Len(Operations(out')) \in Nat
  BY <1>2, OperationsUpToTypes DEF Operations, Records
<1>4. Len(Operations(out')) # 0
  BY <1>2, <1>3
<1>5. /\ currentSeqNo' = 1
      /\ cursor' = CHOOSE c \in DOMAIN out' :
                     ~IsTimestamp(out'[c]) /\ \A d \in 1 .. c - 1 : IsTimestamp(out'[d])
  BY <1>4 DEF MergeRecord
<1>6. cursor' \in 1 .. Len(out') /\ ~IsTimestamp(out'[cursor']) /\ SeqNo(out', cursor') = 1
  BY <1>2, <1>4, <1>5, FirstCursor
<1> QED
  BY <1>2, <1>3, <1>5, <1>6

\* CursorAt finds the record with the sequence number.
LEMMA CursorFinds ==
  ASSUME out \in Seq(Records), cursor \in 1 .. Len(out), ~IsTimestamp(out[cursor]),
         SeqNo(out, cursor) = currentSeqNo,
         NEW n \in 1 .. Len(Operations(out)), currentSeqNo <= n
  PROVE  LET c == CursorAt(n) IN
         /\ c \in 1 .. Len(out) /\ ~IsTimestamp(out[c]) /\ SeqNo(out, c) = n
<1> DEFINE Right(c) == /\ ~IsTimestamp(out[c])
                       /\ currentSeqNo + Len(Operations(SubSeq(out, cursor, c - 1))) = n
           N == Len(Operations(out))
<1>0. Len(out) \in Nat /\ N \in Nat /\ cursor \in Nat
  BY OperationsUpToTypes DEF Operations, Records
<1>1. \A k \in 1 .. Len(out) : ~IsTimestamp(out[k]) =>
        SeqNo(out, k) = Len(OperationsUpTo(out)[k - 1]) + 1 /\ SeqNo(out, k) \in 1 .. N
  BY OperationOfRecord DEF Records
<1>2. ASSUME NEW c \in cursor .. Len(out), ~IsTimestamp(out[c])
      PROVE  currentSeqNo + Len(Operations(SubSeq(out, cursor, c - 1))) = SeqNo(out, c)
  <2>1. c \in 1 .. Len(out) /\ c - 1 \in cursor - 1 .. Len(out)
    BY <1>0
  <2>2. Len(Operations(SubSeq(out, cursor, c - 1))) =
          Len(OperationsUpTo(out)[c - 1]) - Len(OperationsUpTo(out)[cursor - 1])
    BY <2>1, PartOfLog DEF Records
  <2>3. /\ SeqNo(out, c) = Len(OperationsUpTo(out)[c - 1]) + 1
        /\ currentSeqNo = Len(OperationsUpTo(out)[cursor - 1]) + 1
    BY <1>1, <1>2, <2>1
  <2>4. /\ Len(OperationsUpTo(out)[c - 1]) \in Nat
        /\ Len(OperationsUpTo(out)[cursor - 1]) \in Nat
    <3>1. c - 1 \in 0 .. Len(out) /\ cursor - 1 \in 0 .. Len(out)
      BY <1>0, <2>1
    <3> QED
      BY <3>1, OperationsUpToTypes DEF Records
  <2> DEFINE a == Len(OperationsUpTo(out)[c - 1])
             b == Len(OperationsUpTo(out)[cursor - 1])
             d == Len(Operations(SubSeq(out, cursor, c - 1)))
  <2>5. d = a - b /\ SeqNo(out, c) = a + 1 /\ currentSeqNo = b + 1 /\ a \in Nat /\ b \in Nat
    BY <2>2, <2>3, <2>4
  <2> HIDE DEF a, b, d
  <2>6. currentSeqNo + d = SeqNo(out, c)
    BY <2>5
  <2> QED
    BY <2>6 DEF d
<1>3. PICK i \in 1 .. Len(out) : ~IsTimestamp(out[i]) /\ SeqNo(out, i) = n
  BY RecordOfOperation DEF Records
<1>4. i \in cursor .. Len(out)
  <2>1. CASE i < cursor
    <3>1. SeqNo(out, i) < SeqNo(out, cursor)
      BY <1>3, <2>1, SeqNoGrows DEF Records
    <3> QED
      BY <1>0, <1>1, <1>3, <3>1
  <2> QED
    BY <1>0, <2>1
<1>5. Right(i)
  BY <1>2, <1>3, <1>4
<1>6. CursorAt(n) \in cursor .. Len(out) /\ Right(CursorAt(n))
  <2>1. CursorAt(n) = CHOOSE c \in cursor .. Len(out) : Right(c)
    BY DEF CursorAt
  <2> HIDE DEF Right
  <2> QED
    BY <1>4, <1>5, <2>1
<1>7. SeqNo(out, CursorAt(n)) = n
  BY <1>2, <1>6
<1> QED
  BY <1>0, <1>6, <1>7

\* What a mark leaves of a record of the log.
LEMMA MarkedOperation ==
  ASSUME NEW q \in Records, Allocates(q)
  PROVE  /\ SameBlocks(q, Marked(q)) /\ SameBlocks(Marked(q), q)
         /\ Marked(q).mFreeByOtherThread = TRUE
         /\ Marked(q).mThreadID = q.mThreadID
         /\ AllocatedSize(Marked(q)) = AllocatedSize(q)
         /\ ~IsTimestamp(q) /\ ~IsTimestamp(Marked(q))
         /\ Releases(q) => /\ ReleasedSize(Marked(q)) = ReleasedSize(q)
                           /\ Marked(q).mAllocatedByOtherThread = q.mAllocatedByOtherThread
                           /\ Marked(q).mMatchedMalloc = q.mMatchedMalloc
<1>1. q \in RecordsOf(Nat, Int)
  BY DEF Records
<1> QED
  BY <1>1 DEF RecordsOf, Marked, SameBlocks, IsTimestamp, Allocates, Releases, AllocatedSize,
              ReleasedSize

\* A log with one allocation marked.
LEMMA MarkWritten ==
  ASSUME NEW log \in Seq(Records), NEW c \in 1 .. Len(log), Allocates(log[c])
  PROVE  LET l == WithMark(log, c)
             n == SeqNo(log, c)
         IN  /\ l \in Seq(Records)
             /\ Len(l) = Len(log)
             /\ Len(Operations(l)) = Len(Operations(log))
             /\ \A k \in 1 .. Len(log) : SeqNo(l, k) = SeqNo(log, k)
             /\ \A k \in 1 .. Len(log) : IsTimestamp(l[k]) <=> IsTimestamp(log[k])
             /\ MadeBefore(Operations(log)) => MadeBefore(Operations(l))
             /\ CrossSeparated(log) => CrossSeparated(l)
             /\ ReleasesRight(log) => ReleasesRight(l)
             /\ \A marks : ToBeMarked(log, marks) /\ n \in marks => ToBeMarked(l, marks \ {n})
             /\ \A k \in 1 .. Len(Operations(log)) : Releases(Operations(log)[k]) =>
                  /\ Releases(Operations(l)[k])
                  /\ Operations(l)[k].mMatchedMalloc = Operations(log)[k].mMatchedMalloc
<1> DEFINE l == WithMark(log, c)
           x == Operations(log)
           y == Operations(l)
           s == SeqNo(log, c)
           N == Len(x)
\* What a mark leaves alone.
           Like(q, r) == /\ IsTimestamp(q) <=> IsTimestamp(r)
                         /\ Allocates(q) <=> Allocates(r)
                         /\ Releases(q) <=> Releases(r)
                         /\ ~IsTimestamp(q) => r.mThreadID = q.mThreadID
                         /\ Allocates(q) => AllocatedSize(r) = AllocatedSize(q)
                         /\ Releases(q) =>
                              /\ r.mMatchedMalloc = q.mMatchedMalloc
                              /\ ReleasedSize(r) = ReleasedSize(q)
                              /\ r.mAllocatedByOtherThread = q.mAllocatedByOtherThread
<1>0. log \in Seq(RecordsOf(Nat, Int))
  BY DEF Records
<1>1. /\ l \in Seq(RecordsOf(Nat, Int))
      /\ Len(l) = Len(log)
      /\ l[c] = Marked(log[c]) /\ \A k \in 1 .. Len(log) : k # c => l[k] = log[k]
      /\ \A k \in 1 .. Len(log) : SeqNo(l, k) = SeqNo(log, k)
      /\ Len(y) = N
      /\ \A n \in 1 .. N : y[n] = IF n = s THEN Marked(x[n]) ELSE x[n]
  BY <1>0, MarkedLog
<1>2. x \in Seq(Records) /\ N \in Nat /\ \A n \in 1 .. N : ~IsTimestamp(x[n])
  BY OperationsAreOperations, OperationsUpToTypes DEF Records, Operations
<1>3. s \in 1 .. N /\ x[s] = log[c] /\ ~IsTimestamp(log[c])
  <2>1. ~IsTimestamp(log[c])
    BY DEF Allocates, IsTimestamp
  <2> QED
    BY <2>1, OperationOfRecord DEF Records
<1> HIDE DEF l, x, y, s, N
<1>4. ASSUME NEW q \in Records PROVE /\ Like(q, q)
                                     /\ Allocates(q) => Like(q, Marked(q)) /\ SameBlocks(q, Marked(q))
                                     /\ Allocates(q) => Marked(q).mFreeByOtherThread = TRUE
  BY MarkedOperation DEF SameBlocks
<1>5. \A k \in 1 .. Len(log) : Like(log[k], l[k])
  <2>1. \A k \in 1 .. Len(log) : log[k] \in Records
    OBVIOUS
  <2> HIDE DEF Like
  <2> QED
    BY <1>1, <1>4, <2>1
<1>6. \A n \in 1 .. N : /\ Like(x[n], y[n])
                        /\ n # s => y[n] = x[n]
                        /\ x[n] \in Records
      /\ y[s].mFreeByOtherThread = TRUE /\ Allocates(x[s])
  <2>1. \A n \in 1 .. N : x[n] \in Records
    BY <1>2 DEF N
  <2> HIDE DEF Like
  <2> QED
    BY <1>1, <1>3, <1>4, <2>1
<1>7. \A n \in 1 .. N : SameBlocks(x[n], y[n])
  BY <1>6 DEF SameBlocks
<1>8. \A n \in 0 .. N : Outstanding(log)[n] = Outstanding(l)[n] /\ Outstanding(log)[n] \subseteq 1 .. n
  <2>1. \A n \in 0 .. N : Outstanding(log)[n] = Outstanding(l)[n]
    <3>1. /\ N \in Nat /\ N <= Len(Operations(log)) /\ N <= Len(Operations(l))
          /\ \A k \in 1 .. N : SameBlocks(Operations(log)[k], Operations(l)[k])
      <4>1. N = Len(Operations(log)) /\ N = Len(Operations(l))
        BY <1>1 DEF x, y, N
      <4> QED
        BY <1>2, <1>7, <4>1 DEF x, y
    <3> HIDE DEF Like
    <3> QED
      BY <1>0, <1>1, <3>1, OutstandingAgrees
  <2>2. \A n \in 0 .. N : Outstanding(log)[n] \subseteq 1 .. n
    BY OutstandingMade DEF Records, N, x
  <2> QED
    BY <2>1, <2>2
<1>9. MadeBefore(x) => MadeBefore(y)
  BY <1>1, <1>6 DEF MadeBefore, N
<1>10. CrossSeparated(log) => CrossSeparated(l)
  <2>1. \A i \in 1 .. Len(log) : Like(log[i], l[i]) /\ SeqNo(l, i) = SeqNo(log, i)
    BY <1>1, <1>5
  <2> SUFFICES ASSUME CrossSeparated(log),
                      NEW i \in 1 .. Len(log), NEW j \in 1 .. Len(log),
                      ~IsTimestamp(l[i]), ~IsTimestamp(l[j]),
                      Releases(l[j]), l[j].mMatchedMalloc = SeqNo(l, i),
                      l[i].mThreadID # l[j].mThreadID
               PROVE  \E k \in i + 1 .. j - 1 : IsTimestamp(l[k])
    BY <1>1 DEF CrossSeparated
  <2>2. PICK k \in i + 1 .. j - 1 : IsTimestamp(log[k])
    BY <2>1 DEF CrossSeparated
  <2> QED
    BY <2>1, <2>2
<1>11. ReleasesRight(log) => ReleasesRight(l)
  <2> SUFFICES ASSUME ReleasesRight(log), NEW n \in 1 .. N, Releases(y[n])
               PROVE  LET m == y[n].mMatchedMalloc IN
                      /\ m \in Outstanding(l)[n - 1]
                      /\ ReleasedSize(y[n]) = AllocatedSize(y[m])
                      /\ y[n].mAllocatedByOtherThread = (y[n].mThreadID # y[m].mThreadID)
    BY <1>1 DEF ReleasesRight, y, N
  <2> DEFINE m == x[n].mMatchedMalloc
  <2>1. Like(x[n], y[n]) /\ Releases(x[n]) /\ y[n].mMatchedMalloc = m
    BY <1>6
  <2>2. /\ m \in Outstanding(log)[n - 1]
        /\ ReleasedSize(x[n]) = AllocatedSize(x[m])
        /\ x[n].mAllocatedByOtherThread = (x[n].mThreadID # x[m].mThreadID)
    BY <2>1 DEF ReleasesRight, x, N
  <2>3. n - 1 \in 0 .. N /\ n \in 1 .. N
    BY <1>2
  <2>4. m \in Outstanding(l)[n - 1] /\ m \in 1 .. N
    BY <1>2, <1>8, <2>2, <2>3
  <2>5. Like(x[m], y[m]) /\ ~IsTimestamp(x[m]) /\ ~IsTimestamp(x[n])
    BY <1>2, <1>6, <2>4
  <2>6. AllocatedSize(y[m]) = AllocatedSize(x[m])
    <3>1. CASE m = s
      BY <1>6, <2>5, <3>1
    <3>2. CASE m # s
      BY <1>6, <2>4, <3>2
    <3> QED
      BY <3>1, <3>2
  <2>7. ReleasedSize(y[n]) = AllocatedSize(y[m])
    BY <2>1, <2>2, <2>6
  <2>8. y[n].mAllocatedByOtherThread = (y[n].mThreadID # y[m].mThreadID)
    <3>1. y[n].mAllocatedByOtherThread = x[n].mAllocatedByOtherThread
          /\ y[n].mThreadID = x[n].mThreadID /\ y[m].mThreadID = x[m].mThreadID
      BY <2>1, <2>5
    <3> HIDE DEF m
    <3> QED
      BY <2>2, <3>1, Zenon
  <2> QED
    BY <2>1, <2>4, <2>7, <2>8
<1>12. ASSUME NEW marks, ToBeMarked(log, marks), s \in marks
       PROVE  ToBeMarked(l, marks \ {s})
  <2>1. /\ \A m \in marks : m \in 1 .. N /\ Allocates(x[m])
        /\ \A m \in 1 .. N : Allocates(x[m]) =>
             (x[m].mFreeByOtherThread \/ m \in marks <=> ReleasedByOther(x, m))
    BY <1>12 DEF ToBeMarked, x, N
  <2>2. \A m \in 1 .. N : ReleasedByOther(y, m) <=> ReleasedByOther(x, m)
    <3>1. ASSUME NEW m \in 1 .. N PROVE ReleasedByOther(y, m) <=> ReleasedByOther(x, m)
      <4>1. \A n \in 1 .. N :
              (Releases(y[n]) /\ y[n].mMatchedMalloc = m /\ y[n].mThreadID # y[m].mThreadID)
                <=> (Releases(x[n]) /\ x[n].mMatchedMalloc = m /\ x[n].mThreadID # x[m].mThreadID)
        BY <1>2, <1>6
      <4>2. Len(y) = N /\ Len(x) = N
        BY <1>1 DEF N
      <4> HIDE DEF Like
      <4> QED
        BY <4>1, <4>2 DEF ReleasedByOther
    <3> QED
      BY <3>1
  <2>3. \A m \in marks \ {s} : m \in 1 .. N /\ Allocates(y[m])
    BY <1>6, <2>1
  <2>4. ASSUME NEW m \in 1 .. N, Allocates(y[m])
        PROVE  y[m].mFreeByOtherThread \/ m \in marks \ {s} <=> ReleasedByOther(y, m)
    <3>1. Allocates(x[m])
      BY <1>6, <2>4
    <3>2. x[m].mFreeByOtherThread \/ m \in marks <=> ReleasedByOther(y, m)
      BY <2>1, <2>2, <3>1
    <3>3. CASE m = s
      BY <1>6, <1>12, <3>2, <3>3
    <3>4. CASE m # s
      BY <1>6, <3>2, <3>4
    <3> QED
      BY <3>3, <3>4
  <2> QED
    BY <1>1, <2>3, <2>4 DEF ToBeMarked, y, N
<1>13. \A marks : ToBeMarked(log, marks) /\ s \in marks => ToBeMarked(l, marks \ {s})
  BY <1>12
<1>14. \A k \in 1 .. Len(log) : IsTimestamp(l[k]) <=> IsTimestamp(log[k])
  BY <1>5
<1>15. \A n \in 1 .. N : Releases(x[n]) => Releases(y[n]) /\ y[n].mMatchedMalloc = x[n].mMatchedMalloc
  BY <1>6
<1> QED
  <2>1. l \in Seq(Records)
    BY <1>1 DEF Records
  <2> QED
    BY <1>1, <1>9, <1>10, <1>11, <1>13, <1>14, <1>15, <2>1 DEF x, y, s, l, N

\* A step that leaves the log alone and reads no more of the files.
LEMMA ReadingStays ==
  ASSUME ReadingInv, UNCHANGED <<logFiles, next>>, phase' = "merge" => phase = "merge"
  PROVE  ReadingInv'
BY DEF ReadingInv

\* The second pass marks an allocation wherever the cursor is found, or changes nothing.
LEMMA MarkChanges ==
  ASSUME out \in Seq(Records), MarkRecord
  PROVE  out' = out \/ \E c \in 1 .. Len(out) : Allocates(out[c]) /\ out' = WithMark(out, c)
<1> DEFINE c == CursorAt(CHOOSE s \in freedByOther : \A u \in freedByOther : s <= u)
<1>1. out' = IF Allocates(out[c]) THEN [out EXCEPT ![c].mFreeByOtherThread = TRUE] ELSE out
  BY DEF MarkRecord
<1>2. out' = IF Allocates(out[c]) THEN WithMark(out, c) ELSE out
  BY <1>1, Zenon DEF WithMark
<1> HIDE DEF c
<1>3. c \notin DOMAIN out => WithMark(out, c) = out
  <2> SUFFICES ASSUME c \notin DOMAIN out PROVE WithMark(out, c) = out
    OBVIOUS
  <2> DEFINE v == [out[c] EXCEPT !.mFreeByOtherThread = TRUE]
  <2>1. WithMark(out, c) = [out EXCEPT ![c] = v]
    BY Zenon DEF WithMark
  <2> HIDE DEF v
  <2> QED
    BY <2>1
<1>4. DOMAIN out = 1 .. Len(out)
  OBVIOUS
<1> QED
  BY <1>2, <1>3, <1>4

LEMMA MarkKeepsWritten ==
  ASSUME ReadingInv, WrittenInv, MarkRecord
  PROVE  ReadingInv' /\ WrittenInv'
<1>1. phase = "mark" /\ phase' = "mark" /\ UNCHANGED <<logFiles, next, totalRecords>>
  BY DEF MarkRecord
<1>2. ReadingInv'
  BY <1>1, ReadingStays
<1>3. out \in Seq(Records) /\ totalRecords = Len(Operations(out)) + 1
      /\ MadeBefore(Operations(out)) /\ CrossSeparated(out)
  BY DEF WrittenInv
<1>4. ASSUME NEW c \in 1 .. Len(out), Allocates(out[c]), out' = WithMark(out, c)
      PROVE  WrittenInv'
  <2>1. /\ out' \in Seq(Records) /\ Len(Operations(out')) = Len(Operations(out))
        /\ MadeBefore(Operations(out')) /\ CrossSeparated(out')
    BY <1>3, <1>4, MarkWritten
  <2> QED
    BY <1>1, <1>3, <2>1 DEF WrittenInv
<1>5. CASE out' = out
  <2>1. WrittenInv'
    BY <1>1, <1>3, <1>5 DEF WrittenInv
  <2> QED
    BY <1>2, <2>1
<1> QED
  BY <1>2, <1>3, <1>4, <1>5, MarkChanges

\* From the right cursor it finds the allocation with the least number and marks that.
LEMMA MarkKeepsPaired ==
  ASSUME WrittenInv, PairedInv, CursorInv, MarkRecord
  PROVE  PairedInv' /\ CursorInv'
<1> DEFINE s == CHOOSE m \in freedByOther : \A u \in freedByOther : m <= u
           c == CursorAt(s)
           N == Len(Operations(out))
<1>1. /\ phase = "mark" /\ phase' = "mark" /\ freedByOther # {}
      /\ out' = IF Allocates(out[c]) THEN [out EXCEPT ![c].mFreeByOtherThread = TRUE] ELSE out
      /\ cursor' = c /\ currentSeqNo' = s /\ freedByOther' = freedByOther \ {s}
  BY DEF MarkRecord
<1>2. out' = IF Allocates(out[c]) THEN WithMark(out, c) ELSE out
  BY <1>1, Zenon DEF WithMark
<1>3. out \in Seq(Records) /\ ReleasesRight(out) /\ ToBeMarked(out, freedByOther)
  BY DEF WrittenInv, PairedInv
<1>4. \A m \in freedByOther : m \in 1 .. N /\ Allocates(Operations(out)[m])
  BY <1>3 DEF ToBeMarked
<1>5. s \in freedByOther /\ \A u \in freedByOther : s <= u
  <2>1. freedByOther \in SUBSET Nat
    BY <1>4
  <2>2. \E m \in freedByOther : \A u \in freedByOther : m <= u
    BY <1>1, <2>1, LeastNumber
  <2> QED
    BY <2>2
<1> HIDE DEF s
<1>6. c \in 1 .. Len(out) /\ ~IsTimestamp(out[c]) /\ SeqNo(out, c) = s
  <2>1. /\ cursor \in 1 .. Len(out) /\ ~IsTimestamp(out[cursor]) /\ SeqNo(out, cursor) = currentSeqNo
        /\ currentSeqNo <= s /\ s \in 1 .. N
    BY <1>1, <1>4, <1>5 DEF CursorInv
  <2> QED
    BY <1>3, <2>1, CursorFinds
<1> HIDE DEF c
<1>7. Allocates(out[c])
  <2>1. Operations(out)[s] = out[c]
    BY <1>3, <1>6, OperationOfRecord DEF Records
  <2> QED
    BY <1>4, <1>5, <2>1
<1>8. /\ out' \in Seq(Records) /\ Len(out') = Len(out)
      /\ \A k \in 1 .. Len(out) : SeqNo(out', k) = SeqNo(out, k)
      /\ \A k \in 1 .. Len(out) : IsTimestamp(out'[k]) <=> IsTimestamp(out[k])
      /\ ReleasesRight(out')
      /\ ToBeMarked(out', freedByOther \ {s})
  <2>1. out' = WithMark(out, c)
    BY <1>2, <1>7
  <2> QED
    BY <1>3, <1>5, <1>6, <1>7, <2>1, MarkWritten
<1>9. PairedInv'
  BY <1>1, <1>8 DEF PairedInv
<1>10. CursorInv'
  <2>1. /\ cursor' \in 1 .. Len(out') /\ ~IsTimestamp(out'[c]) /\ SeqNo(out', c) = s
    BY <1>1, <1>6, <1>8
  <2>2. \A m \in freedByOther' : s <= m
    BY <1>1, <1>5
  <2> QED
    BY <1>1, <2>1, <2>2 DEF CursorInv
<1> QED
  BY <1>9, <1>10

\* The consolidator takes the files of the threads that have one, each whole records from
\* its start on.
LEMMA ConsolidateKept ==
  ASSUME FilesInv, IsFiniteSet(Threads), ReadingInv, WrittenInv, Consolidate
  PROVE  ReadingInv' /\ WrittenInv'
<1> DEFINE n == Cardinality(LoggedThreads)
<1>1. PICK l \in Listings : LoadLogFiles([i \in DOMAIN l |-> files[l[i]]])
  BY DEF Consolidate
<1> DEFINE loaded == [i \in DOMAIN l |-> files[l[i]]]
<1>2. l \in [1 .. n -> LoggedThreads]
  BY DEF Listings
<1>3. n \in Nat /\ n <= Cardinality(Threads) /\ Cardinality(Threads) \in Nat
  <2>1. LoggedThreads \subseteq Threads
    BY DEF LoggedThreads
  <2> QED
    BY <2>1, FS_Subset, FS_CardinalityType
<1>4. /\ phase = "wait"
      /\ phase' = IF \A i \in DOMAIN loaded : Opens(loaded[i]) THEN "merge" ELSE "refused"
      /\ logFiles' = loaded
      /\ next' = [i \in DOMAIN loaded |-> 1]
      /\ UNCHANGED <<out, totalRecords, prevSeqNo, blocks>>
  BY <1>1 DEF LoadLogFiles
<1>5. ASSUME NEW i \in 1 .. n
      PROVE  Readable(files[l[i]])
  <2>1. l[i] \in Threads /\ files[l[i]] # Null
    BY <1>2 DEF LoggedThreads
  <2> QED
    BY <2>1 DEF FilesInv
<1>6. /\ DOMAIN logFiles' = 1 .. n /\ DOMAIN next' = 1 .. n
      /\ \A i \in 1 .. n : logFiles'[i] = files[l[i]] /\ next'[i] = 1
  BY <1>2, <1>4
<1>7. \A i \in DOMAIN logFiles' : i \in 1 .. Cardinality(Threads) /\ Readable(logFiles'[i])
  BY <1>3, <1>5, <1>6
<1>8. ASSUME phase' = "merge", NEW i \in 1 .. n
      PROVE  next'[i] \in DOMAIN logFiles'[i] /\ logFiles'[i][next'[i]] \in LogRecords
  <2> DEFINE f == logFiles'[i]
  <2>1. f # <<>>
    BY <1>2, <1>4, <1>6, <1>8 DEF Opens
  <2>2. Readable(f)
    BY <1>6, <1>7
  <2> HIDE DEF f
  <2>3. f \in Seq(LogRecords \cup {Truncated}) /\ f[1] \in LogRecords /\ 1 \in DOMAIN f
    BY <2>1, <2>2 DEF Readable
  <2> QED
    BY <1>6, <2>3 DEF f
<1>9. ReadingInv'
  BY <1>6, <1>7, <1>8 DEF ReadingInv
<1>10. WrittenInv'
  BY <1>4 DEF WrittenInv
<1> QED
  BY <1>9, <1>10

\* The log is separated at all times: of each allocation that is known, the consolidator
\* knows whether a time stamp was written since.
SeparatedInv == FilesInv /\ ReadingInv /\ WrittenInv

\* The log is right, but for the marks that the second pass has yet to set.
MatchedInv ==
  /\ SeparatedInv
  /\ PairedInv
  /\ CursorInv
  /\ phase = "done" => freedByOther = {}

\* Nothing is written, known or to be marked at first.
LEMMA MatchedInvInit == Init => MatchedInv
<1> SUFFICES ASSUME Init PROVE MatchedInv
  OBVIOUS
<1>1. /\ phase = "wait" /\ logFiles = <<>> /\ next = <<>> /\ out = <<>> /\ totalRecords = 1
      /\ prevSeqNo = 0 /\ blocks = <<>> /\ freedByOther = {}
  BY DEF Init, ConsolidatorInit
<1>2. out \in Seq(Records) /\ Len(out) = 0
  BY <1>1
<1>3. Operations(out) = <<>>
  <2>1. out \in Seq(RecordsOf(Nat, Int))
    BY <1>2 DEF Records
  <2>2. OperationsUpTo(out)[0] = <<>>
    BY <2>1, OperationsUpToValues
  <2> QED
    BY <1>2, <2>2 DEF Operations
<1>4. Len(Operations(out)) = 0
  BY <1>3
<1>5. DOMAIN blocks = {} /\ DOMAIN logFiles = {} /\ DOMAIN next = {}
  BY <1>1
<1>6. ReadingInv
  BY <1>1, <1>5 DEF ReadingInv
<1>7. WrittenInv
  <2>1. KnownIn(out, blocks)
    BY <1>5 DEF KnownIn, Lists, Once
  <2>2. StampedAt(out, prevSeqNo)
    BY <1>1 DEF StampedAt
  <2>3. MadeBefore(Operations(out))
    BY <1>4 DEF MadeBefore
  <2>4. CrossSeparated(out)
    BY <1>2 DEF CrossSeparated
  <2> QED
    BY <1>1, <1>2, <1>4, <2>1, <2>2, <2>3, <2>4 DEF WrittenInv
<1>8. PairedInv
  BY <1>1, <1>4 DEF PairedInv, ReleasesRight, ToBeMarked
<1>9. CursorInv
  BY <1>1 DEF CursorInv
<1> QED
  BY <1>1, <1>6, <1>7, <1>8, <1>9, FilesInvInit DEF MatchedInv, SeparatedInv

\* The steps of the logger leave the consolidator alone, and its own keep the log separated ...
LEMMA SeparatedInvKept ==
  ASSUME IsFiniteSet(Threads), SeparatedInv, [Next]_vars
  PROVE  SeparatedInv'
<1>0. FilesInv /\ ReadingInv /\ WrittenInv
  BY DEF SeparatedInv
<1>1. FilesInv'
  BY <1>0, FilesInvKept
<1>2. CASE UNCHANGED consVars
  <2>1. UNCHANGED <<phase, logFiles, next, out, totalRecords, prevSeqNo, blocks>>
    BY <1>2 DEF consVars
  <2> QED
    BY <1>0, <1>1, <2>1 DEF SeparatedInv, ReadingInv, WrittenInv
<1>3. CASE Consolidate
  BY <1>0, <1>1, <1>3, ConsolidateKept DEF SeparatedInv
<1>4. ASSUME NEW i \in DOMAIN logFiles, MergeRecord(i) PROVE SeparatedInv'
  BY <1>0, <1>1, <1>4, ReadingKept, MergeKept DEF SeparatedInv
<1>5. CASE MarkRecord
  BY <1>0, <1>1, <1>5, MarkKeepsWritten DEF SeparatedInv
<1>6. CASE Finish \/ WriteFailed
  <2>1. /\ UNCHANGED <<logFiles, next, out, totalRecords, prevSeqNo, blocks>>
        /\ phase' \in {"done", "failed"}
    BY <1>6 DEF Finish, WriteFailed
  <2> QED
    BY <1>0, <1>1, <2>1 DEF SeparatedInv, ReadingInv, WrittenInv
<1> QED
  BY <1>2, <1>3, <1>4, <1>5, <1>6 DEF Next, vars, ConsolidatorNext, ConsolidatorStep

\* ... and right.
LEMMA MatchedInvKept ==
  ASSUME FewThreads, MatchedInv, [Next]_vars
  PROVE  MatchedInv'
<1>0. FilesInv /\ ReadingInv /\ WrittenInv /\ PairedInv /\ CursorInv
      /\ (phase = "done" => freedByOther = {})
  BY DEF MatchedInv, SeparatedInv
<1>1. SeparatedInv'
  BY SeparatedInvKept DEF MatchedInv, FewThreads
<1>2. CASE UNCHANGED consVars
  <2>1. UNCHANGED <<phase, out, freedByOther, cursor, currentSeqNo>>
    BY <1>2 DEF consVars
  <2> QED
    BY <1>0, <1>1, <2>1 DEF MatchedInv, PairedInv, CursorInv
<1>3. CASE Consolidate
  <2>1. UNCHANGED <<out, freedByOther>> /\ phase' \in {"merge", "refused"}
    BY <1>3 DEF Consolidate, LoadLogFiles
  <2> QED
    BY <1>0, <1>1, <2>1 DEF MatchedInv, PairedInv, CursorInv
<1>4. ASSUME NEW i \in DOMAIN logFiles, MergeRecord(i) PROVE MatchedInv'
  <2>1. PairedInv' /\ CursorInv'
    BY <1>0, <1>4, MergeKept, MergeCursor
  <2>2. phase' # "done"
    BY <1>4 DEF MergeRecord
  <2> QED
    BY <1>1, <2>1, <2>2 DEF MatchedInv
<1>5. CASE MarkRecord
  <2>1. PairedInv' /\ CursorInv'
    BY <1>0, <1>5, MarkKeepsPaired
  <2>2. phase' # "done"
    BY <1>5 DEF MarkRecord
  <2> QED
    BY <1>1, <2>1, <2>2 DEF MatchedInv
<1>6. CASE Finish \/ WriteFailed
  <2>1. /\ UNCHANGED <<out, freedByOther>>
        /\ phase' \in {"done", "failed"}
        /\ phase' = "done" => freedByOther = {}
    BY <1>6 DEF Finish, WriteFailed
  <2> QED
    BY <1>0, <1>1, <2>1 DEF MatchedInv, PairedInv, CursorInv
<1> QED
  BY <1>2, <1>3, <1>4, <1>5, <1>6 DEF Next, vars, ConsolidatorNext, ConsolidatorStep

\* When nothing is left to be marked, the log is one the replay tool can rely on.
LEMMA MatchedInvImplies == MatchedInv => OutputMatched
<1> SUFFICES ASSUME MatchedInv, phase = "done"
             PROVE  Matched(out) /\ totalRecords - 1 = Len(Operations(out))
  BY DEF OutputMatched
<1> DEFINE x == Operations(out)
<1>1. /\ out \in Seq(Records) /\ totalRecords = Len(x) + 1
      /\ ReleasesRight(out) /\ ToBeMarked(out, {})
  BY DEF MatchedInv, SeparatedInv, WrittenInv, PairedInv
<1>2. Len(x) \in Nat /\ \A m \in 1 .. Len(x) : x[m] \in Records
  BY <1>1, OperationsUpToTypes, OperationsAreOperations DEF Operations, Records
<1>3. \A m \in 1 .. Len(x) : Allocates(x[m]) => x[m].mFreeByOtherThread \in BOOLEAN
  BY <1>2, RecordFields DEF Records
<1>4. \A m \in 1 .. Len(x) : Allocates(x[m]) =>
        (x[m].mFreeByOtherThread <=> ReleasedByOther(x, m))
  BY <1>1, <1>3 DEF ToBeMarked
<1>5. Matched(out)
  BY <1>1, <1>4 DEF Matched, ReleasesRight, ReleasedByOther
<1> QED
  BY <1>1, <1>2, <1>5

\* Between an allocation and its release by another thread there is a time stamp, whatever
\* the files hold and in whatever order they are read.
THEOREM OutputIsSeparated ==
  ASSUME IsFiniteSet(Threads)
  PROVE  Spec => []OutputSeparated
<1>1. Init => SeparatedInv
  BY MatchedInvInit DEF MatchedInv
<1>2. SeparatedInv /\ [Next]_vars => SeparatedInv'
  BY SeparatedInvKept
<1>3. SeparatedInv => OutputSeparated
  BY DEF SeparatedInv, WrittenInv, OutputSeparated
<1> QED
  BY <1>1, <1>2, <1>3, PTL DEF Spec

\* The log the consolidator writes names, for each release, an allocation that is
\* outstanding, with its size and its thread, and marks the allocations another thread
\* releases.
THEOREM OutputIsMatched ==
  ASSUME FewThreads
  PROVE  Spec => []OutputMatched
<1>1. Init => MatchedInv
  BY MatchedInvInit
<1>2. MatchedInv /\ [Next]_vars => MatchedInv'
  BY MatchedInvKept
<1>3. MatchedInv => OutputMatched
  BY MatchedInvImplies
<1> QED
  BY <1>1, <1>2, <1>3, PTL DEF Spec

-------------------------------------------------------------------------------
(* The history of the heap *)

\* Operation n of history h touches address a; it is a realloc without memory, which leaves
\* the block as it was.
On(h, n, a) == h[n].block = a \/ h[n].old = a
FailedRealloc(h, n) == h[n].mType = "realloc" /\ h[n].block = Null /\ h[n].mSize # 0

\* Operation p made a block at a, and none up to n has taken it away.
MadeLast(h, p, a, n) ==
  /\ p \in 1 .. n /\ h[p].block = a
  /\ \A m \in p + 1 .. n : On(h, m, a) => FailedRealloc(h, m)

\* An operation after p, up to n, has released a block at a.
Vacated(h, p, a, n) == \E q \in p + 1 .. n : h[q].old = a /\ ~FailedRealloc(h, q)

\* A release names the operation that made the block, and a block is made where none is.
TruthOf(h, n) ==
  /\ h[n].n = n
  /\ h[n].mType = "malloc" => h[n].old = Null
  /\ h[n].mType = "free" => h[n].block = Null
  /\ h[n].old \in Addrs => MadeLast(h, h[n].released, h[n].old, n - 1)
  /\ h[n].block \in Addrs =>
       \A p \in 1 .. n - 1 : h[p].block = h[n].block => Vacated(h, p, h[n].block, n)
HistoryTrue(h) == \A n \in 1 .. Len(h) : TruthOf(h, n)
HeapTrue(h, known) ==
  \A a \in Addrs :
    IF known[a] # 0 THEN MadeLast(h, known[a], a, Len(h))
    ELSE \A p \in 1 .. Len(h) : h[p].block = a => Vacated(h, p, a, Len(h))
HistoryInv ==
  /\ history \in Seq(HeapOps)
  /\ HistoryTrue(history)
  /\ process = "running" => HeapTrue(history, heap)

\* What the default routine may do.
FitsHeap(o) ==
  /\ o.n = Here
  /\ o.mType = "malloc" => o.old = Null
  /\ o.mType = "free" => o.block = Null
  /\ o.old \in Addrs => heap[o.old] # 0 /\ o.released = heap[o.old]
  /\ o.block \in Addrs => heap[o.block] = 0 \/ o.block = o.old
  /\ heap' = [a \in Addrs |->
                IF a = o.block THEN Here
                ELSE IF a = o.old /\ ~Failed(o) THEN 0
                ELSE heap[a]]

\* malloc, free and realloc do.
LEMMA DefaultFitsHeap ==
  ASSUME LogTypes, NEW t \in Threads, Allocate(t) \/ Deallocate(t) \/ Reallocate(t)
  PROVE  \E o \in HeapOps : Done(t, o) /\ FitsHeap(o)
<1>1. /\ heap \in [Addrs -> Nat] /\ Here \in Nat /\ Here # 0 /\ Null \notin Addrs
      /\ heap = [a \in Addrs |-> heap[a]]
  BY LoggerAssumption DEF LogTypes, Here
<1>2. DOMAIN RecordUnits = {"malloc", "free", "realloc"} /\ 0 \in Nat
  BY KindsOfRecords
<1>3. /\ \A a \in FreeAddrs : a \in Addrs /\ heap[a] = 0
      /\ \A a \in UsedAddrs : a \in Addrs /\ heap[a] \in Nat /\ heap[a] # 0
  BY <1>1 DEF FreeAddrs, UsedAddrs
<1>4. CASE Allocate(t)
  <2>1. ASSUME NEW a \in FreeAddrs, heap' = [heap EXCEPT ![a] = Here],
               Done(t, Op("malloc", Here, Here, a, Null, 0))
        PROVE  \E o \in HeapOps : Done(t, o) /\ FitsHeap(o)
    <3> DEFINE o == Op("malloc", Here, Here, a, Null, 0)
    <3>1. /\ o \in HeapOps /\ o.n = Here /\ o.mType = "malloc"
          /\ o.block = a /\ o.old = Null /\ a \in Addrs /\ heap[a] = 0
      BY <1>1, <1>2, <1>3 DEF Op, HeapOps
    <3> HIDE DEF o
    <3>2. FitsHeap(o)
      BY <1>1, <2>1, <3>1 DEF FitsHeap
    <3> QED
      BY <2>1, <3>1, <3>2 DEF o
  <2>2. ASSUME heap' = heap, Done(t, Op("malloc", Here, Here, Null, Null, 0))
        PROVE  \E o \in HeapOps : Done(t, o) /\ FitsHeap(o)
    <3> DEFINE o == Op("malloc", Here, Here, Null, Null, 0)
    <3>1. /\ o \in HeapOps /\ o.n = Here /\ o.mType = "malloc"
          /\ o.block = Null /\ o.old = Null
      BY <1>1, <1>2 DEF Op, HeapOps
    <3> HIDE DEF o
    <3>2. FitsHeap(o)
      BY <1>1, <2>2, <3>1 DEF FitsHeap
    <3> QED
      BY <2>2, <3>1, <3>2 DEF o
  <2> QED
    BY <1>4, <2>1, <2>2 DEF Allocate
<1>5. CASE Deallocate(t)
  <2>1. ASSUME NEW a \in UsedAddrs, heap' = [heap EXCEPT ![a] = 0],
               Done(t, Op("free", Here, 0, Null, a, heap[a]))
        PROVE  \E o \in HeapOps : Done(t, o) /\ FitsHeap(o)
    <3> DEFINE o == Op("free", Here, 0, Null, a, heap[a])
    <3>1. /\ o \in HeapOps /\ o.n = Here /\ o.mType = "free" /\ o.released = heap[a]
          /\ o.block = Null /\ o.old = a /\ a \in Addrs /\ heap[a] # 0
      BY <1>1, <1>2, <1>3 DEF Op, HeapOps
    <3> HIDE DEF o
    <3>2. FitsHeap(o)
      BY <1>1, <2>1, <3>1 DEF FitsHeap, Failed
    <3> QED
      BY <2>1, <3>1, <3>2 DEF o
  <2>2. ASSUME heap' = heap, Done(t, Op("free", Here, 0, Null, Null, 0))
        PROVE  \E o \in HeapOps : Done(t, o) /\ FitsHeap(o)
    <3> DEFINE o == Op("free", Here, 0, Null, Null, 0)
    <3>1. /\ o \in HeapOps /\ o.n = Here /\ o.mType = "free"
          /\ o.block = Null /\ o.old = Null
      BY <1>1, <1>2 DEF Op, HeapOps
    <3> HIDE DEF o
    <3>2. FitsHeap(o)
      BY <1>1, <2>2, <3>1 DEF FitsHeap
    <3> QED
      BY <2>2, <3>1, <3>2 DEF o
  <2> QED
    BY <1>5, <2>1, <2>2 DEF Deallocate
<1>6. CASE Reallocate(t)
  <2>1. PICK a \in UsedAddrs \cup {Null} : Reallocated(t, a)
    BY <1>6, ReallocCases
  <2>2. /\ Released(a) \in Nat /\ HeapWithout(a) \in [Addrs -> Nat] /\ a \in Addrs \cup {Null}
        /\ \A c \in Addrs : HeapWithout(a)[c] = IF c = a THEN 0 ELSE heap[c]
        /\ a \in Addrs => heap[a] # 0 /\ Released(a) = heap[a]
    BY <1>1, <1>3 DEF Released, HeapWithout
  <2>3. ASSUME NEW b \in Addrs, HeapWithout(a)[b] = 0,
               heap' = [HeapWithout(a) EXCEPT ![b] = Here],
               Done(t, Op("realloc", Here, Here, b, a, Released(a)))
        PROVE  \E o \in HeapOps : Done(t, o) /\ FitsHeap(o)
    <3> DEFINE o == Op("realloc", Here, Here, b, a, Released(a))
    <3>1. /\ o \in HeapOps /\ o.n = Here /\ o.mType = "realloc" /\ o.released = Released(a)
          /\ o.block = b /\ o.old = a
      BY <1>1, <1>2, <2>2, <2>3 DEF Op, HeapOps
    <3> HIDE DEF o
    <3>2. heap' = [c \in Addrs |-> IF c = b THEN Here ELSE IF c = a THEN 0 ELSE heap[c]]
      BY <1>1, <2>2, <2>3
    <3>3. FitsHeap(o)
      BY <1>1, <2>2, <2>3, <3>1, <3>2 DEF FitsHeap, Failed
    <3> QED
      BY <2>3, <3>1, <3>3 DEF o
  <2>4. ASSUME heap' = heap, Done(t, Op("realloc", Here, Here, Null, a, Released(a)))
        PROVE  \E o \in HeapOps : Done(t, o) /\ FitsHeap(o)
    <3> DEFINE o == Op("realloc", Here, Here, Null, a, Released(a))
    <3>1. /\ o \in HeapOps /\ o.n = Here /\ o.mType = "realloc" /\ o.released = Released(a)
          /\ o.block = Null /\ o.old = a /\ o.mSize = Here
      BY <1>1, <1>2, <2>2 DEF Op, HeapOps
    <3> HIDE DEF o
    <3>2. FitsHeap(o)
      BY <1>1, <2>2, <2>4, <3>1 DEF FitsHeap, Failed
    <3> QED
      BY <2>4, <3>1, <3>2 DEF o
  <2>5. ASSUME heap' = HeapWithout(a), Done(t, Op("realloc", Here, 0, Null, a, Released(a)))
        PROVE  \E o \in HeapOps : Done(t, o) /\ FitsHeap(o)
    <3> DEFINE o == Op("realloc", Here, 0, Null, a, Released(a))
    <3>1. /\ o \in HeapOps /\ o.n = Here /\ o.mType = "realloc" /\ o.released = Released(a)
          /\ o.block = Null /\ o.old = a /\ o.mSize = 0
      BY <1>1, <1>2, <2>2 DEF Op, HeapOps
    <3> HIDE DEF o
    <3>2. heap' = [c \in Addrs |-> IF c = a THEN 0 ELSE heap[c]]
      BY <2>5 DEF HeapWithout
    <3>3. FitsHeap(o)
      BY <1>1, <2>2, <3>1, <3>2 DEF FitsHeap, Failed
    <3> QED
      BY <2>5, <3>1, <3>3 DEF o
  <2> QED
    BY <2>1, <2>3, <2>4, <2>5 DEF Reallocated
<1> QED
  BY <1>4, <1>5, <1>6

\* What has happened is not changed by what happens next.
LEMMA PastStays ==
  ASSUME NEW h \in Seq(HeapOps), NEW o \in HeapOps
  PROVE  LET g == Append(h, o)
             N == Len(h)
         IN  /\ N \in Nat /\ Len(g) = N + 1 /\ g \in Seq(HeapOps)
             /\ \A n \in 1 .. N : g[n] = h[n]
             /\ g[N + 1] = o
             /\ \A a : \A n \in 0 .. N : \A p :
                  /\ MadeLast(h, p, a, n) => MadeLast(g, p, a, n)
                  /\ p \in Nat /\ Vacated(h, p, a, n) => Vacated(g, p, a, n)
<1> DEFINE g == Append(h, o)
           N == Len(h)
<1>1. /\ N \in Nat /\ Len(g) = N + 1 /\ g \in Seq(HeapOps)
      /\ \A n \in 1 .. N : g[n] = h[n]
      /\ g[N + 1] = o
  OBVIOUS
<1> HIDE DEF g, N
<1>2. ASSUME NEW n \in 1 .. N
      PROVE  (FailedRealloc(g, n) <=> FailedRealloc(h, n)) /\ \A a : On(g, n, a) <=> On(h, n, a)
  BY <1>1 DEF FailedRealloc, On
<1>3. ASSUME NEW a, NEW n \in 0 .. N, NEW p, MadeLast(h, p, a, n)
      PROVE  MadeLast(g, p, a, n)
  <2>1. /\ p \in 1 .. n /\ h[p].block = a
        /\ \A m \in p + 1 .. n : On(h, m, a) => FailedRealloc(h, m)
    BY <1>3 DEF MadeLast
  <2>2. p \in 1 .. N /\ \A m \in p + 1 .. n : m \in 1 .. N
    BY <1>1, <2>1
  <2>3. g[p].block = a
    BY <1>1, <2>1, <2>2
  <2>4. \A m \in p + 1 .. n : On(g, m, a) => FailedRealloc(g, m)
    BY <1>2, <2>1, <2>2
  <2> QED
    BY <2>1, <2>3, <2>4 DEF MadeLast
<1>4. ASSUME NEW a, NEW n \in 0 .. N, NEW p \in Nat, Vacated(h, p, a, n)
      PROVE  Vacated(g, p, a, n)
  <2>1. PICK q \in p + 1 .. n : h[q].old = a /\ ~FailedRealloc(h, q)
    BY <1>4 DEF Vacated
  <2>2. q \in 1 .. N
    BY <1>1
  <2> QED
    BY <1>1, <1>2, <2>1, <2>2 DEF Vacated
<1> QED
  BY <1>1, <1>3, <1>4 DEF g, N

\* The next operation is told as truly as those before.
LEMMA HistoryGrows ==
  ASSUME history \in Seq(HeapOps), heap \in [Addrs -> Nat],
         HistoryTrue(history), HeapTrue(history, heap),
         NEW o \in HeapOps, FitsHeap(o)
  PROVE  HistoryTrue(Append(history, o)) /\ HeapTrue(Append(history, o), heap')
<1> DEFINE h == history
           g == Append(history, o)
           N == Len(history)
<1>1. /\ N \in Nat /\ Len(g) = N + 1
      /\ \A n \in 1 .. N : g[n] = h[n]
      /\ g[N + 1] = o
      /\ \A a : \A n \in 0 .. N : \A p :
           /\ MadeLast(h, p, a, n) => MadeLast(g, p, a, n)
           /\ p \in Nat /\ Vacated(h, p, a, n) => Vacated(g, p, a, n)
  BY PastStays
<1>2. /\ Null \notin Addrs /\ o.n = N + 1 /\ Here = N + 1
      /\ o.mType = "malloc" => o.old = Null
      /\ o.mType = "free" => o.block = Null
      /\ o.old \in Addrs => heap[o.old] # 0 /\ o.released = heap[o.old]
      /\ o.block \in Addrs => heap[o.block] = 0 \/ o.block = o.old
  BY LoggerAssumption DEF FitsHeap, Here
<1> DEFINE failed == Failed(o)
<1>3. \A a \in Addrs :
        /\ heap[a] \in Nat
        /\ heap'[a] = IF a = o.block THEN N + 1 ELSE IF a = o.old /\ ~failed THEN 0 ELSE heap[a]
  BY <1>2 DEF FitsHeap
<1>4. /\ FailedRealloc(g, N + 1) <=> failed
      /\ \A a : On(g, N + 1, a) <=> (o.block = a \/ o.old = a)
  BY <1>1 DEF FailedRealloc, Failed, On
<1> HIDE DEF N, g, failed
\* What becomes of the statements about all operations.
<1>5. ASSUME NEW a, NEW p, MadeLast(h, p, a, N), On(g, N + 1, a) => FailedRealloc(g, N + 1)
      PROVE  MadeLast(g, p, a, N + 1)
  <2>1. MadeLast(g, p, a, N)
    BY <1>1, <1>5
  <2>2. /\ p \in 1 .. N /\ g[p].block = a
        /\ \A m \in p + 1 .. N : On(g, m, a) => FailedRealloc(g, m)
    BY <2>1 DEF MadeLast
  <2>3. \A m \in p + 1 .. N + 1 : m \in p + 1 .. N \/ m = N + 1
    BY <1>1, <2>2
  <2>4. \A m \in p + 1 .. N + 1 : On(g, m, a) => FailedRealloc(g, m)
    BY <1>5, <2>2, <2>3
  <2>5. p \in 1 .. N + 1
    BY <1>1, <2>2
  <2> QED
    BY <2>2, <2>4, <2>5 DEF MadeLast
<1>6. ASSUME NEW a, NEW p \in 1 .. N, Vacated(h, p, a, N)
      PROVE  Vacated(g, p, a, N + 1)
  <2>1. Vacated(g, p, a, N)
    BY <1>1, <1>6
  <2>2. PICK q \in p + 1 .. N : g[q].old = a /\ ~FailedRealloc(g, q)
    BY <2>1 DEF Vacated
  <2>3. q \in p + 1 .. N + 1
    BY <1>1, <2>2
  <2> QED
    BY <2>2, <2>3 DEF Vacated
<1>7. ASSUME NEW p \in 1 .. N, ~failed
      PROVE  Vacated(g, p, o.old, N + 1)
  <2>1. N + 1 \in p + 1 .. N + 1
    BY <1>1
  <2> QED
    BY <1>1, <1>4, <1>7, <2>1 DEF Vacated
<1>8. ASSUME NEW n \in 1 .. N PROVE TruthOf(g, n)
  <2>1. TruthOf(h, n) /\ g[n] = h[n]
    BY <1>1 DEF HistoryTrue, N
  <2>2. n - 1 \in 0 .. N /\ n \in 0 .. N
    BY <1>1
  <2>3. h[n].old \in Addrs => MadeLast(g, h[n].released, h[n].old, n - 1)
    BY <1>1, <2>1, <2>2 DEF TruthOf
  <2>4. ASSUME h[n].block \in Addrs, NEW p \in 1 .. n - 1, g[p].block = h[n].block
        PROVE  Vacated(g, p, h[n].block, n)
    <3>1. p \in 1 .. N /\ p \in Nat
      BY <1>1
    <3>2. Vacated(h, p, h[n].block, n)
      BY <1>1, <2>1, <2>4, <3>1 DEF TruthOf
    <3> QED
      BY <1>1, <2>2, <3>1, <3>2
  <2> QED
    BY <2>1, <2>3, <2>4 DEF TruthOf
<1>9. TruthOf(g, N + 1)
  <2>1. ASSUME o.old \in Addrs PROVE MadeLast(g, o.released, o.old, N)
    <3>1. MadeLast(h, o.released, o.old, N)
      BY <1>2, <2>1 DEF HeapTrue, N
    <3> QED
      BY <1>1, <3>1
  <2>2. ASSUME o.block \in Addrs, NEW p \in 1 .. N, g[p].block = o.block
        PROVE  Vacated(g, p, o.block, N + 1)
    <3>1. CASE heap[o.block] = 0
      <4>1. Vacated(h, p, o.block, N)
        BY <1>1, <2>2, <3>1 DEF HeapTrue, N
      <4> QED
        BY <1>6, <4>1
    <3>2. CASE o.block = o.old
      <4>1. ~failed
        BY <1>2, <2>2 DEF failed, Failed
      <4> QED
        BY <1>7, <3>2, <4>1
    <3> QED
      BY <1>2, <2>2, <3>1, <3>2
  <2>3. N + 1 - 1 = N
    BY <1>1
  <2> QED
    BY <1>1, <1>2, <2>1, <2>2, <2>3 DEF TruthOf
<1>10. HistoryTrue(g)
  <2>1. \A n \in 1 .. N + 1 : n \in 1 .. N \/ n = N + 1
    BY <1>1
  <2> QED
    BY <1>1, <1>8, <1>9, <2>1 DEF HistoryTrue
<1>11. ASSUME NEW a \in Addrs
       PROVE  IF heap'[a] # 0 THEN MadeLast(g, heap'[a], a, N + 1)
              ELSE \A p \in 1 .. N + 1 : g[p].block = a => Vacated(g, p, a, N + 1)
  <2>0. \A p \in 1 .. N + 1 : g[p].block = a => p \in 1 .. N \/ a = o.block
    BY <1>1
  <2>1. CASE a = o.block
    <3>1. heap'[a] = N + 1 /\ N + 1 # 0 /\ N + 1 \in 1 .. N + 1 /\ (N + 1) + 1 .. N + 1 = {}
      BY <1>1, <1>3, <2>1
    <3> QED
      BY <1>1, <2>1, <3>1 DEF MadeLast
  <2>2. CASE a # o.block /\ a = o.old /\ ~failed
    BY <1>3, <1>7, <2>0, <2>2
  <2>3. CASE a # o.block /\ (a = o.old => failed)
    <3>1. heap'[a] = heap[a] /\ (On(g, N + 1, a) => FailedRealloc(g, N + 1))
      BY <1>3, <1>4, <2>3
    <3>2. CASE heap[a] # 0
      <4>1. MadeLast(h, heap[a], a, N)
        BY <3>2 DEF HeapTrue, N
      <4> QED
        BY <1>5, <3>1, <3>2, <4>1
    <3>3. CASE heap[a] = 0
      <4>1. \A p \in 1 .. N : h[p].block = a => Vacated(h, p, a, N)
        BY <3>3 DEF HeapTrue, N
      <4> QED
        BY <1>1, <1>6, <2>0, <2>3, <3>1, <3>3, <4>1
    <3> QED
      BY <3>2, <3>3
  <2> QED
    BY <2>1, <2>2, <2>3
<1> QED
  BY <1>1, <1>10, <1>11 DEF HeapTrue, g

\* Record r tells of an operation of history h what it was; so does every record of a file.
Genuine(h, r) ==
  /\ r.n \in 1 .. Len(h)
  /\ r.mType = h[r.n].mType /\ r.mSize = h[r.n].mSize
  /\ r.block = h[r.n].block /\ r.old = h[r.n].old
AllGenuine(h, f) == \A i \in DOMAIN f : f[i] \in LogRecords => Genuine(h, f[i])

\* The records in the files, in the buffers and under way are genuine, whatever has failed.
RecordsGenuine ==
  /\ \A t \in Threads : files[t] # Null => AllGenuine(history, files[t])
  /\ process = "running" =>
       \A t \in Threads : /\ tls[t] # Null => AllGenuine(history, tls[t].mBuffer)
                          /\ pc[t] = "log" => Genuine(history, made[t])
TruthInv == HistoryInv /\ RecordsGenuine

\* Records stay genuine when there are more operations ...
LEMMA GenuineGrows ==
  ASSUME NEW h \in Seq(HeapOps), NEW o \in HeapOps
  PROVE  /\ \A r : Genuine(h, r) => Genuine(Append(h, o), r)
         /\ \A f : AllGenuine(h, f) => AllGenuine(Append(h, o), f)
<1>1. /\ Len(h) \in Nat /\ Len(Append(h, o)) = Len(h) + 1
      /\ \A n \in 1 .. Len(h) : Append(h, o)[n] = h[n]
  OBVIOUS
<1>2. \A r : Genuine(h, r) => Genuine(Append(h, o), r)
  BY <1>1 DEF Genuine
<1> QED
  BY <1>2 DEF AllGenuine

\* ... and when they are moved, joined or cut.
LEMMA GenuineJoined ==
  ASSUME NEW h
  PROVE  /\ AllGenuine(h, <<>>)
         /\ \A r : Genuine(h, r) => AllGenuine(h, <<r>>)
         /\ \A f, g \in Seq(LogRecords) :
              AllGenuine(h, f) /\ AllGenuine(h, g) => AllGenuine(h, f \o g)
         /\ \A f \in Seq(LogRecords), r \in LogRecords :
              AllGenuine(h, f) /\ Genuine(h, r) => AllGenuine(h, Append(f, r))
         /\ \A f \in Seq(LogRecords) : \A g \in Cuts(f) : AllGenuine(h, f) => AllGenuine(h, g)
<1>1. AllGenuine(h, <<>>)
  BY DEF AllGenuine
<1>2. ASSUME NEW r, Genuine(h, r) PROVE AllGenuine(h, <<r>>)
  BY <1>2 DEF AllGenuine
<1>3. ASSUME NEW f \in Seq(LogRecords), NEW g \in Seq(LogRecords),
             AllGenuine(h, f), AllGenuine(h, g)
      PROVE  AllGenuine(h, f \o g)
  <2> SUFFICES ASSUME NEW i \in DOMAIN (f \o g), (f \o g)[i] \in LogRecords
               PROVE  Genuine(h, (f \o g)[i])
    BY DEF AllGenuine
  <2>1. \/ i \in DOMAIN f /\ (f \o g)[i] = f[i]
        \/ i - Len(f) \in DOMAIN g /\ (f \o g)[i] = g[i - Len(f)]
    BY ConcatProperties
  <2> QED
    BY <1>3, <2>1 DEF AllGenuine
<1>4. ASSUME NEW f \in Seq(LogRecords), NEW r \in LogRecords, AllGenuine(h, f), Genuine(h, r)
      PROVE  AllGenuine(h, Append(f, r))
  <2>1. /\ DOMAIN Append(f, r) = 1 .. Len(f) + 1 /\ Len(f) \in Nat /\ DOMAIN f = 1 .. Len(f)
        /\ Append(f, r)[Len(f) + 1] = r /\ \A i \in 1 .. Len(f) : Append(f, r)[i] = f[i]
    OBVIOUS
  <2>2. \A i \in 1 .. Len(f) + 1 : i \in 1 .. Len(f) \/ i = Len(f) + 1
    BY <2>1
  <2> QED
    BY <1>4, <2>1, <2>2 DEF AllGenuine
<1>5. ASSUME NEW f \in Seq(LogRecords), NEW g \in Cuts(f), AllGenuine(h, f)
      PROVE  AllGenuine(h, g)
  <2>1. ASSUME NEW k \in 0 .. Len(f) PROVE AllGenuine(h, SubSeq(f, 1, k))
    <3>1. /\ DOMAIN SubSeq(f, 1, k) = 1 .. k
          /\ \A i \in 1 .. k : SubSeq(f, 1, k)[i] = f[i] /\ i \in DOMAIN f
      BY SubSeqProperties
    <3> QED
      BY <1>5, <3>1 DEF AllGenuine
  <2>2. ASSUME NEW k \in 1 .. Len(f) - 1, g = Append(SubSeq(f, 1, k), Truncated)
        PROVE  AllGenuine(h, g)
    <3> DEFINE s == SubSeq(f, 1, k)
    <3>1. AllGenuine(h, s) /\ s \in Seq(LogRecords)
      BY <2>1, SubSeqProperties
    <3> HIDE DEF s
    <3>2. /\ DOMAIN g = 1 .. Len(s) + 1 /\ Len(s) \in Nat /\ DOMAIN s = 1 .. Len(s)
          /\ g[Len(s) + 1] = Truncated /\ \A i \in 1 .. Len(s) : g[i] = s[i]
      BY <2>2, <3>1 DEF s
    <3>3. \A i \in 1 .. Len(s) + 1 : i \in 1 .. Len(s) \/ i = Len(s) + 1
      BY <3>2
    <3>4. Truncated \notin LogRecords
      BY KindsOfRecords DEF Truncated, LogRecords
    <3> QED
      BY <3>1, <3>2, <3>3, <3>4 DEF AllGenuine
  <2> QED
    BY <2>1, <2>2 DEF Cuts
<1> QED
  BY <1>1, <1>2, <1>3, <1>4, <1>5

\* A thread's file and buffer change.
LEMMA WritingGenuine ==
  ASSUME Typed, RecordsGenuine, process = "running", history' = history, NEW t \in Threads,
         \/ files' = files
         \/ \E f : AllGenuine(history, f) /\ files' = [files EXCEPT ![t] = f],
         \/ tls' = tls
         \/ tls' = [tls EXCEPT ![t] = Null]
         \/ \E open, b : /\ AllGenuine(history, b)
                         /\ tls' = [tls EXCEPT ![t] = FileControl(open, b)],
         \A u \in Threads : pc'[u] = "log" => pc[u] = "log" /\ made'[u] = made[u]
  PROVE  RecordsGenuine'
<1>1. /\ \A u \in Threads : files[u] # Null => AllGenuine(history, files[u])
      /\ \A u \in Threads : /\ tls[u] # Null => AllGenuine(history, tls[u].mBuffer)
                            /\ pc[u] = "log" => Genuine(history, made[u])
      /\ DOMAIN files = Threads /\ DOMAIN tls = Threads
  BY DEF RecordsGenuine, Typed, LogTypes
<1>2. ASSUME NEW u \in Threads, files'[u] # Null PROVE AllGenuine(history, files'[u])
  BY <1>1, <1>2
<1>3. ASSUME NEW u \in Threads, tls'[u] # Null PROVE AllGenuine(history, tls'[u].mBuffer)
  <2>1. CASE tls'[u] = tls[u]
    BY <1>1, <1>3, <2>1
  <2>2. CASE tls'[u] # tls[u]
    <3>1. PICK open, b : AllGenuine(history, b) /\ tls'[u] = FileControl(open, b)
      BY <1>1, <1>3, <2>2
    <3> QED
      BY <3>1 DEF FileControl
  <2> QED
    BY <2>1, <2>2
<1> QED
  BY <1>1, <1>2, <1>3 DEF RecordsGenuine

\* What a thread has in its file, in its buffer and under way is genuine.
LEMMA ThreadGenuine ==
  ASSUME Typed, RecordsGenuine, process = "running", NEW t \in Threads
  PROVE  /\ FileOf(t) \in Seq(LogRecords) /\ AllGenuine(history, FileOf(t))
         /\ tls[t] # Null => /\ tls[t].mBuffer \in Seq(LogRecords)
                             /\ AllGenuine(history, tls[t].mBuffer)
                             /\ AllGenuine(history, FileOf(t) \o tls[t].mBuffer)
         /\ pc[t] = "log" => /\ tls[t] # Null
                             /\ Stamped(made[t]) \in LogRecords
                             /\ Genuine(history, Stamped(made[t]))
                             /\ AllGenuine(history, Append(tls[t].mBuffer, Stamped(made[t])))
<1>1. /\ FileOf(t) \in Seq(LogRecords)
      /\ tls[t] # Null => tls[t].mBuffer \in Seq(LogRecords)
      /\ Stamped(made[t]) \in LogRecords
      /\ pc[t] = "log" => tls[t] # Null
  BY ListTypes, StampedRecord DEF Typed
<1>2. AllGenuine(history, FileOf(t))
  BY GenuineJoined DEF FileOf, RecordsGenuine
<1>3. tls[t] # Null => AllGenuine(history, tls[t].mBuffer)
  BY DEF RecordsGenuine
<1>4. pc[t] = "log" => Genuine(history, Stamped(made[t]))
  BY DEF RecordsGenuine, Genuine, Stamped
<1> QED
  BY <1>1, <1>2, <1>3, <1>4, GenuineJoined

\* Buffers are written out or dropped.
LEMMA FlushGenuine ==
  ASSUME Typed, RecordsGenuine, process = "running", NEW t \in Threads, tls[t] # Null, Flush(t),
         tls' = [tls EXCEPT ![t] = Null], history' = history, made' = made,
         \A u \in Threads : pc'[u] = "log" => pc[u] = "log"
  PROVE  RecordsGenuine'
<1> DEFINE f == FileOf(t) \o tls[t].mBuffer
<1>1. files' = [files EXCEPT ![t] = f] \/ files' = files
  BY DEF Flush
<1>2. AllGenuine(history, f)
  BY ThreadGenuine
<1> HIDE DEF f
<1> QED
  BY <1>1, <1>2, WritingGenuine

\* The default routine adds a true operation to the history, which is to be logged.
LEMMA OperationGenuine ==
  ASSUME Typed, TruthInv, process = "running", NEW t \in Threads,
         Allocate(t) \/ Deallocate(t) \/ Reallocate(t)
  PROVE  TruthInv'
<1>1. PICK o \in HeapOps : Done(t, o) /\ FitsHeap(o)
  BY DefaultFitsHeap DEF Typed
<1>2. /\ history' = Append(history, o)
      /\ UNCHANGED <<tls, files, process>>
      /\ \/ tls[t] = Null /\ pc' = [pc EXCEPT ![t] = "app"] /\ made' = made
         \/ tls[t] # Null /\ pc' = [pc EXCEPT ![t] = "log"] /\ made' = [made EXCEPT ![t] = o]
  BY <1>1 DEF Done, Goto
<1>3. /\ history \in Seq(HeapOps) /\ HistoryTrue(history) /\ HeapTrue(history, heap)
      /\ heap \in [Addrs -> Nat]
  BY DEF TruthInv, HistoryInv, Typed, LogTypes
<1>4. HistoryInv'
  <2>1. HistoryTrue(history') /\ HeapTrue(history', heap')
    BY <1>1, <1>2, <1>3, HistoryGrows
  <2>2. history' \in Seq(HeapOps)
    BY <1>2, <1>3
  <2> QED
    BY <2>1, <2>2 DEF HistoryInv, HistoryTrue, TruthOf, HeapTrue
<1>5. Genuine(history', o)
  <2>1. /\ Len(history) \in Nat /\ Len(history') = Len(history) + 1
        /\ history'[Len(history) + 1] = o /\ o.n = Len(history) + 1
    BY <1>1, <1>2, <1>3 DEF FitsHeap, Here
  <2> QED
    BY <2>1 DEF Genuine
<1>6. /\ \A r : Genuine(history, r) => Genuine(history', r)
      /\ \A f : AllGenuine(history, f) => AllGenuine(history', f)
  BY <1>2, <1>3, GenuineGrows
<1>7. /\ \A u \in Threads : files[u] # Null => AllGenuine(history, files[u])
      /\ \A u \in Threads : /\ tls[u] # Null => AllGenuine(history, tls[u].mBuffer)
                            /\ pc[u] = "log" => Genuine(history, made[u])
      /\ DOMAIN pc = Threads /\ DOMAIN made = Threads
  BY DEF TruthInv, RecordsGenuine, Typed, LogTypes
<1>8. \A u \in Threads : pc'[u] = "log" => Genuine(history', made'[u])
  BY <1>2, <1>5, <1>6, <1>7
<1>9. RecordsGenuine'
  BY <1>2, <1>6, <1>7, <1>8 DEF RecordsGenuine
<1> QED
  BY <1>4, <1>9 DEF TruthInv

\* The record goes into the buffer, or the buffer into the file.
LEMMA LoggingGenuine ==
  ASSUME Typed, RecordsGenuine, process = "running", NEW t \in Threads,
         LogRecord(t) \/ LogFullBuffer(t)
  PROVE  RecordsGenuine'
<1> DEFINE r == Stamped(made[t])
           b == tls[t].mBuffer
           f == FileOf(t) \o b
           more == Append(b, r)
<1>1. /\ pc[t] = "log" /\ history' = history
      /\ pc' = [pc EXCEPT ![t] = "app"] /\ made' = [made EXCEPT ![t] = NoOp]
  BY DEF LogRecord, LogFullBuffer, Logged, Goto
<1>2. /\ AllGenuine(history, FileOf(t)) /\ AllGenuine(history, b) /\ AllGenuine(history, f)
      /\ AllGenuine(history, more) /\ AllGenuine(history, <<r>>)
  BY <1>1, ThreadGenuine, GenuineJoined
<1>3. \A u \in Threads : pc'[u] = "log" => pc[u] = "log" /\ made'[u] = made[u]
  BY <1>1 DEF Typed, LogTypes
<1>4. /\ files' = files \/ files' = [files EXCEPT ![t] = f] \/ files' = [files EXCEPT ![t] = FileOf(t)]
      /\ \/ tls' = tls
         \/ tls' = [tls EXCEPT ![t] = FileControl(TRUE, more)]
         \/ tls' = [tls EXCEPT ![t] = FileControl(FALSE, more)]
         \/ tls' = [tls EXCEPT ![t] = FileControl(TRUE, <<r>>)]
         \/ tls' = [tls EXCEPT ![t] = FileControl(TRUE, b)]
  BY DEF LogRecord, LogFullBuffer
<1> HIDE DEF r, b, f, more
<1> DEFINE file(g) == AllGenuine(history, g) /\ files' = [files EXCEPT ![t] = g]
           buffer(open, l) == AllGenuine(history, l) /\ tls' = [tls EXCEPT ![t] = FileControl(open, l)]
<1>5. files' = files \/ \E g : file(g)
  BY <1>2, <1>4
<1>6. tls' = tls \/ \E open, l : buffer(open, l)
  BY <1>2, <1>4
<1> QED
  BY <1>1, <1>3, <1>5, <1>6, WritingGenuine

LEMMA TruthInit == Init => TruthInv
<1> SUFFICES ASSUME Init PROVE TruthInv
  OBVIOUS
<1>1. /\ history = <<>> /\ heap = [a \in Addrs |-> 0] /\ files = [t \in Threads |-> Null]
      /\ tls = [t \in Threads |-> Null] /\ pc = [t \in Threads |-> "app"]
  BY DEF Init, LoggerInit
<1>2. history \in Seq(HeapOps) /\ Len(history) = 0
  BY <1>1
<1> QED
  BY <1>1, <1>2 DEF TruthInv, HistoryInv, HistoryTrue, HeapTrue, RecordsGenuine

\* Every step leaves the history true and the records genuine.
LEMMA TruthKept ==
  ASSUME FilesInv, TruthInv, [Next]_vars
  PROVE  TruthInv'
<1>1. CASE UNCHANGED loggerVars
  BY <1>1 DEF loggerVars, TruthInv, HistoryInv, RecordsGenuine
<1>2. CASE LoggerNext
  <2>1. process = "running"
    BY <1>2 DEF LoggerNext, LoggerStep, Tick, Enter, Allocate, Deallocate, Reallocate, CallsDefault,
                LogRecord, LogFullBuffer, BufferDestroy, ThreadExit, FiniMallocLogger,
                SetProcessExitting, EndProcess, Kill
  <2>2. Typed /\ HistoryInv /\ RecordsGenuine
    BY <2>1 DEF FilesInv, TruthInv
  <2>3. ASSUME history' = history, heap' = heap PROVE HistoryInv'
    BY <2>1, <2>2, <2>3 DEF HistoryInv
  <2>4. ASSUME history' = history, process' # "running" PROVE HistoryInv'
    BY <2>2, <2>4 DEF HistoryInv
  <2>5. ASSUME history' = history, UNCHANGED <<heap, tls, files, made>>,
               \A u \in Threads : pc'[u] = "log" => pc[u] = "log"
        PROVE  TruthInv'
    BY <2>1, <2>2, <2>3, <2>5 DEF TruthInv, RecordsGenuine
  <2>6. CASE Tick
    BY <2>5, <2>6 DEF Tick
  <2>7. ASSUME NEW t \in Threads, LoggerStep(t) PROVE TruthInv'
    <3>1. CASE Enter(t)
      <4>1. /\ pc' = [pc EXCEPT ![t] = "default"]
            /\ tls' = tls \/ tls' = [tls EXCEPT ![t] = FileControl(FALSE, <<>>)]
            /\ UNCHANGED <<heap, history, files, made>>
        BY <3>1 DEF Enter, Goto
      <4>2. AllGenuine(history, <<>>)
        BY GenuineJoined
      <4>3. \A u \in Threads : pc'[u] = "log" => pc[u] = "log" /\ made'[u] = made[u]
        BY <2>2, <4>1 DEF Typed, LogTypes
      <4>4. \/ tls' = tls
            \/ \E open, b : AllGenuine(history, b) /\ tls' = [tls EXCEPT ![t] = FileControl(open, b)]
        BY <4>1, <4>2
      <4>5. RecordsGenuine'
        BY <2>1, <2>2, <4>1, <4>3, <4>4, WritingGenuine
      <4> QED
        BY <2>3, <4>1, <4>5 DEF TruthInv
    <3>2. CASE Allocate(t) \/ Deallocate(t) \/ Reallocate(t)
      BY <2>1, <2>2, <3>2, OperationGenuine
    <3>3. CASE LogRecord(t) \/ LogFullBuffer(t)
      <4>1. history' = history /\ heap' = heap
        BY <3>3 DEF LogRecord, LogFullBuffer, Logged
      <4> QED
        BY <2>1, <2>2, <2>3, <3>3, <4>1, LoggingGenuine DEF TruthInv
    <3>4. CASE BufferDestroy(t)
      <4>1. /\ Flush(t) /\ tls[t] # Null /\ tls' = [tls EXCEPT ![t] = Null]
            /\ UNCHANGED <<heap, history, pc, made>>
        BY <3>4 DEF BufferDestroy
      <4> QED
        BY <2>1, <2>2, <2>3, <4>1, FlushGenuine DEF TruthInv
    <3>5. CASE ThreadExit(t)
      BY <2>2, <2>5, <3>5 DEF ThreadExit, Goto, Typed, LogTypes
    <3> QED
      BY <2>7, <3>1, <3>2, <3>3, <3>4, <3>5 DEF LoggerStep
  <2>8. CASE FiniMallocLogger
    <3>1. /\ pc' = [pc EXCEPT ![Main] = "fini"] /\ Main \in Threads
          /\ UNCHANGED <<heap, history, made>>
      BY <2>8, LoggerAssumption DEF FiniMallocLogger, Goto
    <3>2. \A u \in Threads : pc'[u] = "log" => pc[u] = "log"
      BY <2>2, <3>1 DEF Typed, LogTypes
    <3>3. CASE tls[Main] = Null
      BY <2>5, <2>8, <3>1, <3>2, <3>3 DEF FiniMallocLogger
    <3>4. CASE tls[Main] # Null
      <4>1. Flush(Main) /\ tls' = [tls EXCEPT ![Main] = Null]
        BY <2>8, <3>4 DEF FiniMallocLogger
      <4> QED
        BY <2>1, <2>2, <2>3, <3>1, <3>2, <3>4, <4>1, FlushGenuine DEF TruthInv
    <3> QED
      BY <3>3, <3>4
  <2>9. CASE SetProcessExitting
    BY <2>2, <2>5, <2>9 DEF SetProcessExitting, Goto, Typed, LogTypes
  <2>10. CASE EndProcess
    <3>1. process' = "ended" /\ files' = files /\ history' = history
      BY <2>10 DEF EndProcess, Vanish
    <3> QED
      BY <2>2, <2>4, <3>1 DEF TruthInv, RecordsGenuine
  <2>11. CASE Kill
    <3>1. process' = "killed" /\ history' = history
      BY <2>11 DEF Kill, Vanish
    <3>2. ASSUME NEW t \in Threads, files'[t] # Null PROVE AllGenuine(history, files'[t])
      <4>1. files'[t] \in IF tls[t] = Null THEN {files[t]}
                          ELSE IF files[t] = Null THEN {Null} ELSE Cuts(files[t])
        BY <2>11 DEF Kill
      <4>2. files[t] # Null => files[t] \in Seq(LogRecords) /\ AllGenuine(history, files[t])
        BY <2>2 DEF Typed, LogTypes, RecordsGenuine
      <4> QED
        BY <3>2, <4>1, <4>2, GenuineJoined
    <3> QED
      BY <2>4, <3>1, <3>2 DEF TruthInv, RecordsGenuine
  <2> QED
    BY <1>2, <2>6, <2>7, <2>8, <2>9, <2>10, <2>11 DEF LoggerNext
<1> QED
  BY <1>1, <1>2 DEF Next, vars, Consolidate

-------------------------------------------------------------------------------
(* The blocks the consolidator knows at an address *)

\* Among the first k of the records m, those of address a; and do they show the operations
\* on a, up to the last of them, as they happened?
Shown(h, m, a, k) == {j \in 1 .. k : On(h, m[j].n, a)}
Legible(h, m, a, k) ==
  /\ \A i, j \in Shown(h, m, a, k) : i < j => m[i].n < m[j].n
  /\ \A j \in Shown(h, m, a, k) : \A n \in 1 .. m[j].n :
       On(h, n, a) => \E i \in Shown(h, m, a, k) : m[i].n = n
  /\ \A j \in Shown(h, m, a, k) : ~FailedRealloc(h, m[j].n)

\* They do, and the k-th record is that of the next operation on a.
NextAt(h, m, a, k) ==
  /\ Legible(h, m, a, k - 1)
  /\ \A j \in Shown(h, m, a, k - 1) : m[j].n < m[k].n
  /\ \A n \in 1 .. m[k].n - 1 :
       On(h, n, a) => \E i \in Shown(h, m, a, k - 1) : m[i].n = n

\* The blocks known at a are then the one that the last operation on a made, if it made one.
ListAt(known, a) == IF a \in DOMAIN known THEN known[a] ELSE <<>>
IsLast(h, m, a, j) == j \in Shown(h, m, a, Len(m)) /\ \A i \in Shown(h, m, a, Len(m)) : i <= j
Follows(h, m, known) ==
  \A a \in Addrs : Legible(h, m, a, Len(m)) =>
    /\ (\A j \in 1 .. Len(m) : IsLast(h, m, a, j) => m[j].block # a) => ListAt(known, a) = <<>>
    /\ \A j \in 1 .. Len(m) : IsLast(h, m, a, j) /\ m[j].block = a =>
         Len(ListAt(known, a)) = 1 /\ ListAt(known, a)[1].mSeqNo = j

Merged(h, m) == m \in Seq(LogRecords) /\ AllGenuine(h, m)

\* What a record says is what happened.
LEMMA RecordSays ==
  ASSUME NEW m, Merged(history, m), HistoryTrue(history), NEW j \in 1 .. Len(m)
  PROVE  /\ m[j] \in LogRecords /\ m[j].n \in Nat /\ m[j].n \in 1 .. Len(history)
         /\ \A a : On(history, m[j].n, a) <=> m[j].block = a \/ m[j].old = a
         /\ FailedRealloc(history, m[j].n) <=> Failed(m[j])
         /\ history[m[j].n].block = m[j].block /\ history[m[j].n].old = m[j].old
         /\ TruthOf(history, m[j].n)
<1>1. m[j] \in LogRecords /\ Genuine(history, m[j])
  BY DEF Merged, AllGenuine
<1>2. m[j].n \in Nat
  BY <1>1 DEF LogRecords
<1> QED
  BY <1>1, <1>2 DEF Genuine, On, FailedRealloc, Failed, HistoryTrue

\* A release comes behind the record of the operation that made the block, which is the last
\* one on the address.
LEMMA ReleaseFinds ==
  ASSUME NEW m, Merged(history, m), HistoryTrue(history), NEW a \in Addrs, NEW k \in 1 .. Len(m),
         NextAt(history, m, a, k), m[k].old = a
  PROVE  \E j \in Shown(history, m, a, k - 1) : /\ m[j].block = a
                                       /\ m[j].n = history[m[k].n].released
                                       /\ \A i \in Shown(history, m, a, k - 1) : i <= j
<1> DEFINE n == m[k].n
           p == history[n].released
           S == Shown(history, m, a, k - 1)
<1>0. Len(m) \in Nat /\ k - 1 \in Nat
  BY DEF Merged
<1>1. S \subseteq 1 .. Len(m) /\ \A j \in S : On(history, m[j].n, a)
  BY <1>0 DEF Shown
<1>2. n \in Nat /\ history[n].old = a /\ TruthOf(history, n)
  BY RecordSays
<1>3. MadeLast(history, p, a, n - 1)
  BY <1>2 DEF TruthOf
<1>4. /\ p \in 1 .. n - 1 /\ history[p].block = a
      /\ \A q \in p + 1 .. n - 1 : On(history, q, a) => FailedRealloc(history, q)
  BY <1>3 DEF MadeLast
<1>5. /\ \A i, j \in S : i < j => m[i].n < m[j].n
      /\ \A j \in S : ~FailedRealloc(history, m[j].n)
      /\ \A j \in S : m[j].n < n
      /\ \A q \in 1 .. n - 1 : On(history, q, a) => \E i \in S : m[i].n = q
  BY DEF NextAt, Legible
<1> HIDE DEF n, p, S
<1>6. PICK j \in S : m[j].n = p
  <2>1. On(history, p, a)
    BY <1>4 DEF On
  <2> QED
    BY <1>4, <1>5, <2>1
<1>7. m[j].block = a
  BY <1>1, <1>4, <1>6, RecordSays
<1>8. ASSUME NEW i \in S PROVE i <= j
  <2>1. i \in Int /\ j \in Int
    BY <1>1
  <2>2. CASE j < i
    <3>1. m[i].n \in p + 1 .. n - 1
      <4>1. m[i].n \in Nat /\ p \in Nat
        BY <1>1, <1>4, RecordSays
      <4>2. p < m[i].n /\ m[i].n < n
        BY <1>5, <1>6, <2>2
      <4> QED
        BY <1>2, <4>1, <4>2
    <3> QED
      BY <1>1, <1>4, <1>5, <3>1
  <2> QED
    BY <2>1, <2>2
<1> QED
  BY <1>6, <1>7, <1>8 DEF S, p, n

\* An operation that only makes a block comes behind the release of every block before.
LEMMA MakeFindsNone ==
  ASSUME NEW m, Merged(history, m), HistoryTrue(history), NEW a \in Addrs, NEW k \in 1 .. Len(m),
         NextAt(history, m, a, k), m[k].block = a, m[k].old # a,
         NEW j \in Shown(history, m, a, k - 1), m[j].block = a
  PROVE  \E i \in Shown(history, m, a, k - 1) : j < i
<1> DEFINE n == m[k].n
           p == m[j].n
           S == Shown(history, m, a, k - 1)
<1>0. Len(m) \in Nat /\ k - 1 \in Nat
  BY DEF Merged
<1>1. S \subseteq 1 .. Len(m) /\ j \in 1 .. Len(m)
  BY <1>0 DEF Shown
<1>2. /\ n \in Nat /\ history[n].old # a /\ history[n].block = a /\ TruthOf(history, n)
      /\ p \in Nat /\ p \in 1 .. Len(history) /\ history[p].block = a
  BY <1>1, RecordSays
<1>3. /\ \A i, l \in S : i < l => m[i].n < m[l].n
      /\ \A l \in S : m[l].n < n
      /\ \A q \in 1 .. n - 1 : On(history, q, a) => \E i \in S : m[i].n = q
      /\ j \in S
  BY DEF NextAt, Legible
<1> HIDE DEF n, S
<1>4. Vacated(history, p, a, n)
  <2>1. p \in 1 .. n - 1
    BY <1>2, <1>3
  <2> QED
    BY <1>2, <2>1 DEF TruthOf
<1> HIDE DEF p
<1>5. PICK q \in p + 1 .. n : history[q].old = a /\ ~FailedRealloc(history, q)
  BY <1>4 DEF Vacated
<1>6. q \in 1 .. n - 1 /\ On(history, q, a)
  BY <1>2, <1>5 DEF On
<1>7. PICK i \in S : m[i].n = q
  BY <1>3, <1>6
<1>8. i \in Int /\ j \in Int /\ p < q /\ p = m[j].n
  BY <1>1, <1>2, <1>5 DEF p
<1>9. j < i
  <2>1. ~(i < j)
    BY <1>3, <1>5, <1>2, <1>7, <1>8
  <2>2. i # j
    BY <1>2, <1>5, <1>7, <1>8
  <2> QED
    BY <1>8, <2>1, <2>2
<1> QED
  BY <1>7, <1>9 DEF S

\* Where a record is shown that keeps the operations legible, it is that of the next one.
LEMMA LegibleNext ==
  ASSUME NEW m, Merged(history, m), HistoryTrue(history), NEW a, NEW k \in 1 .. Len(m)
  PROVE  /\ k \in Shown(history, m, a, k) /\ Legible(history, m, a, k) => NextAt(history, m, a, k)
         /\ k \notin Shown(history, m, a, k) /\ Legible(history, m, a, k) => Legible(history, m, a, k - 1)
<1> DEFINE S == Shown(history, m, a, k)
           T == Shown(history, m, a, k - 1)
<1>0. Len(m) \in Nat /\ k \in Nat /\ k - 1 \in Nat
  BY DEF Merged
<1>1. /\ T = S \ {k} /\ S \subseteq 1 .. k
  BY <1>0 DEF Shown
<1>2. \A j \in S : m[j].n \in Nat
  <2>1. S \subseteq 1 .. Len(m)
    BY <1>0, <1>1
  <2> QED
    BY <2>1, RecordSays
<1>3. Legible(history, m, a, k) =>
        /\ \A i, j \in S : i < j => m[i].n < m[j].n
        /\ \A j \in S : \A n \in 1 .. m[j].n : On(history, n, a) => \E i \in S : m[i].n = n
        /\ \A j \in S : ~FailedRealloc(history, m[j].n)
  BY DEF Legible
<1>4. Legible(history, m, a, k - 1) <=>
        /\ \A i, j \in T : i < j => m[i].n < m[j].n
        /\ \A j \in T : \A n \in 1 .. m[j].n : On(history, n, a) => \E i \in T : m[i].n = n
        /\ \A j \in T : ~FailedRealloc(history, m[j].n)
  BY DEF Legible
<1>5. NextAt(history, m, a, k) <=>
        /\ Legible(history, m, a, k - 1)
        /\ \A j \in T : m[j].n < m[k].n
        /\ \A n \in 1 .. m[k].n - 1 : On(history, n, a) => \E i \in T : m[i].n = n
  BY DEF NextAt
<1> HIDE DEF S, T
<1>6. CASE k \notin S
  BY <1>1, <1>3, <1>4, <1>6 DEF S
<1>7. CASE k \in S /\ Legible(history, m, a, k)
  <2>0. \A j \in T : j \in S /\ j < k
    BY <1>0, <1>1
  <2>1. \A j \in T : j \in S /\ j < k /\ m[j].n < m[k].n
    BY <1>3, <1>7, <2>0
  <2>2. ASSUME NEW j \in T, NEW n \in 1 .. m[j].n, On(history, n, a)
        PROVE  \E i \in T : m[i].n = n
    <3>1. PICK i \in S : m[i].n = n
      BY <1>3, <1>7, <2>1, <2>2
    <3>2. n < m[k].n
      <4>1. m[j].n \in Nat /\ m[k].n \in Nat /\ m[j].n < m[k].n
        BY <1>2, <1>7, <2>1
      <4> QED
        BY <4>1
    <3>3. i # k
      BY <1>2, <1>7, <3>1, <3>2
    <3> QED
      BY <1>1, <3>1, <3>3
  <2>3. Legible(history, m, a, k - 1)
    BY <1>3, <1>4, <1>7, <2>1, <2>2
  <2>4. ASSUME NEW n \in 1 .. m[k].n - 1, On(history, n, a)
        PROVE  \E i \in T : m[i].n = n
    <3>1. n \in 1 .. m[k].n /\ n # m[k].n
      BY <1>2, <1>7
    <3>2. PICK i \in S : m[i].n = n
      BY <1>3, <1>7, <2>4, <3>1
    <3> QED
      BY <1>1, <3>1, <3>2
  <2> QED
    BY <1>5, <1>7, <2>1, <2>3, <2>4
<1> QED
  BY <1>6, <1>7 DEF S

\* So it is where the first k records show the operations in their order.
LEMMA InOrderNext ==
  ASSUME Merged(history, merged), HistoryTrue(history), NEW a, NEW k \in 1 .. Len(merged),
         k \in Shown(history, merged, a, k), InOrderAt(a, k)
  PROVE  NextAt(history, merged, a, k)
<1> DEFINE S == Shown(history, merged, a, k)
           T == Shown(history, merged, a, k - 1)
<1>0. Len(merged) \in Nat /\ k \in Nat /\ k - 1 \in Nat
  BY DEF Merged
<1>1. /\ T = S \ {k} /\ S \subseteq 1 .. k /\ k \in S /\ S \subseteq 1 .. Len(merged)
  BY <1>0 DEF Shown
<1>2. \A j \in S : /\ merged[j].n \in Nat /\ On(history, merged[j].n, a)
                   /\ FailedRealloc(history, merged[j].n) <=> Failed(merged[j])
  BY <1>1, RecordSays DEF Shown
<1>3. S = {j \in 1 .. k : Touches(merged[j].n, a)}
  BY DEF Shown, On, Touches
<1>4. /\ \A i, j \in S : i < j => merged[i].n < merged[j].n
      /\ {merged[j].n : j \in S} = {n \in 1 .. merged[k].n : Touches(n, a)}
      /\ \A j \in S \ {k} : ~Failed(merged[j])
  BY <1>3 DEF InOrderAt
<1> HIDE DEF S, T
<1>5. \A n \in 1 .. merged[k].n : On(history, n, a) => \E i \in S : merged[i].n = n
  <2> SUFFICES ASSUME NEW n \in 1 .. merged[k].n, On(history, n, a)
               PROVE  \E i \in S : merged[i].n = n
    OBVIOUS
  <2>1. n \in {j \in 1 .. merged[k].n : Touches(j, a)}
    BY DEF On, Touches
  <2>2. n \in {merged[j].n : j \in S}
    BY <1>4, <2>1
  <2> QED
    BY <2>2
<1>6. \A j \in T : j \in S /\ j < k /\ merged[j].n < merged[k].n
  BY <1>0, <1>1, <1>4
<1>7. \A n \in 1 .. merged[k].n - 1 : On(history, n, a) => \E i \in T : merged[i].n = n
  <2> SUFFICES ASSUME NEW n \in 1 .. merged[k].n - 1, On(history, n, a)
               PROVE  \E i \in T : merged[i].n = n
    OBVIOUS
  <2>1. n \in 1 .. merged[k].n /\ n # merged[k].n
    BY <1>1, <1>2
  <2> QED
    BY <1>1, <1>5, <2>1
<1>8. ASSUME NEW j \in T, NEW n \in 1 .. merged[j].n, On(history, n, a)
      PROVE  \E i \in T : merged[i].n = n
  <2>1. merged[j].n \in Nat /\ merged[k].n \in Nat /\ merged[j].n < merged[k].n
    BY <1>1, <1>2, <1>6
  <2>2. n \in 1 .. merged[k].n - 1
    BY <2>1
  <2> QED
    BY <1>7, <1>8, <2>2
<1>9. Legible(history, merged, a, k - 1)
  <2>1. \A i, j \in T : i < j => merged[i].n < merged[j].n
    BY <1>1, <1>4
  <2>2. \A j \in T : ~FailedRealloc(history, merged[j].n)
    BY <1>1, <1>2, <1>4
  <2> QED
    BY <1>8, <2>1, <2>2 DEF Legible, T
<1> QED
  BY <1>6, <1>7, <1>9 DEF NextAt, T

\* What the first k records show does not depend on those behind them.
LEMMA FirstRecords ==
  ASSUME NEW m \in Seq(LogRecords), NEW r \in LogRecords, NEW a
  PROVE  LET l == Append(m, r) IN
         /\ \A k \in 0 .. Len(m) : /\ Shown(history, l, a, k) = Shown(history, m, a, k)
                                   /\ Legible(history, l, a, k) <=> Legible(history, m, a, k)
         /\ \A k \in 1 .. Len(m) : NextAt(history, l, a, k) <=> NextAt(history, m, a, k)
<1> DEFINE l == Append(m, r)
<1>1. Len(m) \in Nat /\ \A i \in 1 .. Len(m) : l[i] = m[i]
  OBVIOUS
<1> HIDE DEF l
<1>2. ASSUME NEW k \in 0 .. Len(m)
      PROVE  /\ Shown(history, l, a, k) = Shown(history, m, a, k)
             /\ Shown(history, m, a, k) \subseteq 1 .. Len(m)
  <2>1. \A j \in 1 .. k : j \in 1 .. Len(m)
    BY <1>1
  <2> QED
    BY <1>1, <2>1 DEF Shown
<1>3. ASSUME NEW k \in 0 .. Len(m) PROVE Legible(history, l, a, k) <=> Legible(history, m, a, k)
  <2> DEFINE S == Shown(history, m, a, k)
  <2>1. Shown(history, l, a, k) = S /\ \A i \in S : l[i] = m[i]
    BY <1>1, <1>2
  <2> HIDE DEF S
  <2> QED
    BY <2>1 DEF Legible, S
<1>4. ASSUME NEW k \in 1 .. Len(m) PROVE NextAt(history, l, a, k) <=> NextAt(history, m, a, k)
  <2> DEFINE S == Shown(history, m, a, k - 1)
  <2>1. k - 1 \in 0 .. Len(m)
    BY <1>1
  <2>2. Shown(history, l, a, k - 1) = S /\ (\A i \in S : l[i] = m[i]) /\ l[k] = m[k]
    BY <1>1, <1>2, <2>1
  <2> HIDE DEF S
  <2> QED
    BY <1>3, <2>1, <2>2 DEF NextAt, S
<1> QED
  BY <1>2, <1>3, <1>4 DEF l

\* GetMallocNumber takes the only block at an address, and leaves those at others alone.
LEMMA TakesThere ==
  ASSUME Lists(blocks), NEW a, NEW tid
  PROVE  LET found == GetMallocNumber(a, tid) IN
         /\ \A b : b # a => ListAt(found.known, b) = ListAt(blocks, b)
         /\ a # NullPtr /\ Len(ListAt(blocks, a)) = 1 =>
              found.seqNo = ListAt(blocks, a)[1].mSeqNo /\ ListAt(found.known, a) = <<>>
<1> DEFINE found == GetMallocNumber(a, tid)
<1>1. BlockList(a) = ListAt(blocks, a)
  BY DEF BlockList, ListAt
<1>2. CASE a = NullPtr \/ BlockList(a) = <<>>
  <2>1. found.known = blocks
    BY <1>2 DEF GetMallocNumber
  <2>2. a # NullPtr => Len(ListAt(blocks, a)) = 0
    BY <1>1, <1>2
  <2> HIDE DEF found
  <2>3. /\ \A b : b # a => ListAt(found.known, b) = ListAt(blocks, b)
        /\ ~(a # NullPtr /\ Len(ListAt(blocks, a)) = 1)
    BY <2>1, <2>2
  <2> QED
    BY <2>3 DEF found
<1>3. CASE a # NullPtr /\ BlockList(a) # <<>>
  <2> DEFINE k == FoundBlock(a, tid)
             list == blocks[a]
             short == SubSeq(list, 1, k - 1) \o SubSeq(list, k + 1, Len(list))
             left == TakeOutstandingBlock(a, tid)
  <2>1. a \in DOMAIN blocks /\ list # <<>> /\ BlockList(a) = list /\ list \in Seq(Entries)
    BY <1>3 DEF BlockList, Lists
  <2>2. k \in 1 .. Len(list)
    BY <2>1, FoundInList
  <2>3. found = [seqNo |-> list[k].mSeqNo, byOther |-> list[k].mThreadID # tid,
                 size |-> list[k].mSize, known |-> left]
    BY <1>3, <2>1 DEF GetMallocNumber
  <2>4. /\ DOMAIN left = DOMAIN blocks /\ left[a] = short
        /\ \A b \in DOMAIN blocks : b # a => left[b] = blocks[b]
    BY <2>1 DEF TakeOutstandingBlock, Put
  <2>5. Len(short) = Len(list) - 1 /\ short \in Seq(Entries)
    <3> HIDE DEF list, k
    <3> QED BY <2>1, <2>2, ListWithout
  <2> HIDE DEF found, left, short, k, list
  <2>6. found.seqNo = list[k].mSeqNo /\ found.known = left
    BY <2>3
  <2>7. \A b : b # a => ListAt(found.known, b) = ListAt(blocks, b)
    BY <2>4, <2>6 DEF ListAt
  <2>8. ASSUME Len(ListAt(blocks, a)) = 1
        PROVE  found.seqNo = ListAt(blocks, a)[1].mSeqNo /\ ListAt(found.known, a) = <<>>
    <3>1. Len(list) = 1 /\ ListAt(blocks, a) = list
      BY <1>1, <2>1, <2>8
    <3>2. k = 1
      BY <2>2, <3>1
    <3>3. short = <<>>
      BY <2>5, <3>1, EmptySeq
    <3>4. ListAt(found.known, a) = short
      BY <2>1, <2>4, <2>6 DEF ListAt
    <3> QED
      BY <2>6, <3>1, <3>2, <3>3, <3>4
  <2> QED
    BY <2>7, <2>8 DEF found
<1> QED
  BY <1>2, <1>3

\* AddOutstandingBlock appends to the list of its address.
LEMMA AddsThere ==
  ASSUME NEW known, NEW b, NEW s, NEW tid, NEW size
  PROVE  LET all == AddOutstandingBlock(known, b, s, tid, size) IN
         /\ \A a : a # b => ListAt(all, a) = ListAt(known, a)
         /\ ListAt(known, b) = <<>> => Len(ListAt(all, b)) = 1 /\ ListAt(all, b)[1].mSeqNo = s
<1> DEFINE all == AddOutstandingBlock(known, b, s, tid, size)
           e == [mSeqNo |-> s, mThreadID |-> tid, mSize |-> size]
<1>1. /\ DOMAIN all = DOMAIN known \cup {b} /\ all[b] = Append(ListAt(known, b), e)
      /\ \A a \in DOMAIN known : a # b => all[a] = known[a]
  BY DEF AddOutstandingBlock, Put, ListAt
<1> HIDE DEF all
<1>2. \A a : a # b => ListAt(all, a) = ListAt(known, a)
  BY <1>1 DEF ListAt
<1>3. ASSUME ListAt(known, b) = <<>>
      PROVE  Len(ListAt(all, b)) = 1 /\ ListAt(all, b)[1].mSeqNo = s
  <2>1. ListAt(all, b) = all[b]
    BY <1>1 DEF ListAt
  <2>2. all[b] = <<e>>
    BY <1>1, <1>3
  <2>3. e.mSeqNo = s
    OBVIOUS
  <2> QED
    BY <2>1, <2>2, <2>3
<1> QED
  BY <1>2, <1>3 DEF all

\* Record r is merged behind the records m: the blocks known still follow the operations, and
\* a release that is next at its address finds the block it released.
LEMMA FollowsKept ==
  ASSUME HistoryTrue(history), NEW m, Merged(history, m), NEW r \in LogRecords, Genuine(history, r),
         Follows(history, m, blocks), Lists(blocks), NEW tid, NEW size
  PROVE  LET found == GetMallocNumber(IF r.mType = "malloc" THEN NullPtr ELSE r.old, tid)
             known == IF r.mType = "free" THEN found.known
                      ELSE AddOutstandingBlock(found.known, r.block, Len(m) + 1, tid, size)
             l == Append(m, r)
         IN  /\ Merged(history, l) /\ Follows(history, l, known)
             /\ r.old \in Addrs /\ NextAt(history, l, r.old, Len(l)) =>
                  /\ r.mType # "malloc" /\ found.seqNo \in 1 .. Len(m)
                  /\ m[found.seqNo].n = history[r.n].released
<1> DEFINE b == IF r.mType = "malloc" THEN NullPtr ELSE r.old
           found == GetMallocNumber(b, tid)
           l == Append(m, r)
           k == Len(m) + 1
           known == IF r.mType = "free" THEN found.known
                    ELSE AddOutstandingBlock(found.known, r.block, k, tid, size)
<1>1. /\ m \in Seq(LogRecords) /\ Len(m) \in Nat /\ k \in Nat /\ l \in Seq(LogRecords) /\ Len(l) = k
      /\ k \in 1 .. k /\ k - 1 = Len(m)
      /\ l[k] = r /\ \A i \in 1 .. Len(m) : l[i] = m[i]
  BY DEF Merged
<1>2. Merged(history, l)
  BY <1>1, GenuineJoined DEF Merged
<1>3. NullPtr \notin Addrs /\ Null \notin Addrs
  BY PipelineAssumption, LoggerAssumption
<1>4. /\ r.mType = "malloc" => r.old = Null
      /\ r.mType = "free" => r.block = Null
      /\ r.mType \in {"malloc", "free", "realloc"}
  BY KindsOfRecords DEF HistoryTrue, TruthOf, Genuine, LogRecords
<1>5. /\ \A a : a # b => ListAt(found.known, a) = ListAt(blocks, a)
      /\ b # NullPtr /\ Len(ListAt(blocks, b)) = 1 =>
           found.seqNo = ListAt(blocks, b)[1].mSeqNo /\ ListAt(found.known, b) = <<>>
  BY TakesThere
<1>6. /\ r.mType = "free" => known = found.known
      /\ \A a : r.mType # "free" /\ a # r.block => ListAt(known, a) = ListAt(found.known, a)
      /\ r.mType # "free" /\ ListAt(found.known, r.block) = <<>> =>
           Len(ListAt(known, r.block)) = 1 /\ ListAt(known, r.block)[1].mSeqNo = k
  BY AddsThere
<1>7. \A a : k \in Shown(history, l, a, k) <=> r.block = a \/ r.old = a
  <2> HIDE DEF l, k, b, found, known
  <2>0. k \in 1 .. Len(l)
    BY <1>1
  <2>1. \A a : On(history, l[k].n, a) <=> l[k].block = a \/ l[k].old = a
    BY <1>2, <2>0, RecordSays
  <2> QED
    BY <1>1, <2>1 DEF Shown
<1>8. \A a : /\ Shown(history, l, a, k - 1) = Shown(history, m, a, Len(m))
             /\ Legible(history, l, a, k - 1) <=> Legible(history, m, a, Len(m))
             /\ Shown(history, m, a, Len(m)) \subseteq 1 .. Len(m)
             /\ \/ Shown(history, l, a, k) = Shown(history, m, a, Len(m))
                \/ Shown(history, l, a, k) = Shown(history, m, a, Len(m)) \cup {k}
  <2> TAKE a
  <2>1. Len(m) \in 0 .. Len(m) /\ k - 1 = Len(m)
    BY <1>1
  <2>2. /\ Shown(history, l, a, k - 1) = Shown(history, m, a, Len(m))
        /\ Legible(history, l, a, k - 1) <=> Legible(history, m, a, Len(m))
    BY <1>1, <2>1, FirstRecords
  <2>3. Shown(history, m, a, Len(m)) \subseteq 1 .. Len(m)
    BY DEF Shown
  <2>4. Shown(history, l, a, k) \ {k} = Shown(history, l, a, k - 1)
    BY <1>1 DEF Shown
  <2> QED
    BY <2>2, <2>3, <2>4
<1> HIDE DEF b, found, l, k, known
\* What a release finds when it is next.
<1>9. ASSUME NEW a \in Addrs, r.old = a, NextAt(history, l, a, k)
      PROVE  /\ r.mType # "malloc" /\ b = a /\ ListAt(found.known, a) = <<>>
             /\ found.seqNo \in 1 .. Len(m) /\ m[found.seqNo].n = history[r.n].released
  <2>1. r.mType # "malloc" /\ b = a /\ a # NullPtr
    BY <1>3, <1>4, <1>9 DEF b
  <2>2. k \in 1 .. Len(l) /\ l[k].old = a /\ l[k].n = r.n
    BY <1>1, <1>9
  <2>3. PICK j \in Shown(history, l, a, k - 1) : /\ l[j].block = a
                                        /\ l[j].n = history[r.n].released
                                        /\ \A i \in Shown(history, l, a, k - 1) : i <= j
    BY <1>2, <1>9, <2>2, ReleaseFinds
  <2>4. j \in 1 .. Len(m) /\ IsLast(history, m, a, j) /\ m[j] = l[j]
    BY <1>1, <1>8, <2>3 DEF IsLast
  <2>5. Legible(history, m, a, Len(m))
    BY <1>8, <1>9 DEF NextAt
  <2>6. Len(ListAt(blocks, a)) = 1 /\ ListAt(blocks, a)[1].mSeqNo = j
    BY <2>3, <2>4, <2>5 DEF Follows
  <2> QED
    BY <1>5, <2>1, <2>3, <2>4, <2>6
\* What becomes of the list of an address.
<1>10. ASSUME NEW a \in Addrs, Legible(history, l, a, k)
       PROVE  /\ (\A j \in 1 .. k : IsLast(history, l, a, j) => l[j].block # a) => ListAt(known, a) = <<>>
              /\ \A j \in 1 .. k : IsLast(history, l, a, j) /\ l[j].block = a =>
                   Len(ListAt(known, a)) = 1 /\ ListAt(known, a)[1].mSeqNo = j
  <2>0. k \in 1 .. Len(l) /\ k - 1 = Len(m)
    BY <1>1 DEF k
  <2>1. CASE r.block # a /\ r.old # a
    <3>1. k \notin Shown(history, l, a, k) /\ Shown(history, l, a, k) = Shown(history, m, a, Len(m))
      BY <1>7, <1>8, <2>1
    <3>2. Legible(history, m, a, Len(m))
      BY <1>2, <1>8, <1>10, <2>0, <3>1, LegibleNext
    <3>3. ListAt(known, a) = ListAt(blocks, a)
      <4>1. a # b
        BY <1>3, <2>1 DEF b
      <4> QED
        BY <1>5, <1>6, <2>1, <4>1
    <3>4. \A j : IsLast(history, l, a, j) <=> IsLast(history, m, a, j)
      BY <1>1, <3>1 DEF IsLast
    <3>5. \A j : IsLast(history, m, a, j) => j \in 1 .. Len(m) /\ j \in 1 .. k /\ l[j] = m[j]
      BY <1>1, <1>8, <2>0 DEF IsLast
    <3> QED
      BY <3>2, <3>3, <3>4, <3>5 DEF Follows
  <2>2. CASE r.block = a \/ r.old = a
    <3>1. k \in Shown(history, l, a, k) /\ NextAt(history, l, a, k)
      BY <1>2, <1>7, <1>10, <2>0, <2>2, LegibleNext
    <3>2. \A j : IsLast(history, l, a, j) <=> j = k
      <4>1. \A j \in Shown(history, l, a, k) : j \in 1 .. k
        BY DEF Shown
      <4> QED
        BY <1>1, <3>1, <4>1 DEF IsLast
    <3>3. r.block = a => r.mType # "free"
      BY <1>3, <1>4
    <3>4. CASE r.old = a
      <4>1. ListAt(found.known, a) = <<>>
        BY <1>9, <3>1, <3>4
      <4> QED
        BY <1>1, <1>6, <2>0, <3>2, <3>3, <4>1
    <3>5. CASE r.old # a
      <4>1. r.block = a /\ l[k].block = a /\ l[k].old # a
        BY <1>1, <2>2, <3>5
      <4>2. \A j \in Shown(history, l, a, k - 1) :
              l[j].block = a => \E i \in Shown(history, l, a, k - 1) : j < i
        BY <1>2, <2>0, <3>1, <4>1, MakeFindsNone
      <4>3. ASSUME NEW j \in 1 .. Len(m), IsLast(history, m, a, j) PROVE m[j].block # a
        <5>1. /\ j \in Shown(history, m, a, Len(m))
              /\ \A i \in Shown(history, m, a, Len(m)) : i <= j /\ i \in Int
          BY <1>8, <4>3 DEF IsLast
        <5>2. ~ \E i \in Shown(history, m, a, Len(m)) : j < i
          BY <5>1
        <5> QED
          BY <1>1, <1>8, <4>2, <5>1, <5>2
      <4>4. Legible(history, m, a, Len(m))
        BY <1>8, <3>1 DEF NextAt
      <4>5. ListAt(blocks, a) = <<>>
        BY <4>3, <4>4 DEF Follows
      <4>6. ListAt(found.known, a) = <<>>
        <5>1. a # b
          BY <1>3, <3>5 DEF b
        <5> QED
          BY <1>5, <4>5, <5>1
      <4> QED
        BY <1>1, <1>6, <2>0, <3>2, <3>3, <4>1, <4>6
    <3> QED
      BY <3>4, <3>5
  <2> QED
    BY <2>1, <2>2
<1>11. Follows(history, l, known)
  BY <1>1, <1>10 DEF Follows
<1>12. r.old \in Addrs /\ NextAt(history, l, r.old, Len(l)) =>
         /\ r.mType # "malloc" /\ found.seqNo \in 1 .. Len(m)
         /\ m[found.seqNo].n = history[r.n].released
  BY <1>1, <1>9
<1> QED
  BY <1>2, <1>11, <1>12 DEF l, known, k, found, b

-------------------------------------------------------------------------------
(* Releases are paired with the blocks they released *)

\* The k-th operation of the log, where it is the next one at the address it releases, names
\* the record of the operation that made the block.
PairsTrue(h, m, ops) ==
  \A k \in 1 .. Len(m) : m[k].old \in Addrs /\ NextAt(h, m, m[k].old, k) =>
    /\ Releases(ops[k]) /\ ops[k].mMatchedMalloc \in 1 .. k - 1
    /\ m[ops[k].mMatchedMalloc].n = h[m[k].n].released

\* The process is over when its files are read.
MergedInv ==
  /\ Merged(history, merged) /\ Len(merged) = Len(Operations(out))
  /\ \A i \in DOMAIN logFiles : AllGenuine(history, logFiles[i])
  /\ phase = "wait" => merged = <<>> /\ blocks = <<>> /\ logFiles = <<>>
  /\ phase # "wait" => process # "running"
  /\ phase \in {"wait", "merge"} => Follows(history, merged, blocks)
  /\ PairsTrue(history, merged, Operations(out))

\* The operations of the log after a record is merged.
LEMMA MergedOperations ==
  ASSUME ReadingInv, WrittenInv, NEW i, MergeRecord(i)
  PROVE  LET r == NextRecord(i)
             found == GetMallocNumber(IF r.mType = "malloc" THEN NullPtr ELSE r.old, i)
             c == Consolidated(r, i, found)
         IN  /\ Operations(out) \in Seq(Records)
             /\ IsSkipped(r) => Operations(out') = Operations(out)
             /\ ~IsSkipped(r) => Operations(out') = Append(Operations(out), c)
             /\ r.mType # "malloc" /\ found.seqNo # 0 => Releases(c) /\ c.mMatchedMalloc = found.seqNo
<1> DEFINE r == NextRecord(i)
           found == GetMallocNumber(IF r.mType = "malloc" THEN NullPtr ELSE r.old, i)
           separator == NeedsSeparator(found, r.mTimeStamp)
           log == out \o StampsBefore(r.mTimeStamp, separator)
           c == Consolidated(r, i, found)
<1>1. phase = "merge" /\ IsNext(i) /\ Write(i, r, found)
  BY DEF MergeRecord
<1>2. i \in 1 .. Cardinality(Threads) /\ r \in LogRecords
  BY <1>1, NextReadable
<1>3. /\ out \in Seq(Records) /\ totalRecords = Len(Operations(out)) + 1
      /\ KnownIn(out, blocks) /\ StampedAt(out, prevSeqNo)
  BY <1>1 DEF WrittenInv
<1>4. None(blocks, found) \/ (r.mType # "malloc" /\ Some(out, i, found))
  <2> DEFINE a == IF r.mType = "malloc" THEN NullPtr ELSE r.old
  <2>1. None(blocks, found) \/ (a # NullPtr /\ Some(out, i, found))
    BY <1>3, MallocNumber
  <2>2. r.mType = "malloc" => a = NullPtr
    OBVIOUS
  <2> HIDE DEF a, r, found
  <2> QED
    BY <2>1, <2>2
<1>5. separator \in BOOLEAN
  BY DEF NeedsSeparator
<1>6. out' = log \o (IF IsSkipped(r) THEN <<>> ELSE <<c>>)
  BY <1>1 DEF Write, StampsBefore
<1>7. log \in Seq(Records) /\ Operations(log) = Operations(out)
  <2> HIDE DEF separator, r
  <2> QED BY <1>3, <1>5, StampsAreWritten DEF OnlyStamps
<1>8. c \in Records /\ ~IsTimestamp(c)
  <2> DEFINE s == found.seqNo + 1
  <2>1. found.byOther => found.seqNo < s
    <3>1. found.byOther => found.seqNo \in Nat
      BY <1>4 DEF None, Some, Made, Entries
    <3> HIDE DEF found
    <3> QED BY <3>1
  <2> HIDE DEF s
  <2>2. Fitting(out, c, i, found, s)
    BY <1>2, <1>4, <2>1, ConsolidatedFits
  <2> QED
    BY <2>2 DEF Fitting
<1>9. r.mType # "malloc" /\ found.seqNo # 0 => Releases(c) /\ c.mMatchedMalloc = found.seqNo
  <2>1. r.mType \in {"malloc", "free", "realloc"}
    BY <1>2, KindsOfRecords DEF LogRecords
  <2> HIDE DEF r, found
  <2> QED
    BY <2>1 DEF Consolidated, Free, Realloc, Releases
<1> HIDE DEF r, found, log, c
<1>10. IsSkipped(r) => Operations(out') = Operations(out)
  BY <1>6, <1>7, ConcatEmptySeq
<1>11. ~IsSkipped(r) => Operations(out') = Append(Operations(out), c)
  <2>1. ~IsSkipped(r) => out' = Append(log, c)
    BY <1>6, <1>7, <1>8, AppendIsConcat
  <2>2. Operations(Append(log, c)) = Append(Operations(log), c)
    BY <1>7, <1>8, AppendedLog DEF Records
  <2> QED
    BY <1>7, <2>1, <2>2
<1>12. Operations(out) \in Seq(Records)
  BY <1>3, OperationsAreOperations DEF Records
<1> QED
  BY <1>9, <1>10, <1>11, <1>12 DEF r, found, c

\* Merging a record adds a true pair, or none.
LEMMA MergeKeepsPairs ==
  ASSUME ReadingInv, WrittenInv, TruthInv, MergedInv, history' = history, process' = process,
         NEW i, MergeRecord(i)
  PROVE  MergedInv'
<1> DEFINE r == NextRecord(i)
           found == GetMallocNumber(IF r.mType = "malloc" THEN NullPtr ELSE r.old, i)
           c == Consolidated(r, i, found)
           k == Len(merged) + 1
           known == IF r.mType = "free" THEN found.known
                    ELSE AddOutstandingBlock(found.known, r.block, k, i, r.mSize)
           l == Append(merged, r)
           x == Operations(out)
<1>1. /\ phase = "merge" /\ IsNext(i) /\ Write(i, r, found)
      /\ phase' \in {"merge", "mark"} /\ logFiles' = logFiles
  BY DEF MergeRecord
<1>2. /\ r \in LogRecords /\ Genuine(history, r)
  <2>1. i \in DOMAIN logFiles /\ r \in LogRecords /\ next[i] \in DOMAIN logFiles[i]
    BY <1>1, NextReadable DEF Readable
  <2> QED
    BY <2>1 DEF MergedInv, AllGenuine, NextRecord
<1>3. /\ Merged(history, merged) /\ Len(merged) = Len(x) /\ Follows(history, merged, blocks)
      /\ \A j \in DOMAIN logFiles : AllGenuine(history, logFiles[j])
      /\ process # "running" /\ PairsTrue(history, merged, x)
      /\ Lists(blocks) /\ totalRecords = Len(x) + 1 /\ HistoryTrue(history)
  BY <1>1 DEF MergedInv, WrittenInv, KnownIn, TruthInv, HistoryInv
<1>4. /\ merged' = IF IsSkipped(r) THEN merged ELSE l
      /\ blocks' = known
  BY <1>1, <1>3 DEF Write
<1>5. /\ x \in Seq(Records)
      /\ IsSkipped(r) => Operations(out') = x
      /\ ~IsSkipped(r) => Operations(out') = Append(x, c)
      /\ r.mType # "malloc" /\ found.seqNo # 0 => Releases(c) /\ c.mMatchedMalloc = found.seqNo
  BY MergedOperations
<1>6. /\ Merged(history, l) /\ Follows(history, l, known)
      /\ r.old \in Addrs /\ NextAt(history, l, r.old, Len(l)) =>
           /\ r.mType # "malloc" /\ found.seqNo \in 1 .. Len(merged)
           /\ merged[found.seqNo].n = history[r.n].released
  BY <1>2, <1>3, FollowsKept
<1>7. IsSkipped(r) => known = blocks
  BY DEF IsSkipped, GetMallocNumber
<1>8. /\ merged \in Seq(LogRecords) /\ Len(merged) \in Nat /\ Len(l) = k
      /\ l[k] = r /\ \A j \in 1 .. Len(merged) : l[j] = merged[j]
  BY <1>3 DEF Merged
<1> DEFINE y == Append(x, c)
<1>9. /\ Len(y) = k /\ y[k] = c /\ \A j \in 1 .. Len(merged) : y[j] = x[j]
  BY <1>3, <1>5
<1> HIDE DEF r, found, c, known, l, x, y, k
<1>10. PairsTrue(history, l, y)
  <2> SUFFICES ASSUME NEW j \in 1 .. k, l[j].old \in Addrs, NextAt(history, l, l[j].old, j)
               PROVE  /\ Releases(y[j]) /\ y[j].mMatchedMalloc \in 1 .. j - 1
                      /\ l[y[j].mMatchedMalloc].n = history[l[j].n].released
    BY <1>8 DEF PairsTrue
  <2>1. CASE j = k
    <3>1. found.seqNo \in 1 .. Len(merged) /\ r.mType # "malloc"
          /\ merged[found.seqNo].n = history[r.n].released
      BY <1>6, <1>8, <2>1
    <3>2. Releases(c) /\ c.mMatchedMalloc = found.seqNo
      BY <1>5, <1>8, <3>1
    <3> QED
      BY <1>8, <1>9, <2>1, <3>1, <3>2 DEF k
  <2>2. CASE j # k
    <3>1. j \in 1 .. Len(merged)
      BY <1>8, <2>2 DEF k
    <3>2. NextAt(history, merged, merged[j].old, j)
      BY <1>2, <1>8, <3>1, FirstRecords DEF l
    <3>3. /\ Releases(x[j]) /\ x[j].mMatchedMalloc \in 1 .. j - 1
          /\ merged[x[j].mMatchedMalloc].n = history[merged[j].n].released
      BY <1>3, <1>8, <3>1, <3>2 DEF PairsTrue
    <3>4. x[j].mMatchedMalloc \in 1 .. Len(merged)
      BY <1>8, <3>1, <3>3
    <3> QED
      BY <1>8, <1>9, <3>1, <3>3, <3>4
  <2> QED
    BY <2>1, <2>2
<1>11. CASE IsSkipped(r)
  <2>1. merged' = merged /\ blocks' = blocks /\ Operations(out') = x
    BY <1>4, <1>5, <1>7, <1>11
  <2> QED
    BY <1>1, <1>3, <2>1 DEF MergedInv
<1>12. CASE ~IsSkipped(r)
  <2>1. merged' = l /\ blocks' = known /\ Operations(out') = y
    BY <1>4, <1>5, <1>12 DEF y
  <2> QED
    BY <1>1, <1>3, <1>6, <1>8, <1>9, <1>10, <2>1 DEF MergedInv
<1> QED
  BY <1>11, <1>12

\* The marks of the second pass leave the pairs alone.
LEMMA MarkKeepsPairs ==
  ASSUME WrittenInv, MergedInv, history' = history, process' = process, MarkRecord
  PROVE  MergedInv'
<1>1. /\ phase = "mark" /\ phase' = "mark" /\ UNCHANGED <<logFiles, merged, blocks>>
      /\ out \in Seq(Records)
  BY DEF MarkRecord, WrittenInv
<1> DEFINE x == Operations(out)
           y == Operations(out')
<1>2. /\ Len(y) = Len(x)
      /\ \A k \in 1 .. Len(x) : Releases(x[k]) =>
           Releases(y[k]) /\ y[k].mMatchedMalloc = x[k].mMatchedMalloc
  <2>1. CASE out' = out
    BY <2>1
  <2>2. ASSUME NEW c \in 1 .. Len(out), Allocates(out[c]), out' = WithMark(out, c)
        PROVE  /\ Len(y) = Len(x)
               /\ \A k \in 1 .. Len(x) : Releases(x[k]) =>
                    Releases(y[k]) /\ y[k].mMatchedMalloc = x[k].mMatchedMalloc
    BY <1>1, <2>2, MarkWritten
  <2> QED
    BY <1>1, <2>1, <2>2, MarkChanges
<1>3. /\ Merged(history, merged) /\ Len(merged) = Len(x) /\ PairsTrue(history, merged, x)
      /\ \A i \in DOMAIN logFiles : AllGenuine(history, logFiles[i])
      /\ process # "running"
  BY <1>1 DEF MergedInv
<1> HIDE DEF x, y
<1>4. PairsTrue(history, merged, y)
  BY <1>2, <1>3 DEF PairsTrue
<1> QED
  BY <1>1, <1>2, <1>3, <1>4 DEF MergedInv, x, y

\* Nothing is merged before the process is over.
LEMMA NothingMerged ==
  ASSUME NEW h, NEW ops
  PROVE  Merged(h, <<>>) /\ Follows(h, <<>>, <<>>) /\ PairsTrue(h, <<>>, ops)
<1>1. Len(<<>>) = 0 /\ DOMAIN <<>> = {} /\ <<>> \in Seq(LogRecords)
  BY EmptySeq
<1> QED
  BY <1>1 DEF Merged, AllGenuine, Follows, ListAt, PairsTrue

LEMMA MergedInvInit == Init /\ MatchedInv => MergedInv
<1> SUFFICES ASSUME Init, MatchedInv PROVE MergedInv
  OBVIOUS
<1>1. /\ phase = "wait" /\ logFiles = <<>> /\ merged = <<>> /\ blocks = <<>> /\ totalRecords = 1
  BY DEF Init, ConsolidatorInit
<1>2. totalRecords = Len(Operations(out)) + 1 /\ Len(Operations(out)) \in Nat
  BY OperationsUpToTypes DEF MatchedInv, SeparatedInv, WrittenInv, Operations, Records
<1>3. Len(merged) = 0
  BY <1>1
<1> QED
  BY <1>1, <1>2, <1>3, NothingMerged DEF MergedInv

\* The consolidator opens the files of a process that is over.
LEMMA ConsolidateTrue ==
  ASSUME TruthInv, MergedInv, Consolidate
  PROVE  MergedInv'
<1>1. PICK l \in Listings : LoadLogFiles([i \in DOMAIN l |-> files[l[i]]])
  BY DEF Consolidate
<1>2. /\ UNCHANGED <<history, process>> /\ process # "running"
  BY DEF Consolidate, loggerVars
<1>3. /\ phase = "wait" /\ phase' \in {"merge", "refused"}
      /\ logFiles' = [i \in DOMAIN l |-> files[l[i]]]
      /\ UNCHANGED <<out, merged, blocks>>
  BY <1>1 DEF LoadLogFiles
<1>4. \A i \in DOMAIN l : l[i] \in Threads /\ files[l[i]] # Null
  BY DEF Listings, LoggedThreads
<1>5. \A i \in DOMAIN logFiles' : AllGenuine(history, logFiles'[i])
  BY <1>3, <1>4 DEF TruthInv, RecordsGenuine
<1> QED
  BY <1>2, <1>3, <1>5 DEF MergedInv

LEMMA MergedInvKept ==
  ASSUME ReadingInv, WrittenInv, TruthInv, MergedInv, [Next]_vars
  PROVE  MergedInv'
<1>1. CASE LoggerNext /\ UNCHANGED consVars
  <2>1. process = "running"
    BY <1>1 DEF LoggerNext, LoggerStep, Tick, Enter, Allocate, Deallocate, Reallocate, CallsDefault,
                LogRecord, LogFullBuffer, BufferDestroy, ThreadExit, FiniMallocLogger,
                SetProcessExitting, EndProcess, Kill
  <2>2. /\ phase = "wait" /\ merged = <<>> /\ blocks = <<>> /\ logFiles = <<>>
        /\ Len(merged) = Len(Operations(out))
    BY <2>1 DEF MergedInv
  <2>3. UNCHANGED <<phase, merged, blocks, logFiles, out>>
    BY <1>1 DEF consVars
  <2>4. \A i \in DOMAIN logFiles : AllGenuine(history', logFiles[i])
    BY <2>2
  <2>5. Merged(history', merged) /\ Follows(history', merged, blocks)
        /\ PairsTrue(history', merged, Operations(out))
    BY <2>2, NothingMerged
  <2> QED
    BY <2>2, <2>3, <2>4, <2>5 DEF MergedInv
<1>2. CASE UNCHANGED vars
  BY <1>2 DEF vars, loggerVars, consVars, MergedInv
<1>3. CASE Consolidate
  BY <1>3, ConsolidateTrue
<1>4. ASSUME NEW i \in DOMAIN logFiles, MergeRecord(i), UNCHANGED loggerVars PROVE MergedInv'
  BY <1>4, MergeKeepsPairs DEF loggerVars
<1>5. CASE MarkRecord /\ UNCHANGED loggerVars
  BY <1>5, MarkKeepsPairs DEF loggerVars
<1>6. CASE (Finish \/ WriteFailed) /\ UNCHANGED loggerVars
  <2>1. /\ UNCHANGED <<logFiles, out, merged, blocks, history, process>>
        /\ phase \in {"merge", "mark"} /\ phase' \in {"done", "failed"}
    BY <1>6 DEF Finish, WriteFailed, loggerVars
  <2> QED
    BY <2>1 DEF MergedInv
<1> QED
  BY <1>1, <1>2, <1>3, <1>4, <1>5, <1>6 DEF Next, ConsolidatorNext, ConsolidatorStep

LEMMA MergedInvImplies == TruthInv /\ MergedInv => PairedTruly
<1> SUFFICES ASSUME TruthInv, MergedInv, NEW k \in DOMAIN merged,
                    merged[k].old # Null, InOrderAt(merged[k].old, k)
             PROVE  LET m == Operations(out)[k].mMatchedMalloc
                    IN  m # 0 /\ merged[m].n = history[merged[k].n].released
  BY DEF PairedTruly
<1> DEFINE a == merged[k].old
<1>1. /\ Merged(history, merged) /\ HistoryTrue(history)
      /\ PairsTrue(history, merged, Operations(out))
  BY DEF TruthInv, HistoryInv, MergedInv
<1>2. k \in 1 .. Len(merged) /\ Len(merged) \in Nat
  BY <1>1 DEF Merged
<1>3. a \in Addrs
  <2>1. merged[k] \in LogRecords
    BY <1>1, <1>2 DEF Merged
  <2> QED
    BY <2>1 DEF LogRecords
<1>4. k \in Shown(history, merged, a, k)
  <2>1. On(history, merged[k].n, a)
    BY <1>1, <1>2, RecordSays
  <2>2. k \in 1 .. k
    BY <1>2
  <2> QED
    BY <2>1, <2>2 DEF Shown
<1>5. NextAt(history, merged, a, k)
  BY <1>1, <1>2, <1>4, InOrderNext
<1> QED
  BY <1>1, <1>2, <1>3, <1>5 DEF PairsTrue

\* Where the records of an address are in the order of the operations on it, every release is
\* paired with the allocation of the very block it released, whatever the threads did to the
\* heap, whatever of it was logged and in whatever order the files are read.
THEOREM ReleasesArePairedTruly ==
  ASSUME IsFiniteSet(Threads)
  PROVE  Spec => []PairedTruly
<1> DEFINE Inv == SeparatedInv /\ TruthInv /\ MergedInv
<1>1. Init => Inv
  BY MatchedInvInit, TruthInit, MergedInvInit DEF MatchedInv
<1>2. Inv /\ [Next]_vars => Inv'
  BY SeparatedInvKept, TruthKept, MergedInvKept DEF SeparatedInv
<1>3. Inv => PairedTruly
  BY MergedInvImplies
<1> QED
  BY <1>1, <1>2, <1>3, PTL DEF Spec
===============================================================================
