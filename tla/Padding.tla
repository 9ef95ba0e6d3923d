-------------------------------- MODULE Padding --------------------------------
(***************************************************************************)
(* The padding replacement routines (src/src/MallocPadding.cpp): a block   *)
(* carries a header with a signature in front of the user space and magic  *)
(* bytes behind it, is on the list of in-use blocks while the application  *)
(* has it, and may be kept on the list of deferred blocks after it is      *)
(* freed.  AT_CheckAllBlocks runs over the in-use list now and then.       *)
(*                                                                         *)
(* A step ends where another thread can tell: at a section under           *)
(* gBlockListLock or gDeferredBlockListLock, at a call of the C library,   *)
(* and at an access to a header after its block was put on a list.         *)
(* calloc and new are malloc followed by a memset or a throw, which change *)
(* nothing here; realloc(NULL, n) is ::realloc's, whatever n is.           *)
(***************************************************************************)
EXTENDS Integers, SequencesExt

CONSTANTS
  Threads,              \* the application's threads
  Blocks,               \* bound: the raw blocks the C library can hand out
  Sizes,                \* the request sizes the application uses
  MinBlockSize, MaxBlockSize,  \* PatchManager::GetMinBlockSize, GetMaxBlockSize
  DeferLimits,          \* the values max_defer_free_bytes is configured to
  WordSize,             \* size_t counts modulo this number
  FaultSets,            \* what may go wrong around the routines in a behaviour, see below
  Null

\* "realloc": ::realloc may fail.  "overrun", "underrun": the application may write
\* behind or in front of a block it has.  "double": it may free a block again.  (A block whose
\* signature a failed realloc has scratched is not overwritten as well.)
ASSUME PaddingAssumption ==
  /\ Sizes \subseteq Nat /\ Sizes # {}
  /\ MinBlockSize \in Nat /\ MaxBlockSize \in Nat
  /\ WordSize \in Nat /\ DeferLimits \subseteq 0 .. (WordSize - 1)
  /\ \A n \in Sizes : n < WordSize
  /\ FaultSets \subseteq SUBSET {"realloc", "overrun", "underrun", "double"}
  /\ \A fs \in FaultSets : ~({"realloc", "underrun"} \subseteq fs)
  /\ Null \notin Blocks

VARIABLES
  faults,              \* what may go wrong in this behaviour
  mMaxDeferFreeBytes,  \* the limit read from the configuration, 0 for no deferral
  heap,                \* the raw blocks the C library has handed out
  hdr,                 \* header and tail of each raw block
  gBlockHeaderAnchor,  \* the in-use list, most recently linked block first
  gDeferredFreeBlocks, \* the deferred list, oldest block first
  gTotalDeferred,      \* the counter kept beside it
  live,                \* the blocks in the application's hands
  plain,               \* those of them that are the C library's own
  pc,                  \* where each thread is
  blk,                 \* lpHeader of the routine in progress
  req,                 \* iSize / iNewSize of the routine in progress
  process              \* "running", or how the process ended

listVars  == <<gBlockHeaderAnchor, gDeferredFreeBlocks, gTotalDeferred>>
localVars == <<pc, blk, req>>
vars      == <<faults, mMaxDeferFreeBytes, heap, hdr, listVars, live, plain, localVars, process>>

Header(sig, n, tail) == [sig |-> sig, usize |-> n, tail |-> tail]

Init ==
  /\ faults \in FaultSets
  /\ mMaxDeferFreeBytes \in DeferLimits
  /\ heap = {}
  /\ hdr = [b \in Blocks |-> Header("other", 0, FALSE)]
  /\ gBlockHeaderAnchor = <<>>
  /\ gDeferredFreeBlocks = <<>>
  /\ gTotalDeferred = 0
  /\ live = {}
  /\ plain = {}
  /\ pc = [t \in Threads |-> "app"]
  /\ blk = [t \in Threads |-> Null]
  /\ req = [t \in Threads |-> 0]
  /\ process = "running"

Goto(t, l) == pc' = [pc EXCEPT ![t] = l]
Sign(b, sig) == hdr' = [hdr EXCEPT ![b].sig = sig]

\* The routine of thread t returns.
Return(t) ==
  /\ Goto(t, "app")
  /\ blk' = [blk EXCEPT ![t] = Null]
  /\ req' = [req EXCEPT ![t] = 0]

\* The routine of thread t goes on with block b at step l.
GoOn(t, l, b) ==
  /\ Goto(t, l)
  /\ blk' = [blk EXCEPT ![t] = b]

-------------------------------------------------------------------------------
(* AT_CheckAllBlocks *)

Damaged(b) == hdr[b].sig # "accutrak" \/ ~hdr[b].tail

\* AT_CheckAllBlocks runs when a routine is entered and aborts the process at the first
\* damaged block of the list.  Whether it runs on this call or the call goes on at once
\* depends on the configured frequency and on gCount, which the threads increment
\* without a lock.
CheckAll(t) ==
  /\ pc[t] = "app"
  /\ \E b \in Blocks : Contains(gBlockHeaderAnchor, b) /\ Damaged(b)
  /\ process' = "aborted"
  /\ UNCHANGED <<heap, hdr, listVars, live, plain, localVars>>

-------------------------------------------------------------------------------
(* MallocBlockWithPadding *)

InRange(n) == n >= MinBlockSize /\ n <= MaxBlockSize

Malloc(t, n) ==
  /\ pc[t] = "app"
  /\ Goto(t, IF InRange(n) THEN "malloc" ELSE "default")
  /\ req' = [req EXCEPT ![t] = n]
  /\ UNCHANGED <<heap, hdr, listVars, live, plain, blk, process>>

\* realloc(NULL, n) never gets a header.
ReallocNull(t, n) ==
  /\ pc[t] = "app"
  /\ Goto(t, "default")
  /\ req' = [req EXCEPT ![t] = n]
  /\ UNCHANGED <<heap, hdr, listVars, live, plain, blk, process>>

\* The C library's own block goes to the application as it is.
DefaultBlock(t) ==
  /\ pc[t] = "default"
  /\ \E b \in Blocks \ heap :
       /\ heap' = heap \cup {b}
       /\ live' = live \cup {b}
       /\ plain' = plain \cup {b}
       /\ Sign(b, "other")
  /\ Return(t)
  /\ UNCHANGED <<listVars, process>>

AllocationFails(t) ==
  /\ pc[t] \in {"default", "malloc"}
  /\ Return(t)
  /\ UNCHANGED <<heap, hdr, listVars, live, plain, process>>

\* The raw block gets its header and its magic bytes before anybody else can see it.
PaddedBlock(t) ==
  /\ pc[t] = "malloc"
  /\ \E b \in Blocks \ heap :
       /\ heap' = heap \cup {b}
       /\ hdr' = [hdr EXCEPT ![b] = Header("accutrak", req[t], TRUE)]
       /\ GoOn(t, "link", b)
  /\ UNCHANGED <<listVars, live, plain, req, process>>

\* Link_Block; malloc or realloc returns.
Link(t) ==
  /\ pc[t] = "link"
  /\ gBlockHeaderAnchor' = <<blk[t]>> \o gBlockHeaderAnchor
  /\ live' = live \cup {blk[t]}
  /\ Return(t)
  /\ UNCHANGED <<heap, hdr, gDeferredFreeBlocks, gTotalDeferred, plain, process>>

-------------------------------------------------------------------------------
(* FreeBlockWithPadding *)

\* A block the application freed before, which nobody has or is working on.
Stale(b) ==
  /\ b \notin live
  /\ hdr[b].sig \in {"DEFERBLK", "FREEBLK!"}
  /\ \A t \in Threads : blk[t] # b

Freeable == live \cup IF "double" \in faults THEN {b \in Blocks : Stale(b)} ELSE {}

\* Bug: the magic bytes are not looked at.
BugFreeMine(t, b) ==
  /\ pc[t] = "app"
  /\ hdr[b].sig = "accutrak"
  /\ live' = live \ {b}
  /\ GoOn(t, "unlink", b)
  /\ UNCHANGED <<heap, hdr, listVars, plain, req, process>>

\* The block is ours: the magic bytes are checked first.
FreeMine(t, b) ==
  /\ pc[t] = "app"
  /\ hdr[b].sig = "accutrak"
  /\ IF hdr[b].tail
       THEN live' = live \ {b} /\ GoOn(t, "unlink", b) /\ UNCHANGED process
       ELSE process' = "aborted" /\ UNCHANGED <<live, pc, blk>>
  /\ UNCHANGED <<heap, hdr, listVars, plain, req>>

\* A second free of a block that is still deferred is reported.
FreeDeferred(t, b) ==
  /\ pc[t] = "app"
  /\ hdr[b].sig = "DEFERBLK"
  /\ process' = "aborted"
  /\ UNCHANGED <<heap, hdr, listVars, live, plain, localVars>>

\* Without a signature of ours the address goes to ::free, which knows it only when the
\* block is its own; else what happens is not defined.
FreeDefault(t, b) ==
  /\ pc[t] = "app"
  /\ hdr[b].sig \notin {"accutrak", "DEFERBLK"}
  /\ IF b \in plain
       THEN /\ heap' = heap \ {b}
            /\ live' = live \ {b}
            /\ plain' = plain \ {b}
            /\ UNCHANGED <<pc, blk, process>>
       ELSE /\ GoOn(t, "misrouted", b)
            /\ process' = "undefined"
            /\ UNCHANGED <<heap, live, plain>>
  /\ UNCHANGED <<hdr, listVars, req>>

\* Bug: the head of the list is left alone.
BugUnlinkFreed(t) ==
  /\ pc[t] = "unlink"
  /\ gBlockHeaderAnchor' = <<gBlockHeaderAnchor[1]>> \o RemoveFirst(Tail(gBlockHeaderAnchor), blk[t])
  /\ Goto(t, IF mMaxDeferFreeBytes > 0 THEN "defer" ELSE "free")
  /\ UNCHANGED <<heap, hdr, gDeferredFreeBlocks, gTotalDeferred, live, plain, blk, req, process>>

\* Unlink_Header
UnlinkFreed(t) ==
  /\ pc[t] = "unlink"
  /\ gBlockHeaderAnchor' = RemoveFirst(gBlockHeaderAnchor, blk[t])
  /\ Goto(t, IF mMaxDeferFreeBytes > 0 THEN "defer" ELSE "free")
  /\ UNCHANGED <<heap, hdr, gDeferredFreeBlocks, gTotalDeferred, live, plain, blk, req, process>>

\* Without deferral the block goes back to the C library.
Free(t) ==
  /\ pc[t] = "free"
  /\ Sign(blk[t], "FREEBLK!")
  /\ heap' = heap \ {blk[t]}
  /\ Return(t)
  /\ UNCHANGED <<listVars, live, plain, process>>

-------------------------------------------------------------------------------
(* LinkDeferredBlock *)

\* The bytes of the blocks on queue q, added up from its first.
Bytes(q) ==
  LET upTo[j \in 0 .. Len(q)] == IF j = 0 THEN 0 ELSE upTo[j - 1] + hdr[q[j]].usize
  IN  upTo[Len(q)]

\* The counter after the first j blocks of queue q went, starting from n.
CounterAfter(q, n, j) == (n - Bytes(SubSeq(q, 1, j))) % WordSize

OverLimit(q, n, j) == CounterAfter(q, n, j) > mMaxDeferFreeBytes

\* Bug: one block goes, however many are over the limit.
BugPoppedOnce(q, n) == IF n > mMaxDeferFreeBytes /\ Len(q) > 1 THEN 1 ELSE 0

\* How many blocks leave queue q, whose counter is n: the oldest first, while the counter
\* exceeds the limit, but never the last one.
Popped(q, n) ==
  CHOOSE j \in 0 .. (Len(q) - 1) :
    /\ j = Len(q) - 1 \/ ~OverLimit(q, n, j)
    /\ \A i \in 0 .. (j - 1) : OverLimit(q, n, i)

\* Bug: the freed block keeps the signature FREEBLK! instead of DEFERBLK.
BugResigned(b, evicted) ==
  [c \in Blocks |-> IF c = b \/ c \in evicted THEN [hdr[c] EXCEPT !.sig = "FREEBLK!"] ELSE hdr[c]]

\* What the scratched and the newly deferred header say.
Resigned(b, evicted) ==
  [c \in Blocks |-> CASE c \in evicted -> [hdr[c] EXCEPT !.sig = "FREEBLK!"]
                      [] c = b         -> [hdr[c] EXCEPT !.sig = "DEFERBLK"]
                      [] OTHER         -> hdr[c]]

\* The first block of an empty list is not counted; later ones are, and their coming may
\* evict the oldest.
LinkDeferred(t) ==
  /\ pc[t] = "defer"
  /\ IF gDeferredFreeBlocks = <<>>
       THEN /\ hdr' = Resigned(blk[t], {})
            /\ gDeferredFreeBlocks' = <<blk[t]>>
            /\ UNCHANGED <<heap, gTotalDeferred>>
       ELSE LET q == Append(gDeferredFreeBlocks, blk[t])
                n == (gTotalDeferred + hdr[blk[t]].usize) % WordSize
                k == Popped(q, n)
                evicted == {q[i] : i \in 1 .. k}
            IN  /\ hdr' = Resigned(blk[t], evicted)
                /\ heap' = heap \ evicted
                /\ gDeferredFreeBlocks' = SubSeq(q, k + 1, Len(q))
                /\ gTotalDeferred' = CounterAfter(q, n, k)
  /\ Goto(t, "size")
  /\ UNCHANGED <<gBlockHeaderAnchor, live, plain, blk, req, process>>

\* free reads the size from the header of the block it has just deferred, and returns.
ReadSize(t) ==
  /\ pc[t] = "size"
  /\ Return(t)
  /\ UNCHANGED <<heap, hdr, listVars, live, plain, process>>

-------------------------------------------------------------------------------
(* ReallocBlockWithPadding *)

\* Bug: the signature is scratched before the block leaves the list.
BugReallocMine(t, b, n) ==
  /\ pc[t] = "app"
  /\ hdr[b].sig = "accutrak" /\ hdr[b].tail
  /\ live' = live \ {b}
  /\ Sign(b, "FREEBLK!")
  /\ GoOn(t, "runlink", b)
  /\ req' = [req EXCEPT ![t] = n]
  /\ UNCHANGED <<heap, listVars, plain, process>>

\* While realloc works on it, a block is not the application's.
ReallocMine(t, b, n) ==
  /\ pc[t] = "app"
  /\ hdr[b].sig = "accutrak"
  /\ IF hdr[b].tail
       THEN live' = live \ {b} /\ GoOn(t, "runlink", b) /\ req' = [req EXCEPT ![t] = n]
            /\ UNCHANGED process
       ELSE process' = "aborted" /\ UNCHANGED <<live, localVars>>
  /\ UNCHANGED <<heap, hdr, listVars, plain>>

\* The block leaves the list before its signature is scratched.
UnlinkReallocated(t) ==
  /\ pc[t] = "runlink"
  /\ gBlockHeaderAnchor' = RemoveFirst(gBlockHeaderAnchor, blk[t])
  /\ Sign(blk[t], "FREEBLK!")
  /\ Goto(t, "realloc")
  /\ UNCHANGED <<heap, gDeferredFreeBlocks, gTotalDeferred, live, plain, blk, req, process>>

\* Bug: the old block stays behind when ::realloc moves it.
BugReallocated(t) ==
  /\ pc[t] = "realloc"
  /\ \E b \in (Blocks \ heap) \cup {blk[t]} :
       /\ heap' = heap \cup {b}
       /\ hdr' = [hdr EXCEPT ![b] = Header("accutrak", req[t], TRUE)]
       /\ GoOn(t, "link", b)
  /\ UNCHANGED <<listVars, live, plain, req, process>>

\* ::realloc keeps the block or moves it; either way it gets a new header.
Reallocated(t) ==
  /\ pc[t] = "realloc"
  /\ \E b \in (Blocks \ heap) \cup {blk[t]} :
       /\ heap' = (heap \ {blk[t]}) \cup {b}
       /\ hdr' = [hdr EXCEPT ![b] = Header("accutrak", req[t], TRUE)]
       /\ GoOn(t, "link", b)
  /\ UNCHANGED <<listVars, live, plain, req, process>>

\* ::realloc fails: NULL is returned and the application still has its block, unlinked
\* and scratched.
ReallocFails(t) ==
  /\ pc[t] = "realloc"
  /\ "realloc" \in faults
  /\ live' = live \cup {blk[t]}
  /\ Return(t)
  /\ UNCHANGED <<heap, hdr, listVars, plain, process>>

\* Without our signature the address goes to ::realloc.
ReallocDefault(t, b, n) ==
  /\ pc[t] = "app"
  /\ hdr[b].sig # "accutrak"
  /\ IF b \in plain
       THEN /\ \E kept \in IF n = 0 THEN {{}} ELSE {{c} : c \in Blocks \ heap} :
                 /\ heap' = (heap \ {b}) \cup kept
                 /\ live' = (live \ {b}) \cup kept
                 /\ plain' = (plain \ {b}) \cup kept
                 /\ hdr' = [c \in Blocks |-> IF c \in kept THEN [hdr[c] EXCEPT !.sig = "other"]
                                                           ELSE hdr[c]]
            /\ UNCHANGED <<pc, blk, process>>
       ELSE /\ GoOn(t, "misrouted", b)
            /\ process' = "undefined"
            /\ UNCHANGED <<heap, hdr, live, plain>>
  /\ UNCHANGED <<listVars, req>>

-------------------------------------------------------------------------------
(* The application *)

\* The application writes behind a block of ours it has: the magic bytes are gone.
Overrun(b) ==
  /\ "overrun" \in faults
  /\ hdr' = [hdr EXCEPT ![b].tail = FALSE]
  /\ UNCHANGED <<heap, listVars, live, plain, localVars, process>>

\* It writes in front of it, over the signature.  (Damage to the links or to the size, which
\* takes a longer underrun, is not modelled.)
Underrun(b) ==
  /\ "underrun" \in faults
  /\ Sign(b, "other")
  /\ UNCHANGED <<heap, listVars, live, plain, localVars, process>>

AppStep ==
  \E b \in live \ plain : Overrun(b) \/ Underrun(b)

EntryStep(t) ==
  \/ CheckAll(t)
  \/ \E n \in Sizes : Malloc(t, n) \/ ReallocNull(t, n)
  \/ \E b \in Freeable : FreeMine(t, b) \/ FreeDeferred(t, b) \/ FreeDefault(t, b)
  \/ \E b \in live, n \in Sizes : ReallocMine(t, b, n) \/ ReallocDefault(t, b, n)

MallocStep(t)  == PaddedBlock(t) \/ DefaultBlock(t) \/ AllocationFails(t) \/ Link(t)
FreeStep(t)    == UnlinkFreed(t) \/ Free(t) \/ LinkDeferred(t) \/ ReadSize(t)
ReallocStep(t) == UnlinkReallocated(t) \/ Reallocated(t) \/ ReallocFails(t)

Ended == process # "running" /\ UNCHANGED vars

Next ==
  \/ /\ process = "running"
     /\ \/ AppStep
        \/ \E t \in Threads : EntryStep(t) \/ MallocStep(t) \/ FreeStep(t) \/ ReallocStep(t)
     /\ UNCHANGED <<faults, mMaxDeferFreeBytes>>
  \/ Ended

Spec == Init /\ [][Next]_vars

-------------------------------------------------------------------------------
(* Properties *)

Members(q) == {q[i] : i \in DOMAIN q}
InProgress(ls) == {blk[t] : t \in {u \in Threads : pc[u] \in ls}}

\* The in-use list, from which leaks are reported, holds exactly the blocks of ours the
\* application has, whatever it wrote over them, and those a routine is about to unlink,
\* each once.  (A block ::realloc could not resize is off it, signed FREEBLK!: see
\* OwnBlocksRecognised.)
InUseListExact ==
  /\ IsInjective(gBlockHeaderAnchor)
  /\ Members(gBlockHeaderAnchor) =
       {b \in live \ plain : hdr[b].sig # "FREEBLK!"} \cup InProgress({"unlink", "runlink"})

\* Every raw block the C library handed out is in one place: with the application, on the
\* deferred list, or in the hands of one routine.  Nothing is lost or in two places.
HeapAccounted ==
  /\ IsInjective(gDeferredFreeBlocks)
  /\ heap = live \cup Members(gDeferredFreeBlocks)
               \cup InProgress({"link", "unlink", "defer", "free", "runlink", "realloc"})
  /\ live \cap Members(gDeferredFreeBlocks) = {}

\* The process is never aborted when the application did nothing wrong: the check of the
\* whole list runs while other threads are anywhere in malloc, free and realloc.
NoFalseAlarm ==
  faults \subseteq {"realloc"} => process # "aborted"

\* A block whose magic bytes are gone is never taken back from the application, by any
\* interleaving: free and realloc abort the process instead.
OverrunCaught ==
  [][\A b \in live \ (live' \cup plain) : hdr[b].tail]_vars

\* A block of ours reaches ::free or ::realloc with its user address only if the C library
\* had it back before or the application overwrote the signature: deferred blocks are
\* recognised when they are freed again, and live ones always.
OwnBlocksRecognised ==
  \A t \in Threads : pc[t] = "misrouted" => blk[t] \notin heap \/ hdr[blk[t]].sig = "other"

\* And that is so in every behaviour in which ::realloc does not fail.
OwnBlocksRecognisedUnlessFailed == "realloc" \notin faults => OwnBlocksRecognised

\* The bytes on the deferred list exceed the limit by no more than the first block that was
\* ever deferred, which the counter does not count; a single block may have any size.
DeferredBounded ==
  \/ Len(gDeferredFreeBlocks) <= 1
  \/ \E n \in Sizes : Bytes(gDeferredFreeBlocks) <= mMaxDeferFreeBytes + n

\* free reads the header of the block it deferred while the C library does not have it.
NoFreedAccess ==
  \A t \in Threads : pc[t] = "size" => blk[t] \in heap
===============================================================================
