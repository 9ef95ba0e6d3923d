----------------------------- MODULE SystemChunks -----------------------------
(***************************************************************************)
(* The source of pages in the Windows build (src/src/SysAlloc.cpp):        *)
(* VirtualAlloc hands out chunks of 64KB, a table of headers says which    *)
(* pages of each are in use, and a chunk goes back to the system when all  *)
(* its pages are free.  It stands where mmap and munmap do in SysAlloc.    *)
(*                                                                         *)
(* gSystemChunkLock is a CRITICAL_SECTION: its owner may enter it again.   *)
(***************************************************************************)
EXTENDS Integers, Sequences, FiniteSets

CONSTANTS
  Threads,
  Chunks,          \* the 64KB regions VirtualAlloc can reserve
  ChunkPages,      \* VIRTUAL_GRANULARITY / SYS_PAGE_SZ
  HeadersPerGrowth, \* headers in VIRTUAL_GRANULARITY bytes
  Requests,        \* sizes of the requests, in pages
  Null

VARIABLES
  gAllChunks,      \* the headers: [mpChunkBaseAddr, mInUsePageMap]
  reserved,        \* the chunks reserved from the system
  held,            \* pages given out: <<chunk, first page, number of pages>>
  lock,            \* owner of gSystemChunkLock, or Null
  pc, want, got    \* where each thread is, the size it asks for, what it has got

vars == <<gAllChunks, reserved, held, lock, pc, want, got>>

\* Nothing ever changes gNumChunks.
gNumChunks == 0

Header(base, map) == [mpChunkBaseAddr |-> base, mInUsePageMap |-> map]
Unused == Header(Null, {})

\* The pages a request takes from page k on.
Run(k, n) == k .. k + n - 1

Init ==
  /\ gAllChunks = <<>>
  /\ reserved = {} /\ held = {}
  /\ lock = Null
  /\ pc = [t \in Threads |-> "app"]
  /\ want = [t \in Threads |-> 1]
  /\ got = [t \in Threads |-> Null]

Enters(t) == lock \in {Null, t}
Goto(t, l) == pc' = [pc EXCEPT ![t] = l]

\* System_VirtualAlloc of less than a chunk
Alloc(t, n) ==
  /\ pc[t] = "app"
  /\ want' = [want EXCEPT ![t] = n]
  /\ Goto(t, "reserved")
  /\ UNCHANGED <<gAllChunks, reserved, held, lock, got>>

\* The headers GetReservedPages looks at: the first gNumChunks that own a chunk.
Searched ==
  {i \in DOMAIN gAllChunks :
     /\ gAllChunks[i].mpChunkBaseAddr # Null
     /\ Cardinality({j \in 1 .. i - 1 : gAllChunks[j].mpChunkBaseAddr # Null}) < gNumChunks}

Fitting(i, n) == {k \in 0 .. ChunkPages - n : Run(k, n) \cap gAllChunks[i].mInUsePageMap = {}}

\* System_VirtualAlloc commits the pages it has marked as in use; if that fails it returns NULL,
\* and they stay marked.
Commit(c, k, n) == held' \in {held, held \cup {<<c, k, n>>}}

\* GetReservedPages returns without leaving the critical section when it finds pages.
GetReservedPages(t) ==
  /\ pc[t] = "reserved" /\ Enters(t)
  /\ LET found == {i \in Searched : Fitting(i, want[t]) # {}} IN
     IF found = {}
     THEN Goto(t, "chunk") /\ UNCHANGED <<gAllChunks, held, lock>>
     ELSE LET i == CHOOSE i \in found : \A j \in found : i <= j
              k == CHOOSE k \in Fitting(i, want[t]) : \A m \in Fitting(i, want[t]) : k <= m
          IN  /\ gAllChunks' = [gAllChunks EXCEPT ![i].mInUsePageMap = @ \cup Run(k, want[t])]
              /\ Commit(gAllChunks[i].mpChunkBaseAddr, k, want[t])
              /\ lock' = t
              /\ Goto(t, "app")
  /\ UNCHANGED <<reserved, want, got>>

\* A chunk is reserved, or there is none.
ReserveChunk(t) ==
  /\ pc[t] = "chunk"
  /\ \/ \E c \in Chunks \ reserved :
          /\ reserved' = reserved \cup {c}
          /\ got' = [got EXCEPT ![t] = c]
          /\ Goto(t, "add")
     \/ /\ Goto(t, "app")
        /\ UNCHANGED <<reserved, got>>
  /\ UNCHANGED <<gAllChunks, held, lock, want>>

FreeHeaders == {i \in DOMAIN gAllChunks : gAllChunks[i].mpChunkBaseAddr = Null}

\* A full table is copied into a longer one, and the new chunk gets its first header.
HeaderSlot == IF FreeHeaders = {} THEN 1 ELSE CHOOSE i \in FreeHeaders : \A j \in FreeHeaders : i <= j
Headers == IF FreeHeaders # {} THEN gAllChunks
           ELSE gAllChunks \o [i \in 1 .. HeadersPerGrowth |-> Unused]

\* AddSystemChunk; if a longer table cannot be had it returns inside the critical section,
\* and its caller uses the chunk all the same.
AddSystemChunk(t) ==
  /\ pc[t] = "add" /\ Enters(t)
  /\ \/ /\ gAllChunks' = [Headers EXCEPT ![HeaderSlot] = Header(got[t], Run(0, want[t]))]
        /\ UNCHANGED lock
     \/ /\ FreeHeaders = {}
        /\ lock' = t
        /\ UNCHANGED gAllChunks
  /\ Commit(got[t], 0, want[t])
  /\ got' = [got EXCEPT ![t] = Null]
  /\ Goto(t, "app")
  /\ UNCHANGED <<reserved, want>>

\* System_VirtualFree, FreeSmallChunkPages: a chunk without pages in use is given back.
Free(t, h) ==
  /\ pc[t] = "app" /\ Enters(t)
  /\ LET owners == {i \in DOMAIN gAllChunks : gAllChunks[i].mpChunkBaseAddr = h[1]} IN
     IF owners = {}
     THEN UNCHANGED <<gAllChunks, reserved>>
     ELSE LET i == CHOOSE i \in owners : \A j \in owners : i <= j
              map == gAllChunks[i].mInUsePageMap \ Run(h[2], h[3])
          IN  /\ gAllChunks' = [gAllChunks EXCEPT ![i] = IF map = {} THEN Header(Null, {})
                                                         ELSE Header(h[1], map)]
              /\ reserved' = IF map = {} THEN reserved \ {h[1]} ELSE reserved
  /\ held' = held \ {h}
  /\ UNCHANGED <<lock, pc, want, got>>

Next ==
  \E t \in Threads :
    \/ \E n \in Requests : Alloc(t, n)
    \/ GetReservedPages(t) \/ ReserveChunk(t) \/ AddSystemChunk(t)
    \/ \E h \in held : Free(t, h)

Spec == Init /\ [][Next]_vars

-------------------------------------------------------------------------------
(* Properties *)

\* "Now we have a free header slot" (line 280): every chunk with pages in use keeps a
\* header, without which its pages are never given back, as long as there is memory for the
\* table.
ChunksKnown ==
  lock = Null =>
    \A h \in held : \E i \in DOMAIN gAllChunks : gAllChunks[i].mpChunkBaseAddr = h[1]
===============================================================================
