------------------------------- MODULE SysAlloc -------------------------------
(***************************************************************************)
(* The page layer of the dead-page allocator (src/src/SysAlloc.cpp): runs  *)
(* of system pages are obtained by GetPages and given back by ReleasePages.*)
(* A two-page block (one user page, one protected "dead" page) is cached   *)
(* instead of being unmapped: on a LIFO list threaded through the blocks   *)
(* themselves, or, when accesses to freed blocks are checked, on a FIFO    *)
(* list of out-of-page tags whose blocks are protected as a whole.         *)
(*                                                                         *)
(* A step is what one thread does between two points where another thread  *)
(* can observe or change shared state: a section under gCacheBlockListLock,*)
(* a system call, or the one read of gBlocksInCache made without the lock. *)
(* gFreeBlockTagLock is only taken inside gCacheBlockListLock.             *)
(***************************************************************************)
EXTENDS Integers, Sequences, FiniteSets

CONSTANTS
  Threads,                \* the application's threads
  NumPages,               \* bound: pages of address space the kernel can map
  MaxBlockPages,          \* bound: largest request, in pages
  MaxCachedBlocks,        \* PatchManager::GetMaxCachedBlocks
  CheckAccessFreedBlock,  \* PatchManager::CheckAccessFreedBlock
  CheckUnderrun,          \* ibSetFirstPageDead: the dead page is the first page
  BackTraceAt,            \* "never", "malloc" or "free": who stamps the dead page
  TagsPerBuffer,          \* tags carved out of one buffer of gTagBufferSize bytes
  KernelRefuses,          \* may mprotect and munmap be refused (vm.max_map_count)?
  Null                    \* the NULL pointer

Pages == 1 .. NumPages

\* ConfigParser accepts max_cached_blocks only in [32, 1048576]; the default is 1024.
ASSUME SysAllocAssumption ==
  /\ IsFiniteSet(Threads) /\ Threads # {}
  /\ NumPages \in Nat
  /\ MaxBlockPages \in Nat /\ MaxBlockPages >= 2
  /\ MaxCachedBlocks \in Nat \ {0}
  /\ TagsPerBuffer \in Nat \ {0}
  /\ CheckAccessFreedBlock \in BOOLEAN
  /\ CheckUnderrun \in BOOLEAN
  /\ KernelRefuses \in BOOLEAN
  /\ BackTraceAt \in {"never", "malloc", "free"}
  /\ Null \notin Int

VARIABLES
  prot,            \* protection of each page: "unmapped", "live" or "dead"
  gCacheBlockHead, \* LIFO list: raw blocks, most recently released first
  gCacheBlockTags, \* FIFO list: raw blocks, gCacheBlockTagHead first
  gBlocksInCache,  \* the counter kept beside the two lists
  gFreeBlockTags,  \* number of tags on the free list gFreeBlockTagHead
  tagBuffers,      \* number of tag buffers obtained from malloc so far
  pc,              \* where each thread is
  raw,             \* lpRawBlock / ipRawBlock of the call in progress
  size,            \* iBlockSize of the call in progress, in pages
  owned,           \* blocks in the clients' hands: <<raw block, pages>>
  leaked,          \* history: mapped pages nobody will give back any more
  cut              \* history: blocks released with a page less than they were got with

cacheVars == <<gCacheBlockHead, gCacheBlockTags, gBlocksInCache>>
tagVars   == <<gFreeBlockTags, tagBuffers>>
callVars  == <<pc, raw, size>>
sysVars   == <<prot, cacheVars, tagVars, callVars, owned, leaked, cut>>

GetPC     == {"GetPages", "TraceLive", "TraceDead", "Mmap", "SetDead", "GotPages"}
ReleasePC == {"ReleasePages", "FreeTraceLive", "FreeTraceDead", "Protect",
              "Enqueue", "TestCount", "Push", "Munmap"}

Blocks == Pages \X (1 .. MaxBlockPages)

\* The pages of the block that starts at page b and is n pages long.
Run(b, n) == b .. (b + n - 1)

\* The page protected by GetPages, and the user page of a two-page block.
DeadPage(b, n) == IF CheckUnderrun THEN b ELSE b + n - 1
UserPage(b)    == IF CheckUnderrun THEN b + 1 ELSE b

\* Only two-page blocks go through the cache.
Cacheable(n) == n = 2

SysInit ==
  /\ prot = [p \in Pages |-> "unmapped"]
  /\ gCacheBlockHead = <<>>
  /\ gCacheBlockTags = <<>>
  /\ gBlocksInCache = 0
  /\ gFreeBlockTags = 0
  /\ tagBuffers = 0
  /\ pc = [t \in Threads |-> "idle"]
  /\ raw = [t \in Threads |-> Null]
  /\ size = [t \in Threads |-> 0]
  /\ owned = {}
  /\ leaked = {}
  /\ cut = {}

Goto(t, l) == pc' = [pc EXCEPT ![t] = l]

\* mprotect on page p: the protection changes, or the call is refused.  (munmap splits a
\* mapping as mprotect does, and is refused for the same reason.)
SetPage(p, mode) == prot' = [prot EXCEPT ![p] = mode]
Refused == KernelRefuses /\ UNCHANGED prot

-------------------------------------------------------------------------------
(* GetPages *)

\* The call: a two-page request looks at the cache, any other goes to mmap.
EnterGetPages(t, n) ==
  /\ pc[t] = "idle"
  /\ Goto(t, IF Cacheable(n) THEN "GetPages" ELSE "Mmap")
  /\ raw' = [raw EXCEPT ![t] = Null]
  /\ size' = [size EXCEPT ![t] = n]
  /\ UNCHANGED <<prot, cacheVars, tagVars, owned, leaked, cut>>

\* Where a block taken from the cache goes next.
AfterCacheHit == IF BackTraceAt = "malloc" THEN "TraceLive" ELSE "GotPages"

\* Bug: any protected block is good for reuse.
BugQuarantineFull == CheckAccessFreedBlock /\ gBlocksInCache > 0

QuarantineFull == CheckAccessFreedBlock /\ gBlocksInCache >= MaxCachedBlocks

\* Bug: the dead page is opened instead of the user page.
BugReuseOldest(t) ==
  /\ pc[t] = "GetPages"
  /\ QuarantineFull
  /\ SetPage(DeadPage(Head(gCacheBlockTags), 2), "live")
  /\ raw' = [raw EXCEPT ![t] = Head(gCacheBlockTags)]
  /\ gCacheBlockTags' = Tail(gCacheBlockTags)
  /\ gBlocksInCache' = gBlocksInCache - 1
  /\ gFreeBlockTags' = gFreeBlockTags + 1
  /\ Goto(t, AfterCacheHit)
  /\ UNCHANGED <<gCacheBlockHead, tagBuffers, size, owned, leaked, cut>>

\* The cache holds the configured number of protected blocks: reuse the oldest,
\* after making its user page accessible again.
ReuseOldest(t) ==
  /\ pc[t] = "GetPages"
  /\ QuarantineFull
  /\ SetPage(UserPage(Head(gCacheBlockTags)), "live")
  /\ raw' = [raw EXCEPT ![t] = Head(gCacheBlockTags)]
  /\ gCacheBlockTags' = Tail(gCacheBlockTags)
  /\ gBlocksInCache' = gBlocksInCache - 1
  /\ gFreeBlockTags' = gFreeBlockTags + 1
  /\ Goto(t, AfterCacheHit)
  /\ UNCHANGED <<gCacheBlockHead, tagBuffers, size, owned, leaked, cut>>

\* The user page cannot be made accessible: leave the block, take fresh pages.
ReuseRefused(t) ==
  /\ pc[t] = "GetPages"
  /\ QuarantineFull
  /\ Refused
  /\ Goto(t, "Mmap")
  /\ UNCHANGED <<cacheVars, tagVars, raw, size, owned, leaked, cut>>

\* Without protection of freed blocks, reuse the most recently released one.
ReuseLatest(t) ==
  /\ pc[t] = "GetPages"
  /\ ~QuarantineFull
  /\ gCacheBlockHead # <<>>
  /\ raw' = [raw EXCEPT ![t] = Head(gCacheBlockHead)]
  /\ gCacheBlockHead' = Tail(gCacheBlockHead)
  /\ gBlocksInCache' = gBlocksInCache - 1
  /\ Goto(t, AfterCacheHit)
  /\ UNCHANGED <<prot, gCacheBlockTags, tagVars, size, owned, leaked, cut>>

CacheMiss(t) ==
  /\ pc[t] = "GetPages"
  /\ ~QuarantineFull
  /\ gCacheBlockHead = <<>>
  /\ Goto(t, "Mmap")
  /\ UNCHANGED <<prot, cacheVars, tagVars, raw, size, owned, leaked, cut>>

\* Stamping a back trace into the dead page: open it, write, close it again.
OpenDeadPage(t, from, opened, skipped) ==
  /\ pc[t] = from
  /\ \/ SetPage(DeadPage(raw[t], size[t]), "live") /\ Goto(t, opened)
     \/ Refused /\ Goto(t, skipped)
  /\ UNCHANGED <<cacheVars, tagVars, raw, size, owned, leaked, cut>>

CloseDeadPage(t, from, next) ==
  /\ pc[t] = from
  /\ SetPage(DeadPage(raw[t], size[t]), "dead") \/ Refused
  /\ Goto(t, next)
  /\ UNCHANGED <<cacheVars, tagVars, raw, size, owned, leaked, cut>>

TraceLive(t) == OpenDeadPage(t, "TraceLive", "TraceDead", "GotPages")
TraceDead(t) == CloseDeadPage(t, "TraceDead", "GotPages")

\* Fresh pages from the kernel: any run of unmapped pages, or a failure.
Mmap(t) ==
  /\ pc[t] = "Mmap"
  /\ \/ \E b \in Pages :
          /\ Run(b, size[t]) \subseteq Pages
          /\ \A p \in Run(b, size[t]) : prot[p] = "unmapped"
          /\ prot' = [p \in Pages |-> IF p \in Run(b, size[t]) THEN "live" ELSE prot[p]]
          /\ raw' = [raw EXCEPT ![t] = b]
          /\ Goto(t, "SetDead")
     \/ /\ UNCHANGED <<prot, raw>>
        /\ Goto(t, "GotPages")
  /\ UNCHANGED <<cacheVars, tagVars, size, owned, leaked, cut>>

SetDead(t) == CloseDeadPage(t, "SetDead", "GotPages")

\* GetPages returns: the block, if there is one, is the client's.
ReturnGetPages(t) ==
  /\ pc[t] = "GotPages"
  /\ owned' = IF raw[t] = Null THEN owned ELSE owned \cup {<<raw[t], size[t]>>}
  /\ Goto(t, "idle")
  /\ raw' = [raw EXCEPT ![t] = Null]
  /\ size' = [size EXCEPT ![t] = 0]
  /\ UNCHANGED <<prot, cacheVars, tagVars, leaked, cut>>

-------------------------------------------------------------------------------
(* ReleasePages *)

\* Where a two-page block goes once its dead page needs no more attention.
AfterFreeTrace == IF CheckAccessFreedBlock THEN "Protect" ELSE "TestCount"

\* The call.  The client gives up block o and passes base page b and length n.  Pages of
\* the block beyond that length are forgotten.
EnterReleasePages(t, o, b, n) ==
  /\ pc[t] = "idle"
  /\ o \in owned
  /\ owned' = owned \ {o}
  /\ raw' = [raw EXCEPT ![t] = b]
  /\ size' = [size EXCEPT ![t] = n]
  /\ Goto(t, IF Cacheable(n) THEN "ReleasePages" ELSE "Munmap")
  /\ leaked' = leaked \cup (Run(o[1], o[2]) \ Run(b, n))
  /\ cut' = IF n < o[2] THEN cut \cup {b} ELSE cut
  /\ UNCHANGED <<prot, cacheVars, tagVars>>

\* The block header is initialised inside the user page, which must be accessible.
InitHeader(t) ==
  /\ pc[t] = "ReleasePages"
  /\ Goto(t, IF BackTraceAt = "free" THEN "FreeTraceLive" ELSE AfterFreeTrace)
  /\ UNCHANGED <<prot, cacheVars, tagVars, raw, size, owned, leaked, cut>>

FreeTraceLive(t) == OpenDeadPage(t, "FreeTraceLive", "FreeTraceDead", AfterFreeTrace)
FreeTraceDead(t) == CloseDeadPage(t, "FreeTraceDead", AfterFreeTrace)

\* Bug: the freed block is not protected.
BugProtect(t) ==
  /\ pc[t] = "Protect"
  /\ Goto(t, "Enqueue")
  /\ UNCHANGED <<prot, cacheVars, tagVars, raw, size, owned, leaked, cut>>

\* The user page of a freed block is protected before the block is queued.
Protect(t) ==
  /\ pc[t] = "Protect"
  /\ SetPage(UserPage(raw[t]), "dead") \/ Refused
  /\ Goto(t, "Enqueue")
  /\ UNCHANGED <<cacheVars, tagVars, raw, size, owned, leaked, cut>>

\* Bug: a tag is taken from a list that has none.
BugGetFreeBlockTag == gFreeBlockTags' = gFreeBlockTags - 1 /\ UNCHANGED tagBuffers

\* GetFreeBlockTag: take a tag, refilling the free list with a new buffer first.
GetFreeBlockTag ==
  \/ /\ gFreeBlockTags > 0
     /\ gFreeBlockTags' = gFreeBlockTags - 1
     /\ UNCHANGED tagBuffers
  \/ /\ gFreeBlockTags = 0
     /\ gFreeBlockTags' = TagsPerBuffer - 1
     /\ tagBuffers' = tagBuffers + 1

\* Queue the block and keep it: the cache is not over its limit.
EnqueueKeep(t) ==
  /\ pc[t] = "Enqueue"
  /\ gBlocksInCache + 1 <= MaxCachedBlocks
  /\ GetFreeBlockTag
  /\ gCacheBlockTags' = Append(gCacheBlockTags, raw[t])
  /\ gBlocksInCache' = gBlocksInCache + 1
  /\ Goto(t, "idle")
  /\ raw' = [raw EXCEPT ![t] = Null]
  /\ size' = [size EXCEPT ![t] = 0]
  /\ UNCHANGED <<prot, gCacheBlockHead, owned, leaked, cut>>

\* Bug: the tag of the evicted block is not given back.
BugEnqueueEvictTag(t) ==
  /\ pc[t] = "Enqueue"
  /\ gBlocksInCache + 1 > MaxCachedBlocks
  /\ GetFreeBlockTag
  /\ LET q == Append(gCacheBlockTags, raw[t])
     IN  /\ raw' = [raw EXCEPT ![t] = Head(q)]
         /\ gCacheBlockTags' = Tail(q)
  /\ Goto(t, "Munmap")
  /\ UNCHANGED <<prot, gCacheBlockHead, gBlocksInCache, size, owned, leaked, cut>>

\* Bug: the block just queued is unmapped, not the one evicted.
BugEnqueueEvictBlock(t) ==
  /\ pc[t] = "Enqueue"
  /\ gBlocksInCache + 1 > MaxCachedBlocks
  /\ \/ gFreeBlockTags > 0 /\ UNCHANGED tagVars
     \/ /\ gFreeBlockTags = 0
        /\ gFreeBlockTags' = TagsPerBuffer
        /\ tagBuffers' = tagBuffers + 1
  /\ gCacheBlockTags' = Tail(Append(gCacheBlockTags, raw[t]))
  /\ Goto(t, "Munmap")
  /\ UNCHANGED <<prot, gCacheBlockHead, gBlocksInCache, raw, size, owned, leaked, cut>>

\* Queue the block and release the oldest one in its stead.  The tag taken and
\* the tag given back leave the free list as long as GetFreeBlockTag found it,
\* unless a buffer had to be bought.
EnqueueEvict(t) ==
  /\ pc[t] = "Enqueue"
  /\ gBlocksInCache + 1 > MaxCachedBlocks
  /\ \/ gFreeBlockTags > 0 /\ UNCHANGED tagVars
     \/ /\ gFreeBlockTags = 0
        /\ gFreeBlockTags' = TagsPerBuffer
        /\ tagBuffers' = tagBuffers + 1
  /\ LET q == Append(gCacheBlockTags, raw[t])
     IN  /\ raw' = [raw EXCEPT ![t] = Head(q)]
         /\ gCacheBlockTags' = Tail(q)
  /\ Goto(t, "Munmap")
  /\ UNCHANGED <<prot, gCacheBlockHead, gBlocksInCache, size, owned, leaked, cut>>

\* Bug: the block is neither queued nor unmapped.
BugEnqueueNoTag(t) ==
  /\ pc[t] = "Enqueue"
  /\ gFreeBlockTags = 0
  /\ Goto(t, "idle")
  /\ UNCHANGED <<prot, cacheVars, tagVars, raw, size, owned, leaked, cut>>

\* No tag and no memory for more: the block itself is unmapped.  (The test for an
\* over-full cache is also made here, and with no block added it does not hold.)
EnqueueNoTag(t) ==
  /\ pc[t] = "Enqueue"
  /\ gFreeBlockTags = 0
  /\ gBlocksInCache <= MaxCachedBlocks
  /\ Goto(t, "Munmap")
  /\ UNCHANGED <<prot, cacheVars, tagVars, raw, size, owned, leaked, cut>>

\* Bug: off by one in the test of the limit.
BugTestCount(t) ==
  /\ pc[t] = "TestCount"
  /\ Goto(t, IF gBlocksInCache <= MaxCachedBlocks THEN "Push" ELSE "Munmap")
  /\ UNCHANGED <<prot, cacheVars, tagVars, raw, size, owned, leaked, cut>>

\* The limit of the LIFO list is tested before the lock is taken.
TestCount(t) ==
  /\ pc[t] = "TestCount"
  /\ Goto(t, IF gBlocksInCache < MaxCachedBlocks THEN "Push" ELSE "Munmap")
  /\ UNCHANGED <<prot, cacheVars, tagVars, raw, size, owned, leaked, cut>>

Push(t) ==
  /\ pc[t] = "Push"
  /\ gCacheBlockHead' = <<raw[t]>> \o gCacheBlockHead
  /\ gBlocksInCache' = gBlocksInCache + 1
  /\ Goto(t, "idle")
  /\ raw' = [raw EXCEPT ![t] = Null]
  /\ size' = [size EXCEPT ![t] = 0]
  /\ UNCHANGED <<prot, gCacheBlockTags, tagVars, owned, leaked, cut>>

\* The pages go back to the kernel.  When that is refused, a message is logged and the
\* pages stay mapped; the caller of ReleasePages does not hear of it.
Munmap(t) ==
  /\ pc[t] = "Munmap"
  /\ \/ /\ prot' = [p \in Pages |-> IF p \in Run(raw[t], size[t]) THEN "unmapped" ELSE prot[p]]
        /\ cut' = cut \ {raw[t]}
        /\ UNCHANGED leaked
     \/ /\ Refused
        /\ leaked' = leaked \cup Run(raw[t], size[t])
        /\ UNCHANGED cut
  /\ Goto(t, "idle")
  /\ raw' = [raw EXCEPT ![t] = Null]
  /\ size' = [size EXCEPT ![t] = 0]
  /\ UNCHANGED <<cacheVars, tagVars, owned>>

-------------------------------------------------------------------------------
\* The steps a call takes between its entry and its return.
GetPagesStep(t) ==
  \/ ReuseOldest(t) \/ ReuseRefused(t) \/ ReuseLatest(t) \/ CacheMiss(t)
  \/ TraceLive(t) \/ TraceDead(t) \/ Mmap(t) \/ SetDead(t)

ReleasePagesStep(t) ==
  \/ InitHeader(t) \/ FreeTraceLive(t) \/ FreeTraceDead(t) \/ Protect(t)
  \/ EnqueueKeep(t) \/ EnqueueEvict(t) \/ EnqueueNoTag(t)
  \/ TestCount(t) \/ Push(t) \/ Munmap(t)

\* The lengths a client releases block o with: what it asked for, or a page less, which is
\* what the dead-page routines work out for some sizes (DeadPageLayout, Crowded).
ReleasedPages(o) == {o[2], o[2] - 1} \ {0}

\* A client: it releases the blocks it got, each once, from its first page on.
ClientStep(t) ==
  \/ \E n \in 2 .. MaxBlockPages : EnterGetPages(t, n)
  \/ ReturnGetPages(t)
  \/ \E o \in owned : \E n \in ReleasedPages(o) : EnterReleasePages(t, o, o[1], n)

SysNext == \E t \in Threads : ClientStep(t) \/ GetPagesStep(t) \/ ReleasePagesStep(t)

SysSpec == SysInit /\ [][SysNext]_sysVars

-------------------------------------------------------------------------------
(* Properties *)

\* A thread holds a block between getting hold of it and handing it on.
Holds(t) == pc[t] \in (GetPC \cup ReleasePC) /\ raw[t] # Null

CacheSeq == gCacheBlockHead \o gCacheBlockTags

\* The variables keep their types; a call that has a block has a legal one.
SysTypeOK ==
  /\ prot \in [Pages -> {"unmapped", "live", "dead"}]
  /\ gCacheBlockHead \in Seq(Pages)
  /\ gCacheBlockTags \in Seq(Pages)
  /\ gBlocksInCache \in Nat
  /\ gFreeBlockTags \in Nat
  /\ tagBuffers \in Nat
  /\ pc \in [Threads -> {"idle"} \cup GetPC \cup ReleasePC]
  /\ raw \in [Threads -> Pages \cup {Null}]
  /\ size \in [Threads -> 0 .. MaxBlockPages]
  /\ owned \subseteq Blocks
  /\ leaked \subseteq Nat
  /\ cut \subseteq Pages

\* No page is in two blocks: not in two blocks of clients, not in a block of a
\* client and one in the cache or in a call in progress, not in two cached ones.
\* This is what the locking in GetPages and ReleasePages is for.
NoPageTwice ==
  /\ \A o1, o2 \in owned : o1 # o2 => Run(o1[1], o1[2]) \cap Run(o2[1], o2[2]) = {}
  /\ \A o \in owned, t \in Threads :
       Holds(t) => Run(o[1], o[2]) \cap Run(raw[t], size[t]) = {}
  /\ \A t1, t2 \in Threads : t1 # t2 /\ Holds(t1) /\ Holds(t2) =>
       Run(raw[t1], size[t1]) \cap Run(raw[t2], size[t2]) = {}
  /\ \A i, j \in DOMAIN CacheSeq : i # j => Run(CacheSeq[i], 2) \cap Run(CacheSeq[j], 2) = {}
  /\ \A i \in DOMAIN CacheSeq, o \in owned : Run(CacheSeq[i], 2) \cap Run(o[1], o[2]) = {}
  /\ \A i \in DOMAIN CacheSeq, t \in Threads :
       Holds(t) => Run(CacheSeq[i], 2) \cap Run(raw[t], size[t]) = {}

\* The pages some block accounts for.
AccountedPages ==
  (UNION {Run(o[1], o[2]) : o \in owned})
    \cup (UNION {Run(raw[t], size[t]) : t \in {u \in Threads : Holds(u)}})
    \cup (UNION {Run(CacheSeq[i], 2) : i \in DOMAIN CacheSeq})

\* Exactly the accounted pages are mapped, and those known to be lost: ReleasePages loses
\* no page on any path (a cached block evicted, no tag for it, a full LIFO list) but where
\* munmap is refused or the block's length is given too small, and no block keeps a page
\* after munmap.  A lost page never comes into a block again.
NoPageLost ==
  /\ AccountedPages \cup leaked = {p \in Pages : prot[p] # "unmapped"}
  /\ AccountedPages \cap leaked = {}

\* The counter that decides when blocks are reused or evicted is the number of
\* blocks on the two lists.
CacheCountExact == gBlocksInCache = Len(gCacheBlockHead) + Len(gCacheBlockTags)

\* The FIFO list never exceeds max_cached_blocks.  The LIFO list can: its limit is
\* read without the lock, so every thread but the first can be one block late.
CacheBound ==
  gBlocksInCache <= MaxCachedBlocks +
                     (IF CheckAccessFreedBlock THEN 0 ELSE Cardinality(Threads) - 1)

\* Every page of a block in quarantine traps: that is how an access to freed memory
\* is found.  A block released with a page less than it has is the exception: the page its
\* new length puts last was a user page, and nobody protects it.
QuarantineTraps ==
  ~KernelRefuses => \A i \in DOMAIN gCacheBlockTags : gCacheBlockTags[i] \notin cut =>
    \A p \in Run(gCacheBlockTags[i], 2) : prot[p] = "dead"

\* ReleasePages writes the header of the block it is given, and GetPages reads the
\* headers the LIFO list is threaded through: those pages are accessible, even
\* when mprotect is refused now and then.
HeadersAccessible ==
  /\ \A t \in Threads : pc[t] \in {"ReleasePages", "Push"} => prot[UserPage(raw[t])] = "live"
  /\ \A i \in DOMAIN gCacheBlockHead : prot[UserPage(gCacheBlockHead[i])] = "live"

\* Tags are neither lost nor handed out twice.
TagsConserved == gFreeBlockTags + Len(gCacheBlockTags) = TagsPerBuffer * tagBuffers

\* A block leaves the quarantine only as the oldest one, and only when
\* max_cached_blocks blocks would stay behind or it is one of that many: the last
\* max_cached_blocks freed blocks can be checked (PatchManager.h, line 423).
QuarantineInOrder ==
  [][ \A i \in DOMAIN gCacheBlockTags :
        (\A j \in DOMAIN gCacheBlockTags' : gCacheBlockTags'[j] # gCacheBlockTags[i])
          => i = 1 /\ Len(gCacheBlockTags) >= MaxCachedBlocks ]_sysVars
===============================================================================
