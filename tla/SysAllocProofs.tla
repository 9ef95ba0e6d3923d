---------------------------- MODULE SysAllocProofs ----------------------------
(***************************************************************************)
(* Theorems about the page layer, for every set of threads, every address  *)
(* space and every setting of the allocator.                               *)
(***************************************************************************)
EXTENDS SysAlloc, TLAPS, FiniteSetTheorems, SequenceTheorems

-------------------------------------------------------------------------------
(* The inductive invariant *)

\* A call in progress has a size; between the entry and the point where pages are
\* obtained it has no block, and everywhere else but at the end of GetPages it has
\* one; the steps that go through the cache are for two-page blocks.
CallShape ==
  \A t \in Threads :
    /\ pc[t] # "idle" => size[t] \in 1 .. MaxBlockPages
    /\ pc[t] \in {"idle", "GetPages", "Mmap"} => raw[t] = Null
    /\ pc[t] \in ReleasePC \cup {"TraceLive", "TraceDead", "SetDead"} => raw[t] \in Pages
    /\ pc[t] \in (ReleasePC \ {"Munmap"}) \cup {"GetPages", "TraceLive", "TraceDead"} => size[t] = 2

\* Each of the two lists is used in one mode only.
ListMode ==
  /\ CheckAccessFreedBlock =>
       gCacheBlockHead = <<>> /\ \A t \in Threads : pc[t] \notin {"TestCount", "Push"}
  /\ ~CheckAccessFreedBlock =>
       gCacheBlockTags = <<>> /\ \A t \in Threads : pc[t] \notin {"Protect", "Enqueue"}

\* The threads that passed the test of the limit and have not pushed their block yet.
Pushing == {t \in Threads : pc[t] = "Push"}

\* The limit, counting the blocks that are about to be pushed.
LimitAhead ==
  /\ CheckAccessFreedBlock => gBlocksInCache <= MaxCachedBlocks
  /\ ~CheckAccessFreedBlock =>
       gBlocksInCache + Cardinality(Pushing) <= MaxCachedBlocks + Cardinality(Threads) - 1

CacheInv == SysTypeOK /\ CallShape /\ ListMode /\ CacheCountExact

-------------------------------------------------------------------------------
(* Type correctness, the modes of the lists and the counter *)

\* Queueing a block and taking the oldest one off leaves the length of the queue alone.
LEMMA Rotate ==
  ASSUME NEW S, NEW s \in Seq(S), NEW x \in S
  PROVE  /\ Head(Append(s, x)) \in S
         /\ Tail(Append(s, x)) \in Seq(S)
         /\ Len(Tail(Append(s, x))) = Len(s)
         /\ Head(Append(s, x)) = Append(s, x)[1]
         /\ \A i \in 1 .. Len(s) : Tail(Append(s, x))[i] = Append(s, x)[i + 1]
<1>1. /\ Append(s, x) \in Seq(S) /\ Append(s, x) # <<>>
      /\ Len(Append(s, x)) = Len(s) + 1 /\ Len(s) \in Nat
  BY AppendProperties
<1> QED
  BY <1>1, HeadTailProperties

LEMMA InitCacheInv == SysInit => CacheInv
BY SysAllocAssumption
DEF SysInit, CacheInv, SysTypeOK, CallShape, ListMode, CacheCountExact, GetPC, ReleasePC, Pages

LEMMA StepCacheInv == CacheInv /\ [SysNext]_sysVars => CacheInv'
<1> SUFFICES ASSUME CacheInv, [SysNext]_sysVars PROVE CacheInv'
  OBVIOUS
<1> USE SysAllocAssumption DEF CacheInv, SysTypeOK, CallShape, ListMode, CacheCountExact,
        GetPC, ReleasePC, Goto, SetPage, Refused
<1>0. CASE UNCHANGED sysVars
  BY <1>0 DEF sysVars, cacheVars, tagVars, callVars
<1>1. ASSUME NEW t \in Threads, NEW n \in 2 .. MaxBlockPages, EnterGetPages(t, n) PROVE CacheInv'
  BY <1>1 DEF EnterGetPages, Cacheable, cacheVars, tagVars
<1>2. ASSUME NEW t \in Threads, ReturnGetPages(t) PROVE CacheInv'
  BY <1>2 DEF ReturnGetPages, Blocks, cacheVars, tagVars
<1>3. ASSUME NEW t \in Threads, NEW o \in owned, NEW n \in ReleasedPages(o),
             EnterReleasePages(t, o, o[1], n)
      PROVE  CacheInv'
  <2>1. o[1] \in Pages /\ n \in 1 .. MaxBlockPages /\ Run(o[1], o[2]) \subseteq Nat
    BY DEF Blocks, ReleasedPages, Run, Pages
  <2>2. leaked' \subseteq Nat /\ cut' \subseteq Pages
    BY <1>3, <2>1 DEF EnterReleasePages
  <2>3. n = 2 => raw'[t] \in Pages
    BY <1>3, <2>1 DEF EnterReleasePages
  <2> QED
    BY <1>3, <2>1, <2>2 DEF EnterReleasePages, Cacheable, cacheVars, tagVars
<1>4. ASSUME NEW t \in Threads, ReuseOldest(t) PROVE CacheInv'
  <2>1. gCacheBlockHead = <<>> /\ Len(gCacheBlockTags) > 0
    BY <1>4 DEF ReuseOldest, QuarantineFull
  <2>2. /\ Head(gCacheBlockTags) \in Pages
        /\ Tail(gCacheBlockTags) \in Seq(Pages)
        /\ Len(Tail(gCacheBlockTags)) = Len(gCacheBlockTags) - 1
    BY <2>1
  <2>6. prot' \in [Pages -> {"unmapped", "live", "dead"}]
    BY <1>4 DEF ReuseOldest
  <2> HIDE DEF SetPage
  <2>3. SysTypeOK'
    BY <1>4, <2>1, <2>2, <2>6 DEF ReuseOldest, AfterCacheHit
  <2>4. CallShape'
    BY <1>4, <2>2 DEF ReuseOldest, AfterCacheHit
  <2>5. ListMode' /\ CacheCountExact'
    BY <1>4, <2>1, <2>2 DEF ReuseOldest, AfterCacheHit, QuarantineFull
  <2> QED
    BY <2>3, <2>4, <2>5
<1>5. ASSUME NEW t \in Threads, ReuseRefused(t) PROVE CacheInv'
  BY <1>5 DEF ReuseRefused, cacheVars, tagVars
<1>6. ASSUME NEW t \in Threads, ReuseLatest(t) PROVE CacheInv'
  BY <1>6 DEF ReuseLatest, AfterCacheHit, QuarantineFull, tagVars
<1>7. ASSUME NEW t \in Threads, CacheMiss(t) PROVE CacheInv'
  BY <1>7 DEF CacheMiss, cacheVars, tagVars
<1>8. ASSUME NEW t \in Threads, TraceLive(t) PROVE CacheInv'
  <2>1. prot' \in [Pages -> {"unmapped", "live", "dead"}]
    BY <1>8 DEF TraceLive, OpenDeadPage
  <2> HIDE DEF SetPage, Refused
  <2>2. SysTypeOK'
    BY <1>8, <2>1 DEF TraceLive, OpenDeadPage, cacheVars, tagVars
  <2>3. CallShape'
    BY <1>8 DEF TraceLive, OpenDeadPage, cacheVars, tagVars
  <2>4. ListMode' /\ CacheCountExact'
    BY <1>8 DEF TraceLive, OpenDeadPage, cacheVars, tagVars
  <2> QED
    BY <2>2, <2>3, <2>4
<1>9. ASSUME NEW t \in Threads, TraceDead(t) PROVE CacheInv'
  BY <1>9 DEF TraceDead, CloseDeadPage, cacheVars, tagVars
<1>10. ASSUME NEW t \in Threads, Mmap(t) PROVE CacheInv'
  <2>1. prot' \in [Pages -> {"unmapped", "live", "dead"}] /\ raw' \in [Threads -> Pages \cup {Null}]
    <3>1. ASSUME NEW b \in Pages,
                 prot' = [p \in Pages |-> IF p \in Run(b, size[t]) THEN "live" ELSE prot[p]],
                 raw' = [raw EXCEPT ![t] = b]
          PROVE  /\ prot' \in [Pages -> {"unmapped", "live", "dead"}]
                 /\ raw' \in [Threads -> Pages \cup {Null}]
      BY <3>1
    <3> QED
      BY <1>10, <3>1 DEF Mmap
  <2>2. SysTypeOK'
    BY <1>10, <2>1 DEF Mmap, cacheVars, tagVars
  <2>3. CallShape'
    BY <1>10 DEF Mmap, cacheVars, tagVars
  <2>4. ListMode' /\ CacheCountExact'
    <3>1. PICK l \in {"SetDead", "GotPages"} : pc' = [pc EXCEPT ![t] = l]
      BY <1>10 DEF Mmap
    <3>2. UNCHANGED <<gCacheBlockHead, gCacheBlockTags, gBlocksInCache>>
      BY <1>10 DEF Mmap, cacheVars
    <3> QED
      BY <3>1, <3>2
  <2> QED
    BY <2>2, <2>3, <2>4
<1>11. ASSUME NEW t \in Threads, SetDead(t) PROVE CacheInv'
  BY <1>11 DEF SetDead, CloseDeadPage, cacheVars, tagVars
<1>12. ASSUME NEW t \in Threads, InitHeader(t) PROVE CacheInv'
  BY <1>12 DEF InitHeader, AfterFreeTrace, cacheVars, tagVars
<1>13. ASSUME NEW t \in Threads, FreeTraceLive(t) PROVE CacheInv'
  <2>1. prot' \in [Pages -> {"unmapped", "live", "dead"}]
    BY <1>13 DEF FreeTraceLive, OpenDeadPage
  <2> HIDE DEF SetPage, Refused
  <2>2. SysTypeOK'
    BY <1>13, <2>1 DEF FreeTraceLive, OpenDeadPage, AfterFreeTrace, cacheVars, tagVars
  <2>3. CallShape'
    BY <1>13 DEF FreeTraceLive, OpenDeadPage, AfterFreeTrace, cacheVars, tagVars
  <2>4. ListMode' /\ CacheCountExact'
    BY <1>13 DEF FreeTraceLive, OpenDeadPage, AfterFreeTrace, cacheVars, tagVars
  <2> QED
    BY <2>2, <2>3, <2>4
<1>14. ASSUME NEW t \in Threads, FreeTraceDead(t) PROVE CacheInv'
  BY <1>14 DEF FreeTraceDead, CloseDeadPage, AfterFreeTrace, cacheVars, tagVars
<1>15. ASSUME NEW t \in Threads, Protect(t) PROVE CacheInv'
  BY <1>15 DEF Protect, cacheVars, tagVars
<1>16. ASSUME NEW t \in Threads, EnqueueKeep(t) PROVE CacheInv'
  BY <1>16 DEF EnqueueKeep, GetFreeBlockTag
<1>17. ASSUME NEW t \in Threads, EnqueueEvict(t) PROVE CacheInv'
  <2> DEFINE q == Append(gCacheBlockTags, raw[t])
  <2>1. raw[t] \in Pages
    BY <1>17 DEF EnqueueEvict
  <2>2. /\ Head(q) \in Pages
        /\ Tail(q) \in Seq(Pages)
        /\ Len(Tail(q)) = Len(gCacheBlockTags)
    BY <2>1, Rotate
  <2>3. /\ raw' = [raw EXCEPT ![t] = Head(q)]
        /\ gCacheBlockTags' = Tail(q)
        /\ pc[t] = "Enqueue"
        /\ pc' = [pc EXCEPT ![t] = "Munmap"]
        /\ gFreeBlockTags' \in Nat /\ tagBuffers' \in Nat
        /\ UNCHANGED <<prot, gCacheBlockHead, gBlocksInCache, size, owned, leaked, cut>>
    BY <1>17 DEF EnqueueEvict, tagVars
  <2> HIDE DEF q
  <2>4. SysTypeOK'
    BY <2>2, <2>3
  <2>5. CallShape'
    BY <2>2, <2>3
  <2>6. ListMode' /\ CacheCountExact'
    BY <2>2, <2>3
  <2> QED
    BY <2>4, <2>5, <2>6
<1>18. ASSUME NEW t \in Threads, EnqueueNoTag(t) PROVE CacheInv'
  BY <1>18 DEF EnqueueNoTag, cacheVars, tagVars
<1>19. ASSUME NEW t \in Threads, TestCount(t) PROVE CacheInv'
  BY <1>19 DEF TestCount, cacheVars, tagVars
<1>20. ASSUME NEW t \in Threads, Push(t) PROVE CacheInv'
  BY <1>20 DEF Push, tagVars
<1>21. ASSUME NEW t \in Threads, Munmap(t) PROVE CacheInv'
  <2>1. Run(raw[t], size[t]) \subseteq Nat
    BY <1>21 DEF Munmap, Run, Pages
  <2>2. leaked' \subseteq Nat /\ cut' \subseteq Pages
    BY <1>21, <2>1 DEF Munmap
  <2>3. prot' \in [Pages -> {"unmapped", "live", "dead"}]
    BY <1>21 DEF Munmap
  <2> HIDE DEF Refused
  <2> QED
    BY <1>21, <2>2, <2>3 DEF Munmap, cacheVars, tagVars
<1> QED
  BY <1>0, <1>1, <1>2, <1>3, <1>4, <1>5, <1>6, <1>7, <1>8, <1>9, <1>10, <1>11, <1>12, <1>13,
     <1>14, <1>15, <1>16, <1>17, <1>18, <1>19, <1>20, <1>21
  DEF SysNext, ClientStep, GetPagesStep, ReleasePagesStep

\* The page layer keeps its types.
THEOREM TypeCorrect == SysSpec => []SysTypeOK
<1>1. CacheInv => SysTypeOK
  BY DEF CacheInv
<1> QED
  BY <1>1, InitCacheInv, StepCacheInv, PTL DEF SysSpec

\* The counter kept beside the two lists is the number of blocks on them.
THEOREM CountCorrect == SysSpec => []CacheCountExact
<1>1. CacheInv => CacheCountExact
  BY DEF CacheInv
<1> QED
  BY <1>1, InitCacheInv, StepCacheInv, PTL DEF SysSpec

-------------------------------------------------------------------------------
(* The limit of the cache *)

LEMMA PushingFinite ==
  ASSUME NEW S \in SUBSET Threads
  PROVE  /\ IsFiniteSet(S)
         /\ Cardinality(S) \in Nat
         /\ Cardinality(Threads) \in Nat
         /\ Cardinality(S) <= Cardinality(Threads)
BY SysAllocAssumption, FS_Subset, FS_CardinalityType

LEMMA ThreadsNotEmpty == Cardinality(Threads) \in Nat /\ Cardinality(Threads) >= 1
<1>1. Cardinality(Threads) \in Nat /\ Cardinality(Threads) # 0
  BY SysAllocAssumption, FS_CardinalityType, FS_EmptySet
<1> QED
  BY <1>1

LEMMA InitLimitAhead == SysInit => LimitAhead
<1> SUFFICES ASSUME SysInit PROVE LimitAhead
  OBVIOUS
<1>1. Pushing = {}
  BY DEF Pushing, SysInit
<1>2. Cardinality(Pushing) = 0
  BY <1>1, FS_EmptySet
<1> QED
  BY <1>2, ThreadsNotEmpty, SysAllocAssumption DEF LimitAhead, SysInit

\* A step that neither tests the limit nor adds a block keeps LimitAhead.
LEMMA StepLimitAhead == CacheInv /\ LimitAhead /\ [SysNext]_sysVars => LimitAhead'
<1> SUFFICES ASSUME CacheInv, LimitAhead, [SysNext]_sysVars PROVE LimitAhead'
  OBVIOUS
<1> USE SysAllocAssumption DEF CacheInv, LimitAhead
<1>q. ASSUME Pushing' = Pushing, gBlocksInCache' \in Int, gBlocksInCache' <= gBlocksInCache
      PROVE  LimitAhead'
  <2>1. Cardinality(Pushing) \in Nat /\ Cardinality(Threads) \in Nat
    BY PushingFinite DEF Pushing
  <2> QED
    BY <1>q, <2>1 DEF SysTypeOK
<1>0. CASE UNCHANGED sysVars
  BY <1>0, <1>q DEF sysVars, cacheVars, callVars, Pushing, SysTypeOK
<1>1. ASSUME NEW t \in Threads, ClientStep(t) PROVE LimitAhead'
  <2>1. Pushing' = Pushing /\ gBlocksInCache' = gBlocksInCache
    BY <1>1 DEF ClientStep, EnterGetPages, ReturnGetPages, EnterReleasePages, Goto, cacheVars,
                Pushing, SysTypeOK, Cacheable
  <2> QED
    BY <2>1, <1>q DEF SysTypeOK
<1>2. ASSUME NEW t \in Threads, GetPagesStep(t) PROVE LimitAhead'
  <2>1. /\ gBlocksInCache' \in {gBlocksInCache, gBlocksInCache - 1}
        /\ \E l \in GetPC : pc[t] \in GetPC /\ pc' = [pc EXCEPT ![t] = l]
    BY <1>2 DEF GetPagesStep, ReuseOldest, ReuseRefused, ReuseLatest, CacheMiss, TraceLive, TraceDead,
                Mmap, SetDead, OpenDeadPage, CloseDeadPage, AfterCacheHit, Goto, cacheVars, GetPC
  <2>2. Pushing' = Pushing
    BY <2>1 DEF Pushing, GetPC, SysTypeOK
  <2> QED
    BY <2>1, <2>2, <1>q DEF SysTypeOK
<1>3. ASSUME NEW t \in Threads,
             \/ InitHeader(t) \/ FreeTraceLive(t) \/ FreeTraceDead(t) \/ Protect(t)
             \/ EnqueueEvict(t) \/ EnqueueNoTag(t) \/ Munmap(t)
      PROVE  LimitAhead'
  <2>1. /\ gBlocksInCache' = gBlocksInCache
        /\ \E l \in ({"idle"} \cup ReleasePC) \ {"Push"} : pc' = [pc EXCEPT ![t] = l]
        /\ pc[t] # "Push"
    BY <1>3 DEF InitHeader, FreeTraceLive, FreeTraceDead, Protect, EnqueueEvict, EnqueueNoTag, Munmap,
                OpenDeadPage, CloseDeadPage, AfterFreeTrace, Goto, cacheVars, ReleasePC
  <2>2. Pushing' = Pushing
    BY <2>1 DEF Pushing, SysTypeOK
  <2> QED
    BY <2>1, <2>2, <1>q DEF SysTypeOK
<1>4. ASSUME NEW t \in Threads, EnqueueKeep(t) PROVE LimitAhead'
  <2>1. CheckAccessFreedBlock
    BY <1>4 DEF EnqueueKeep, ListMode
  <2> QED
    BY <1>4, <2>1 DEF EnqueueKeep
\* The limit holds strictly when it is tested; at worst every thread is pushing then.
<1>5. ASSUME NEW t \in Threads, TestCount(t) PROVE LimitAhead'
  <2>1. ~CheckAccessFreedBlock /\ gBlocksInCache' = gBlocksInCache
    BY <1>5 DEF TestCount, ListMode, cacheVars
  <2>2. CASE gBlocksInCache < MaxCachedBlocks
    <3>1. Pushing' \in SUBSET Threads
      BY DEF Pushing
    <3> QED
      <4>1. /\ Cardinality(Pushing') \in Nat /\ Cardinality(Threads) \in Nat
            /\ Cardinality(Pushing') <= Cardinality(Threads)
        BY <3>1, PushingFinite
      <4> QED
        BY <2>1, <2>2, <4>1 DEF SysTypeOK
  <2>3. CASE ~(gBlocksInCache < MaxCachedBlocks)
    <3>1. Pushing' = Pushing
      BY <1>5, <2>3 DEF TestCount, Goto, Pushing, SysTypeOK
    <3> QED
      BY <2>1, <3>1
  <2> QED
    BY <2>2, <2>3
<1>6. ASSUME NEW t \in Threads, Push(t) PROVE LimitAhead'
  <2>1. ~CheckAccessFreedBlock /\ gBlocksInCache' = gBlocksInCache + 1
    BY <1>6 DEF Push, ListMode
  <2>2. t \in Pushing /\ Pushing' = Pushing \ {t}
    BY <1>6 DEF Push, Goto, Pushing, SysTypeOK
  <2>3. Cardinality(Pushing') = Cardinality(Pushing) - 1
    <3>1. IsFiniteSet(Pushing)
      BY PushingFinite DEF Pushing
    <3> QED
      BY <2>2, <3>1, FS_RemoveElement
  <2>4. Cardinality(Pushing) \in Nat /\ Cardinality(Threads) \in Nat
    BY PushingFinite DEF Pushing
  <2> QED
    BY <2>1, <2>3, <2>4 DEF SysTypeOK
<1> QED
  BY <1>0, <1>1, <1>2, <1>3, <1>4, <1>5, <1>6 DEF SysNext, ReleasePagesStep

\* The FIFO cache never holds more than max_cached_blocks blocks, and the LIFO cache at
\* most one more for every thread but one, however the unlocked test of ReleasePages
\* interleaves with the pushes.
THEOREM BoundCorrect == SysSpec => []CacheBound
<1>1. CacheInv /\ LimitAhead => CacheBound
  <2> SUFFICES ASSUME CacheInv, LimitAhead PROVE CacheBound
    OBVIOUS
  <2>1. Cardinality(Pushing) \in Nat /\ Cardinality(Threads) \in Nat
    BY PushingFinite DEF Pushing
  <2> QED
    BY <2>1, SysAllocAssumption DEF CacheInv, SysTypeOK, LimitAhead, CacheBound
<1> QED
  BY <1>1, InitCacheInv, StepCacheInv, InitLimitAhead, StepLimitAhead, PTL DEF SysSpec

-------------------------------------------------------------------------------
(* The tags of the quarantine *)

LEMMA OneMoreBuffer == ASSUME NEW m \in Nat, NEW n \in Nat PROVE m * (n + 1) = m * n + m /\ m * n \in Nat
OBVIOUS

\* A free tag is on the free list, a used one stands for a block in the quarantine:
\* none is lost or handed out twice.
THEOREM TagsCorrect == SysSpec => []TagsConserved
<1>1. SysInit => TagsConserved
  BY SysAllocAssumption DEF SysInit, TagsConserved
<1>2. CacheInv /\ TagsConserved /\ [SysNext]_sysVars => TagsConserved'
  <2> SUFFICES ASSUME CacheInv, TagsConserved, [SysNext]_sysVars PROVE TagsConserved'
    OBVIOUS
  <2> DEFINE had == TagsPerBuffer * tagBuffers
  <2>t. /\ had \in Nat /\ TagsPerBuffer * (tagBuffers + 1) = had + TagsPerBuffer
        /\ TagsPerBuffer \in Nat /\ gFreeBlockTags \in Nat /\ Len(gCacheBlockTags) \in Nat
        /\ gFreeBlockTags + Len(gCacheBlockTags) = had
    BY OneMoreBuffer, SysAllocAssumption DEF CacheInv, SysTypeOK, TagsConserved
  <2> USE DEF CacheInv
  <2>0. CASE UNCHANGED <<gCacheBlockTags, tagVars>>
    BY <2>0 DEF tagVars, TagsConserved
  <2>1. ASSUME NEW t \in Threads, ReuseOldest(t) PROVE TagsConserved'
    <3>1. gCacheBlockTags # <<>>
      BY <2>1, SysAllocAssumption DEF ReuseOldest, QuarantineFull, CacheCountExact, ListMode
    <3>2. Len(gCacheBlockTags') = Len(gCacheBlockTags) - 1
      BY <2>1, <3>1, HeadTailProperties DEF ReuseOldest, SysTypeOK
    <3>3. gFreeBlockTags' = gFreeBlockTags + 1 /\ tagBuffers' = tagBuffers
      BY <2>1 DEF ReuseOldest
    <3>4. TagsPerBuffer * tagBuffers' = had
      BY <3>3
    <3> HIDE DEF had
    <3> QED
      BY <3>2, <3>3, <3>4, <2>t DEF TagsConserved
  <2>2. ASSUME NEW t \in Threads, EnqueueKeep(t) PROVE TagsConserved'
    <3>1. Len(gCacheBlockTags') = Len(gCacheBlockTags) + 1
      BY <2>2, AppendProperties DEF EnqueueKeep, SysTypeOK, CallShape, ReleasePC
    <3>2. \/ gFreeBlockTags' = gFreeBlockTags - 1 /\ tagBuffers' = tagBuffers
          \/ /\ gFreeBlockTags = 0 /\ gFreeBlockTags' = TagsPerBuffer - 1
             /\ tagBuffers' = tagBuffers + 1
      BY <2>2 DEF EnqueueKeep, GetFreeBlockTag
    <3>3. TagsPerBuffer * tagBuffers' = IF tagBuffers' = tagBuffers THEN had ELSE had + TagsPerBuffer
      BY <3>2, <2>t
    <3>4. tagBuffers \in Nat
      BY DEF SysTypeOK
    <3> HIDE DEF had
    <3> QED
      BY <3>1, <3>2, <3>3, <3>4, <2>t DEF TagsConserved
  <2>3. ASSUME NEW t \in Threads, EnqueueEvict(t) PROVE TagsConserved'
    <3>1. raw[t] \in Pages
      BY <2>3 DEF EnqueueEvict, CallShape, ReleasePC
    <3>2. Len(gCacheBlockTags') = Len(gCacheBlockTags)
      BY <2>3, <3>1, Rotate DEF EnqueueEvict, SysTypeOK
    <3>3. \/ gFreeBlockTags' = gFreeBlockTags /\ tagBuffers' = tagBuffers
          \/ /\ gFreeBlockTags = 0 /\ gFreeBlockTags' = TagsPerBuffer
             /\ tagBuffers' = tagBuffers + 1
      BY <2>3 DEF EnqueueEvict, tagVars
    <3>4. TagsPerBuffer * tagBuffers' = IF tagBuffers' = tagBuffers THEN had ELSE had + TagsPerBuffer
      BY <3>3, <2>t
    <3>5. tagBuffers \in Nat
      BY DEF SysTypeOK
    <3> HIDE DEF had
    <3> QED
      BY <3>2, <3>3, <3>4, <3>5, <2>t DEF TagsConserved
  <2> QED
    BY <2>0, <2>1, <2>2, <2>3
    DEF SysNext, ClientStep, GetPagesStep, ReleasePagesStep, sysVars, cacheVars, tagVars,
        EnterGetPages, ReturnGetPages, EnterReleasePages, ReuseRefused, ReuseLatest, CacheMiss,
        TraceLive, TraceDead, Mmap, SetDead, OpenDeadPage, CloseDeadPage, InitHeader, FreeTraceLive,
        FreeTraceDead, Protect, EnqueueNoTag, TestCount, Push, Munmap
<1> QED
  BY <1>1, <1>2, InitCacheInv, StepCacheInv, PTL DEF SysSpec

-------------------------------------------------------------------------------
(* No page is in two places *)

Mapped(b, n) == \A p \in Run(b, n) : p \in Pages /\ prot[p] # "unmapped"

\* Every block somebody accounts for lies in mapped pages, so that fresh pages are
\* never among them.
Placed ==
  /\ \A o \in owned : Mapped(o[1], o[2])
  /\ \A t \in Threads : Holds(t) => Mapped(raw[t], size[t])
  /\ \A i \in DOMAIN CacheSeq : Mapped(CacheSeq[i], 2)

PageInv == CacheInv /\ NoPageTwice /\ Placed

\* Page p is in a block somebody accounts for.
Had(p) ==
  \/ \E o \in owned : p \in Run(o[1], o[2])
  \/ \E t \in Threads : Holds(t) /\ p \in Run(raw[t], size[t])
  \/ \E i \in DOMAIN CacheSeq : p \in Run(CacheSeq[i], 2)

\* A step finds the pages it takes into blocks in blocks, or unmapped.
HadBefore == \A p : Had(p)' => Had(p) \/ (p \in Pages /\ prot[p] = "unmapped")

\* In either mode the cache is the one list in use.
LEMMA CacheIsOneList ==
  ASSUME CacheInv
  PROVE  /\ CacheSeq \in Seq(Pages)
         /\ CheckAccessFreedBlock => CacheSeq = gCacheBlockTags
         /\ ~CheckAccessFreedBlock => CacheSeq = gCacheBlockHead
<1>1. gCacheBlockHead \in Seq(Pages) /\ gCacheBlockTags \in Seq(Pages)
  BY DEF CacheInv, SysTypeOK
<1>2. CheckAccessFreedBlock => CacheSeq = gCacheBlockTags
  BY <1>1, ConcatEmptySeq DEF CacheInv, ListMode, CacheSeq
<1>3. ~CheckAccessFreedBlock => CacheSeq = gCacheBlockHead
  BY <1>1, ConcatEmptySeq DEF CacheInv, ListMode, CacheSeq
<1> QED
  BY <1>1, <1>2, <1>3

LEMMA InitPageInv == SysInit => PageInv
<1> SUFFICES ASSUME SysInit PROVE PageInv
  OBVIOUS
<1>1. CacheInv
  BY InitCacheInv
<1>2. CacheSeq = <<>>
  BY <1>1, CacheIsOneList DEF SysInit
<1>3. owned = {} /\ \A t \in Threads : ~Holds(t)
  BY DEF SysInit, Holds, GetPC, ReleasePC
<1> QED
  BY <1>1, <1>2, <1>3 DEF PageInv, NoPageTwice, Placed

\* A step that moves no block and unmaps no page.
LEMMA NothingMoves ==
  ASSUME NoPageTwice, Placed, owned' = owned, CacheSeq' = CacheSeq,
         \A t \in Threads : Holds(t)' => Holds(t) /\ raw'[t] = raw[t] /\ size'[t] = size[t],
         \A p \in Pages : prot[p] # "unmapped" => prot'[p] # "unmapped"
  PROVE  NoPageTwice' /\ Placed' /\ HadBefore
<1>1. NoPageTwice'
  BY DEF NoPageTwice, Run
<1>2. Placed'
  BY DEF Placed, Mapped, Run
<1>3. HadBefore
  BY DEF HadBefore, Had, Run
<1> QED
  BY <1>1, <1>2, <1>3

\* A step that hands the block of thread t over to the client or the other way round.
LEMMA BlockReturned ==
  ASSUME NoPageTwice, Placed, NEW t \in Threads, Holds(t),
         owned' = owned \cup {<<raw[t], size[t]>>}, ~Holds(t)', CacheSeq' = CacheSeq, prot' = prot,
         \A u \in Threads \ {t} : Holds(u)' => Holds(u) /\ raw'[u] = raw[u] /\ size'[u] = size[u]
  PROVE  NoPageTwice' /\ Placed' /\ HadBefore
<1>1. NoPageTwice'
  BY DEF NoPageTwice, Run
<1>2. Placed'
  BY DEF Placed, Mapped, Run
<1>3. HadBefore
  BY DEF HadBefore, Had, Run
<1> QED
  BY <1>1, <1>2, <1>3

LEMMA BlockGivenUp ==
  ASSUME NoPageTwice, Placed, NEW t \in Threads, ~Holds(t), NEW o \in owned, NEW n \in ReleasedPages(o),
         o[2] \in Nat, o[1] \in Nat,
         owned' = owned \ {o}, raw'[t] = o[1], size'[t] = n, CacheSeq' = CacheSeq, prot' = prot,
         \A u \in Threads \ {t} : Holds(u)' => Holds(u) /\ raw'[u] = raw[u] /\ size'[u] = size[u]
  PROVE  NoPageTwice' /\ Placed' /\ HadBefore
<1>0. Run(raw'[t], size'[t]) \subseteq Run(o[1], o[2])
  BY DEF Run, ReleasedPages
<1> DEFINE F == Run(raw'[t], size'[t])
<1>1. NoPageTwice'
  <2>1. /\ \A q \in owned' : F \cap Run(q[1], q[2]) = {}
        /\ \A u \in Threads \ {t} : Holds(u) => F \cap Run(raw[u], size[u]) = {}
        /\ \A i \in DOMAIN CacheSeq : F \cap Run(CacheSeq[i], 2) = {}
    BY <1>0 DEF NoPageTwice
  <2> QED
    BY <2>1 DEF NoPageTwice, Run
<1>2. Placed'
  BY <1>0 DEF Placed, Mapped, Run
<1>3. HadBefore
  BY <1>0 DEF HadBefore, Had, Run
<1> QED
  BY <1>1, <1>2, <1>3

\* A step that takes the first block off the cache.
LEMMA BlockReused ==
  ASSUME NoPageTwice, Placed, CacheSeq \in Seq(Pages), CacheSeq # <<>>,
         NEW t \in Threads, ~Holds(t), owned' = owned,
         CacheSeq' = Tail(CacheSeq), raw'[t] = Head(CacheSeq), size'[t] = 2,
         \A u \in Threads \ {t} : Holds(u)' => Holds(u) /\ raw'[u] = raw[u] /\ size'[u] = size[u],
         \A p \in Pages : prot[p] # "unmapped" => prot'[p] # "unmapped"
  PROVE  NoPageTwice' /\ Placed' /\ HadBefore
<1> DEFINE s == CacheSeq
           r == CacheSeq'
<1>1. /\ Len(s) \in Nat /\ Len(s) >= 1 /\ DOMAIN s = 1 .. Len(s)
      /\ DOMAIN r = 1 .. (Len(s) - 1)
      /\ \A i \in DOMAIN r : i + 1 \in DOMAIN s /\ r[i] = s[i + 1]
      /\ 1 \in DOMAIN s /\ raw'[t] = s[1]
  BY HeadTailProperties
<1> HIDE DEF s, r
<1>2. NoPageTwice'
  BY <1>1 DEF NoPageTwice, Run, s, r
<1>3. Placed'
  BY <1>1 DEF Placed, Mapped, Run, s, r
<1>4. HadBefore
  BY <1>1 DEF HadBefore, Had, Run, s, r
<1> QED
  BY <1>2, <1>3, <1>4

\* A step that puts the block of thread t into the cache, at either end.
LEMMA BlockCached ==
  ASSUME NoPageTwice, Placed, CacheSeq \in Seq(Pages),
         NEW t \in Threads, Holds(t), raw[t] \in Pages, size[t] = 2, ~Holds(t)',
         owned' = owned, prot' = prot,
         CacheSeq' \in {Append(CacheSeq, raw[t]), <<raw[t]>> \o CacheSeq},
         \A u \in Threads \ {t} : Holds(u)' => Holds(u) /\ raw'[u] = raw[u] /\ size'[u] = size[u]
  PROVE  NoPageTwice' /\ Placed' /\ HadBefore
<1> DEFINE s == CacheSeq
           r == CacheSeq'
           x == raw[t]
\* Every place of the new list holds the block of t or a place of the old list.
<1>1. PICK new \in DOMAIN r, old \in [DOMAIN r -> Int] :
        /\ r[new] = x
        /\ \A i \in DOMAIN r \ {new} : old[i] \in DOMAIN s /\ r[i] = s[old[i]]
        /\ \A i, j \in DOMAIN r \ {new} : i # j => old[i] # old[j]
  <2>0. Len(s) \in Nat /\ DOMAIN s = 1 .. Len(s)
    OBVIOUS
  <2>1. CASE r = Append(s, x)
    <3>1. /\ DOMAIN r = 1 .. (Len(s) + 1)
          /\ \A i \in 1 .. Len(s) : r[i] = s[i]
          /\ r[Len(s) + 1] = x
      BY <2>0, <2>1, AppendProperties
    <3>2. [i \in DOMAIN r |-> i] \in [DOMAIN r -> Int]
      BY <3>1
    <3>3. Len(s) + 1 \in DOMAIN r
      BY <2>0, <3>1
    <3> HIDE DEF s, r, x
    <3> WITNESS Len(s) + 1 \in DOMAIN r, [i \in DOMAIN r |-> i] \in [DOMAIN r -> Int]
    <3> QED
      BY <2>0, <3>1
  <2>2. CASE r = <<x>> \o s
    <3>1. /\ DOMAIN r = 1 .. (Len(s) + 1)
          /\ \A i \in 2 .. (Len(s) + 1) : r[i] = s[i - 1]
          /\ r[1] = x
      BY <2>0, <2>2
    <3>2. [i \in DOMAIN r |-> i - 1] \in [DOMAIN r -> Int]
      BY <3>1
    <3>3. 1 \in DOMAIN r
      BY <2>0, <3>1
    <3> HIDE DEF s, r, x
    <3> WITNESS 1 \in DOMAIN r, [i \in DOMAIN r |-> i - 1] \in [DOMAIN r -> Int]
    <3> QED
      BY <2>0, <3>1
  <2> QED
    BY <2>1, <2>2
<1> HIDE DEF s, r, x
<1>2. NoPageTwice'
  <2>1. \A o \in owned : Run(x, 2) \cap Run(o[1], o[2]) = {}
    BY DEF NoPageTwice, x
  <2>2. \A u \in Threads \ {t} : Holds(u) => Run(x, 2) \cap Run(raw[u], size[u]) = {}
    BY DEF NoPageTwice, x
  <2>3. \A i \in DOMAIN s : Run(x, 2) \cap Run(s[i], 2) = {}
    BY DEF NoPageTwice, x, s
  <2>4. \A i \in DOMAIN r, o \in owned : Run(r[i], 2) \cap Run(o[1], o[2]) = {}
    BY <1>1, <2>1 DEF NoPageTwice, s
  <2>5. \A i \in DOMAIN r, u \in Threads : Holds(u)' => Run(r[i], 2) \cap Run(raw'[u], size'[u]) = {}
    BY <1>1, <2>2 DEF NoPageTwice, s
  <2>6. \A i, j \in DOMAIN r : i # j => Run(r[i], 2) \cap Run(r[j], 2) = {}
    <3>1. \A i, j \in DOMAIN r \ {new} : i # j => Run(r[i], 2) \cap Run(r[j], 2) = {}
      BY <1>1 DEF NoPageTwice, s
    <3>2. \A i \in DOMAIN r \ {new} : Run(r[i], 2) \cap Run(x, 2) = {}
      BY <1>1, <2>3
    <3> QED
      BY <1>1, <3>1, <3>2
  <2> QED
    BY <2>4, <2>5, <2>6 DEF NoPageTwice, Run, r
<1>3. Placed'
  <2>1. Mapped(x, 2) /\ \A i \in DOMAIN s : Mapped(s[i], 2)
    BY DEF Placed, s, x
  <2>2. ASSUME NEW i \in DOMAIN r PROVE Mapped(r[i], 2)
    <3>1. CASE i = new
      BY <3>1, <1>1, <2>1
    <3>2. CASE i # new
      <4>1. old[i] \in DOMAIN s /\ r[i] = s[old[i]]
        BY <3>2, <1>1
      <4> QED
        BY <4>1, <2>1
    <3> QED
      BY <3>1, <3>2
  <2>3. \A i \in DOMAIN r : \A p \in Run(r[i], 2) : p \in Pages /\ prot'[p] # "unmapped"
    BY <2>2 DEF Mapped
  <2>4. \A o \in owned' : Mapped(o[1], o[2])'
    BY DEF Placed, Mapped, Run
  <2>5. ASSUME NEW u \in Threads, Holds(u)' PROVE Mapped(raw[u], size[u])'
    <3>1. Holds(u) /\ raw'[u] = raw[u] /\ size'[u] = size[u]
      BY <2>5
    <3>2. Mapped(raw[u], size[u])
      BY <3>1 DEF Placed
    <3> QED
      BY <3>1, <3>2 DEF Mapped, Run
  <2>6. \A i \in DOMAIN CacheSeq' : Mapped(CacheSeq[i], 2)'
    BY <2>3 DEF Mapped, Run, r
  <2> QED
    BY <2>4, <2>5, <2>6 DEF Placed
<1>4. HadBefore
  <2>1. \A i \in DOMAIN r : r[i] = x \/ \E j \in DOMAIN s : r[i] = s[j]
    BY <1>1
  <2> QED
    BY <2>1 DEF HadBefore, Had, Run, s, r, x
<1> QED
  BY <1>2, <1>3, <1>4

\* A step that queues the block of thread t and gives it the oldest one instead.
LEMMA BlockEvicted ==
  ASSUME NoPageTwice, Placed, CacheSeq \in Seq(Pages),
         NEW t \in Threads, Holds(t), raw[t] \in Pages, size[t] = 2, size'[t] = 2,
         owned' = owned, prot' = prot,
         CacheSeq' = Tail(Append(CacheSeq, raw[t])), raw'[t] = Head(Append(CacheSeq, raw[t])),
         \A u \in Threads \ {t} : Holds(u)' => Holds(u) /\ raw'[u] = raw[u] /\ size'[u] = size[u]
  PROVE  NoPageTwice' /\ Placed' /\ HadBefore
<1> DEFINE s == CacheSeq
           q == Append(CacheSeq, raw[t])
           r == CacheSeq'
<1>1. /\ Len(s) \in Nat /\ DOMAIN s = 1 .. Len(s) /\ DOMAIN r = 1 .. Len(s)
      /\ \A i \in DOMAIN s : q[i] = s[i]
      /\ q[Len(s) + 1] = raw[t]
      /\ \A i \in DOMAIN r : r[i] = q[i + 1]
      /\ raw'[t] = q[1]
  BY Rotate, AppendProperties
<1> HIDE DEF s, q, r
<1> DEFINE K == 1 .. (Len(s) + 1)
<1>k. /\ \A i \in K : (i \in DOMAIN s /\ q[i] = s[i]) \/ (i = Len(s) + 1 /\ q[i] = raw[t])
      /\ 1 \in K /\ \A i \in DOMAIN r : i + 1 \in K /\ i + 1 # 1
      /\ \A i, j \in DOMAIN r : i # j => i + 1 # j + 1
  BY <1>1
<1> HIDE DEF K
\* Before the step, the places of q held blocks that were apart.
<1>q. /\ \A i \in K, o \in owned : Run(q[i], 2) \cap Run(o[1], o[2]) = {}
      /\ \A i \in K, u \in Threads \ {t} : Holds(u) => Run(q[i], 2) \cap Run(raw[u], size[u]) = {}
      /\ \A i, j \in K : i # j => Run(q[i], 2) \cap Run(q[j], 2) = {}
  <2>1. /\ \A o \in owned : Run(raw[t], 2) \cap Run(o[1], o[2]) = {}
        /\ \A u \in Threads \ {t} : Holds(u) => Run(raw[t], 2) \cap Run(raw[u], size[u]) = {}
        /\ \A i \in DOMAIN s : Run(s[i], 2) \cap Run(raw[t], 2) = {}
    BY DEF NoPageTwice, s
  <2>2. \A i \in DOMAIN s : Run(raw[t], 2) \cap Run(s[i], 2) = {}
    BY <2>1
  <2>3. /\ \A i \in DOMAIN s, o \in owned : Run(s[i], 2) \cap Run(o[1], o[2]) = {}
        /\ \A i \in DOMAIN s, u \in Threads : Holds(u) => Run(s[i], 2) \cap Run(raw[u], size[u]) = {}
        /\ \A i, j \in DOMAIN s : i # j => Run(s[i], 2) \cap Run(s[j], 2) = {}
    BY DEF NoPageTwice, s
  <2>4. \A i \in K, o \in owned : Run(q[i], 2) \cap Run(o[1], o[2]) = {}
    BY <1>k, <2>1, <2>3
  <2>5. \A i \in K, u \in Threads \ {t} : Holds(u) => Run(q[i], 2) \cap Run(raw[u], size[u]) = {}
    BY <1>k, <2>1, <2>3
  <2>6. \A i, j \in K : i # j => Run(q[i], 2) \cap Run(q[j], 2) = {}
    <3> SUFFICES ASSUME NEW i \in K, NEW j \in K, i # j PROVE Run(q[i], 2) \cap Run(q[j], 2) = {}
      OBVIOUS
    <3>1. CASE i \in DOMAIN s /\ q[i] = s[i] /\ j \in DOMAIN s /\ q[j] = s[j]
      BY <3>1, <2>3
    <3>2. CASE i \in DOMAIN s /\ q[i] = s[i] /\ q[j] = raw[t]
      BY <3>2, <2>1
    <3>3. CASE q[i] = raw[t] /\ j \in DOMAIN s /\ q[j] = s[j]
      BY <3>3, <2>2
    <3> QED
      BY <3>1, <3>2, <3>3, <1>k
  <2> QED
    BY <2>4, <2>5, <2>6
<1>2. NoPageTwice'
  <2>1. \A i \in DOMAIN r, o \in owned : Run(r[i], 2) \cap Run(o[1], o[2]) = {}
    BY <1>1, <1>k, <1>q
  <2>2. \A i \in DOMAIN r : Run(r[i], 2) \cap Run(raw'[t], size'[t]) = {}
    BY <1>1, <1>k, <1>q
  <2>3. \A i \in DOMAIN r, u \in Threads \ {t} :
          Holds(u)' => Run(r[i], 2) \cap Run(raw'[u], size'[u]) = {}
    BY <1>1, <1>k, <1>q
  <2>4. ASSUME NEW i \in DOMAIN r, NEW j \in DOMAIN r, i # j PROVE Run(r[i], 2) \cap Run(r[j], 2) = {}
    <3>1. i + 1 \in K /\ j + 1 \in K /\ i + 1 # j + 1
      BY <1>k, <2>4
    <3>2. Run(q[i + 1], 2) \cap Run(q[j + 1], 2) = {}
      BY <3>1, <1>q
    <3> QED
      BY <1>1, <3>2
  <2>5. \A o \in owned : Run(raw'[t], size'[t]) \cap Run(o[1], o[2]) = {}
    BY <1>1, <1>k, <1>q
  <2>6. \A u \in Threads \ {t} : Holds(u)' => Run(raw'[t], size'[t]) \cap Run(raw'[u], size'[u]) = {}
    BY <1>1, <1>k, <1>q
  <2> QED
    BY <2>1, <2>2, <2>3, <2>4, <2>5, <2>6 DEF NoPageTwice, Run, r
<1>3. Placed'
  BY <1>1 DEF Placed, Mapped, Run, s, r
<1>4. HadBefore
  <2>1. \A i \in K : q[i] = raw[t] \/ \E j \in DOMAIN s : q[i] = s[j]
    BY <1>k
  <2>2. /\ \A i \in DOMAIN r : \E k \in K : r[i] = q[k]
        /\ \E k \in K : raw'[t] = q[k]
    BY <1>1, <1>k
  <2> QED
    BY <2>1, <2>2 DEF HadBefore, Had, Run, s, r
<1> QED
  BY <1>2, <1>3, <1>4

\* A step that maps a run of pages nobody had for thread t.
LEMMA BlockMapped ==
  ASSUME NoPageTwice, Placed, NEW t \in Threads, ~Holds(t), size[t] \in 1 .. MaxBlockPages,
         \A p \in Run(raw'[t], size[t]) : p \in Pages /\ prot[p] = "unmapped",
         \A p \in Pages : prot[p] # "unmapped" => prot'[p] # "unmapped",
         \A p \in Run(raw'[t], size[t]) : prot'[p] # "unmapped",
         owned' = owned, size' = size, CacheSeq' = CacheSeq,
         \A u \in Threads \ {t} : Holds(u)' => Holds(u) /\ raw'[u] = raw[u]
  PROVE  NoPageTwice' /\ Placed' /\ HadBefore
<1> DEFINE F == Run(raw'[t], size[t])
<1>1. /\ \A o \in owned : F \cap Run(o[1], o[2]) = {}
      /\ \A u \in Threads : Holds(u) => F \cap Run(raw[u], size[u]) = {}
      /\ \A i \in DOMAIN CacheSeq : F \cap Run(CacheSeq[i], 2) = {}
  BY DEF Placed, Mapped
<1>2. NoPageTwice'
  BY <1>1 DEF NoPageTwice, Run
<1>3. Placed'
  BY DEF Placed, Mapped, Run
<1>4. HadBefore
  BY DEF HadBefore, Had, Run
<1> QED
  BY <1>2, <1>3, <1>4

\* A step that unmaps the block of thread t.
LEMMA BlockUnmapped ==
  ASSUME NoPageTwice, Placed, NEW t \in Threads, Holds(t), ~Holds(t)',
         \A p \in Pages \ Run(raw[t], size[t]) : prot'[p] = prot[p],
         owned' = owned, CacheSeq' = CacheSeq,
         \A u \in Threads \ {t} : Holds(u)' => Holds(u) /\ raw'[u] = raw[u] /\ size'[u] = size[u]
  PROVE  NoPageTwice' /\ Placed' /\ HadBefore
<1>1. NoPageTwice'
  BY DEF NoPageTwice, Run
<1> DEFINE F == Run(raw[t], size[t])
<1>2. /\ \A o \in owned : F \cap Run(o[1], o[2]) = {}
      /\ \A u \in Threads \ {t} : Holds(u) => F \cap Run(raw[u], size[u]) = {}
      /\ \A i \in DOMAIN CacheSeq : F \cap Run(CacheSeq[i], 2) = {}
  BY DEF NoPageTwice
<1>3. Placed'
  BY <1>2 DEF Placed, Mapped, Run
<1>4. HadBefore
  BY DEF HadBefore, Had, Run
<1> QED
  BY <1>1, <1>3, <1>4

LEMMA StepPages == PageInv /\ [SysNext]_sysVars => NoPageTwice' /\ Placed' /\ HadBefore
<1> SUFFICES ASSUME PageInv, [SysNext]_sysVars PROVE NoPageTwice' /\ Placed' /\ HadBefore
  OBVIOUS
<1>c. CacheInv /\ CacheInv' /\ NoPageTwice /\ Placed
  BY StepCacheInv DEF PageInv
<1>s. /\ CacheSeq \in Seq(Pages)
      /\ CheckAccessFreedBlock => CacheSeq = gCacheBlockTags /\ CacheSeq' = gCacheBlockTags'
      /\ ~CheckAccessFreedBlock => CacheSeq = gCacheBlockHead /\ CacheSeq' = gCacheBlockHead'
  <2>1. /\ CacheSeq \in Seq(Pages)
        /\ CheckAccessFreedBlock => CacheSeq = gCacheBlockTags
        /\ ~CheckAccessFreedBlock => CacheSeq = gCacheBlockHead
    BY <1>c, CacheIsOneList
  <2>2. gCacheBlockHead' \in Seq(Pages) /\ gCacheBlockTags' \in Seq(Pages)
    BY <1>c DEF CacheInv, SysTypeOK
  <2>3. CheckAccessFreedBlock => CacheSeq' = gCacheBlockTags'
    BY <1>c, <2>2, ConcatEmptySeq DEF CacheInv, ListMode, CacheSeq
  <2>4. ~CheckAccessFreedBlock => CacheSeq' = gCacheBlockHead'
    BY <1>c, <2>2, ConcatEmptySeq DEF CacheInv, ListMode, CacheSeq
  <2> QED
    BY <2>1, <2>3, <2>4
<1>t. /\ pc \in [Threads -> {"idle"} \cup GetPC \cup ReleasePC]
      /\ raw \in [Threads -> Pages \cup {Null}]
      /\ size \in [Threads -> 0 .. MaxBlockPages]
      /\ prot \in [Pages -> {"unmapped", "live", "dead"}]
      /\ owned \subseteq Blocks
      /\ Null \notin Pages
  BY <1>c, SysAllocAssumption DEF CacheInv, SysTypeOK, Pages
\* The steps that move no block.
<1>1. ASSUME NEW t \in Threads,
             \/ \E n \in 2 .. MaxBlockPages : EnterGetPages(t, n)
             \/ ReuseRefused(t) \/ CacheMiss(t) \/ TraceLive(t) \/ TraceDead(t) \/ SetDead(t)
             \/ InitHeader(t) \/ FreeTraceLive(t) \/ FreeTraceDead(t) \/ Protect(t)
             \/ EnqueueNoTag(t) \/ TestCount(t)
      PROVE  NoPageTwice' /\ Placed' /\ HadBefore
  <2>1. owned' = owned /\ UNCHANGED cacheVars
    BY <1>1 DEF EnterGetPages, ReuseRefused, CacheMiss, TraceLive, TraceDead, SetDead, InitHeader,
                FreeTraceLive, FreeTraceDead, Protect, EnqueueNoTag, TestCount, OpenDeadPage, CloseDeadPage
  <2>2. \A p \in Pages : prot[p] # "unmapped" => prot'[p] # "unmapped"
    BY <1>1, <1>t
    DEF EnterGetPages, ReuseRefused, CacheMiss, TraceLive, TraceDead, SetDead, InitHeader, FreeTraceLive,
        FreeTraceDead, Protect, EnqueueNoTag, TestCount, OpenDeadPage, CloseDeadPage, SetPage, Refused
  <2>3. \A u \in Threads : Holds(u)' => Holds(u) /\ raw'[u] = raw[u] /\ size'[u] = size[u]
    <3>1. CASE \E n \in 2 .. MaxBlockPages : EnterGetPages(t, n)
      BY <3>1, <1>t DEF EnterGetPages, Goto, Holds
    <3>2. CASE ~\E n \in 2 .. MaxBlockPages : EnterGetPages(t, n)
      <4>1. /\ raw' = raw /\ size' = size
            /\ pc[t] \in GetPC \cup ReleasePC
            /\ \E l \in GetPC \cup ReleasePC : pc' = [pc EXCEPT ![t] = l]
        BY <1>1, <3>2
        DEF ReuseRefused, CacheMiss, TraceLive, TraceDead, SetDead, InitHeader, FreeTraceLive, FreeTraceDead,
            Protect, EnqueueNoTag, TestCount, OpenDeadPage, CloseDeadPage, Goto, AfterFreeTrace, GetPC, ReleasePC
      <4> QED
        BY <4>1, <1>t DEF Holds
    <3> QED
      BY <3>1, <3>2
  <2>4. CacheSeq' = CacheSeq
    BY <2>1 DEF CacheSeq, cacheVars
  <2> QED
    BY <2>1, <2>2, <2>3, <2>4, <1>c, NothingMoves
<1>0. CASE UNCHANGED sysVars
  <2>1. /\ owned' = owned /\ CacheSeq' = CacheSeq /\ prot' = prot
        /\ \A u \in Threads : Holds(u)' => Holds(u) /\ raw'[u] = raw[u] /\ size'[u] = size[u]
    BY <1>0 DEF sysVars, cacheVars, callVars, CacheSeq, Holds
  <2> QED
    BY <2>1, <1>c, NothingMoves
\* Only thread t's part of the call changes.
<1>f. ASSUME NEW t \in Threads, NEW l, NEW b, NEW n, pc' = [pc EXCEPT ![t] = l],
             raw' = [raw EXCEPT ![t] = b], size' = [size EXCEPT ![t] = n]
      PROVE  /\ \A u \in Threads \ {t} : Holds(u)' => Holds(u) /\ raw'[u] = raw[u] /\ size'[u] = size[u]
             /\ pc'[t] = l /\ raw'[t] = b /\ size'[t] = n
             /\ b = Null => ~Holds(t)'
  BY <1>f, <1>t DEF Holds
<1>2. ASSUME NEW t \in Threads, ReturnGetPages(t) PROVE NoPageTwice' /\ Placed' /\ HadBefore
  <2>1. /\ ~Holds(t)' /\ prot' = prot /\ CacheSeq' = CacheSeq
        /\ \A u \in Threads \ {t} : Holds(u)' => Holds(u) /\ raw'[u] = raw[u] /\ size'[u] = size[u]
    BY <1>2, <1>f DEF ReturnGetPages, Goto, CacheSeq, cacheVars
  <2>2. CASE raw[t] = Null
    <3>1. owned' = owned /\ \A u \in Threads : Holds(u)' => Holds(u) /\ raw'[u] = raw[u] /\ size'[u] = size[u]
      BY <1>2, <2>1, <2>2 DEF ReturnGetPages
    <3> QED
      BY <2>1, <3>1, <1>c, NothingMoves
  <2>3. CASE raw[t] # Null
    <3>1. Holds(t) /\ owned' = owned \cup {<<raw[t], size[t]>>}
      BY <1>2, <2>3 DEF ReturnGetPages, Holds, GetPC
    <3> QED
      BY <2>1, <3>1, <1>c, BlockReturned
  <2> QED
    BY <2>2, <2>3
<1>3. ASSUME NEW t \in Threads, NEW o \in owned, NEW n \in ReleasedPages(o),
             EnterReleasePages(t, o, o[1], n)
      PROVE  NoPageTwice' /\ Placed' /\ HadBefore
  <2>1. ~Holds(t) /\ owned' = owned \ {o} /\ prot' = prot /\ CacheSeq' = CacheSeq
    BY <1>3, <1>c DEF EnterReleasePages, CacheSeq, cacheVars, CacheInv, CallShape, Holds
  <2>2. /\ raw'[t] = o[1] /\ size'[t] = n /\ o[1] \in Nat /\ o[2] \in Nat
        /\ \A u \in Threads \ {t} : Holds(u)' => Holds(u) /\ raw'[u] = raw[u] /\ size'[u] = size[u]
    BY <1>3, <1>t DEF EnterReleasePages, Goto, Holds, Blocks, ReleasedPages, Pages
  <2> QED
    BY <2>1, <2>2, <1>c, BlockGivenUp
<1>4. ASSUME NEW t \in Threads, ReuseOldest(t) \/ ReuseLatest(t) PROVE NoPageTwice' /\ Placed' /\ HadBefore
  <2>1. /\ CacheSeq # <<>> /\ CacheSeq' = Tail(CacheSeq)
        /\ raw' = [raw EXCEPT ![t] = Head(CacheSeq)]
    <3>1. CASE ReuseOldest(t)
      <4>1. CheckAccessFreedBlock /\ gCacheBlockTags # <<>>
        BY <3>1, <1>c, SysAllocAssumption
        DEF ReuseOldest, QuarantineFull, CacheInv, CacheCountExact, ListMode
      <4> QED
        BY <3>1, <4>1, <1>s DEF ReuseOldest
    <3>2. CASE ReuseLatest(t)
      <4>1. ~CheckAccessFreedBlock
        BY <3>2, <1>c DEF ReuseLatest, CacheInv, ListMode
      <4> QED
        BY <3>2, <4>1, <1>s DEF ReuseLatest
    <3> QED
      BY <1>4, <3>1, <3>2
  <2>2. /\ ~Holds(t) /\ size[t] = 2 /\ size' = size /\ owned' = owned
        /\ pc' = [pc EXCEPT ![t] = AfterCacheHit]
        /\ \A p \in Pages : prot[p] # "unmapped" => prot'[p] # "unmapped"
    BY <1>4, <1>c, <1>t DEF ReuseOldest, ReuseLatest, CacheInv, CallShape, Holds, Goto, SetPage
  <2>3. size' = [size EXCEPT ![t] = 2]
    BY <2>2, <1>t
  <2>4. /\ raw'[t] = Head(CacheSeq) /\ size'[t] = 2
        /\ \A u \in Threads \ {t} : Holds(u)' => Holds(u) /\ raw'[u] = raw[u] /\ size'[u] = size[u]
    BY <2>1, <2>2, <2>3, <1>t DEF Holds
  <2> QED
    BY <2>1, <2>2, <2>4, <1>c, <1>s, BlockReused
<1>5. ASSUME NEW t \in Threads, EnqueueKeep(t) \/ Push(t) PROVE NoPageTwice' /\ Placed' /\ HadBefore
  <2>1. /\ Holds(t) /\ raw[t] \in Pages /\ size[t] = 2
    BY <1>5, <1>c, <1>t DEF EnqueueKeep, Push, CacheInv, CallShape, Holds, ReleasePC
  <2>2. CacheSeq' \in {Append(CacheSeq, raw[t]), <<raw[t]>> \o CacheSeq}
    BY <1>5, <1>c, <1>s DEF EnqueueKeep, Push, CacheInv, ListMode
  <2>3. /\ ~Holds(t)' /\ owned' = owned /\ prot' = prot
        /\ \A u \in Threads \ {t} : Holds(u)' => Holds(u) /\ raw'[u] = raw[u] /\ size'[u] = size[u]
    BY <1>5, <1>t DEF EnqueueKeep, Push, Goto, Holds
  <2> QED
    BY <2>1, <2>2, <2>3, <1>c, <1>s, BlockCached
<1>6. ASSUME NEW t \in Threads, EnqueueEvict(t) PROVE NoPageTwice' /\ Placed' /\ HadBefore
  <2>1. /\ Holds(t) /\ raw[t] \in Pages /\ size[t] = 2 /\ owned' = owned /\ prot' = prot
    BY <1>6, <1>c, <1>t DEF EnqueueEvict, CacheInv, CallShape, Holds, ReleasePC
  <2>2. /\ CacheSeq' = Tail(Append(CacheSeq, raw[t]))
        /\ raw' = [raw EXCEPT ![t] = Head(Append(CacheSeq, raw[t]))]
    BY <1>6, <1>c, <1>s DEF EnqueueEvict, CacheInv, ListMode
  <2>3. size' = [size EXCEPT ![t] = 2] /\ pc' = [pc EXCEPT ![t] = "Munmap"]
    BY <1>6, <2>1, <1>t DEF EnqueueEvict, Goto
  <2>4. /\ raw'[t] = Head(Append(CacheSeq, raw[t])) /\ size'[t] = 2
        /\ \A u \in Threads \ {t} : Holds(u)' => Holds(u) /\ raw'[u] = raw[u] /\ size'[u] = size[u]
    BY <2>2, <2>3, <1>t DEF Holds
  <2> QED
    BY <2>1, <2>2, <2>4, <1>c, <1>s, BlockEvicted
<1>7. ASSUME NEW t \in Threads, Mmap(t) PROVE NoPageTwice' /\ Placed' /\ HadBefore
  <2>1. /\ ~Holds(t) /\ raw[t] = Null /\ size[t] \in 1 .. MaxBlockPages
        /\ owned' = owned /\ size' = size /\ CacheSeq' = CacheSeq
    BY <1>7, <1>c DEF Mmap, CacheInv, CallShape, Holds, CacheSeq, cacheVars
  <2>2. CASE UNCHANGED <<prot, raw>> /\ pc' = [pc EXCEPT ![t] = "GotPages"]
    <3>1. \A u \in Threads : Holds(u)' => Holds(u) /\ raw'[u] = raw[u] /\ size'[u] = size[u]
      BY <2>1, <2>2, <1>t DEF Holds
    <3> QED
      BY <2>1, <2>2, <3>1, <1>c, NothingMoves
  <2>3. ASSUME NEW b \in Pages, Run(b, size[t]) \subseteq Pages,
               \A p \in Run(b, size[t]) : prot[p] = "unmapped",
               prot' = [p \in Pages |-> IF p \in Run(b, size[t]) THEN "live" ELSE prot[p]],
               raw' = [raw EXCEPT ![t] = b], pc' = [pc EXCEPT ![t] = "SetDead"]
        PROVE  NoPageTwice' /\ Placed' /\ HadBefore
    <3>1. raw'[t] = b /\ \A u \in Threads \ {t} : Holds(u)' => Holds(u) /\ raw'[u] = raw[u]
      BY <2>1, <2>3, <1>t DEF Holds
    <3>2. /\ \A p \in Run(b, size[t]) : p \in Pages /\ prot[p] = "unmapped" /\ prot'[p] # "unmapped"
          /\ \A p \in Pages : prot[p] # "unmapped" => prot'[p] # "unmapped"
      BY <2>3
    <3> QED
      BY <2>1, <3>1, <3>2, <1>c, BlockMapped
  <2> QED
    BY <1>7, <2>2, <2>3 DEF Mmap, Goto
<1>8. ASSUME NEW t \in Threads, Munmap(t) PROVE NoPageTwice' /\ Placed' /\ HadBefore
  <2>1. Holds(t) /\ owned' = owned /\ CacheSeq' = CacheSeq
    BY <1>8, <1>c, <1>t DEF Munmap, CacheInv, CallShape, Holds, ReleasePC, CacheSeq, cacheVars
  <2>2. \A p \in Pages \ Run(raw[t], size[t]) : prot'[p] = prot[p]
    BY <1>8 DEF Munmap, Refused
  <2>3. /\ ~Holds(t)'
        /\ \A u \in Threads \ {t} : Holds(u)' => Holds(u) /\ raw'[u] = raw[u] /\ size'[u] = size[u]
    BY <1>8, <1>f DEF Munmap, Goto
  <2> QED
    BY <2>1, <2>2, <2>3, <1>c, BlockUnmapped
<1> QED
  BY <1>0, <1>1, <1>2, <1>3, <1>4, <1>5, <1>6, <1>7, <1>8
  DEF SysNext, ClientStep, GetPagesStep, ReleasePagesStep

LEMMA StepPageInv == PageInv /\ [SysNext]_sysVars => PageInv'
BY StepCacheInv, StepPages DEF PageInv

\* However GetPages and ReleasePages of any number of threads interleave, whatever the
\* mode of the cache, and even when mprotect is refused, no page belongs to two blocks.
THEOREM NoPageTwiceCorrect == SysSpec => []NoPageTwice
<1>1. PageInv => NoPageTwice
  BY DEF PageInv
<1> QED
  BY <1>1, InitPageInv, StepPageInv, PTL DEF SysSpec

-------------------------------------------------------------------------------
(* What the steps have in common *)

LEMMA CallTypes ==
  ASSUME CacheInv
  PROVE  /\ pc \in [Threads -> {"idle"} \cup GetPC \cup ReleasePC]
         /\ raw \in [Threads -> Pages \cup {Null}]
         /\ size \in [Threads -> 0 .. MaxBlockPages]
         /\ prot \in [Pages -> {"unmapped", "live", "dead"}]
         /\ owned \subseteq Blocks
         /\ Null \notin Pages
BY SysAllocAssumption DEF CacheInv, SysTypeOK, Pages

\* The list in use, before and after a step.
LEMMA CacheSeqInStep ==
  ASSUME CacheInv, CacheInv'
  PROVE  /\ CacheSeq \in Seq(Pages)
         /\ CheckAccessFreedBlock => CacheSeq = gCacheBlockTags /\ CacheSeq' = gCacheBlockTags'
         /\ ~CheckAccessFreedBlock => CacheSeq = gCacheBlockHead /\ CacheSeq' = gCacheBlockHead'
<1>1. gCacheBlockHead' \in Seq(Pages) /\ gCacheBlockTags' \in Seq(Pages)
  BY DEF CacheInv, SysTypeOK
<1>2. CheckAccessFreedBlock => CacheSeq' = gCacheBlockTags'
  BY <1>1, ConcatEmptySeq DEF CacheInv, ListMode, CacheSeq
<1>3. ~CheckAccessFreedBlock => CacheSeq' = gCacheBlockHead'
  BY <1>1, ConcatEmptySeq DEF CacheInv, ListMode, CacheSeq
<1> QED
  BY <1>2, <1>3, CacheIsOneList

\* A step that takes a block for reuse takes the first of the list in use.
LEMMA ReuseTakesHead ==
  ASSUME CacheInv, CacheInv', NEW t \in Threads, ReuseOldest(t) \/ ReuseLatest(t)
  PROVE  /\ CacheSeq # <<>> /\ CacheSeq' = Tail(CacheSeq)
         /\ raw' = [raw EXCEPT ![t] = Head(CacheSeq)]
<1>1. CASE ReuseOldest(t)
  <2>1. CheckAccessFreedBlock /\ gCacheBlockTags # <<>>
    BY <1>1, SysAllocAssumption
    DEF ReuseOldest, QuarantineFull, CacheInv, CacheCountExact, ListMode
  <2> QED
    BY <1>1, <2>1, CacheSeqInStep DEF ReuseOldest
<1>2. CASE ReuseLatest(t)
  <2>1. ~CheckAccessFreedBlock
    BY <1>2 DEF ReuseLatest, CacheInv, ListMode
  <2> QED
    BY <1>2, <2>1, CacheSeqInStep DEF ReuseLatest
<1> QED
  BY <1>1, <1>2

-------------------------------------------------------------------------------
(* The quarantine *)

\* A freed block leaves the quarantine only as the oldest of at least max_cached_blocks,
\* for every interleaving of the threads and whatever mprotect refuses.
THEOREM QuarantineInOrderCorrect == SysSpec => QuarantineInOrder
<1> DEFINE InOrder ==
      \A i \in DOMAIN gCacheBlockTags :
        (\A j \in DOMAIN gCacheBlockTags' : gCacheBlockTags'[j] # gCacheBlockTags[i])
          => i = 1 /\ Len(gCacheBlockTags) >= MaxCachedBlocks
<1>1. CacheInv /\ [SysNext]_sysVars => [InOrder]_sysVars
  <2> SUFFICES ASSUME CacheInv, [SysNext]_sysVars PROVE InOrder
    OBVIOUS
  <2> DEFINE s == gCacheBlockTags
  <2>s. s \in Seq(Pages) /\ Len(s) \in Nat /\ DOMAIN s = 1 .. Len(s)
    BY DEF CacheInv, SysTypeOK
  <2>m. MaxCachedBlocks \in Nat \ {0}
    BY SysAllocAssumption
  <2>0. ASSUME gCacheBlockTags' = gCacheBlockTags PROVE InOrder
    BY <2>0
  <2>1. ASSUME NEW t \in Threads, ReuseOldest(t) PROVE InOrder
    <3>1. gCacheBlockHead = <<>> /\ Len(s) >= MaxCachedBlocks /\ s # <<>>
      BY <2>1, <2>s, <2>m DEF ReuseOldest, QuarantineFull, CacheInv, CacheCountExact, ListMode
    <3>2. /\ gCacheBlockTags' = Tail(s)
          /\ \A i \in DOMAIN s : i # 1 =>
               i - 1 \in DOMAIN gCacheBlockTags' /\ gCacheBlockTags'[i - 1] = s[i]
      BY <2>1, <2>s, <3>1, HeadTailProperties DEF ReuseOldest
    <3> QED
      BY <3>1, <3>2
  <2>2. ASSUME NEW t \in Threads, EnqueueKeep(t) PROVE InOrder
    <3>1. raw[t] \in Pages
      BY <2>2 DEF EnqueueKeep, CacheInv, CallShape, ReleasePC
    <3>2. \A i \in DOMAIN s : i \in DOMAIN gCacheBlockTags' /\ gCacheBlockTags'[i] = s[i]
      BY <2>2, <2>s, <3>1, AppendProperties DEF EnqueueKeep
    <3> QED
      BY <3>2
  <2>3. ASSUME NEW t \in Threads, EnqueueEvict(t) PROVE InOrder
    <3>1. raw[t] \in Pages /\ gCacheBlockHead = <<>>
      BY <2>3 DEF EnqueueEvict, CacheInv, CallShape, ListMode, ReleasePC
    <3>2. Len(s) >= MaxCachedBlocks
      BY <2>3, <2>s, <2>m, <3>1 DEF EnqueueEvict, CacheInv, CacheCountExact
    <3>3. /\ gCacheBlockTags' = Tail(Append(s, raw[t]))
          /\ DOMAIN gCacheBlockTags' = 1 .. Len(s)
          /\ \A i \in 1 .. Len(s) : gCacheBlockTags'[i] = Append(s, raw[t])[i + 1]
      BY <2>3, <2>s, <3>1, Rotate DEF EnqueueEvict
    <3>4. \A i \in DOMAIN s : Append(s, raw[t])[i] = s[i]
      BY <2>s, <3>1, AppendProperties
    <3>5. \A i \in DOMAIN s : i # 1 =>
            i - 1 \in DOMAIN gCacheBlockTags' /\ gCacheBlockTags'[i - 1] = s[i]
      BY <2>s, <3>3, <3>4
    <3> QED
      BY <3>2, <3>5
  <2> QED
    BY <2>0, <2>1, <2>2, <2>3
    DEF SysNext, ClientStep, GetPagesStep, ReleasePagesStep, sysVars, cacheVars,
        EnterGetPages, ReturnGetPages, EnterReleasePages, ReuseRefused, ReuseLatest, CacheMiss,
        TraceLive, TraceDead, Mmap, SetDead, OpenDeadPage, CloseDeadPage, InitHeader, FreeTraceLive,
        FreeTraceDead, Protect, EnqueueNoTag, TestCount, Push, Munmap
<1> HIDE DEF InOrder
<1>2. SysInit /\ [][SysNext]_sysVars => [][InOrder]_sysVars
  BY <1>1, InitCacheInv, StepCacheInv, PTL
<1> QED
  BY <1>2 DEF SysSpec, QuarantineInOrder, InOrder

-------------------------------------------------------------------------------
(* No page is lost *)

\* What NoPageLost says and Placed does not.
Covered == \A p \in Pages : prot[p] # "unmapped" => Had(p) \/ p \in leaked

LeakedApart == \A p \in leaked : p \in Pages /\ prot[p] # "unmapped" /\ ~Had(p)

LostInv == PageInv /\ Covered /\ LeakedApart

LEMMA HadIsAccounted == \A p : p \in AccountedPages <=> Had(p)
BY DEF Had, AccountedPages

LEMMA CoveredIsNoPageLost == ASSUME LostInv PROVE NoPageLost
<1>1. \A p \in AccountedPages : p \in Pages /\ prot[p] # "unmapped"
  BY DEF LostInv, PageInv, Placed, Mapped, AccountedPages
<1>2. ASSUME NEW p \in Pages, prot[p] # "unmapped" PROVE p \in AccountedPages \cup leaked
  BY <1>2, HadIsAccounted DEF LostInv, Covered
<1>3. \A p \in leaked : p \in Pages /\ prot[p] # "unmapped" /\ p \notin AccountedPages
  BY HadIsAccounted DEF LostInv, LeakedApart
<1> QED
  BY <1>1, <1>2, <1>3 DEF NoPageLost

\* A step that unmaps only pages somebody had keeps the leaked ones apart.
LEMMA LeakedStep ==
  ASSUME LostInv, [SysNext]_sysVars,
         \A p \in Pages : prot'[p] = "unmapped" => prot[p] = "unmapped" \/ Had(p),
         \A p \in leaked' : p \in leaked \/ (p \in Pages /\ prot'[p] # "unmapped" /\ ~Had(p)')
  PROVE  LeakedApart'
<1>1. HadBefore
  BY StepPages DEF LostInv
<1> QED
  BY <1>1 DEF LostInv, LeakedApart, HadBefore

LEMMA StepLeaked == LostInv /\ [SysNext]_sysVars => LeakedApart'
<1> SUFFICES ASSUME LostInv, [SysNext]_sysVars PROVE LeakedApart'
  OBVIOUS
<1>c. CacheInv /\ CacheInv' /\ NoPageTwice /\ Placed
  BY StepCacheInv DEF LostInv, PageInv
<1>t. /\ pc \in [Threads -> {"idle"} \cup GetPC \cup ReleasePC]
      /\ raw \in [Threads -> Pages \cup {Null}]
      /\ size \in [Threads -> 0 .. MaxBlockPages]
      /\ prot \in [Pages -> {"unmapped", "live", "dead"}]
      /\ owned \subseteq Blocks
      /\ Null \notin Pages
  BY <1>c, CallTypes
\* Only munmap unmaps, and only it and the entry of ReleasePages lose a page.
<1>1. ASSUME leaked' = leaked, \A p \in Pages : prot'[p] = "unmapped" => prot[p] = "unmapped"
      PROVE  LeakedApart'
  BY <1>1, LeakedStep
<1>2. ASSUME NEW t \in Threads, NEW o \in owned, NEW n \in ReleasedPages(o),
             EnterReleasePages(t, o, o[1], n)
      PROVE  LeakedApart'
  <2>1. /\ ~Holds(t) /\ owned' = owned \ {o} /\ prot' = prot /\ CacheSeq' = CacheSeq
        /\ leaked' = leaked \cup (Run(o[1], o[2]) \ Run(o[1], n))
    BY <1>2, <1>c DEF EnterReleasePages, CacheSeq, cacheVars, CacheInv, CallShape, Holds
  <2>2. /\ raw'[t] = o[1] /\ size'[t] = n
        /\ \A u \in Threads \ {t} : Holds(u)' => Holds(u) /\ raw'[u] = raw[u] /\ size'[u] = size[u]
    BY <1>2, <1>t DEF EnterReleasePages, Goto, Holds
  <2>3. ASSUME NEW p \in Run(o[1], o[2]), p \notin Run(o[1], n)
        PROVE  p \in Pages /\ prot'[p] # "unmapped" /\ ~Had(p)'
    <3>1. p \in Pages /\ prot'[p] # "unmapped"
      BY <2>1, <1>c DEF Placed, Mapped
    <3>2. /\ \A q \in owned' : p \notin Run(q[1], q[2])
          /\ \A u \in Threads : Holds(u) => p \notin Run(raw[u], size[u])
          /\ \A i \in DOMAIN CacheSeq : p \notin Run(CacheSeq[i], 2)
      BY <2>1, <2>3, <1>c DEF NoPageTwice
    <3>3. ~Had(p)'
      BY <2>1, <2>2, <2>3, <3>2 DEF Had, Run
    <3> QED
      BY <3>1, <3>3
  <2> QED
    BY <2>1, <2>3, LeakedStep
<1>3. ASSUME NEW t \in Threads, Munmap(t) PROVE LeakedApart'
  <2>1. Holds(t) /\ owned' = owned /\ CacheSeq' = CacheSeq
    BY <1>3, <1>c, <1>t DEF Munmap, CacheInv, CallShape, Holds, ReleasePC, CacheSeq, cacheVars
  <2>2. /\ ~Holds(t)'
        /\ \A u \in Threads \ {t} : Holds(u)' => Holds(u) /\ raw'[u] = raw[u] /\ size'[u] = size[u]
    BY <1>3, <1>t DEF Munmap, Goto, Holds, GetPC, ReleasePC
  <2>3. \A p \in Pages : prot'[p] = "unmapped" => prot[p] = "unmapped" \/ Had(p)
    BY <1>3, <2>1, <1>t DEF Munmap, Refused, Had
  <2>4. ASSUME NEW p \in leaked', p \notin leaked
        PROVE  p \in Pages /\ prot'[p] # "unmapped" /\ ~Had(p)'
    <3>1. p \in Run(raw[t], size[t]) /\ prot' = prot
      BY <1>3, <2>4 DEF Munmap, Refused
    <3>2. p \in Pages /\ prot'[p] # "unmapped"
      BY <2>1, <3>1, <1>c DEF Placed, Mapped
    <3>3. /\ \A q \in owned : p \notin Run(q[1], q[2])
          /\ \A u \in Threads \ {t} : Holds(u) => p \notin Run(raw[u], size[u])
          /\ \A i \in DOMAIN CacheSeq : p \notin Run(CacheSeq[i], 2)
      BY <2>1, <3>1, <1>c DEF NoPageTwice
    <3>4. ~Had(p)'
      BY <2>1, <2>2, <3>3 DEF Had, Run
    <3> QED
      BY <3>2, <3>4
  <2> QED
    BY <2>3, <2>4, LeakedStep
<1>4. ASSUME NEW t \in Threads,
             \/ \E n \in 2 .. MaxBlockPages : EnterGetPages(t, n)
             \/ ReturnGetPages(t) \/ GetPagesStep(t)
             \/ InitHeader(t) \/ FreeTraceLive(t) \/ FreeTraceDead(t) \/ Protect(t)
             \/ EnqueueKeep(t) \/ EnqueueEvict(t) \/ EnqueueNoTag(t) \/ TestCount(t) \/ Push(t)
      PROVE  LeakedApart'
  <2>1. leaked' = leaked
    BY <1>4 DEF GetPagesStep, EnterGetPages, ReturnGetPages, ReuseOldest, ReuseRefused, ReuseLatest,
                CacheMiss, TraceLive, TraceDead, Mmap, SetDead, OpenDeadPage, CloseDeadPage, InitHeader,
                FreeTraceLive, FreeTraceDead, Protect, EnqueueKeep, EnqueueEvict, EnqueueNoTag,
                TestCount, Push
  <2>2. \A p \in Pages : prot'[p] = "unmapped" => prot[p] = "unmapped"
    <3>1. CASE Mmap(t)
      BY <3>1 DEF Mmap
    <3>2. CASE ~Mmap(t)
      <4>1. \/ prot' = prot
            \/ \E q, m : m # "unmapped" /\ prot' = [prot EXCEPT ![q] = m]
        BY <1>4, <3>2
        DEF GetPagesStep, EnterGetPages, ReturnGetPages, ReuseOldest, ReuseRefused, ReuseLatest,
            CacheMiss, TraceLive, TraceDead, SetDead, OpenDeadPage, CloseDeadPage, InitHeader,
            FreeTraceLive, FreeTraceDead, Protect, EnqueueKeep, EnqueueEvict, EnqueueNoTag,
            TestCount, Push, SetPage, Refused
      <4> QED
        BY <4>1, <1>t
    <3> QED
      BY <3>1, <3>2
  <2> QED
    BY <2>1, <2>2, <1>1
<1>5. CASE UNCHANGED sysVars
  BY <1>5, <1>1 DEF sysVars
<1> QED
  BY <1>2, <1>3, <1>4, <1>5 DEF SysNext, ClientStep, ReleasePagesStep

\* A step of thread t: the other threads keep their blocks.  What t, the clients or the
\* cache had must be had by one of the three afterwards, unless it is unmapped, and so
\* must what is mapped.
LEMMA StepOf ==
  ASSUME Covered, NEW t \in Threads,
         \A u \in Threads \ {t} : Holds(u) => Holds(u)' /\ raw'[u] = raw[u] /\ size'[u] = size[u],
         leaked \subseteq leaked',
         \A o \in owned : \A p \in Run(o[1], o[2]) : Had(p)' \/ p \in leaked',
         \A i \in DOMAIN CacheSeq : \A p \in Run(CacheSeq[i], 2) : Had(p)',
         Holds(t) => \A p \in Run(raw[t], size[t]) \cap Pages : prot'[p] # "unmapped" => Had(p)' \/ p \in leaked',
         \A p \in Pages : prot[p] = "unmapped" /\ prot'[p] # "unmapped" => Had(p)'
  PROVE  Covered'
<1> SUFFICES ASSUME NEW p \in Pages, prot'[p] # "unmapped" PROVE Had(p)' \/ p \in leaked'
  BY DEF Covered
<1>1. CASE prot[p] = "unmapped"
  BY <1>1
<1>2. CASE \E o \in owned : p \in Run(o[1], o[2])
  BY <1>2
<1>3. CASE \E i \in DOMAIN CacheSeq : p \in Run(CacheSeq[i], 2)
  BY <1>3
<1>4. CASE Holds(t) /\ p \in Run(raw[t], size[t])
  BY <1>4
<1>5. CASE \E u \in Threads \ {t} : Holds(u) /\ p \in Run(raw[u], size[u])
  <2>1. PICK u \in Threads \ {t} : Holds(u) /\ p \in Run(raw[u], size[u])
    BY <1>5
  <2>2. Holds(u)' /\ p \in Run(raw'[u], size'[u])
    BY <2>1
  <2> QED
    BY <2>2 DEF Had, Run
<1>6. CASE p \in leaked
  BY <1>6
<1> QED
  BY <1>1, <1>2, <1>3, <1>4, <1>5, <1>6 DEF Covered, Had

\* What the clients keep is had, and what stays in the cache.
LEMMA StillOwned ==
  ASSUME NEW o \in owned, o \in owned', NEW p \in Run(o[1], o[2]) PROVE Had(p)'
BY DEF Had, Run

LEMMA StillCached ==
  ASSUME NEW i \in DOMAIN CacheSeq, NEW j \in DOMAIN CacheSeq', CacheSeq'[j] = CacheSeq[i],
         NEW p \in Run(CacheSeq[i], 2)
  PROVE  Had(p)'
BY DEF Had, Run

LEMMA HeldBy ==
  ASSUME NEW t \in Threads, Holds(t)', NEW p \in Run(raw'[t], size'[t]) PROVE Had(p)'
BY DEF Had, Run

LEMMA LeakedGrows == ASSUME [SysNext]_sysVars PROVE leaked \subseteq leaked'
BY DEF SysNext, ClientStep, GetPagesStep, ReleasePagesStep, sysVars, EnterGetPages, ReturnGetPages,
       EnterReleasePages, ReuseOldest, ReuseRefused, ReuseLatest, CacheMiss, TraceLive, TraceDead,
       Mmap, SetDead, OpenDeadPage, CloseDeadPage, InitHeader, FreeTraceLive, FreeTraceDead, Protect,
       EnqueueKeep, EnqueueEvict, EnqueueNoTag, TestCount, Push, Munmap

LEMMA StepCovered == LostInv /\ [SysNext]_sysVars => Covered'
<1> SUFFICES ASSUME LostInv, [SysNext]_sysVars PROVE Covered'
  OBVIOUS
<1>c. CacheInv /\ CacheInv' /\ NoPageTwice /\ Placed /\ Covered
  BY StepCacheInv DEF LostInv, PageInv
<1>l. leaked \subseteq leaked'
  BY LeakedGrows
<1>s. /\ CacheSeq \in Seq(Pages)
      /\ CheckAccessFreedBlock => CacheSeq = gCacheBlockTags /\ CacheSeq' = gCacheBlockTags'
      /\ ~CheckAccessFreedBlock => CacheSeq = gCacheBlockHead /\ CacheSeq' = gCacheBlockHead'
  BY <1>c, CacheSeqInStep
<1>t. /\ pc \in [Threads -> {"idle"} \cup GetPC \cup ReleasePC]
      /\ raw \in [Threads -> Pages \cup {Null}]
      /\ size \in [Threads -> 0 .. MaxBlockPages]
      /\ prot \in [Pages -> {"unmapped", "live", "dead"}]
      /\ owned \subseteq Blocks
      /\ Null \notin Pages
  BY <1>c, CallTypes
<1>p. \A p : p \in Pages => p \in Int
  BY SysAllocAssumption DEF Pages
\* Only thread t's part of the call changes.
<1>f. ASSUME NEW t \in Threads, NEW l, NEW b, NEW n, pc' = [pc EXCEPT ![t] = l],
             raw' = [raw EXCEPT ![t] = b], size' = [size EXCEPT ![t] = n]
      PROVE  /\ \A u \in Threads \ {t} : Holds(u) => Holds(u)' /\ raw'[u] = raw[u] /\ size'[u] = size[u]
             /\ raw'[t] = b /\ size'[t] = n
             /\ l \in GetPC \cup ReleasePC /\ b # Null => Holds(t)'
  BY <1>f, <1>t DEF Holds
\* The steps that leave the clients' blocks alone.
<1>o. owned' = owned => \A o \in owned : \A p \in Run(o[1], o[2]) : Had(p)'
  BY StillOwned
<1>q. CacheSeq' = CacheSeq => \A i \in DOMAIN CacheSeq : \A p \in Run(CacheSeq[i], 2) : Had(p)'
  BY StillCached
<1>0. CASE UNCHANGED sysVars
  <2>1. /\ owned' = owned /\ CacheSeq' = CacheSeq /\ prot' = prot
        /\ UNCHANGED <<pc, raw, size, leaked>>
    BY <1>0 DEF sysVars, cacheVars, callVars, CacheSeq
  <2> QED
    BY <2>1, <1>c DEF Covered, Had, Holds, Run
<1>1. ASSUME NEW t \in Threads,
             \/ \E n \in 2 .. MaxBlockPages : EnterGetPages(t, n)
             \/ ReuseRefused(t) \/ CacheMiss(t) \/ TraceLive(t) \/ TraceDead(t) \/ SetDead(t)
             \/ InitHeader(t) \/ FreeTraceLive(t) \/ FreeTraceDead(t) \/ Protect(t)
             \/ EnqueueNoTag(t) \/ TestCount(t)
      PROVE  Covered'
  <2>1. owned' = owned /\ CacheSeq' = CacheSeq
    BY <1>1 DEF EnterGetPages, ReuseRefused, CacheMiss, TraceLive, TraceDead, SetDead, InitHeader,
                FreeTraceLive, FreeTraceDead, Protect, EnqueueNoTag, TestCount, OpenDeadPage, CloseDeadPage,
                CacheSeq, cacheVars
  <2>2. CASE \E n \in 2 .. MaxBlockPages : EnterGetPages(t, n)
    <3>1. /\ ~Holds(t) /\ prot' = prot
          /\ \A u \in Threads \ {t} : Holds(u) => Holds(u)' /\ raw'[u] = raw[u] /\ size'[u] = size[u]
      BY <2>2, <1>t, <1>c DEF EnterGetPages, Goto, Holds, CacheInv, CallShape
    <3> QED
      BY <2>1, <3>1, <1>c, <1>o, <1>q, <1>l, StepOf
  <2>3. CASE ~\E n \in 2 .. MaxBlockPages : EnterGetPages(t, n)
    <3>1. /\ raw' = raw /\ size' = size
          /\ \E l \in GetPC \cup ReleasePC : pc' = [pc EXCEPT ![t] = l]
      BY <1>1, <2>3
      DEF ReuseRefused, CacheMiss, TraceLive, TraceDead, SetDead, InitHeader, FreeTraceLive, FreeTraceDead,
          Protect, EnqueueNoTag, TestCount, OpenDeadPage, CloseDeadPage, Goto, AfterFreeTrace, GetPC, ReleasePC
    <3>2. \A u \in Threads : Holds(u) => Holds(u)' /\ raw'[u] = raw[u] /\ size'[u] = size[u]
      BY <3>1, <1>t DEF Holds
    <3>3. Holds(t) => \A p \in Run(raw[t], size[t]) : Had(p)'
      BY <3>1, <3>2, HeldBy
    <3>4. CASE prot' = prot
      BY <2>1, <3>2, <3>3, <3>4, <1>c, <1>o, <1>q, <1>l, StepOf
    <3>5. CASE prot' # prot
      <4>1. /\ Holds(t)
            /\ \E q \in Run(raw[t], size[t]), m \in {"live", "dead"} : prot' = [prot EXCEPT ![q] = m]
        <5>1. raw[t] \in Pages /\ size[t] \in 1 .. MaxBlockPages /\ Holds(t)
          BY <1>1, <2>3, <3>5, <1>c, <1>t
          DEF ReuseRefused, CacheMiss, TraceLive, TraceDead, SetDead, InitHeader, FreeTraceLive,
              FreeTraceDead, Protect, EnqueueNoTag, TestCount, OpenDeadPage, CloseDeadPage, Refused,
              CacheInv, CallShape, Holds, GetPC, ReleasePC
        <5>2. DeadPage(raw[t], size[t]) \in Run(raw[t], size[t])
          BY <5>1, <1>p, SysAllocAssumption DEF DeadPage, Run
        <5>3. Protect(t) => UserPage(raw[t]) \in Run(raw[t], size[t])
          BY <5>1, <1>p, <1>c, SysAllocAssumption DEF UserPage, Run, Protect, CacheInv, CallShape, ReleasePC
        <5> QED
          BY <1>1, <2>3, <3>5, <5>1, <5>2, <5>3
          DEF ReuseRefused, CacheMiss, TraceLive, TraceDead, SetDead, InitHeader, FreeTraceLive,
              FreeTraceDead, Protect, EnqueueNoTag, TestCount, OpenDeadPage, CloseDeadPage, Refused,
              SetPage
      <4>2. \A p \in Pages : prot[p] = "unmapped" /\ prot'[p] # "unmapped" => p \in Run(raw[t], size[t])
        BY <4>1, <1>t
      <4> QED
        BY <2>1, <3>2, <3>3, <4>1, <4>2, <1>c, <1>o, <1>q, <1>l, StepOf
    <3> QED
      BY <3>4, <3>5
  <2> QED
    BY <2>2, <2>3
<1>2. ASSUME NEW t \in Threads, ReturnGetPages(t) PROVE Covered'
  <2>1. /\ CacheSeq' = CacheSeq /\ prot' = prot
        /\ \A u \in Threads \ {t} : Holds(u) => Holds(u)' /\ raw'[u] = raw[u] /\ size'[u] = size[u]
    BY <1>2, <1>f DEF ReturnGetPages, Goto, CacheSeq, cacheVars
  <2>2. \A o \in owned : \A p \in Run(o[1], o[2]) : Had(p)'
    BY <1>2, StillOwned DEF ReturnGetPages
  <2>3. Holds(t) => \A p \in Run(raw[t], size[t]) : Had(p)'
    <3>1. Holds(t) => <<raw[t], size[t]>> \in owned'
      BY <1>2 DEF ReturnGetPages, Holds
    <3>2. Holds(t) => \A p \in Run(<<raw[t], size[t]>>[1], <<raw[t], size[t]>>[2]) : Had(p)'
      BY <3>1 DEF Had, Run
    <3> QED
      BY <3>2
  <2> QED
    BY <2>1, <2>2, <2>3, <1>c, <1>q, <1>l, StepOf
<1>3. ASSUME NEW t \in Threads, NEW o \in owned, NEW n \in ReleasedPages(o),
             EnterReleasePages(t, o, o[1], n)
      PROVE  Covered'
  <2>1. ~Holds(t) /\ owned' = owned \ {o} /\ prot' = prot /\ CacheSeq' = CacheSeq
    BY <1>3, <1>c DEF EnterReleasePages, CacheSeq, cacheVars, CacheInv, CallShape, Holds
  <2>2. o[1] \in Pages /\ o[1] # Null
    BY <1>t DEF Blocks
  <2>3. /\ raw'[t] = o[1] /\ size'[t] = n /\ Holds(t)'
        /\ \A u \in Threads \ {t} : Holds(u) => Holds(u)' /\ raw'[u] = raw[u] /\ size'[u] = size[u]
    <3>1. PICK l \in ReleasePC : pc' = [pc EXCEPT ![t] = l]
      BY <1>3 DEF EnterReleasePages, Goto, ReleasePC
    <3>2. raw' = [raw EXCEPT ![t] = o[1]] /\ size' = [size EXCEPT ![t] = n]
      BY <1>3 DEF EnterReleasePages
    <3> QED
      BY <3>1, <3>2, <2>2, <1>t DEF Holds
  <2>4. \A q \in owned : \A p \in Run(q[1], q[2]) : Had(p)' \/ p \in leaked'
    <3>1. \A p \in Run(o[1], o[2]) : Had(p)' \/ p \in leaked'
      <4>1. \A p \in Run(o[1], n) : Had(p)'
        BY <2>3, HeldBy
      <4>2. \A p \in Run(o[1], o[2]) \ Run(o[1], n) : p \in leaked'
        BY <1>3 DEF EnterReleasePages
      <4> QED
        BY <4>1, <4>2
    <3>2. ASSUME NEW q \in owned, q # o, NEW p \in Run(q[1], q[2]) PROVE Had(p)'
      BY <2>1, <3>2, StillOwned
    <3> QED
      BY <3>1, <3>2
  <2> QED
    BY <2>1, <2>3, <2>4, <1>c, <1>q, <1>l, StepOf
<1>4. ASSUME NEW t \in Threads, ReuseOldest(t) \/ ReuseLatest(t) PROVE Covered'
  <2>1. /\ CacheSeq # <<>> /\ CacheSeq' = Tail(CacheSeq)
        /\ raw' = [raw EXCEPT ![t] = Head(CacheSeq)]
    BY <1>4, <1>c, ReuseTakesHead
  <2>2. /\ Len(CacheSeq) \in Nat /\ DOMAIN CacheSeq = 1 .. Len(CacheSeq)
        /\ Head(CacheSeq) = CacheSeq[1] /\ CacheSeq[1] \in Pages
        /\ \A i \in DOMAIN CacheSeq : i # 1 =>
             i - 1 \in DOMAIN CacheSeq' /\ CacheSeq'[i - 1] = CacheSeq[i]
    BY <2>1, <1>s, HeadTailProperties
  <2>3. /\ ~Holds(t) /\ size[t] = 2 /\ size' = size /\ owned' = owned
        /\ pc' = [pc EXCEPT ![t] = AfterCacheHit]
    BY <1>4, <1>c DEF ReuseOldest, ReuseLatest, CacheInv, CallShape, Holds, Goto
  <2>4. /\ raw'[t] = CacheSeq[1] /\ size'[t] = 2 /\ Holds(t)'
        /\ \A u \in Threads \ {t} : Holds(u) => Holds(u)' /\ raw'[u] = raw[u] /\ size'[u] = size[u]
    <3>1. size' = [size EXCEPT ![t] = 2]
      BY <2>3, <1>t
    <3> QED
      BY <2>1, <2>2, <2>3, <3>1, <1>f, <1>t DEF AfterCacheHit, GetPC
  <2>5. \A p \in Run(CacheSeq[1], 2) : Had(p)'
    BY <2>4, HeldBy
  <2>6. \A i \in DOMAIN CacheSeq : \A p \in Run(CacheSeq[i], 2) : Had(p)'
    <3> SUFFICES ASSUME NEW i \in DOMAIN CacheSeq, NEW p \in Run(CacheSeq[i], 2) PROVE Had(p)'
      OBVIOUS
    <3>1. CASE i = 1
      BY <3>1, <2>5
    <3>2. CASE i # 1
      <4>1. i - 1 \in DOMAIN CacheSeq' /\ CacheSeq'[i - 1] = CacheSeq[i]
        BY <3>2, <2>2
      <4> QED
        BY <4>1, StillCached
    <3> QED
      BY <3>1, <3>2
  <2>7. \A p \in Pages : prot[p] = "unmapped" /\ prot'[p] # "unmapped" => p \in Run(CacheSeq[1], 2)
    <3>1. CASE prot' = prot
      BY <3>1
    <3>2. CASE prot' # prot
      <4>1. /\ prot' = [prot EXCEPT ![UserPage(Head(gCacheBlockTags))] = "live"]
            /\ Head(gCacheBlockTags) = CacheSeq[1]
        <5>1. ReuseOldest(t) /\ CheckAccessFreedBlock
          BY <1>4, <3>2 DEF ReuseLatest, ReuseOldest, QuarantineFull
        <5> QED
          BY <5>1, <1>s, <2>2 DEF ReuseOldest, SetPage
      <4>2. UserPage(CacheSeq[1]) \in Run(CacheSeq[1], 2)
        BY <2>2, <1>p DEF UserPage, Run
      <4> QED
        BY <4>1, <4>2, <1>t
    <3> QED
      BY <3>1, <3>2
  <2>8. \A p \in Pages : prot[p] = "unmapped" /\ prot'[p] # "unmapped" => Had(p)'
    BY <2>5, <2>7
  <2> QED
    BY <2>3, <2>4, <2>6, <2>8, <1>c, <1>o, <1>l, StepOf
<1>5. ASSUME NEW t \in Threads, EnqueueKeep(t) \/ Push(t) PROVE Covered'
  <2>1. raw[t] \in Pages /\ size[t] = 2 /\ owned' = owned /\ prot' = prot
    BY <1>5, <1>c DEF EnqueueKeep, Push, CacheInv, CallShape, ReleasePC
  <2>2. \A u \in Threads \ {t} : Holds(u) => Holds(u)' /\ raw'[u] = raw[u] /\ size'[u] = size[u]
    BY <1>5, <1>t DEF EnqueueKeep, Push, Goto, Holds
  <2>3. CacheSeq' \in {Append(CacheSeq, raw[t]), <<raw[t]>> \o CacheSeq}
    BY <1>5, <1>c, <1>s DEF EnqueueKeep, Push, CacheInv, ListMode
  <2>4. /\ \A i \in DOMAIN CacheSeq : \E j \in DOMAIN CacheSeq' : CacheSeq'[j] = CacheSeq[i]
        /\ \E j \in DOMAIN CacheSeq' : CacheSeq'[j] = raw[t]
    <3>0. Len(CacheSeq) \in Nat /\ DOMAIN CacheSeq = 1 .. Len(CacheSeq)
      BY <1>s
    <3>1. CASE CacheSeq' = Append(CacheSeq, raw[t])
      BY <3>0, <3>1, <1>s, <2>1, AppendProperties
    <3>2. CASE CacheSeq' = <<raw[t]>> \o CacheSeq
      <4>1. /\ DOMAIN CacheSeq' = 1 .. (Len(CacheSeq) + 1) /\ CacheSeq'[1] = raw[t]
            /\ \A i \in DOMAIN CacheSeq : CacheSeq'[i + 1] = CacheSeq[i]
        BY <3>0, <3>2, <1>s, <2>1
      <4>2. \A i \in DOMAIN CacheSeq : i + 1 \in DOMAIN CacheSeq'
        BY <3>0, <4>1
      <4> QED
        BY <3>0, <4>1, <4>2
    <3> QED
      BY <2>3, <3>1, <3>2
  <2>5. \A i \in DOMAIN CacheSeq : \A p \in Run(CacheSeq[i], 2) : Had(p)'
    BY <2>4, StillCached
  <2>6. \A p \in Run(raw[t], size[t]) : Had(p)'
    BY <2>1, <2>4 DEF Had, Run
  <2> QED
    BY <2>1, <2>2, <2>5, <2>6, <1>c, <1>o, <1>l, StepOf
<1>6. ASSUME NEW t \in Threads, EnqueueEvict(t) PROVE Covered'
  <2> DEFINE s == CacheSeq
             q == Append(CacheSeq, raw[t])
  <2>1. raw[t] \in Pages /\ size[t] = 2 /\ owned' = owned /\ prot' = prot
    BY <1>6, <1>c DEF EnqueueEvict, CacheInv, CallShape, ReleasePC
  <2>2. CacheSeq' = Tail(q) /\ raw' = [raw EXCEPT ![t] = Head(q)]
    BY <1>6, <1>c, <1>s DEF EnqueueEvict, CacheInv, ListMode
  <2>3. /\ Len(s) \in Nat /\ DOMAIN s = 1 .. Len(s) /\ DOMAIN CacheSeq' = 1 .. Len(s)
        /\ \A i \in DOMAIN s : q[i] = s[i]
        /\ q[Len(s) + 1] = raw[t]
        /\ \A i \in 1 .. Len(s) : CacheSeq'[i] = q[i + 1]
        /\ Head(q) = q[1] /\ Head(q) \in Pages
    BY <1>s, <2>1, <2>2, Rotate, AppendProperties
  <2>4. /\ raw'[t] = q[1] /\ size'[t] = 2 /\ Holds(t)'
        /\ \A u \in Threads \ {t} : Holds(u) => Holds(u)' /\ raw'[u] = raw[u] /\ size'[u] = size[u]
    <3>1. size' = [size EXCEPT ![t] = 2] /\ pc' = [pc EXCEPT ![t] = "Munmap"]
      BY <1>6, <2>1, <1>t DEF EnqueueEvict, Goto
    <3> QED
      BY <2>2, <2>3, <3>1, <1>f, <1>t DEF ReleasePC
  <2> HIDE DEF q
  \* Every place of q is had: the first by the thread, the others by the cache.
  <2>5. ASSUME NEW k \in 1 .. (Len(s) + 1), NEW p \in Run(q[k], 2) PROVE Had(p)'
    <3>1. CASE k = 1
      BY <3>1, <2>4, <2>5, HeldBy
    <3>2. CASE k # 1
      <4>1. k - 1 \in 1 .. Len(s) /\ (k - 1) + 1 = k
        BY <3>2, <2>3
      <4>2. k - 1 \in DOMAIN CacheSeq' /\ CacheSeq'[k - 1] = q[k]
        BY <4>1, <2>3
      <4> QED
        BY <4>2, <2>5 DEF Had, Run
    <3> QED
      BY <3>1, <3>2
  <2>6. \A i \in DOMAIN CacheSeq : \A p \in Run(CacheSeq[i], 2) : Had(p)'
    <3> SUFFICES ASSUME NEW i \in DOMAIN CacheSeq, NEW p \in Run(CacheSeq[i], 2) PROVE Had(p)'
      OBVIOUS
    <3>1. i \in 1 .. (Len(s) + 1) /\ q[i] = CacheSeq[i]
      BY <2>3
    <3> QED
      BY <3>1, <2>5
  <2>7. \A p \in Run(raw[t], size[t]) : Had(p)'
    <3>1. Len(s) + 1 \in 1 .. (Len(s) + 1) /\ q[Len(s) + 1] = raw[t]
      BY <2>3
    <3> QED
      BY <3>1, <2>1, <2>5
  <2> QED
    BY <2>1, <2>4, <2>6, <2>7, <1>c, <1>o, <1>l, StepOf
<1>7. ASSUME NEW t \in Threads, Mmap(t) PROVE Covered'
  <2>1. /\ ~Holds(t) /\ owned' = owned /\ size' = size /\ CacheSeq' = CacheSeq
    BY <1>7, <1>c DEF Mmap, CacheInv, CallShape, Holds, CacheSeq, cacheVars
  <2>2. CASE UNCHANGED <<prot, raw>> /\ pc' = [pc EXCEPT ![t] = "GotPages"]
    <3>1. \A u \in Threads \ {t} : Holds(u) => Holds(u)' /\ raw'[u] = raw[u] /\ size'[u] = size[u]
      BY <2>1, <2>2, <1>t DEF Holds
    <3> QED
      BY <2>1, <2>2, <3>1, <1>c, <1>o, <1>q, <1>l, StepOf
  <2>3. ASSUME NEW b \in Pages,
               prot' = [p \in Pages |-> IF p \in Run(b, size[t]) THEN "live" ELSE prot[p]],
               raw' = [raw EXCEPT ![t] = b], pc' = [pc EXCEPT ![t] = "SetDead"]
        PROVE  Covered'
    <3>1. /\ raw'[t] = b /\ size'[t] = size[t] /\ Holds(t)'
          /\ \A u \in Threads \ {t} : Holds(u) => Holds(u)' /\ raw'[u] = raw[u] /\ size'[u] = size[u]
      BY <2>1, <2>3, <1>t DEF Holds, GetPC
    <3>2. \A p \in Pages : prot[p] = "unmapped" /\ prot'[p] # "unmapped" => Had(p)'
      BY <2>3, <3>1, HeldBy
    <3> QED
      BY <2>1, <3>1, <3>2, <1>c, <1>o, <1>q, <1>l, StepOf
  <2> QED
    BY <1>7, <2>2, <2>3 DEF Mmap, Goto
<1>8. ASSUME NEW t \in Threads, Munmap(t) PROVE Covered'
  <2>1. /\ owned' = owned /\ CacheSeq' = CacheSeq
        /\ \A u \in Threads \ {t} : Holds(u) => Holds(u)' /\ raw'[u] = raw[u] /\ size'[u] = size[u]
    BY <1>8, <1>f DEF Munmap, Goto, CacheSeq, cacheVars
  <2>2. /\ \A p \in Run(raw[t], size[t]) \cap Pages : prot'[p] = "unmapped" \/ p \in leaked'
        /\ \A p \in Pages : prot[p] = "unmapped" => prot'[p] = "unmapped"
    BY <1>8 DEF Munmap, Refused
  <2> QED
    BY <2>1, <2>2, <1>c, <1>o, <1>q, <1>l, StepOf
<1> QED
  BY <1>0, <1>1, <1>2, <1>3, <1>4, <1>5, <1>6, <1>7, <1>8
  DEF SysNext, ClientStep, GetPagesStep, ReleasePagesStep

\* Exactly the pages of the blocks that clients, threads or the cache have are mapped, and
\* those lost in one of the two known ways: munmap was refused, or the caller gave the block
\* a shorter length than it has.  On no other path does ReleasePages forget a page, no block
\* keeps one behind munmap, and no lost page comes into a block again.
THEOREM NoPageLostCorrect == SysSpec => []NoPageLost
<1>1. SysInit => LostInv
  <2> SUFFICES ASSUME SysInit PROVE PageInv /\ Covered /\ LeakedApart
    BY DEF LostInv
  <2>1. \A p \in Pages : prot[p] = "unmapped"
    BY DEF SysInit
  <2> QED
    BY <2>1, InitPageInv DEF Covered, LeakedApart, SysInit
<1>2. LostInv /\ [SysNext]_sysVars => LostInv'
  BY StepPageInv, StepCovered, StepLeaked DEF LostInv
<1>3. LostInv => NoPageLost
  BY CoveredIsNoPageLost DEF LostInv
<1> QED
  BY <1>1, <1>2, <1>3, PTL DEF SysSpec

-------------------------------------------------------------------------------
(* What is protected *)

\* A block of two pages or more in use: its first user page can be accessed and its dead
\* page traps, if mprotect is never refused and the block was not cut short.
LiveBlock(b, n) ==
  /\ prot[UserPage(b)] = "live"
  /\ ~KernelRefuses /\ b \notin cut => prot[DeadPage(b, n)] = "dead"

\* A two-page block in the cache.
CachedBlock(b) ==
  IF CheckAccessFreedBlock
  THEN ~KernelRefuses => /\ prot[UserPage(b)] = "dead"
                         /\ b \notin cut => prot[DeadPage(b, 2)] = "dead"
  ELSE LiveBlock(b, 2)

\* A block in a call: the dead page is open while it is stamped or before it is
\* protected for the first time, and a block that is to be queued is protected.
BlockInCall(t) ==
  CASE pc[t] \in {"TraceDead", "FreeTraceDead", "SetDead"} -> prot[UserPage(raw[t])] = "live"
    [] pc[t] = "Enqueue" -> CachedBlock(raw[t])
    [] pc[t] = "Munmap" -> TRUE
    [] OTHER -> LiveBlock(raw[t], size[t])

Protected ==
  /\ \A o \in owned : o[2] >= 2 => LiveBlock(o[1], o[2])
  /\ \A t \in Threads : Holds(t) /\ size[t] >= 2 => BlockInCall(t)
  /\ \A i \in DOMAIN CacheSeq : CachedBlock(CacheSeq[i])

ProtInv == PageInv /\ Protected

LEMMA PagesOfBlock ==
  ASSUME NEW b \in Pages
  PROVE  Run(b, 2) = {UserPage(b), DeadPage(b, 2)} /\ UserPage(b) # DeadPage(b, 2)
BY SysAllocAssumption DEF Run, UserPage, DeadPage, Pages

LEMMA PagesInRun ==
  ASSUME NEW b \in Pages, NEW n \in 0 .. MaxBlockPages, n >= 2
  PROVE  /\ b \in Run(b, n) /\ UserPage(b) \in Run(b, n) /\ DeadPage(b, n) \in Run(b, n)
         /\ UserPage(b) # DeadPage(b, n)
BY SysAllocAssumption DEF Run, UserPage, DeadPage, Pages

\* Blocks keep their protection in a step that touches pages in W only, if they have none
\* of those, and one that was cut short stays so.
LEMMA OutOfReach ==
  ASSUME NEW W, \A p \in Pages \ W : prot'[p] = prot[p], cut \ cut' \subseteq W,
         NEW b \in Pages, NEW n \in 0 .. MaxBlockPages, n >= 2,
         Mapped(b, n), Run(b, n) \cap W = {}
  PROVE  /\ prot'[UserPage(b)] = prot[UserPage(b)]
         /\ prot'[DeadPage(b, n)] = prot[DeadPage(b, n)]
         /\ b \notin cut' => b \notin cut
BY PagesInRun DEF Mapped

\* A step of thread t that touches pages in W only, with its own block, what it hands to
\* the clients and what it moves into the cache accounted for.
LEMMA ProtectedStep ==
  ASSUME ProtInv, PageInv', NEW t \in Threads, NEW W,
         \A p \in Pages \ W : prot'[p] = prot[p], cut \ cut' \subseteq W,
         \A u \in Threads \ {t} :
           /\ Holds(u)' => Holds(u) /\ raw'[u] = raw[u] /\ size'[u] = size[u] /\ pc'[u] = pc[u]
           /\ Holds(u) => Run(raw[u], size[u]) \cap W = {},
         \A o \in owned' :
           \/ o \in owned /\ Run(o[1], o[2]) \cap W = {}
           \/ o[2] >= 2 => LiveBlock(o[1], o[2])',
         \A i \in DOMAIN CacheSeq' :
           \/ \E j \in DOMAIN CacheSeq : CacheSeq'[i] = CacheSeq[j] /\ Run(CacheSeq[j], 2) \cap W = {}
           \/ CachedBlock(CacheSeq[i])',
         Holds(t)' /\ size'[t] >= 2 => BlockInCall(t)'
  PROVE  ProtInv'
<1>t. /\ raw \in [Threads -> Pages \cup {Null}] /\ owned \subseteq Blocks
      /\ size \in [Threads -> 0 .. MaxBlockPages] /\ 2 \in 0 .. MaxBlockPages
      /\ CacheSeq \in Seq(Pages) /\ Placed /\ Protected
  BY CallTypes, CacheIsOneList, SysAllocAssumption DEF ProtInv, PageInv
<1>1. ASSUME NEW o \in owned', o[2] >= 2 PROVE LiveBlock(o[1], o[2])'
  <2> SUFFICES ASSUME o \in owned, Run(o[1], o[2]) \cap W = {} PROVE LiveBlock(o[1], o[2])'
    BY <1>1
  <2> DEFINE b == o[1]  n == o[2]
  <2>1. /\ b \in Pages /\ n \in 0 .. MaxBlockPages
        /\ Mapped(b, n) /\ Run(b, n) \cap W = {} /\ LiveBlock(b, n)
    BY <1>t, <1>1 DEF Placed, Protected, Blocks
  <2>2. /\ prot'[UserPage(b)] = prot[UserPage(b)]
        /\ prot'[DeadPage(b, n)] = prot[DeadPage(b, n)]
        /\ b \notin cut' => b \notin cut
    BY <1>1, <2>1, OutOfReach
  <2> QED
    BY <2>1, <2>2 DEF LiveBlock
<1>2. ASSUME NEW u \in Threads, Holds(u)', size'[u] >= 2 PROVE BlockInCall(u)'
  <2> SUFFICES ASSUME u # t PROVE BlockInCall(u)'
    BY <1>2
  <2>1. Holds(u) /\ raw'[u] = raw[u] /\ size'[u] = size[u] /\ pc'[u] = pc[u]
    BY <1>2
  <2> DEFINE b == raw[u]  n == size[u]
  <2>2. /\ b \in Pages /\ n \in 0 .. MaxBlockPages /\ n >= 2
        /\ Mapped(b, n) /\ Run(b, n) \cap W = {} /\ BlockInCall(u)
    BY <1>t, <1>2, <2>1 DEF Placed, Protected, Holds
  <2>3. /\ prot'[UserPage(b)] = prot[UserPage(b)]
        /\ prot'[DeadPage(b, n)] = prot[DeadPage(b, n)]
        /\ b \notin cut' => b \notin cut
    BY <2>2, OutOfReach
  <2>4. pc[u] = "Enqueue" => n = 2
    BY <2>1 DEF ProtInv, PageInv, CacheInv, CallShape, ReleasePC
  <2> QED
    BY <2>1, <2>2, <2>3, <2>4 DEF BlockInCall, LiveBlock, CachedBlock
<1>3. ASSUME NEW i \in DOMAIN CacheSeq' PROVE CachedBlock(CacheSeq[i])'
  <2> SUFFICES ASSUME NEW j \in DOMAIN CacheSeq, CacheSeq'[i] = CacheSeq[j],
                      Run(CacheSeq[j], 2) \cap W = {}
               PROVE  CachedBlock(CacheSeq[i])'
    BY <1>3
  <2>1. CacheSeq[j] \in Pages /\ Mapped(CacheSeq[j], 2) /\ CachedBlock(CacheSeq[j])
    BY <1>t DEF Placed, Protected
  <2>2. /\ prot'[UserPage(CacheSeq[j])] = prot[UserPage(CacheSeq[j])]
        /\ prot'[DeadPage(CacheSeq[j], 2)] = prot[DeadPage(CacheSeq[j], 2)]
        /\ CacheSeq[j] \notin cut' => CacheSeq[j] \notin cut
    <3> DEFINE b == CacheSeq[j]  n == 2
    <3>1. /\ b \in Pages /\ n \in 0 .. MaxBlockPages /\ n >= 2 /\ Mapped(b, n)
          /\ Run(b, n) \cap W = {}
      BY <2>1, <1>t
    <3> HIDE DEF b, n
    <3>2. /\ prot'[UserPage(b)] = prot[UserPage(b)]
          /\ prot'[DeadPage(b, n)] = prot[DeadPage(b, n)]
          /\ b \notin cut' => b \notin cut
      BY <3>1, OutOfReach
    <3> QED
      BY <3>2 DEF b, n
  <2> QED
    BY <2>1, <2>2 DEF LiveBlock, CachedBlock
<1> QED
  BY <1>1, <1>2, <1>3 DEF ProtInv, Protected

LEMMA StepProtInv == ProtInv /\ [SysNext]_sysVars => ProtInv'
<1> SUFFICES ASSUME ProtInv, [SysNext]_sysVars PROVE ProtInv'
  OBVIOUS
<1>c. /\ CacheInv /\ CacheInv' /\ PageInv /\ PageInv'
      /\ NoPageTwice /\ Placed /\ Protected
  BY StepCacheInv, StepPageInv DEF ProtInv, PageInv
<1>s. /\ CacheSeq \in Seq(Pages)
      /\ CheckAccessFreedBlock => CacheSeq = gCacheBlockTags /\ CacheSeq' = gCacheBlockTags'
      /\ ~CheckAccessFreedBlock => CacheSeq = gCacheBlockHead /\ CacheSeq' = gCacheBlockHead'
  BY <1>c, CacheSeqInStep
<1>t. /\ pc \in [Threads -> {"idle"} \cup GetPC \cup ReleasePC]
      /\ raw \in [Threads -> Pages \cup {Null}]
      /\ size \in [Threads -> 0 .. MaxBlockPages]
      /\ prot \in [Pages -> {"unmapped", "live", "dead"}]
      /\ owned \subseteq Blocks
      /\ Null \notin Pages
  BY <1>c, CallTypes
\* Only thread t's part of the call changes.
<1>f. ASSUME NEW t \in Threads, NEW l, NEW b, NEW n, pc' = [pc EXCEPT ![t] = l],
             raw' = [raw EXCEPT ![t] = b], size' = [size EXCEPT ![t] = n]
      PROVE  /\ \A u \in Threads \ {t} :
                  Holds(u)' => Holds(u) /\ raw'[u] = raw[u] /\ size'[u] = size[u] /\ pc'[u] = pc[u]
             /\ pc'[t] = l /\ raw'[t] = b /\ size'[t] = n
             /\ b = Null \/ l = "idle" => ~Holds(t)'
  BY <1>f, <1>t DEF Holds, GetPC, ReleasePC
<1>0. CASE UNCHANGED sysVars
  <2>1. /\ owned' = owned /\ CacheSeq' = CacheSeq /\ prot' = prot
        /\ UNCHANGED <<pc, raw, size, cut>>
    BY <1>0 DEF sysVars, cacheVars, callVars, CacheSeq
  <2>2. Protected'
    BY <2>1, <1>c DEF Protected, LiveBlock, CachedBlock, BlockInCall, Holds
  <2> QED
    BY <2>2, <1>c DEF ProtInv
\* What the clients and the cache keep when pages in W are touched.
<1>o. ASSUME NEW W, \A o \in owned : Run(o[1], o[2]) \cap W = {}, owned' = owned
      PROVE  \A o \in owned' : \/ o \in owned /\ Run(o[1], o[2]) \cap W = {}
                               \/ o[2] >= 2 => LiveBlock(o[1], o[2])'
  BY <1>o
<1>q. ASSUME NEW W, \A i \in DOMAIN CacheSeq : Run(CacheSeq[i], 2) \cap W = {}, CacheSeq' = CacheSeq
      PROVE  \A i \in DOMAIN CacheSeq' :
               \/ \E j \in DOMAIN CacheSeq : CacheSeq'[i] = CacheSeq[j] /\ Run(CacheSeq[j], 2) \cap W = {}
               \/ CachedBlock(CacheSeq[i])'
  BY <1>q
\* Nothing is touched, but blocks move.
<1>m. ASSUME NEW t \in Threads, prot' = prot, cut \subseteq cut',
             \A u \in Threads \ {t} :
               Holds(u)' => Holds(u) /\ raw'[u] = raw[u] /\ size'[u] = size[u] /\ pc'[u] = pc[u],
             \A o \in owned' : o \in owned \/ (o[2] >= 2 => LiveBlock(o[1], o[2])'),
             \A i \in DOMAIN CacheSeq' :
               (\E j \in DOMAIN CacheSeq : CacheSeq'[i] = CacheSeq[j]) \/ CachedBlock(CacheSeq[i])',
             Holds(t)' /\ size'[t] >= 2 => BlockInCall(t)'
      PROVE  ProtInv'
  <2> DEFINE W == {}
  <2>1. /\ \A p \in Pages \ W : prot'[p] = prot[p]
        /\ cut \ cut' \subseteq W
        /\ \A u \in Threads \ {t} : Holds(u) => Run(raw[u], size[u]) \cap W = {}
        /\ \A o \in owned' : \/ o \in owned /\ Run(o[1], o[2]) \cap W = {}
                             \/ o[2] >= 2 => LiveBlock(o[1], o[2])'
        /\ \A i \in DOMAIN CacheSeq' :
             \/ \E j \in DOMAIN CacheSeq : CacheSeq'[i] = CacheSeq[j] /\ Run(CacheSeq[j], 2) \cap W = {}
             \/ CachedBlock(CacheSeq[i])'
    BY <1>m
  <2> HIDE DEF W
  <2>2. \A u \in Threads \ {t} :
          /\ Holds(u)' => Holds(u) /\ raw'[u] = raw[u] /\ size'[u] = size[u] /\ pc'[u] = pc[u]
          /\ Holds(u) => Run(raw[u], size[u]) \cap W = {}
    BY <1>m, <2>1
  <2>3. Holds(t)' /\ size'[t] >= 2 => BlockInCall(t)'
    BY <1>m
  <2> QED
    BY <2>1, <2>2, <2>3, <1>c, ProtectedStep
\* The steps that change nothing but the thread's place in its call.
<1>1. ASSUME NEW t \in Threads, prot' = prot, cut' = cut, owned' = owned, CacheSeq' = CacheSeq,
             \A u \in Threads \ {t} :
               Holds(u)' => Holds(u) /\ raw'[u] = raw[u] /\ size'[u] = size[u] /\ pc'[u] = pc[u],
             Holds(t)' /\ size'[t] >= 2 => BlockInCall(t)'
      PROVE  ProtInv'
  BY <1>1, <1>m
\* A step of a thread that touches pages of its own block.
<1>2. ASSUME NEW t \in Threads, Holds(t),
             \A p \in Pages \ Run(raw[t], size[t]) : prot'[p] = prot[p],
             cut \ cut' \subseteq Run(raw[t], size[t]), owned' = owned, CacheSeq' = CacheSeq,
             \A u \in Threads \ {t} :
               Holds(u)' => Holds(u) /\ raw'[u] = raw[u] /\ size'[u] = size[u] /\ pc'[u] = pc[u],
             Holds(t)' /\ size'[t] >= 2 => BlockInCall(t)'
      PROVE  ProtInv'
  <2> DEFINE W == Run(raw[t], size[t])
  <2>1. /\ \A o \in owned : Run(o[1], o[2]) \cap W = {}
        /\ \A i \in DOMAIN CacheSeq : Run(CacheSeq[i], 2) \cap W = {}
        /\ \A u \in Threads \ {t} : Holds(u) => Run(raw[u], size[u]) \cap W = {}
    BY <1>2, <1>c DEF NoPageTwice
  <2>2. (\A p \in Pages \ W : prot'[p] = prot[p]) /\ cut \ cut' \subseteq W
    BY <1>2
  <2> HIDE DEF W
  <2>3. \A o \in owned' : \/ o \in owned /\ Run(o[1], o[2]) \cap W = {}
                          \/ o[2] >= 2 => LiveBlock(o[1], o[2])'
    BY <1>2, <2>1, <1>o
  <2>4. \A i \in DOMAIN CacheSeq' :
          \/ \E j \in DOMAIN CacheSeq : CacheSeq'[i] = CacheSeq[j] /\ Run(CacheSeq[j], 2) \cap W = {}
          \/ CachedBlock(CacheSeq[i])'
    BY <1>2, <2>1, <1>q
  <2>5. \A u \in Threads \ {t} :
          /\ Holds(u)' => Holds(u) /\ raw'[u] = raw[u] /\ size'[u] = size[u] /\ pc'[u] = pc[u]
          /\ Holds(u) => Run(raw[u], size[u]) \cap W = {}
    BY <1>2, <2>1
  <2>6. Holds(t)' /\ size'[t] >= 2 => BlockInCall(t)'
    BY <1>2
  <2> QED
    BY <2>2, <2>3, <2>4, <2>5, <2>6, <1>c, ProtectedStep
\* The entries of a call and the steps that look at the cache or the counter.
<1>3. ASSUME NEW t \in Threads,
             \/ \E n \in 2 .. MaxBlockPages : EnterGetPages(t, n)
             \/ ReuseRefused(t) \/ CacheMiss(t) \/ InitHeader(t) \/ EnqueueNoTag(t) \/ TestCount(t)
      PROVE  ProtInv'
  <2>1. prot' = prot /\ owned' = owned /\ CacheSeq' = CacheSeq /\ cut' = cut
    BY <1>3 DEF EnterGetPages, ReuseRefused, CacheMiss, InitHeader, EnqueueNoTag, TestCount,
                Refused, CacheSeq, cacheVars
  <2>2. CASE \E n \in 2 .. MaxBlockPages : EnterGetPages(t, n)
    <3>1. /\ ~Holds(t)'
          /\ \A u \in Threads \ {t} :
               Holds(u)' => Holds(u) /\ raw'[u] = raw[u] /\ size'[u] = size[u] /\ pc'[u] = pc[u]
      BY <2>2, <1>t DEF EnterGetPages, Goto, Holds
    <3> QED
      BY <2>1, <3>1, <1>1
  <2>3. CASE ~\E n \in 2 .. MaxBlockPages : EnterGetPages(t, n)
    <3>1. PICK l : pc' = [pc EXCEPT ![t] = l]
      BY <1>3, <2>3 DEF ReuseRefused, CacheMiss, InitHeader, EnqueueNoTag, TestCount, Goto
    <3>2. raw' = raw /\ size' = size
      BY <1>3, <2>3 DEF ReuseRefused, CacheMiss, InitHeader, EnqueueNoTag, TestCount
    <3>3. \A u \in Threads \ {t} :
            Holds(u)' => Holds(u) /\ raw'[u] = raw[u] /\ size'[u] = size[u] /\ pc'[u] = pc[u]
      BY <3>1, <3>2, <1>t DEF Holds
    <3>4. Holds(t)' /\ size'[t] >= 2 => BlockInCall(t)'
      <4>1. CASE ReuseRefused(t) \/ CacheMiss(t)
        BY <4>1, <3>2, <1>c DEF ReuseRefused, CacheMiss, CacheInv, CallShape, Holds
      <4>2. CASE EnqueueNoTag(t)
        BY <4>2, <1>t DEF EnqueueNoTag, Goto, BlockInCall
      <4>3. CASE InitHeader(t) \/ TestCount(t)
        <5>1. /\ pc[t] \in {"ReleasePages", "TestCount"} /\ Holds(t) /\ size[t] = 2
              /\ pc'[t] \in {"FreeTraceLive", "Protect", "TestCount", "Push", "Munmap"}
          BY <4>3, <1>t, <1>c
          DEF InitHeader, TestCount, AfterFreeTrace, Goto, Holds, CacheInv, CallShape, GetPC, ReleasePC
        <5>2. LiveBlock(raw[t], size[t])
          BY <5>1, <1>c DEF Protected, BlockInCall
        <5> QED
          BY <5>1, <5>2, <2>1, <3>2 DEF BlockInCall, LiveBlock
      <4> QED
        BY <1>3, <2>3, <4>1, <4>2, <4>3
    <3> QED
      BY <2>1, <3>3, <3>4, <1>1
  <2> QED
    BY <2>2, <2>3
\* Stamping the dead page and protecting pages.
<1>4. ASSUME NEW t \in Threads,
             \/ TraceLive(t) \/ TraceDead(t) \/ SetDead(t)
             \/ FreeTraceLive(t) \/ FreeTraceDead(t) \/ Protect(t)
      PROVE  ProtInv'
  <2> DEFINE b == raw[t]  n == size[t]
  <2>1. /\ b \in Pages /\ n \in 1 .. MaxBlockPages /\ Holds(t)
        /\ ~SetDead(t) => n = 2
    BY <1>4, <1>c, <1>t
    DEF TraceLive, TraceDead, SetDead, FreeTraceLive, FreeTraceDead, Protect, OpenDeadPage, CloseDeadPage,
        CacheInv, CallShape, Holds, GetPC, ReleasePC
  <2>2. /\ DeadPage(b, n) \in Run(b, n)
        /\ n >= 2 => UserPage(b) \in Run(b, n) /\ UserPage(b) # DeadPage(b, n)
    BY <2>1, SysAllocAssumption DEF DeadPage, UserPage, Run, Pages
  <2>3. PICK p \in Run(b, n), m \in {"live", "dead"} :
          /\ prot' \in {prot, [prot EXCEPT ![p] = m]}
          /\ \E l : pc' = [pc EXCEPT ![t] = l]
    BY <1>4, <2>1, <2>2
    DEF TraceLive, TraceDead, SetDead, FreeTraceLive, FreeTraceDead, Protect, OpenDeadPage, CloseDeadPage,
        SetPage, Refused, Goto
  <2>4. UNCHANGED <<raw, size, owned, gCacheBlockHead, gCacheBlockTags, cut>>
    BY <1>4 DEF TraceLive, TraceDead, SetDead, FreeTraceLive, FreeTraceDead, Protect, OpenDeadPage,
                CloseDeadPage, cacheVars
  <2>5. /\ owned' = owned /\ CacheSeq' = CacheSeq /\ cut \ cut' \subseteq Run(raw[t], size[t])
        /\ \A u \in Threads \ {t} :
             Holds(u)' => Holds(u) /\ raw'[u] = raw[u] /\ size'[u] = size[u] /\ pc'[u] = pc[u]
    BY <2>3, <2>4, <1>t DEF CacheSeq, Holds
  <2>6. \A q \in Pages \ Run(raw[t], size[t]) : prot'[q] = prot[q]
    BY <2>3, <1>t
  <2>7. Holds(t)' /\ size'[t] >= 2 => BlockInCall(t)'
    <3> SUFFICES ASSUME n >= 2 PROVE BlockInCall(t)'
      BY <2>4
    <3>0. BlockInCall(t) /\ UserPage(b) \in Pages /\ DeadPage(b, n) \in Pages /\ UserPage(b) # DeadPage(b, n)
      BY <2>1, <2>2, <1>c DEF Protected, Placed, Mapped
    <3>1. CASE TraceLive(t) \/ FreeTraceLive(t)
      <4>1. /\ pc[t] \in {"TraceLive", "FreeTraceLive"}
            /\ \/ /\ prot' = [prot EXCEPT ![DeadPage(b, n)] = "live"]
                  /\ pc'[t] \in {"TraceDead", "FreeTraceDead"}
               \/ prot' = prot /\ pc'[t] \in {"GotPages", "Protect", "TestCount"}
        BY <3>1, <1>t
        DEF TraceLive, FreeTraceLive, OpenDeadPage, SetPage, Refused, Goto, AfterFreeTrace
      <4>2. LiveBlock(b, n)
        BY <3>0, <4>1 DEF BlockInCall
      <4>3. prot'[UserPage(b)] = "live"
        BY <3>0, <4>1, <4>2, <1>t DEF LiveBlock
      <4> QED
        BY <2>4, <4>1, <4>2, <4>3 DEF BlockInCall, LiveBlock
    <3>2. CASE TraceDead(t) \/ FreeTraceDead(t) \/ SetDead(t)
      <4>1. /\ pc[t] \in {"TraceDead", "FreeTraceDead", "SetDead"}
            /\ pc'[t] \in {"GotPages", "Protect", "TestCount"}
            /\ \/ prot' = [prot EXCEPT ![DeadPage(b, n)] = "dead"]
               \/ prot' = prot /\ KernelRefuses
        BY <3>2, <1>t
        DEF TraceDead, FreeTraceDead, SetDead, CloseDeadPage, SetPage, Refused, Goto, AfterFreeTrace
      <4>2. prot[UserPage(b)] = "live"
        BY <3>0, <4>1 DEF BlockInCall
      <4>3. prot'[UserPage(b)] = "live" /\ (~KernelRefuses => prot'[DeadPage(b, n)] = "dead")
        BY <3>0, <4>1, <4>2, <1>t
      <4> QED
        BY <2>4, <4>1, <4>3 DEF BlockInCall, LiveBlock
    <3>3. CASE Protect(t)
      <4>1. /\ pc[t] = "Protect" /\ pc'[t] = "Enqueue" /\ CheckAccessFreedBlock
            /\ \/ prot' = [prot EXCEPT ![UserPage(b)] = "dead"]
               \/ prot' = prot /\ KernelRefuses
        BY <3>3, <1>t, <1>c DEF Protect, SetPage, Refused, Goto, CacheInv, ListMode
      <4>2. LiveBlock(b, n)
        BY <3>0, <4>1 DEF BlockInCall
      <4>3. ~KernelRefuses => /\ prot'[UserPage(b)] = "dead"
                              /\ b \notin cut => prot'[DeadPage(b, 2)] = "dead"
        <5>1. n = 2
          BY <3>3, <2>1 DEF Protect, SetDead, CloseDeadPage
        <5>2. ~KernelRefuses => prot' = [prot EXCEPT ![UserPage(b)] = "dead"]
          BY <4>1
        <5> QED
          BY <3>0, <4>2, <5>1, <5>2, <1>t DEF LiveBlock
      <4> QED
        BY <2>4, <4>1, <4>3 DEF BlockInCall, CachedBlock
    <3> QED
      BY <1>4, <3>1, <3>2, <3>3
  <2> QED
    BY <2>1, <2>5, <2>6, <2>7, <1>2
<1>5. ASSUME NEW t \in Threads, ReturnGetPages(t) PROVE ProtInv'
  <2>1. /\ CacheSeq' = CacheSeq /\ prot' = prot /\ cut' = cut /\ ~Holds(t)'
        /\ \A u \in Threads \ {t} :
             Holds(u)' => Holds(u) /\ raw'[u] = raw[u] /\ size'[u] = size[u] /\ pc'[u] = pc[u]
    BY <1>5, <1>f DEF ReturnGetPages, Goto, CacheSeq, cacheVars
  <2>2. ASSUME NEW o \in owned', o \notin owned, o[2] >= 2 PROVE LiveBlock(o[1], o[2])'
    <3>1. o = <<raw[t], size[t]>> /\ raw[t] # Null /\ pc[t] = "GotPages"
      BY <1>5, <2>2 DEF ReturnGetPages
    <3>2. Holds(t) /\ size[t] >= 2 /\ o[1] = raw[t] /\ o[2] = size[t]
      BY <2>2, <3>1 DEF Holds, GetPC
    <3>3. LiveBlock(raw[t], size[t])
      BY <3>1, <3>2, <1>c DEF Protected, BlockInCall
    <3> QED
      BY <2>1, <3>2, <3>3 DEF LiveBlock
  <2> QED
    BY <2>1, <2>2, <1>m
\* A block whose length is given too small is cut, and only its user page is known to be
\* what it should be.
<1>6. ASSUME NEW t \in Threads, NEW o \in owned, NEW n \in ReleasedPages(o),
             EnterReleasePages(t, o, o[1], n)
      PROVE  ProtInv'
  <2>1. owned' = owned \ {o} /\ prot' = prot /\ CacheSeq' = CacheSeq /\ cut \subseteq cut'
    BY <1>6 DEF EnterReleasePages, CacheSeq, cacheVars
  <2>2. /\ raw'[t] = o[1] /\ size'[t] = n
        /\ pc'[t] = IF n = 2 THEN "ReleasePages" ELSE "Munmap"
        /\ \A u \in Threads \ {t} :
             Holds(u)' => Holds(u) /\ raw'[u] = raw[u] /\ size'[u] = size[u] /\ pc'[u] = pc[u]
    BY <1>6, <1>t DEF EnterReleasePages, Goto, Holds, Cacheable
  <2>3. n # o[2] => n < o[2] /\ o[1] \in cut'
    BY <1>6, <1>t DEF EnterReleasePages, ReleasedPages, Blocks
  <2>4. BlockInCall(t)'
    <3>1. CASE n # 2
      BY <3>1, <2>2 DEF BlockInCall
    <3>2. CASE n = 2
      <4>1. o[2] >= 2
        BY <3>2, <2>3, <1>t DEF Blocks
      <4>2. LiveBlock(o[1], o[2])
        BY <4>1, <1>c DEF Protected
      <4>3. LiveBlock(o[1], n)'
        BY <4>2, <2>1, <2>3 DEF LiveBlock
      <4> QED
        BY <4>3, <3>2, <2>2 DEF BlockInCall, LiveBlock
    <3> QED
      BY <3>1, <3>2
  <2> QED
    BY <2>1, <2>2, <2>4, <1>m
<1>7. ASSUME NEW t \in Threads, ReuseOldest(t) \/ ReuseLatest(t) PROVE ProtInv'
  <2> DEFINE b == CacheSeq[1]
             W == Run(b, 2)
  <2>1. /\ CacheSeq # <<>> /\ CacheSeq' = Tail(CacheSeq)
        /\ raw' = [raw EXCEPT ![t] = Head(CacheSeq)]
    BY <1>7, <1>c, ReuseTakesHead
  <2>2. /\ 1 \in DOMAIN CacheSeq /\ Head(CacheSeq) = b /\ b \in Pages
        /\ \A i \in DOMAIN CacheSeq' :
             i + 1 \in DOMAIN CacheSeq /\ i + 1 # 1 /\ CacheSeq'[i] = CacheSeq[i + 1]
    BY <2>1, <1>s, HeadTailProperties
  <2>3. /\ size[t] = 2 /\ size' = size /\ owned' = owned /\ cut' = cut
        /\ pc' = [pc EXCEPT ![t] = AfterCacheHit]
    BY <1>7, <1>c DEF ReuseOldest, ReuseLatest, CacheInv, CallShape, Goto
  <2>4. /\ raw'[t] = b /\ pc'[t] \in {"TraceLive", "GotPages"}
        /\ \A u \in Threads \ {t} :
             Holds(u)' => Holds(u) /\ raw'[u] = raw[u] /\ size'[u] = size[u] /\ pc'[u] = pc[u]
    BY <2>1, <2>2, <2>3, <1>t DEF Holds, AfterCacheHit
  <2>5. UserPage(b) \in W /\ W = {UserPage(b), DeadPage(b, 2)} /\ UserPage(b) # DeadPage(b, 2)
    BY <2>2, PagesOfBlock
  <2>6. UserPage(b) \in Pages /\ DeadPage(b, 2) \in Pages /\ CachedBlock(b)
    BY <2>2, <2>5, <1>c DEF Placed, Mapped, Protected
  <2>7. \/ ReuseOldest(t) /\ CheckAccessFreedBlock /\ prot' = [prot EXCEPT ![UserPage(b)] = "live"]
        \/ ReuseLatest(t) /\ ~CheckAccessFreedBlock /\ prot' = prot
    <3>1. ReuseOldest(t) => CheckAccessFreedBlock /\ prot' = [prot EXCEPT ![UserPage(b)] = "live"]
      BY <2>2, <1>s DEF ReuseOldest, QuarantineFull, SetPage
    <3>2. ReuseLatest(t) => ~CheckAccessFreedBlock /\ prot' = prot
      BY <1>c DEF ReuseLatest, CacheInv, ListMode
    <3> QED
      BY <1>7, <3>1, <3>2
  <2>8. BlockInCall(t)'
    <3>1. prot'[UserPage(b)] = "live" /\ prot'[DeadPage(b, 2)] = prot[DeadPage(b, 2)]
      BY <2>5, <2>6, <2>7, <1>t DEF CachedBlock, LiveBlock
    <3>2. ~KernelRefuses /\ b \notin cut => prot'[DeadPage(b, 2)] = "dead"
      BY <2>6, <3>1 DEF CachedBlock, LiveBlock
    <3> QED
      BY <2>3, <2>4, <3>1, <3>2 DEF BlockInCall, LiveBlock
  <2>9. /\ \A p \in Pages \ W : prot'[p] = prot[p]
        /\ cut \ cut' \subseteq W
        /\ \A u \in Threads \ {t} : Holds(u) => Run(raw[u], size[u]) \cap W = {}
        /\ \A o \in owned' : o \in owned /\ Run(o[1], o[2]) \cap W = {}
        /\ \A i \in DOMAIN CacheSeq' :
             \E j \in DOMAIN CacheSeq : CacheSeq'[i] = CacheSeq[j] /\ Run(CacheSeq[j], 2) \cap W = {}
    <3>1. \A p \in Pages \ W : prot'[p] = prot[p]
      BY <2>5, <2>7, <1>t
    <3>2. \A j \in DOMAIN CacheSeq : j # 1 => Run(CacheSeq[j], 2) \cap W = {}
      BY <2>2, <1>c DEF NoPageTwice
    <3>3. \A u \in Threads : Holds(u) => Run(raw[u], size[u]) \cap W = {}
      BY <2>2, <1>c DEF NoPageTwice
    <3>4. \A o \in owned' : o \in owned /\ Run(o[1], o[2]) \cap W = {}
      BY <2>2, <2>3, <1>c DEF NoPageTwice
    <3> QED
      BY <2>2, <2>3, <3>1, <3>2, <3>3, <3>4
  <2> HIDE DEF W, b
  <2> QED
    BY <2>4, <2>8, <2>9, <1>c, ProtectedStep
<1>8. ASSUME NEW t \in Threads, EnqueueKeep(t) \/ Push(t) PROVE ProtInv'
  <2>1. /\ raw[t] \in Pages /\ size[t] = 2 /\ Holds(t)
        /\ owned' = owned /\ prot' = prot /\ cut' = cut
    BY <1>8, <1>c, <1>t DEF EnqueueKeep, Push, CacheInv, CallShape, Holds, ReleasePC
  <2>2. /\ ~Holds(t)'
        /\ \A u \in Threads \ {t} :
             Holds(u)' => Holds(u) /\ raw'[u] = raw[u] /\ size'[u] = size[u] /\ pc'[u] = pc[u]
    BY <1>8, <1>t DEF EnqueueKeep, Push, Goto, Holds, GetPC, ReleasePC
  <2>3. CachedBlock(raw[t])
    <3>1. BlockInCall(t)
      BY <2>1, <1>c DEF Protected
    <3>2. EnqueueKeep(t) => pc[t] = "Enqueue"
      BY DEF EnqueueKeep
    <3>3. Push(t) => pc[t] = "Push" /\ ~CheckAccessFreedBlock
      BY <1>c DEF Push, CacheInv, ListMode
    <3> QED
      BY <1>8, <2>1, <3>1, <3>2, <3>3 DEF BlockInCall, CachedBlock
  <2>4. CacheSeq' \in {Append(CacheSeq, raw[t]), <<raw[t]>> \o CacheSeq}
    BY <1>8, <1>c, <1>s DEF EnqueueKeep, Push, CacheInv, ListMode
  <2>5. \A i \in DOMAIN CacheSeq' :
          (\E j \in DOMAIN CacheSeq : CacheSeq'[i] = CacheSeq[j]) \/ CacheSeq'[i] = raw[t]
    <3>0. Len(CacheSeq) \in Nat /\ DOMAIN CacheSeq = 1 .. Len(CacheSeq)
      BY <1>s
    <3>1. CASE CacheSeq' = Append(CacheSeq, raw[t])
      BY <3>0, <3>1, <1>s, <2>1, AppendProperties
    <3>2. CASE CacheSeq' = <<raw[t]>> \o CacheSeq
      <4>1. /\ DOMAIN CacheSeq' = 1 .. (Len(CacheSeq) + 1) /\ CacheSeq'[1] = raw[t]
            /\ \A i \in 2 .. (Len(CacheSeq) + 1) : CacheSeq'[i] = CacheSeq[i - 1]
        BY <3>0, <3>2, <1>s, <2>1
      <4>2. \A i \in DOMAIN CacheSeq' : i # 1 => i - 1 \in DOMAIN CacheSeq /\ CacheSeq'[i] = CacheSeq[i - 1]
        BY <3>0, <4>1
      <4> QED
        BY <4>1, <4>2
    <3> QED
      BY <2>4, <3>1, <3>2
  <2>6. ASSUME NEW i \in DOMAIN CacheSeq', CacheSeq'[i] = raw[t] PROVE CachedBlock(CacheSeq[i])'
    BY <2>1, <2>3, <2>6 DEF CachedBlock, LiveBlock
  <2> QED
    BY <2>1, <2>2, <2>5, <2>6, <1>m
<1>9. ASSUME NEW t \in Threads, EnqueueEvict(t) PROVE ProtInv'
  <2> DEFINE s == CacheSeq
             q == Append(CacheSeq, raw[t])
  <2>1. /\ raw[t] \in Pages /\ size[t] = 2 /\ Holds(t)
        /\ owned' = owned /\ prot' = prot /\ size' = size /\ cut' = cut
    BY <1>9, <1>c, <1>t DEF EnqueueEvict, CacheInv, CallShape, Holds, ReleasePC
  <2>2. CacheSeq' = Tail(q) /\ raw' = [raw EXCEPT ![t] = Head(q)] /\ pc' = [pc EXCEPT ![t] = "Munmap"]
    BY <1>9, <1>c, <1>s DEF EnqueueEvict, Goto, CacheInv, ListMode
  <2>3. /\ Len(s) \in Nat /\ DOMAIN s = 1 .. Len(s) /\ DOMAIN CacheSeq' = 1 .. Len(s)
        /\ \A i \in DOMAIN s : q[i] = s[i]
        /\ q[Len(s) + 1] = raw[t]
        /\ \A i \in 1 .. Len(s) : CacheSeq'[i] = q[i + 1]
    BY <1>s, <2>1, <2>2, Rotate, AppendProperties
  <2>4. /\ pc'[t] = "Munmap"
        /\ \A u \in Threads \ {t} :
             Holds(u)' => Holds(u) /\ raw'[u] = raw[u] /\ size'[u] = size[u] /\ pc'[u] = pc[u]
    BY <2>1, <2>2, <1>t DEF Holds
  <2> HIDE DEF q
  <2>5. CachedBlock(raw[t])
    BY <1>9, <2>1, <1>c DEF Protected, BlockInCall, EnqueueEvict
  <2>6. \A i \in DOMAIN CacheSeq' :
          (\E j \in DOMAIN CacheSeq : CacheSeq'[i] = CacheSeq[j]) \/ CacheSeq'[i] = raw[t]
    <3> SUFFICES ASSUME NEW i \in DOMAIN CacheSeq'
                 PROVE  (\E j \in DOMAIN CacheSeq : CacheSeq'[i] = CacheSeq[j]) \/ CacheSeq'[i] = raw[t]
      OBVIOUS
    <3>1. CASE i = Len(s)
      BY <2>3, <3>1
    <3>2. CASE i # Len(s)
      <4>1. i + 1 \in DOMAIN s /\ CacheSeq'[i] = s[i + 1]
        BY <2>3, <3>2
      <4> QED
        BY <4>1
    <3> QED
      BY <3>1, <3>2
  <2>7. ASSUME NEW i \in DOMAIN CacheSeq', CacheSeq'[i] = raw[t] PROVE CachedBlock(CacheSeq[i])'
    BY <2>1, <2>5, <2>7 DEF CachedBlock, LiveBlock
  <2>8. BlockInCall(t)'
    BY <2>4 DEF BlockInCall
  <2> QED
    BY <2>1, <2>4, <2>6, <2>7, <2>8, <1>m
<1>10. ASSUME NEW t \in Threads, Mmap(t) PROVE ProtInv'
  <2>1. /\ ~Holds(t) /\ owned' = owned /\ size' = size /\ CacheSeq' = CacheSeq /\ cut' = cut
        /\ raw[t] = Null
    BY <1>10, <1>c DEF Mmap, CacheInv, CallShape, Holds, CacheSeq, cacheVars
  <2>2. CASE UNCHANGED <<prot, raw>> /\ pc' = [pc EXCEPT ![t] = "GotPages"]
    <3>1. /\ ~Holds(t)'
          /\ \A u \in Threads \ {t} :
               Holds(u)' => Holds(u) /\ raw'[u] = raw[u] /\ size'[u] = size[u] /\ pc'[u] = pc[u]
      BY <2>1, <2>2, <1>t DEF Holds
    <3> QED
      BY <2>1, <2>2, <3>1, <1>1
  <2>3. ASSUME NEW b \in Pages, Run(b, size[t]) \subseteq Pages,
               \A p \in Run(b, size[t]) : prot[p] = "unmapped",
               prot' = [p \in Pages |-> IF p \in Run(b, size[t]) THEN "live" ELSE prot[p]],
               raw' = [raw EXCEPT ![t] = b], pc' = [pc EXCEPT ![t] = "SetDead"]
        PROVE  ProtInv'
    <3> DEFINE W == Run(b, size[t])
    <3>1. /\ \A p \in Pages \ W : prot'[p] = prot[p]
          /\ cut \ cut' \subseteq W
          /\ \A u \in Threads : Holds(u) => Run(raw[u], size[u]) \cap W = {}
          /\ \A o \in owned : Run(o[1], o[2]) \cap W = {}
          /\ \A i \in DOMAIN CacheSeq : Run(CacheSeq[i], 2) \cap W = {}
      BY <2>1, <2>3, <1>c DEF Placed, Mapped
    <3>2. /\ raw'[t] = b /\ size'[t] = size[t] /\ pc'[t] = "SetDead"
          /\ \A u \in Threads \ {t} :
               Holds(u)' => Holds(u) /\ raw'[u] = raw[u] /\ size'[u] = size[u] /\ pc'[u] = pc[u]
      BY <2>1, <2>3, <1>t DEF Holds
    <3>3. size[t] >= 2 => prot'[UserPage(b)] = "live"
      BY <2>3, <1>t, PagesInRun
    <3>4. size'[t] >= 2 => BlockInCall(t)'
      BY <3>2, <3>3 DEF BlockInCall
    <3> HIDE DEF W
    <3>5. \A o \in owned' : \/ o \in owned /\ Run(o[1], o[2]) \cap W = {}
                            \/ o[2] >= 2 => LiveBlock(o[1], o[2])'
      BY <2>1, <3>1, <1>o
    <3>6. \A i \in DOMAIN CacheSeq' :
            \/ \E j \in DOMAIN CacheSeq : CacheSeq'[i] = CacheSeq[j] /\ Run(CacheSeq[j], 2) \cap W = {}
            \/ CachedBlock(CacheSeq[i])'
      BY <2>1, <3>1, <1>q
    <3> QED
      BY <3>1, <3>2, <3>4, <3>5, <3>6, <1>c, ProtectedStep
  <2> QED
    BY <1>10, <2>2, <2>3 DEF Mmap, Goto
<1>11. ASSUME NEW t \in Threads, Munmap(t) PROVE ProtInv'
  <2>1. Holds(t) /\ owned' = owned /\ CacheSeq' = CacheSeq
    BY <1>11, <1>c, <1>t DEF Munmap, CacheInv, CallShape, Holds, ReleasePC, CacheSeq, cacheVars
  <2>2. /\ \A p \in Pages \ Run(raw[t], size[t]) : prot'[p] = prot[p]
        /\ cut \ cut' \subseteq Run(raw[t], size[t])
    <3>1. raw[t] \in Run(raw[t], size[t])
      <4>1. raw[t] \in Pages /\ size[t] \in 1 .. MaxBlockPages
        BY <1>11, <1>c DEF Munmap, CacheInv, CallShape, ReleasePC
      <4> QED
        BY <4>1, SysAllocAssumption DEF Run, Pages
    <3> QED
      BY <3>1, <1>11 DEF Munmap, Refused
  <2>3. /\ ~Holds(t)'
        /\ \A u \in Threads \ {t} :
             Holds(u)' => Holds(u) /\ raw'[u] = raw[u] /\ size'[u] = size[u] /\ pc'[u] = pc[u]
    BY <1>11, <1>f DEF Munmap, Goto
  <2> QED
    BY <2>1, <2>2, <2>3, <1>2
<1> QED
  BY <1>0, <1>3, <1>4, <1>5, <1>6, <1>7, <1>8, <1>9, <1>10, <1>11
  DEF SysNext, ClientStep, GetPagesStep, ReleasePagesStep

LEMMA InitProtInv == SysInit => ProtInv
<1> SUFFICES ASSUME SysInit PROVE ProtInv
  OBVIOUS
<1>1. PageInv /\ CacheSeq = <<>>
  BY InitPageInv, CacheIsOneList DEF PageInv, SysInit
<1>2. owned = {} /\ \A t \in Threads : ~Holds(t)
  BY DEF SysInit, Holds, GetPC, ReleasePC
<1> QED
  BY <1>1, <1>2 DEF ProtInv, Protected

\* Whatever mprotect refuses, GetPages and ReleasePages only ever touch a header in a page
\* that can be accessed.
THEOREM HeadersAccessibleCorrect == SysSpec => []HeadersAccessible
<1>1. ProtInv => HeadersAccessible
  <2> SUFFICES ASSUME ProtInv PROVE HeadersAccessible
    OBVIOUS
  <2>1. CacheInv /\ Protected
    BY DEF ProtInv, PageInv
  <2>2. ASSUME NEW t \in Threads, pc[t] \in {"ReleasePages", "Push"} PROVE prot[UserPage(raw[t])] = "live"
    <3>1. Holds(t) /\ size[t] = 2
      BY <2>1, <2>2, CallTypes DEF CacheInv, CallShape, Holds, ReleasePC
    <3> QED
      BY <2>1, <2>2, <3>1 DEF Protected, BlockInCall, LiveBlock
  <2>3. ASSUME NEW i \in DOMAIN gCacheBlockHead PROVE prot[UserPage(gCacheBlockHead[i])] = "live"
    <3>1. CASE CheckAccessFreedBlock
      BY <3>1, <2>1, <2>3 DEF CacheInv, ListMode
    <3>2. CASE ~CheckAccessFreedBlock
      BY <3>2, <2>1, <2>3, CacheIsOneList DEF Protected, CachedBlock, LiveBlock
    <3> QED
      BY <3>1, <3>2
  <2> QED
    BY <2>2, <2>3 DEF HeadersAccessible
<1> QED
  BY <1>1, InitProtInv, StepProtInv, PTL DEF SysSpec

\* As long as mprotect is not refused, every page of a block in quarantine that was not cut
\* short traps, while other threads queue, evict, reuse and map blocks.
THEOREM QuarantineTrapsCorrect == SysSpec => []QuarantineTraps
<1>1. ProtInv => QuarantineTraps
  <2> SUFFICES ASSUME ProtInv, ~KernelRefuses, NEW i \in DOMAIN gCacheBlockTags,
                      gCacheBlockTags[i] \notin cut, NEW p \in Run(gCacheBlockTags[i], 2)
               PROVE  prot[p] = "dead"
    BY DEF QuarantineTraps
  <2>1. CacheInv /\ Protected /\ gCacheBlockTags \in Seq(Pages)
    BY DEF ProtInv, PageInv, CacheInv, SysTypeOK
  <2>2. CheckAccessFreedBlock /\ CacheSeq = gCacheBlockTags
    <3>1. gCacheBlockTags # <<>>
      OBVIOUS
    <3> QED
      BY <3>1, <2>1, CacheIsOneList DEF CacheInv, ListMode
  <2>3. gCacheBlockTags[i] \in Pages
    BY <2>1
  <2>4. p \in {UserPage(gCacheBlockTags[i]), DeadPage(gCacheBlockTags[i], 2)}
    BY <2>3, PagesOfBlock
  <2> QED
    BY <2>1, <2>2, <2>4 DEF Protected, CachedBlock
<1> QED
  BY <1>1, InitProtInv, StepProtInv, PTL DEF SysSpec

-------------------------------------------------------------------------------
(* What guards a block *)

\* A block of any size that is ready for use: all its pages but one can be accessed, and
\* that one traps, if mprotect is never refused and the block was never cut short.
Guarded(b, n) ==
  /\ \A p \in Run(b, n) : p # DeadPage(b, n) => prot[p] = "live"
  /\ ~KernelRefuses /\ b \notin cut => prot[DeadPage(b, n)] = "dead"

\* The clients' blocks are guarded, and so is the one a call returns; just before its dead
\* page is protected all pages of a fresh block are accessible.
BlocksGuarded ==
  /\ \A o \in owned : Guarded(o[1], o[2])
  /\ \A t \in Threads : Holds(t) /\ pc[t] = "GotPages" => Guarded(raw[t], size[t])
  /\ \A t \in Threads : Holds(t) /\ pc[t] = "SetDead" =>
       \A p \in Run(raw[t], size[t]) : prot[p] = "live"

GuardInv == ProtInv /\ BlocksGuarded

LEMMA DeadPageInRun ==
  ASSUME NEW b \in Pages, NEW n \in 1 .. MaxBlockPages
  PROVE  DeadPage(b, n) \in Run(b, n) /\ b \in Run(b, n)
BY SysAllocAssumption DEF DeadPage, Run, Pages

LEMMA TwoPagesGuarded ==
  ASSUME NEW b \in Pages, LiveBlock(b, 2)' PROVE Guarded(b, 2)'
BY PagesOfBlock DEF LiveBlock, Guarded

\* A step of thread t that changes fresh pages, pages of its own block or pages in the
\* cache leaves every other block as guarded as it was.
LEMMA GuardedStep ==
  ASSUME PageInv, BlocksGuarded, NEW t \in Threads,
         \A p \in Pages : \/ prot'[p] = prot[p] \/ prot[p] = "unmapped"
                          \/ Holds(t) /\ p \in Run(raw[t], size[t])
                          \/ \E i \in DOMAIN CacheSeq : p \in Run(CacheSeq[i], 2),
         \A b \in cut \ cut' : Holds(t) /\ b \in Run(raw[t], size[t]),
         \A u \in Threads \ {t} :
           Holds(u)' => Holds(u) /\ raw'[u] = raw[u] /\ size'[u] = size[u] /\ pc'[u] = pc[u],
         \A o \in owned' : o \in owned \/ Guarded(o[1], o[2])',
         Holds(t)' /\ pc'[t] = "GotPages" => Guarded(raw[t], size[t])',
         Holds(t)' /\ pc'[t] = "SetDead" => \A p \in Run(raw'[t], size'[t]) : prot'[p] = "live"
  PROVE  BlocksGuarded'
<1>c. CacheInv /\ NoPageTwice /\ Placed
  BY DEF PageInv
<1>t. /\ raw \in [Threads -> Pages \cup {Null}] /\ size \in [Threads -> 0 .. MaxBlockPages]
      /\ owned \subseteq Blocks /\ Null \notin Pages
      /\ \A u \in Threads : Holds(u) => raw[u] \in Pages /\ size[u] \in 1 .. MaxBlockPages
  BY <1>c, CallTypes DEF CacheInv, CallShape, Holds, GetPC, ReleasePC
<1>1. ASSUME NEW o \in owned
      PROVE  /\ \A p \in Run(o[1], o[2]) : prot'[p] = prot[p]
             /\ DeadPage(o[1], o[2]) \in Run(o[1], o[2])
             /\ o[1] \notin cut' => o[1] \notin cut
  BY <1>t, <1>c, DeadPageInRun DEF Placed, Mapped, NoPageTwice, Blocks
<1>2. ASSUME NEW u \in Threads \ {t}, Holds(u)
      PROVE  /\ \A p \in Run(raw[u], size[u]) : prot'[p] = prot[p]
             /\ DeadPage(raw[u], size[u]) \in Run(raw[u], size[u])
             /\ raw[u] \notin cut' => raw[u] \notin cut
  BY <1>2, <1>t, <1>c, DeadPageInRun DEF Placed, Mapped, NoPageTwice
<1>3. ASSUME NEW o \in owned' PROVE Guarded(o[1], o[2])'
  BY <1>1, <1>3 DEF BlocksGuarded, Guarded
<1>4. ASSUME NEW u \in Threads, Holds(u)', pc'[u] = "GotPages" PROVE Guarded(raw[u], size[u])'
  <2> SUFFICES ASSUME u # t PROVE Guarded(raw[u], size[u])'
    BY <1>4
  <2>1. Holds(u) /\ raw'[u] = raw[u] /\ size'[u] = size[u] /\ pc[u] = "GotPages"
    BY <1>4
  <2>2. Guarded(raw[u], size[u])
    BY <2>1 DEF BlocksGuarded
  <2> QED
    BY <1>2, <2>1, <2>2 DEF Guarded
<1>5. ASSUME NEW u \in Threads, Holds(u)', pc'[u] = "SetDead", NEW p \in Run(raw'[u], size'[u])
      PROVE  prot'[p] = "live"
  <2> SUFFICES ASSUME u # t PROVE prot'[p] = "live"
    BY <1>5
  <2>1. Holds(u) /\ raw'[u] = raw[u] /\ size'[u] = size[u] /\ pc[u] = "SetDead"
    BY <1>5
  <2> QED
    BY <1>2, <1>5, <2>1 DEF BlocksGuarded
<1> QED
  BY <1>3, <1>4, <1>5 DEF BlocksGuarded

LEMMA StepGuardInv == GuardInv /\ [SysNext]_sysVars => GuardInv'
<1> SUFFICES ASSUME GuardInv, [SysNext]_sysVars PROVE BlocksGuarded'
  BY StepProtInv DEF GuardInv
<1>c. /\ CacheInv /\ CacheInv' /\ PageInv /\ PageInv' /\ ProtInv' /\ Protected'
      /\ NoPageTwice /\ Placed /\ Protected /\ BlocksGuarded
  BY StepProtInv DEF GuardInv, ProtInv, PageInv
<1>s. /\ CacheSeq \in Seq(Pages)
      /\ CheckAccessFreedBlock => CacheSeq = gCacheBlockTags /\ CacheSeq' = gCacheBlockTags'
      /\ ~CheckAccessFreedBlock => CacheSeq = gCacheBlockHead /\ CacheSeq' = gCacheBlockHead'
  BY <1>c, CacheSeqInStep
<1>t. /\ pc \in [Threads -> {"idle"} \cup GetPC \cup ReleasePC]
      /\ raw \in [Threads -> Pages \cup {Null}]
      /\ size \in [Threads -> 0 .. MaxBlockPages]
      /\ prot \in [Pages -> {"unmapped", "live", "dead"}]
      /\ owned \subseteq Blocks
      /\ Null \notin Pages
  BY <1>c, CallTypes
<1>u. /\ raw' \in [Threads -> Pages \cup {Null}]
      /\ size' \in [Threads -> 0 .. MaxBlockPages]
  BY <1>c, CallTypes DEF CacheInv, SysTypeOK
<1>f. ASSUME NEW t \in Threads, NEW l, NEW b, NEW n, pc' = [pc EXCEPT ![t] = l],
             raw' = [raw EXCEPT ![t] = b], size' = [size EXCEPT ![t] = n]
      PROVE  /\ \A u \in Threads \ {t} :
                  Holds(u)' => Holds(u) /\ raw'[u] = raw[u] /\ size'[u] = size[u] /\ pc'[u] = pc[u]
             /\ pc'[t] = l /\ raw'[t] = b /\ size'[t] = n
  BY <1>f, <1>t DEF Holds
\* A two-page block is guarded at the end of GetPages because of what is known of these.
<1>g. ASSUME NEW t \in Threads, Holds(t)', pc'[t] = "GotPages", size'[t] = 2
      PROVE  Guarded(raw[t], size[t])'
  <2>1. LiveBlock(raw[t], 2)' /\ raw'[t] \in Pages
    BY <1>g, <1>c, <1>u DEF Protected, BlockInCall, Holds
  <2>2. PICK b \in Pages : b = raw'[t]
    BY <2>1
  <2>3. LiveBlock(b, 2)'
    BY <2>1, <2>2 DEF LiveBlock
  <2>4. Guarded(b, 2)'
    BY <2>3, TwoPagesGuarded
  <2> QED
    BY <2>2, <2>4, <1>g DEF Guarded
<1>0. CASE UNCHANGED sysVars
  <2>1. UNCHANGED <<owned, prot, pc, raw, size, cut>>
    BY <1>0 DEF sysVars, callVars
  <2> QED
    BY <2>1, <1>c DEF BlocksGuarded, Guarded, Holds
\* The steps that touch no page.
<1>1. ASSUME NEW t \in Threads,
             \/ \E n \in 2 .. MaxBlockPages : EnterGetPages(t, n)
             \/ \E o \in owned : \E n \in ReleasedPages(o) : EnterReleasePages(t, o, o[1], n)
             \/ ReuseRefused(t) \/ CacheMiss(t) \/ InitHeader(t)
             \/ EnqueueKeep(t) \/ EnqueueEvict(t) \/ EnqueueNoTag(t) \/ TestCount(t) \/ Push(t)
      PROVE  BlocksGuarded'
  <2>1. prot' = prot /\ owned' \subseteq owned /\ cut \subseteq cut'
    BY <1>1 DEF EnterGetPages, EnterReleasePages, ReuseRefused, CacheMiss, InitHeader, EnqueueKeep,
                EnqueueEvict, EnqueueNoTag, TestCount, Push, Refused
  <2>2. PICK l, b, n :
          /\ l \in {"idle", "GetPages", "Mmap"} \cup ReleasePC
          /\ pc' = [pc EXCEPT ![t] = l]
          /\ raw' = [raw EXCEPT ![t] = b] /\ size' = [size EXCEPT ![t] = n]
    <3>1. CASE \/ \E n \in 2 .. MaxBlockPages : EnterGetPages(t, n)
               \/ \E o \in owned : \E n \in ReleasedPages(o) : EnterReleasePages(t, o, o[1], n)
      BY <3>1 DEF EnterGetPages, EnterReleasePages, Goto, ReleasePC
    <3>2. CASE ReuseRefused(t) \/ CacheMiss(t) \/ InitHeader(t) \/ EnqueueNoTag(t) \/ TestCount(t)
      <4>1. raw' = [raw EXCEPT ![t] = raw[t]] /\ size' = [size EXCEPT ![t] = size[t]]
        BY <3>2, <1>t DEF ReuseRefused, CacheMiss, InitHeader, EnqueueNoTag, TestCount
      <4>2. \E l \in {"idle", "GetPages", "Mmap"} \cup ReleasePC : pc' = [pc EXCEPT ![t] = l]
        BY <3>2 DEF ReuseRefused, CacheMiss, InitHeader, EnqueueNoTag, TestCount, AfterFreeTrace,
                    Goto, ReleasePC
      <4> QED
        BY <4>1, <4>2
    <3>3. CASE EnqueueKeep(t) \/ Push(t)
      BY <3>3 DEF EnqueueKeep, Push, Goto
    <3>4. CASE EnqueueEvict(t)
      <4>1. size' = [size EXCEPT ![t] = size[t]]
        BY <3>4, <1>t DEF EnqueueEvict
      <4> QED
        BY <3>4, <4>1 DEF EnqueueEvict, Goto, ReleasePC
    <3> QED
      BY <1>1, <3>1, <3>2, <3>3, <3>4
  <2>3. pc'[t] \notin {"GotPages", "SetDead"}
    BY <2>2, <1>t DEF ReleasePC
  <2>4. \A u \in Threads \ {t} :
          Holds(u)' => Holds(u) /\ raw'[u] = raw[u] /\ size'[u] = size[u] /\ pc'[u] = pc[u]
    BY <2>2, <1>f
  <2> QED
    BY <2>1, <2>3, <2>4, <1>c, GuardedStep
<1>2. ASSUME NEW t \in Threads, ReturnGetPages(t) PROVE BlocksGuarded'
  <2>1. /\ prot' = prot /\ cut' = cut /\ pc'[t] = "idle"
        /\ \A u \in Threads \ {t} :
             Holds(u)' => Holds(u) /\ raw'[u] = raw[u] /\ size'[u] = size[u] /\ pc'[u] = pc[u]
    BY <1>2, <1>f DEF ReturnGetPages, Goto
  <2>2. raw[t] # Null => Guarded(raw[t], size[t])
    BY <1>2, <1>c DEF ReturnGetPages, BlocksGuarded, Holds, GetPC
  <2>3. \A o \in owned' : o \in owned \/ Guarded(o[1], o[2])'
    <3> SUFFICES ASSUME NEW o \in owned', o \notin owned PROVE Guarded(o[1], o[2])'
      OBVIOUS
    <3>1. raw[t] # Null /\ o = <<raw[t], size[t]>>
      BY <1>2 DEF ReturnGetPages
    <3> QED
      BY <3>1, <2>1, <2>2 DEF Guarded
  <2> QED
    BY <2>1, <2>3, <1>c, GuardedStep
\* A block from the cache, which changes at most its own pages.
<1>3. ASSUME NEW t \in Threads, ReuseOldest(t) \/ ReuseLatest(t) PROVE BlocksGuarded'
  <2>1. CacheSeq # <<>> /\ raw' = [raw EXCEPT ![t] = Head(CacheSeq)]
    BY <1>3, <1>c, ReuseTakesHead
  <2>2. Head(CacheSeq) \in Pages /\ 1 \in DOMAIN CacheSeq /\ CacheSeq[1] = Head(CacheSeq)
    BY <2>1, <1>s
  <2>3. /\ owned' = owned /\ size' = size /\ size[t] = 2 /\ cut' = cut
        /\ pc' = [pc EXCEPT ![t] = AfterCacheHit]
    BY <1>3, <1>c DEF ReuseOldest, ReuseLatest, Goto, CacheInv, CallShape
  <2>4. \A p \in Pages : prot'[p] = prot[p] \/ p \in Run(CacheSeq[1], 2)
    <3>1. CASE ReuseOldest(t)
      <4>1. CheckAccessFreedBlock
        BY <3>1 DEF ReuseOldest, QuarantineFull
      <4>2. prot' = [prot EXCEPT ![UserPage(CacheSeq[1])] = "live"]
        BY <3>1, <4>1, <2>2, <1>s DEF ReuseOldest, SetPage
      <4> QED
        BY <4>2, <2>2, <1>t, PagesOfBlock
    <3>2. CASE ReuseLatest(t)
      BY <3>2 DEF ReuseLatest
    <3> QED
      BY <1>3, <3>1, <3>2
  <2>5. size' = [size EXCEPT ![t] = size[t]]
    BY <2>3, <1>t
  <2>6. /\ pc'[t] # "SetDead" /\ size'[t] = 2
        /\ \A u \in Threads \ {t} :
             Holds(u)' => Holds(u) /\ raw'[u] = raw[u] /\ size'[u] = size[u] /\ pc'[u] = pc[u]
    <3>1. /\ pc'[t] = AfterCacheHit /\ size'[t] = size[t]
          /\ \A u \in Threads \ {t} :
               Holds(u)' => Holds(u) /\ raw'[u] = raw[u] /\ size'[u] = size[u] /\ pc'[u] = pc[u]
      BY <2>1, <2>3, <1>t DEF Holds
    <3>2. AfterCacheHit # "SetDead"
      BY DEF AfterCacheHit
    <3> QED
      BY <2>3, <3>1, <3>2
  <2>7. Holds(t)' /\ pc'[t] = "GotPages" => Guarded(raw[t], size[t])'
    BY <2>6, <1>g
  <2> QED
    BY <2>2, <2>3, <2>4, <2>6, <2>7, <1>c, GuardedStep
\* The dead page of a block in the thread's hands.
<1>4. ASSUME NEW t \in Threads,
             \/ TraceLive(t) \/ TraceDead(t) \/ SetDead(t)
             \/ FreeTraceLive(t) \/ FreeTraceDead(t) \/ Protect(t)
      PROVE  BlocksGuarded'
  <2> DEFINE b == raw[t]
             n == size[t]
  <2>1. /\ b \in Pages /\ n \in 1 .. MaxBlockPages /\ Holds(t)
        /\ ~SetDead(t) => n = 2
    BY <1>4, <1>c, <1>t
    DEF TraceLive, TraceDead, SetDead, FreeTraceLive, FreeTraceDead, Protect, OpenDeadPage, CloseDeadPage,
        CacheInv, CallShape, Holds, GetPC, ReleasePC
  <2>2. /\ DeadPage(b, n) \in Run(b, n)
        /\ n = 2 => UserPage(b) \in Run(b, n)
    BY <2>1, DeadPageInRun, PagesOfBlock
  <2>3. PICK p \in Run(b, n), m \in {"live", "dead"} :
          /\ prot' \in {prot, [prot EXCEPT ![p] = m]}
          /\ \E l : pc' = [pc EXCEPT ![t] = l]
    BY <1>4, <2>1, <2>2
    DEF TraceLive, TraceDead, SetDead, FreeTraceLive, FreeTraceDead, Protect, OpenDeadPage, CloseDeadPage,
        SetPage, Refused, Goto
  <2>4. UNCHANGED <<raw, size, owned, cut>>
    BY <1>4 DEF TraceLive, TraceDead, SetDead, FreeTraceLive, FreeTraceDead, Protect, OpenDeadPage,
                CloseDeadPage
  <2>5. \A u \in Threads \ {t} :
          Holds(u)' => Holds(u) /\ raw'[u] = raw[u] /\ size'[u] = size[u] /\ pc'[u] = pc[u]
    BY <2>3, <2>4, <1>t DEF Holds
  <2>6. \A q \in Pages : prot'[q] = prot[q] \/ q \in Run(b, n)
    BY <2>3, <1>t
  <2>7. pc'[t] # "SetDead"
    BY <1>4, <1>t DEF TraceLive, TraceDead, SetDead, FreeTraceLive, FreeTraceDead, Protect, OpenDeadPage,
                      CloseDeadPage, Goto, AfterFreeTrace
  <2>8. Holds(t)' /\ pc'[t] = "GotPages" => Guarded(raw[t], size[t])'
    <3>1. CASE n = 2
      BY <3>1, <2>4, <1>g
    <3>2. CASE n # 2
      <4>1. SetDead(t) /\ \A q \in Run(b, n) : prot[q] = "live"
        BY <3>2, <1>4, <2>1, <1>c DEF BlocksGuarded, SetDead, CloseDeadPage
      <4>2. \/ prot' = [prot EXCEPT ![DeadPage(b, n)] = "dead"]
            \/ KernelRefuses /\ prot' = prot
        BY <4>1 DEF SetDead, CloseDeadPage, SetPage, Refused
      <4>3. DeadPage(b, n) \in Pages /\ \A q \in Run(b, n) : q \in Pages
        BY <2>1, <2>2, <1>c DEF Placed, Mapped
      <4>4. Guarded(b, n)'
        BY <4>1, <4>2, <4>3, <1>t, <2>4 DEF Guarded
      <4> QED
        BY <4>4, <2>4 DEF Guarded
    <3> QED
      BY <3>1, <3>2
  <2> QED
    BY <2>1, <2>4, <2>5, <2>6, <2>7, <2>8, <1>c, GuardedStep
<1>5. ASSUME NEW t \in Threads, Mmap(t) PROVE BlocksGuarded'
  <2>1. pc[t] = "Mmap" /\ raw[t] = Null /\ owned' = owned /\ size' = size /\ cut' = cut
    BY <1>5, <1>c DEF Mmap, CacheInv, CallShape
  <2>2. size' = [size EXCEPT ![t] = size[t]]
    BY <2>1, <1>t
  <2>3. CASE prot' = prot /\ raw' = raw /\ Goto(t, "GotPages")
    <3>1. raw' = [raw EXCEPT ![t] = raw[t]]
      BY <2>3, <1>t
    <3>2. /\ ~Holds(t)'
          /\ \A u \in Threads \ {t} :
               Holds(u)' => Holds(u) /\ raw'[u] = raw[u] /\ size'[u] = size[u] /\ pc'[u] = pc[u]
      BY <2>1, <2>2, <2>3, <3>1, <1>f, <1>t DEF Goto, Holds
    <3> QED
      BY <2>1, <2>3, <3>2, <1>c, GuardedStep
  <2>4. ASSUME NEW b \in Pages,
               \A p \in Run(b, size[t]) : p \in Pages /\ prot[p] = "unmapped",
               prot' = [p \in Pages |-> IF p \in Run(b, size[t]) THEN "live" ELSE prot[p]],
               raw' = [raw EXCEPT ![t] = b],
               Goto(t, "SetDead")
        PROVE  BlocksGuarded'
    <3>1. /\ pc'[t] = "SetDead" /\ raw'[t] = b /\ size'[t] = size[t]
          /\ \A u \in Threads \ {t} :
               Holds(u)' => Holds(u) /\ raw'[u] = raw[u] /\ size'[u] = size[u] /\ pc'[u] = pc[u]
      BY <2>2, <2>4, <1>f, <1>t DEF Goto
    <3>2. \A p \in Run(raw'[t], size'[t]) : prot'[p] = "live"
      BY <2>4, <3>1
    <3>3. \A p \in Pages : prot'[p] = prot[p] \/ prot[p] = "unmapped"
      BY <2>4
    <3> QED
      BY <2>1, <3>1, <3>2, <3>3, <1>c, GuardedStep
  <2> QED
    BY <1>5, <2>3, <2>4 DEF Mmap
<1>6. ASSUME NEW t \in Threads, Munmap(t) PROVE BlocksGuarded'
  <2>1. /\ raw[t] \in Pages /\ Holds(t) /\ owned' = owned
    BY <1>6, <1>c, <1>t DEF Munmap, CacheInv, CallShape, Holds, ReleasePC
  <2>2. /\ \A p \in Pages : prot'[p] = prot[p] \/ p \in Run(raw[t], size[t])
        /\ \A b \in cut \ cut' : b \in Run(raw[t], size[t])
    <3>1. raw[t] \in Run(raw[t], size[t])
      <4>1. raw[t] \in Pages /\ size[t] \in 1 .. MaxBlockPages
        BY <1>6, <1>c DEF Munmap, CacheInv, CallShape, ReleasePC
      <4> QED
        BY <4>1, DeadPageInRun
    <3> QED
      BY <3>1, <1>6 DEF Munmap, Refused
  <2>3. /\ pc'[t] = "idle"
        /\ \A u \in Threads \ {t} :
             Holds(u)' => Holds(u) /\ raw'[u] = raw[u] /\ size'[u] = size[u] /\ pc'[u] = pc[u]
    BY <1>6, <1>f DEF Munmap, Goto
  <2> QED
    BY <2>1, <2>2, <2>3, <1>c, GuardedStep
<1> QED
  BY <1>0, <1>1, <1>2, <1>3, <1>4, <1>5, <1>6
  DEF SysNext, ClientStep, GetPagesStep, ReleasePagesStep

\* A block of any size the clients have is guarded at every moment: its dead page traps if
\* mprotect is not refused and the block was not cut short in an earlier life.
THEOREM BlocksGuardedCorrect == SysSpec => []BlocksGuarded
<1>1. SysInit => GuardInv
  BY InitProtInv DEF GuardInv, BlocksGuarded, SysInit
<1>2. GuardInv => BlocksGuarded
  BY DEF GuardInv
<1> QED
  BY <1>1, <1>2, StepGuardInv, PTL DEF SysSpec

===============================================================================
