------------------------------- MODULE DeadPage -------------------------------
(***************************************************************************)
(* The dead-page replacement routines (src/src/MallocDeadPage.cpp) on top  *)
(* of the page layer of SysAlloc: malloc, free and realloc called by the   *)
(* threads of an application that keeps the rules of malloc, the headers   *)
(* by which a block is recognised when it comes back, and the pool of      *)
(* out-of-page headers that underrun checking needs.                       *)
(*                                                                         *)
(* A block's address is in bytes, page p starting at p * PageSize.         *)
(***************************************************************************)
EXTENDS SysAlloc

CONSTANTS
  PageSize, HeaderSize, Alignment,  \* see DeadPageLayout
  Sizes,              \* the request sizes the application uses
  MinBlockSize, MaxBlockSize,       \* PatchManager::GetMinBlockSize, GetMaxBlockSize
  HeadersPerBuffer,   \* headers carved out of one buffer of gBufferSize bytes
  MaxHeaders,         \* bound: headers the pool can ever hold
  ForeignAddrs        \* addresses ::malloc hands out, outside the modelled pages

INSTANCE DeadPageLayout

ASSUME DeadPageAssumption ==
  /\ LayoutConstants
  /\ Sizes \subseteq Nat
  /\ MinBlockSize \in Nat /\ MaxBlockSize \in Nat
  /\ HeadersPerBuffer \in Nat \ {0}
  /\ MaxHeaders \in Nat
  /\ \A a \in ForeignAddrs : a \in Nat /\ a \div PageSize \notin Pages

HeaderIds == 1 .. MaxHeaders

VARIABLES
  hdr,            \* content of the header slot of each page
  cell,           \* content of each out-of-page header
  gOtherBlocks,   \* list of the out-of-page headers in use
  gFreeBlockHeader, \* list of the out-of-page headers not in use
  numHeaders,     \* headers obtained from ::malloc so far
  live,           \* the application's blocks: <<address, size>>
  mpc,            \* where each thread is in a replacement routine
  op,             \* locals of the routine in progress
  process         \* "running", or how the process ended or went wrong

headerVars == <<cell, gOtherBlocks, gFreeBlockHeader, numHeaders>>
dpVars == <<hdr, headerVars, live, mpc, op, process>>
vars   == <<sysVars, dpVars>>

\* mSignature is "accutrak", "FREEBLK!" or something else.
Header(sig, user, base, usize) == [sig |-> sig, user |-> user, base |-> base, usize |-> usize]
Blank == Header("other", 0, 0, 0)

\* An embedded header after GROUND_HEADER: its other fields are not read any more, and
\* ReleasePages reuses them for the links of its list.
Grounded == Header("FREEBLK!", 0, 0, 0)

\* usize: lOldSize of a realloc, the size its old block was asked for.
NoOp == [req |-> 0, old |-> 0, usize |-> 0, base |-> 0, pages |-> 0, id |-> 0]

Init ==
  /\ SysInit
  /\ hdr = [p \in Pages |-> Blank]
  /\ cell = [i \in HeaderIds |-> Blank]
  /\ gOtherBlocks = <<>>
  /\ gFreeBlockHeader = <<>>
  /\ numHeaders = 0
  /\ live = {}
  /\ mpc = [t \in Threads |-> "app"]
  /\ op = [t \in Threads |-> NoOp]
  /\ process = "running"

MGoto(t, l) == mpc' = [mpc EXCEPT ![t] = l]

\* A realloc in progress has an old block.
Reallocating(t) == op[t].pages > 0

\* The allocation is over: malloc returns, realloc goes on to release the old block.
\* (Locals that are not read any more are reset.)
Allocated(t) ==
  IF Reallocating(t)
  THEN /\ MGoto(t, "release")
       /\ op' = [op EXCEPT ![t] = [NoOp EXCEPT !.old = op[t].old, !.usize = op[t].usize,
                                               !.pages = op[t].pages]]
  ELSE MGoto(t, "app") /\ op' = [op EXCEPT ![t] = NoOp]

-------------------------------------------------------------------------------
(* MallocBlockWithDeadPage *)

PagesFor(req) == RealSize(req) \div PageSize

InRange(req) == req >= MinBlockSize /\ req <= MaxBlockSize

Malloc(t, req) ==
  /\ mpc[t] = "app"
  /\ MGoto(t, "malloc")
  /\ op' = [op EXCEPT ![t].req = req]
  /\ UNCHANGED <<sysVars, hdr, headerVars, live, process>>

\* Requests outside the configured range are the C library's, which may have no memory.
MallocDefault(t) ==
  /\ mpc[t] = "malloc"
  /\ ~InRange(op[t].req)
  /\ \/ \E a \in ForeignAddrs \ {l[1] : l \in live} : live' = live \cup {<<a, op[t].req>>}
     \/ UNCHANGED live
  /\ Allocated(t)
  /\ UNCHANGED <<sysVars, hdr, headerVars, process>>

MallocPages(t) ==
  /\ mpc[t] = "malloc"
  /\ InRange(op[t].req)
  /\ EnterGetPages(t, PagesFor(op[t].req))
  /\ MGoto(t, "getPages")
  /\ UNCHANGED <<hdr, headerVars, live, op, process>>

\* GetPages failed, and so does the allocation.
MallocFailed(t) ==
  /\ mpc[t] = "getPages"
  /\ raw[t] = Null
  /\ ReturnGetPages(t)
  /\ Allocated(t)
  /\ UNCHANGED <<hdr, headerVars, live, process>>

UserAddr(b, req) == b * PageSize + UserOffset(req)

\* The page an embedded header is in.
HeaderPage(b) == IF CheckUnderrun THEN b + 1 ELSE b

\* The header fits into the block: nobody else sees it before malloc returns.
MallocEmbedded(t) ==
  /\ mpc[t] = "getPages"
  /\ raw[t] # Null
  /\ Embedded(op[t].req)
  /\ ReturnGetPages(t)
  /\ LET user == UserAddr(raw[t], op[t].req)
     IN  /\ hdr' = [hdr EXCEPT ![HeaderPage(raw[t])] = Header("accutrak", user, raw[t], op[t].req)]
         /\ live' = live \cup {<<user, op[t].req>>}
  /\ Allocated(t)
  /\ UNCHANGED <<headerVars, process>>

MallocNeedsHeader(t) ==
  /\ mpc[t] = "getPages"
  /\ raw[t] # Null
  /\ ~Embedded(op[t].req)
  /\ ReturnGetPages(t)
  /\ MGoto(t, "getHeader")
  /\ op' = [op EXCEPT ![t].base = raw[t]]
  /\ UNCHANGED <<hdr, headerVars, live, process>>

\* GetBlockHeader: take the first free header.
GetBlockHeader(t) ==
  /\ mpc[t] = "getHeader"
  /\ gFreeBlockHeader # <<>>
  /\ op' = [op EXCEPT ![t].id = Head(gFreeBlockHeader)]
  /\ gFreeBlockHeader' = Tail(gFreeBlockHeader)
  /\ MGoto(t, "pushHeader")
  /\ UNCHANGED <<sysVars, hdr, cell, gOtherBlocks, numHeaders, live, process>>

\* GetBlockHeader with an empty pool: a new buffer is split into headers; then the
\* routine starts over, and another thread may take the new headers first.
RefillHeaders(t) ==
  /\ mpc[t] = "getHeader"
  /\ gFreeBlockHeader = <<>>
  /\ numHeaders + HeadersPerBuffer <= MaxHeaders
  /\ gFreeBlockHeader' = [i \in 1 .. HeadersPerBuffer |-> numHeaders + i]
  /\ numHeaders' = numHeaders + HeadersPerBuffer
  /\ UNCHANGED <<sysVars, hdr, cell, gOtherBlocks, live, mpc, op, process>>

\* GetBlockHeader without memory for a buffer: it returns NULL, still holding the lock of
\* the pool, and the caller stores through the NULL header.
NoHeader(t) ==
  /\ mpc[t] = "getHeader"
  /\ gFreeBlockHeader = <<>>
  /\ process' = "crashed"
  /\ UNCHANGED <<sysVars, hdr, headerVars, live, mpc, op>>

\* Bug: the header is signed before it has its content.
BugPushHeader(t) ==
  /\ mpc[t] = "pushHeader"
  /\ gOtherBlocks' = Append(gOtherBlocks, op[t].id)
  /\ cell' = [cell EXCEPT ![op[t].id].sig = "accutrak"]
  /\ MGoto(t, "fillHeader")
  /\ UNCHANGED <<sysVars, hdr, gFreeBlockHeader, numHeaders, live, op, process>>

\* The header is on the list before it has its content.
PushHeader(t) ==
  /\ mpc[t] = "pushHeader"
  /\ gOtherBlocks' = Append(gOtherBlocks, op[t].id)
  /\ MGoto(t, "fillHeader")
  /\ UNCHANGED <<sysVars, hdr, cell, gFreeBlockHeader, numHeaders, live, op, process>>

FillHeader(t) ==
  /\ mpc[t] = "fillHeader"
  /\ LET i == op[t].id
     IN cell' = [cell EXCEPT ![i] = Header(@.sig, UserAddr(op[t].base, op[t].req),
                                           op[t].base, op[t].req)]
  /\ MGoto(t, "signHeader")
  /\ UNCHANGED <<sysVars, hdr, gOtherBlocks, gFreeBlockHeader, numHeaders, live, op, process>>

\* The signature makes the header valid; malloc returns.
SignHeader(t) ==
  /\ mpc[t] = "signHeader"
  /\ cell' = [cell EXCEPT ![op[t].id].sig = "accutrak"]
  /\ live' = live \cup {<<UserAddr(op[t].base, op[t].req), op[t].req>>}
  /\ Allocated(t)
  /\ UNCHANGED <<sysVars, hdr, gOtherBlocks, gFreeBlockHeader, numHeaders, process>>

-------------------------------------------------------------------------------
(* VerifyBlockWithDeadPage, FreeBlockWithDeadPage, ReallocBlockWithDeadPage *)

\* IS_MY_BLOCK
IsMyBlock(h, user) ==
  /\ h.sig = "accutrak"
  /\ h.user = user
  /\ h.base * PageSize = RawCandidate(user)

ProbePage(user) == ProbeAddr(user) \div PageSize

\* For underrun checking the user address must be on a page boundary, and for overrun
\* checking there must be room for a header between the page boundary and it.
MaybeEmbedded(user) ==
  IF CheckUnderrun THEN user % PageSize = 0 ELSE user % PageSize >= HeaderSize

\* The probe of a page that is not accessible ends the process.
Probed(user) == MaybeEmbedded(user) /\ ProbePage(user) \in Pages

EmbeddedMatch(user) == Probed(user) /\ IsMyBlock(hdr[ProbePage(user)], user)

\* The entries of gOtherBlocks that describe the block.
Matches(user) == {i \in DOMAIN gOtherBlocks : IsMyBlock(cell[gOtherBlocks[i]], user)}
FirstMatch(user) == CHOOSE i \in Matches(user) : \A j \in Matches(user) : i <= j

\* gOtherBlocks is searched for every address overrun checking has no header place for,
\* and for every page-aligned address in underrun checking.
Scanned(user) == IF CheckUnderrun THEN user % PageSize = 0 ELSE ~MaybeEmbedded(user)

\* FREE_BLOCK: the header of a freed block.  Checked for overrun only.
MarkedFree(user) == ~CheckUnderrun /\ Probed(user) /\ hdr[ProbePage(user)].sig = "FREEBLK!"

\* Bug: the dead page is counted twice.
BugVerifiedPages(usize) == RawSize(usize) \div PageSize + 1

\* What VerifyBlockWithDeadPage finds out about a block of usize bytes.
VerifiedPages(usize) == RawSize(usize) \div PageSize

\* The rest of the routine once the block is known to be ours: the client block that
\* starts at its base is given up.
GiveUp(t, b, n) == \E o \in owned : o[1] = b /\ EnterReleasePages(t, o, b, n)

\* Bug: the header is not grounded.
BugFreeEmbedded(t, l) ==
  /\ mpc[t] = "app"
  /\ EmbeddedMatch(l[1])
  /\ LET h == hdr[ProbePage(l[1])]
     IN  GiveUp(t, h.base, VerifiedPages(h.usize))
  /\ live' = live \ {l}
  /\ MGoto(t, "releasePages")
  /\ UNCHANGED <<hdr, headerVars, op, process>>

\* free of a block with an embedded header.
FreeEmbedded(t, l) ==
  /\ mpc[t] = "app"
  /\ EmbeddedMatch(l[1])
  /\ LET h == hdr[ProbePage(l[1])]
     IN  /\ hdr' = [hdr EXCEPT ![ProbePage(l[1])] = Grounded]
         /\ GiveUp(t, h.base, VerifiedPages(h.usize))
  /\ live' = live \ {l}
  /\ MGoto(t, "releasePages")
  /\ UNCHANGED <<headerVars, op, process>>

\* The search of gOtherBlocks: the header found is grounded, unlinked and put back into
\* the pool.
UnlinkHeader(user) ==
  LET i == FirstMatch(user)
      c == gOtherBlocks[i]
  IN  /\ Matches(user) # {}
      /\ cell' = [cell EXCEPT ![c].sig = "FREEBLK!"]
      /\ gOtherBlocks' = SubSeq(gOtherBlocks, 1, i - 1)
                           \o SubSeq(gOtherBlocks, i + 1, Len(gOtherBlocks))
      /\ gFreeBlockHeader' = <<c>> \o gFreeBlockHeader

\* free of a block with an out-of-page header.
FreeOther(t, l) ==
  /\ mpc[t] = "app"
  /\ ~EmbeddedMatch(l[1]) /\ Scanned(l[1])
  /\ UnlinkHeader(l[1])
  /\ LET h == cell[gOtherBlocks[FirstMatch(l[1])]]
     IN  GiveUp(t, h.base, VerifiedPages(h.usize))
  /\ live' = live \ {l}
  /\ MGoto(t, "releasePages")
  /\ UNCHANGED <<hdr, numHeaders, op, process>>

\* free of a block that is not recognised: it goes to ::free, which is wrong unless the
\* block came from ::malloc.
FreeDefault(t, l) ==
  /\ mpc[t] = "app"
  /\ ~EmbeddedMatch(l[1]) /\ ~MarkedFree(l[1])
  /\ Scanned(l[1]) => Matches(l[1]) = {}
  /\ live' = live \ {l}
  /\ process' = IF l[1] \in ForeignAddrs THEN process ELSE "misrouted"
  /\ UNCHANGED <<sysVars, hdr, headerVars, mpc, op>>

\* The application frees a block a second time while it is in the cache: the probe of its
\* header traps in the protected page, or the routine reports it, or ::free gets it.
FreeAgain(t, b, req) ==
  /\ mpc[t] = "app"
  /\ b \in {CacheSeq[i] : i \in DOMAIN CacheSeq}
  /\ Cacheable(VerifiedPages(req))
  /\ LET user == UserAddr(b, req)
     IN  process' = IF prot[ProbePage(user)] # "live" THEN "trapped"
                    ELSE IF MarkedFree(user) THEN "aborted"
                    ELSE IF EmbeddedMatch(user) \/ Matches(user) # {} THEN "undetected"
                    ELSE "libc"
  /\ UNCHANGED <<sysVars, hdr, headerVars, live, mpc, op>>

\* realloc grounds the old header first, then allocates, copies and releases.
ReallocEmbedded(t, l, req) ==
  /\ mpc[t] = "app"
  /\ EmbeddedMatch(l[1])
  /\ LET h == hdr[ProbePage(l[1])]
     IN  /\ hdr' = [hdr EXCEPT ![ProbePage(l[1])] = Grounded]
         /\ op' = [op EXCEPT ![t].req = req, ![t].old = h.base, ![t].usize = h.usize,
                             ![t].pages = VerifiedPages(h.usize)]
  /\ live' = live \ {l}
  /\ MGoto(t, "malloc")
  /\ UNCHANGED <<sysVars, headerVars, process>>

ReallocOther(t, l, req) ==
  /\ mpc[t] = "app"
  /\ ~EmbeddedMatch(l[1]) /\ Scanned(l[1])
  /\ UnlinkHeader(l[1])
  /\ LET h == cell[gOtherBlocks[FirstMatch(l[1])]]
     IN  op' = [op EXCEPT ![t].req = req, ![t].old = h.base, ![t].usize = h.usize,
                          ![t].pages = VerifiedPages(h.usize)]
  /\ live' = live \ {l}
  /\ MGoto(t, "malloc")
  /\ UNCHANGED <<sysVars, hdr, numHeaders, process>>

\* realloc of the C library's block: it moves, grows in place, or fails and stays.
ReallocDefault(t, l, req) ==
  /\ mpc[t] = "app"
  /\ l[1] \in ForeignAddrs
  /\ ~EmbeddedMatch(l[1]) /\ Matches(l[1]) = {}
  /\ \/ \E a \in ForeignAddrs \ {k[1] : k \in live \ {l}} :
          live' = (live \ {l}) \cup {<<a, req>>}
     \/ UNCHANGED live
  /\ UNCHANGED <<sysVars, hdr, headerVars, mpc, op, process>>

\* Bug: realloc keeps the old block.
BugReallocRelease(t) ==
  /\ mpc[t] = "release"
  /\ MGoto(t, "releasePages")
  /\ op' = [op EXCEPT ![t] = NoOp]
  /\ UNCHANGED <<sysVars, hdr, headerVars, live, process>>

\* memcpy is done; the old block is released even if the allocation failed.
ReallocRelease(t) ==
  /\ mpc[t] = "release"
  /\ GiveUp(t, op[t].old, op[t].pages)
  /\ MGoto(t, "releasePages")
  /\ op' = [op EXCEPT ![t] = NoOp]
  /\ UNCHANGED <<hdr, headerVars, live, process>>

\* ReleasePages has returned, and so does the routine.
Return(t) ==
  /\ mpc[t] = "releasePages"
  /\ pc[t] = "idle"
  /\ MGoto(t, "app")
  /\ UNCHANGED <<sysVars, hdr, headerVars, live, op, process>>

-------------------------------------------------------------------------------
\* A step of the page layer.  A page that is unmapped loses its content.
PageStep(t) ==
  /\ GetPagesStep(t) \/ ReleasePagesStep(t)
  /\ hdr' = [p \in Pages |-> IF prot'[p] = "unmapped" THEN Blank ELSE hdr[p]]
  /\ UNCHANGED <<headerVars, live, mpc, op, process>>

MallocStep(t) ==
  \/ MallocDefault(t) \/ MallocPages(t) \/ MallocFailed(t) \/ MallocEmbedded(t)
  \/ MallocNeedsHeader(t) \/ GetBlockHeader(t) \/ RefillHeaders(t) \/ NoHeader(t)
  \/ PushHeader(t) \/ FillHeader(t) \/ SignHeader(t)

AppStep(t) ==
  \/ \E req \in Sizes : Malloc(t, req)
  \/ \E l \in live : FreeEmbedded(t, l) \/ FreeOther(t, l) \/ FreeDefault(t, l)
  \/ \E l \in live, req \in Sizes :
       ReallocEmbedded(t, l, req) \/ ReallocOther(t, l, req) \/ ReallocDefault(t, l, req)
  \/ \E b \in Pages, req \in Sizes : FreeAgain(t, b, req)

Ended == process # "running" /\ UNCHANGED vars

Next ==
  \/ /\ process = "running"
     /\ \E t \in Threads :
          AppStep(t) \/ MallocStep(t) \/ ReallocRelease(t) \/ Return(t) \/ PageStep(t)
  \/ Ended

Spec == Init /\ [][Next]_vars

-------------------------------------------------------------------------------
(* Properties *)

Mine(l) == l[1] \notin ForeignAddrs

\* The byte the mode watches: the one before the block, or the first one behind the space
\* the block was given (behind a header that needed a page, that is a gap further on).
Watched(l) == IF CheckUnderrun THEN l[1] - 1 ELSE l[1] + FinalSize(l[2])

\* Every byte of a block the application holds is accessible and in a page of a block
\* that belongs to it alone, and the byte the mode watches traps; but not in pages that
\* were released as a shorter block than malloc took, and then used again.
UserBlockGuarded ==
  \A l \in live : Mine(l) =>
    \E o \in owned :
      /\ \A a \in l[1] .. (l[1] + l[2] - 1) :
           a \div PageSize \in Run(o[1], o[2]) /\ prot[a \div PageSize] = "live"
      /\ o[1] \notin cut => prot[Watched(l) \div PageSize] = "dead"

\* malloc relies on GetPages for the dead page: "The returned block should have dead page
\* set properly alreday" (line 485).  It does not once free, which works the size out from
\* the header, has released a block as a page shorter than it was.
DeadPageSet ==
  \A t \in Threads : mpc[t] = "getPages" /\ pc[t] = "GotPages" /\ raw[t] # Null =>
    prot[DeadPage(raw[t], size[t])] = "dead"

\* Every block the application holds is recognised for what it is when it comes back: one
\* of ours through exactly one header, in an accessible page or on the list, that carries
\* its own size, and one of the C library through none.
BlockRecognised ==
  /\ \A l \in live : ~Mine(l) => ~EmbeddedMatch(l[1]) /\ Matches(l[1]) = {}
  /\ \A l \in live : Mine(l) =>
      /\ MaybeEmbedded(l[1]) => prot[ProbePage(l[1])] = "live"
      /\ ~MarkedFree(l[1])
      /\ \/ EmbeddedMatch(l[1]) /\ hdr[ProbePage(l[1])].usize = l[2] /\ Matches(l[1]) = {}
         \/ /\ ~EmbeddedMatch(l[1]) /\ Scanned(l[1])
            /\ Cardinality(Matches(l[1])) = 1
            /\ cell[gOtherBlocks[FirstMatch(l[1])]].usize = l[2]

\* A double free of a cached block is never taken for a first one: the block's page traps
\* or its header is grounded.
DoubleFreeCaught == process # "undetected"

\* When no routine is in progress, the pages in use are those of the application's blocks:
\* no path of malloc, free or realloc forgets a block.
NoBlockLost ==
  process = "running" /\ (\A t \in Threads : mpc[t] = "app") =>
    /\ Cardinality(owned) = Cardinality({l \in live : Mine(l)})
    /\ \A o \in owned : \E l \in live : RawCandidate(l[1]) = o[1] * PageSize
===============================================================================
