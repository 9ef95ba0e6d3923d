---------------------------- MODULE DeadPageProofs ----------------------------
(***************************************************************************)
(* Theorems about the dead-page routines, for every set of threads, every  *)
(* address space, every mode and all sizes (but 0 in underrun checking):   *)
(* the routines use the page layer as it is specified, a block is          *)
(* recognised when it comes back, and its dead page guards it.             *)
(***************************************************************************)
EXTENDS DeadPage, SysAllocProofs, WellFoundedInduction

\* The arithmetic of the layout, and what is proved of it.
Layout == INSTANCE DeadPageLayoutProofs
            WITH underrun <- CheckUnderrun, req <- 0, MaxRequest <- 0

-------------------------------------------------------------------------------
(* The sizes *)

\* A request the dead-page routines serve themselves.
Fits(n) == n \in Sizes /\ InRange(n)

\* The sizes the theorems are about: every block fits the bound of the model, and in
\* underrun checking, where a block of size 0 gets no page for the user, it is not empty.
SizesFit ==
  \A n \in Sizes : InRange(n) => (CheckUnderrun => n > 0) /\ PagesFor(n) <= MaxBlockPages

-------------------------------------------------------------------------------
(* The layout in pages *)

LEMMA SameLayout ==
  ASSUME NEW n
  PROVE  /\ RealSize(n) = Layout!RealSize(n) /\ UserOffset(n) = Layout!UserOffset(n)
         /\ Crowded(n) = Layout!Crowded(n) /\ AlignedSize(n) = Layout!AlignedSize(n)
         /\ RawSize(n) = Layout!RawSize(n) /\ Slack(n) = Layout!Slack(n)
         /\ PagedSize(n) = Layout!PagedSize(n) /\ Embedded(n) = Layout!Embedded(n)
         /\ FinalSize(n) = Layout!FinalSize(n)
         /\ \A m : RoundUp(n, m) = Layout!RoundUp(n, m)
BY DEF RealSize, Layout!RealSize, UserOffset, Layout!UserOffset, PagedSize, Layout!PagedSize,
       RoundUp, Layout!RoundUp, Crowded, Layout!Crowded, Slack, Layout!Slack,
       AlignedSize, Layout!AlignedSize, FinalSize, Layout!FinalSize, RawSize, Layout!RawSize,
       Embedded, Layout!Embedded

LEMMA Constants ==
  /\ PageSize \in Nat \ {0} /\ HeaderSize \in Nat \ {0} /\ Alignment \in Nat \ {0}
  /\ HeaderSize + Alignment <= PageSize /\ CheckUnderrun \in BOOLEAN
  /\ Layout!LayoutConstants /\ LayoutConstants
  /\ Sizes \subseteq Nat /\ Pages \subseteq Nat
BY DeadPageAssumption, SysAllocAssumption DEF LayoutConstants, Layout!LayoutConstants, Pages

\* Where the user block starts and how far its pages reach.
LEMMA Places ==
  ASSUME NEW n \in Nat
  PROVE  \E k \in Nat :
           /\ n <= k * PageSize /\ k * PageSize \in Nat /\ RealSize(n) \in Nat
           /\ ~Crowded(n) => RealSize(n) = k * PageSize + PageSize
           /\ CheckUnderrun => UserOffset(n) = PageSize
           /\ ~CheckUnderrun =>
                /\ UserOffset(n) \in Nat /\ UserOffset(n) >= HeaderSize
                /\ UserOffset(n) < PageSize
                /\ UserOffset(n) + n <= RealSize(n) - PageSize
<1>1. \E k \in Nat :
           /\ n <= k * PageSize /\ k * PageSize \in Nat /\ Layout!RealSize(n) \in Nat
           /\ ~Layout!Crowded(n) => Layout!RealSize(n) = k * PageSize + PageSize
           /\ CheckUnderrun =>
                /\ k * PageSize < n + PageSize
                /\ Layout!UserOffset(n) = PageSize
                /\ Layout!AlignedSize(n) = n /\ Layout!FinalSize(n) = n
                /\ ~Layout!Crowded(n)
           /\ ~CheckUnderrun =>
                /\ Layout!UserOffset(n) \in Nat /\ Layout!UserOffset(n) >= HeaderSize
                /\ Layout!UserOffset(n) < PageSize
                /\ Layout!UserOffset(n) % Alignment = 0
                /\ Layout!UserOffset(n) + n <= Layout!RealSize(n) - PageSize
                /\ Layout!RealSize(n) >= k * PageSize + PageSize
  BY Constants, Layout!Places
<1> QED
  BY <1>1, SameLayout

\* A request that fits takes at least two pages, and free finds out how many, but for the
\* one that was added for a header.
LEMMA BlockPages ==
  ASSUME SizesFit, NEW n, Fits(n)
  PROVE  /\ n \in Nat
         /\ PagesFor(n) \in 2 .. MaxBlockPages
         /\ RealSize(n) = PagesFor(n) * PageSize
         /\ VerifiedPages(n) \in {PagesFor(n), PagesFor(n) - 1}
<1>1. n \in Nat /\ PagesFor(n) <= MaxBlockPages /\ (CheckUnderrun => n > 0)
  BY Constants DEF SizesFit, Fits
<1>2. PICK k \in Nat : /\ PagedSize(n) = k * PageSize + PageSize
                       /\ AlignedSize(n) \in Nat /\ n <= AlignedSize(n)
                       /\ AlignedSize(n) <= k * PageSize
  <2>1. \E k \in Nat : /\ Layout!PagedSize(n) = k * PageSize + PageSize
                       /\ Layout!AlignedSize(n) \in Nat /\ n <= Layout!AlignedSize(n)
                       /\ Layout!AlignedSize(n) <= k * PageSize
    BY <1>1, Constants, Layout!WholePages
  <2> QED
    BY <2>1, SameLayout
<1>3. ASSUME NEW j \in Nat PROVE (j * PageSize) \div PageSize = j
  <2>1. (j * PageSize + 0) \div PageSize = j
    BY Constants, Layout!Quotient
  <2>2. j * PageSize \in Nat
    BY Constants
  <2> QED
    BY <2>1, <2>2
<1>4. VerifiedPages(n) = k + 1
  <2>1. Layout!RawSize(n) = Layout!PagedSize(n)
    BY <1>1, Constants, Layout!SizeAgain
  <2>2. RawSize(n) = (k + 1) * PageSize /\ k + 1 \in Nat
    BY <1>2, <2>1, SameLayout, Constants
  <2> QED
    BY <1>3, <2>2 DEF VerifiedPages
<1>5. CASE ~Crowded(n)
  <2>1. RealSize(n) = (k + 1) * PageSize /\ k + 1 \in Nat
    BY <1>2, <1>5, Constants DEF RealSize
  <2>2. PagesFor(n) = k + 1
    BY <1>3, <2>1 DEF PagesFor
  <2>3. k # 0
    <3> SUFFICES ASSUME k = 0 PROVE FALSE
      OBVIOUS
    <3>1. RealSize(n) = PageSize /\ n <= 0
      BY <1>2, <2>1, Constants
    <3>2. CASE ~CheckUnderrun
      <4>1. /\ UserOffset(n) \in Nat /\ UserOffset(n) >= HeaderSize
            /\ UserOffset(n) + n <= RealSize(n) - PageSize
        BY <1>1, <3>2, Places
      <4> QED
        BY <3>1, <4>1, <1>1, Constants
    <3> QED
      BY <1>1, <3>1, <3>2
  <2> QED
    BY <1>1, <1>4, <2>1, <2>2, <2>3, SysAllocAssumption
<1>6. CASE Crowded(n)
  <2>1. RealSize(n) = (k + 2) * PageSize /\ k + 2 \in Nat
    BY <1>2, <1>6, Constants DEF RealSize
  <2>2. PagesFor(n) = k + 2
    BY <1>3, <2>1 DEF PagesFor
  <2> QED
    BY <1>1, <1>4, <2>1, <2>2, SysAllocAssumption
<1> QED
  BY <1>5, <1>6

\* From the user address the routines find their way back to the raw block, and to the
\* page of its header.
BasePage(user) == RawCandidate(user) \div PageSize

LEMMA WayBack ==
  ASSUME NEW b \in Nat, NEW n \in Nat
  PROVE  /\ UserAddr(b, n) \in Nat
         /\ RawCandidate(UserAddr(b, n)) = b * PageSize
         /\ BasePage(UserAddr(b, n)) = b
         /\ ProbePage(UserAddr(b, n)) = HeaderPage(b)
         /\ UserAddr(b, n) \div PageSize = HeaderPage(b)
         /\ MaybeEmbedded(UserAddr(b, n))
         /\ CheckUnderrun => Scanned(UserAddr(b, n))
         /\ ~CheckUnderrun => Embedded(n)
<1> DEFINE s == PageSize
           o == UserOffset(n)
           u == b * s + o
<1>c. s \in Nat \ {0} /\ HeaderSize \in Nat \ {0} /\ HeaderSize <= s /\ b * s \in Nat
  BY Constants
<1>u. UserAddr(b, n) = u
  BY DEF UserAddr
<1>q. (b * s) \div s = b
  <2>1. (b * s + 0) \div s = b
    BY <1>c, Layout!Quotient
  <2> QED
    BY <2>1, <1>c
<1>1. CASE CheckUnderrun
  <2>1. o = s /\ u = (b + 1) * s
    BY <1>1, <1>c DEF UserOffset
  <2> DEFINE d == b + 1
  <2>2. d \in Nat /\ u = d * s + 0 /\ d * s \in Nat
    BY <2>1, <1>c
  <2> HIDE DEF s, o, u, d
  <2>3. u \div s = d /\ u % s = 0
    BY <2>2, <1>c, Layout!Quotient
  <2>4. (d * s + (s - HeaderSize)) \div s = d
    <3>1. s - HeaderSize \in Nat /\ s - HeaderSize < s
      BY <1>c
    <3> HIDE DEF BasePage
    <3> QED
      BY <2>2, <3>1, <1>c, Layout!Quotient
  <2>5. u + s - HeaderSize = d * s + (s - HeaderSize)
    BY <2>2, <1>c
  <2>6. ProbePage(u) = d
    BY <2>4, <2>5, <1>1 DEF ProbePage, ProbeAddr, s
  <2>7. u - s = b * s
    <3>1. d * s = b * s + s
      BY <1>c DEF d
    <3> QED
      BY <2>2, <3>1, <1>c
  <2>8. RawCandidate(u) = b * s
    BY <2>7, <1>1 DEF RawCandidate, s
  <2>9. MaybeEmbedded(u) /\ Scanned(u)
    BY <2>3, <1>1 DEF MaybeEmbedded, Scanned, s
  <2>10. HeaderPage(b) = d
    BY <1>1 DEF HeaderPage, d
  <2> QED
    BY <1>u, <1>1, <1>q, <2>2, <2>3, <2>6, <2>8, <2>9, <2>10 DEF BasePage, s
<1>2. CASE ~CheckUnderrun
  <2>1. o \in Nat /\ o < s /\ o >= HeaderSize
    BY <1>2, Places
  <2>2. u \in Nat
    BY <2>1, <1>c
  <2>3. u \div s = b /\ u % s = o
    <3> HIDE DEF s, o
    <3> QED
      BY <2>1, <1>c, Layout!Quotient
  <2>4. RawCandidate(u) = b * s
    BY <2>1, <2>3, <1>c, <1>2 DEF RawCandidate
  <2>5. ProbeAddr(u) = b * s
    BY <2>1, <2>3, <1>c, <1>2 DEF ProbeAddr
  <2>6. MaybeEmbedded(u) /\ Embedded(n) /\ HeaderPage(b) = b
    BY <2>1, <2>3, <1>2 DEF MaybeEmbedded, Embedded, HeaderPage
  <2> HIDE DEF u, o
  <2> QED
    BY <1>u, <1>2, <1>q, <2>2, <2>3, <2>4, <2>5, <2>6 DEF BasePage, ProbePage
<1> QED
  BY <1>1, <1>2, Constants

-------------------------------------------------------------------------------
(* The inductive invariant *)

IdPC   == {"pushHeader", "fillHeader", "signHeader"}
PoolPC == IdPC \cup {"getHeader"}

MallocPC == {"app", "malloc", "getPages", "release", "releasePages"} \cup PoolPC

Locals  == [req : Nat, old : Nat, usize : Nat, base : Nat, pages : Nat, id : Nat]
Headers == [sig : {"accutrak", "FREEBLK!", "other"}, user : Nat, base : Nat, usize : Nat]

RoutineTypes ==
  /\ mpc \in [Threads -> MallocPC]
  /\ op \in [Threads -> Locals]
  /\ hdr \in [Pages -> Headers]
  /\ cell \in [HeaderIds -> Headers]
  /\ live \subseteq Nat \X Nat

\* Where a routine is, where its call of the page layer is, and what its locals hold.
Shape(t) ==
  /\ mpc[t] \in {"app", "releasePages"} => op[t] = NoOp
  /\ mpc[t] = "malloc" => op[t].req \in Sizes
  /\ mpc[t] \in {"getPages"} \cup PoolPC => Fits(op[t].req)
  /\ mpc[t] = "getPages" => pc[t] \in GetPC /\ size[t] = PagesFor(op[t].req)
  /\ mpc[t] = "releasePages" => pc[t] \in ReleasePC \cup {"idle"}
  /\ mpc[t] \notin {"getPages", "releasePages"} => pc[t] = "idle"
  /\ mpc[t] \in PoolPC => ~Embedded(op[t].req)
  /\ mpc[t] = "release" => op[t].pages > 0
  /\ op[t].pages > 0 => Fits(op[t].usize) /\ op[t].pages = VerifiedPages(op[t].usize)

RoutineInv == RoutineTypes /\ \A t \in Threads : Shape(t)

\* The application's blocks have sizes the routines serve and start where malloc puts them.
LiveInv ==
  \A l \in live : Mine(l) => Fits(l[2]) /\ \E b \in Pages : l[1] = UserAddr(b, l[2])

\* Whose is a block?  An application's; a realloc's that will release it; or a malloc's that
\* needs a header for it.
Kinds == {"live", "old", "new"}

Claim(k, x) ==
  \/ k = "live" /\ x \in live /\ Mine(x)
  \/ k = "old" /\ x \in Threads /\ op[x].pages > 0
  \/ k = "new" /\ x \in Threads /\ mpc[x] \in PoolPC

BlockOf(k, x) ==
  CASE k = "live" -> <<BasePage(x[1]), PagesFor(x[2])>>
    [] k = "old"  -> <<op[x].old, PagesFor(op[x].usize)>>
    [] k = "new"  -> <<op[x].base, PagesFor(op[x].req)>>

\* Every block the page layer handed out is somebody's, and one only's.
ClaimInv ==
  /\ \A k \in Kinds : \A x : Claim(k, x) => BlockOf(k, x) \in owned
  /\ \A k, m \in Kinds : \A x, y :
       Claim(k, x) /\ Claim(m, y) /\ BlockOf(k, x) = BlockOf(m, y) => k = m /\ x = y
  /\ \A o \in owned : \E k \in Kinds : \E x : Claim(k, x) /\ BlockOf(k, x) = o

\* What a header with a valid signature says is true.
Describes(h) ==
  /\ <<h.user, h.usize>> \in live /\ h.user \notin ForeignAddrs
  /\ h.base \in Pages /\ h.user = UserAddr(h.base, h.usize)

HeaderOf(l) == Header("accutrak", l[1], BasePage(l[1]), l[2])

\* The headers in the blocks.
EmbeddedInv ==
  /\ \A p \in Pages : hdr[p].sig = "accutrak" =>
       Describes(hdr[p]) /\ Embedded(hdr[p].usize) /\ p = HeaderPage(hdr[p].base)
  /\ \A l \in live : Mine(l) /\ Embedded(l[2]) => hdr[HeaderPage(BasePage(l[1]))] = HeaderOf(l)

Entries(s)  == {s[i] : i \in DOMAIN s}
Distinct(s) == \A i, j \in DOMAIN s : s[i] = s[j] => i = j

Listed == Entries(gOtherBlocks)
Pooled == Entries(gFreeBlockHeader)

\* The headers out of the blocks: those with a valid signature are on the list.
SeparateInv ==
  /\ \A i \in HeaderIds : cell[i].sig = "accutrak" =>
       Describes(cell[i]) /\ ~Embedded(cell[i].usize) /\ i \in Listed
  /\ \A i, j \in HeaderIds :
       cell[i].sig = "accutrak" /\ cell[j].sig = "accutrak" /\ cell[i].user = cell[j].user => i = j
  /\ \A l \in live : Mine(l) /\ ~Embedded(l[2]) => \E i \in HeaderIds : cell[i] = HeaderOf(l)

\* The header a thread has taken from the pool for its block.
HeaderInHand(t) ==
  /\ op[t].id \in (1 .. numHeaders) \ Pooled
  /\ cell[op[t].id].sig # "accutrak"
  /\ (mpc[t] = "pushHeader" <=> op[t].id \notin Listed)
  /\ mpc[t] = "signHeader" =>
       /\ cell[op[t].id].user = UserAddr(op[t].base, op[t].req)
       /\ cell[op[t].id].base = op[t].base /\ cell[op[t].id].usize = op[t].req

\* A header is on the list, in the pool or in the hands of a thread that makes it valid.
PoolInv ==
  /\ numHeaders \in 0 .. MaxHeaders
  /\ gOtherBlocks \in Seq(1 .. numHeaders) /\ gFreeBlockHeader \in Seq(1 .. numHeaders)
  /\ Listed \cap Pooled = {}
  /\ Distinct(gOtherBlocks) /\ Distinct(gFreeBlockHeader)
  /\ \A t \in Threads : mpc[t] \in IdPC => HeaderInHand(t)
  /\ \A t, u \in Threads : t # u /\ mpc[t] \in IdPC /\ mpc[u] \in IdPC => op[t].id # op[u].id

BlockInv == RoutineInv /\ LiveInv /\ ClaimInv
HeaderInv == EmbeddedInv /\ SeparateInv /\ PoolInv

DeadPageInv == GuardInv /\ BlockInv /\ HeaderInv /\ DoubleFreeCaught

-------------------------------------------------------------------------------
(* What the invariant says of one block *)

\* The pages of a client's block are mapped, and it is the only one that starts there.
LEMMA OwnedBlock ==
  ASSUME PageInv, NEW b, NEW n, <<b, n>> \in owned
  PROVE  /\ b \in Pages /\ n \in 1 .. MaxBlockPages
         /\ n >= 2 => HeaderPage(b) \in Pages /\ prot[HeaderPage(b)] # "unmapped"
         /\ \A o \in owned : o[1] = b => o = <<b, n>>
<1>1. owned \subseteq Blocks /\ Placed /\ NoPageTwice
  BY CallTypes DEF PageInv
<1>2. b \in Pages /\ n \in 1 .. MaxBlockPages
  BY <1>1 DEF Blocks
<1>3. b \in Run(b, n) /\ (n >= 2 => HeaderPage(b) \in Run(b, n))
  BY <1>2, SysAllocAssumption DEF Run, HeaderPage, Pages
<1>4. \A p \in Run(b, n) : p \in Pages /\ prot[p] # "unmapped"
  BY <1>1 DEF Placed, Mapped
<1>5. ASSUME NEW o \in owned, o[1] = b PROVE o = <<b, n>>
  <2>1. b \in Run(o[1], o[2])
    BY <1>1, <1>5, SysAllocAssumption DEF Blocks, Run, Pages
  <2> QED
    BY <1>1, <1>3, <2>1 DEF NoPageTwice
<1> QED
  BY <1>2, <1>3, <1>4, <1>5

LEMMA OneClaim ==
  ASSUME PageInv, ClaimInv, NEW k \in Kinds, NEW m \in Kinds, NEW x, NEW y, Claim(k, x), Claim(m, y),
         BlockOf(k, x)[1] = BlockOf(m, y)[1]
  PROVE  k = m /\ x = y
<1>1. BlockOf(k, x) \in owned /\ BlockOf(m, y) \in owned
  BY DEF ClaimInv
<1>2. owned \subseteq Blocks
  BY CallTypes DEF PageInv
<1>3. BlockOf(k, x) = <<BlockOf(k, x)[1], BlockOf(k, x)[2]>>
  BY <1>1, <1>2 DEF Blocks
<1>4. BlockOf(m, y) = BlockOf(k, x)
  BY <1>1, <1>3, OwnedBlock
<1> QED
  BY <1>4 DEF ClaimInv

\* A block of ours that the application has.
LEMMA LiveBlockIs ==
  ASSUME SizesFit, PageInv, BlockInv, NEW l \in live, Mine(l)
  PROVE  /\ l = <<l[1], l[2]>> /\ l[1] \in Nat /\ l[2] \in Nat /\ Fits(l[2])
         /\ BasePage(l[1]) \in Pages /\ l[1] = UserAddr(BasePage(l[1]), l[2])
         /\ <<BasePage(l[1]), PagesFor(l[2])>> \in owned
         /\ HeaderPage(BasePage(l[1])) \in Pages
         /\ PagesFor(l[2]) \in 2 .. MaxBlockPages
         /\ VerifiedPages(l[2]) \in ReleasedPages(<<BasePage(l[1]), PagesFor(l[2])>>)
<1>1. l = <<l[1], l[2]>> /\ l[1] \in Nat /\ l[2] \in Nat /\ Fits(l[2])
  BY DEF BlockInv, RoutineInv, RoutineTypes, LiveInv
<1>2. PICK b \in Pages : l[1] = UserAddr(b, l[2])
  BY DEF BlockInv, LiveInv
<1>3. BasePage(l[1]) = b
  BY <1>1, <1>2, Constants, WayBack
<1>4. <<BasePage(l[1]), PagesFor(l[2])>> \in owned
  <2>1. Claim("live", l) /\ BlockOf("live", l) = <<BasePage(l[1]), PagesFor(l[2])>>
    BY DEF Claim, BlockOf
  <2> QED
    BY <2>1 DEF BlockInv, ClaimInv, Kinds
<1>5. /\ PagesFor(l[2]) \in 2 .. MaxBlockPages
      /\ VerifiedPages(l[2]) \in ReleasedPages(<<BasePage(l[1]), PagesFor(l[2])>>)
  BY <1>1, BlockPages DEF ReleasedPages
<1> QED
  BY <1>1, <1>2, <1>3, <1>4, <1>5, OwnedBlock

LEMMA OneBlockAtAddress ==
  ASSUME SizesFit, PageInv, BlockInv, NEW l \in live, NEW m \in live, Mine(l),
         BasePage(m[1]) = BasePage(l[1]), Mine(m)
  PROVE  m = l
<1>1. /\ Claim("live", l) /\ BlockOf("live", l)[1] = BasePage(l[1])
      /\ Claim("live", m) /\ BlockOf("live", m)[1] = BasePage(m[1])
  BY DEF Claim, BlockOf
<1> QED
  BY <1>1, OneClaim DEF BlockInv, Kinds

\* What a header that describes a block at a live address says of it.
LEMMA DescribedBlock ==
  ASSUME SizesFit, PageInv, BlockInv, NEW l \in live, NEW h \in Headers, Describes(h),
         IsMyBlock(h, l[1])
  PROVE  /\ Mine(l) /\ h = HeaderOf(l) /\ h.base = BasePage(l[1])
<1>1. h.user = l[1] /\ Mine(l) /\ h.sig = "accutrak" /\ <<h.user, h.usize>> \in live
  BY DEF Describes, IsMyBlock, Mine
<1>2. <<h.user, h.usize>> = l
  BY <1>1, OneBlockAtAddress DEF Mine
<1>3. h.usize = l[2] /\ h.usize \in Nat
  BY <1>2 DEF Headers
<1>4. h.base = BasePage(l[1])
  <2>1. h.base \in Nat /\ l[1] = UserAddr(h.base, h.usize)
    BY <1>1, Constants DEF Describes
  <2> QED
    BY <1>3, <2>1, WayBack
<1>5. h = Header(h.sig, h.user, h.base, h.usize)
  BY DEF Header, Headers
<1> QED
  BY <1>1, <1>3, <1>4, <1>5 DEF HeaderOf

LEMMA EmbeddedHeaderTells ==
  ASSUME SizesFit, PageInv, BlockInv, HeaderInv, NEW l \in live, EmbeddedMatch(l[1])
  PROVE  /\ Mine(l) /\ Embedded(l[2]) /\ hdr[ProbePage(l[1])] = HeaderOf(l)
         /\ ProbePage(l[1]) = HeaderPage(BasePage(l[1])) /\ ProbePage(l[1]) \in Pages
<1> DEFINE h == hdr[ProbePage(l[1])]
<1>1. ProbePage(l[1]) \in Pages /\ IsMyBlock(h, l[1])
  BY DEF EmbeddedMatch, Probed
<1>2. h \in Headers /\ h.sig = "accutrak"
  BY <1>1 DEF BlockInv, RoutineInv, RoutineTypes, IsMyBlock
<1>3. Describes(h) /\ Embedded(h.usize) /\ ProbePage(l[1]) = HeaderPage(h.base)
  BY <1>1, <1>2 DEF HeaderInv, EmbeddedInv
<1> HIDE DEF h
<1>4. Mine(l) /\ h = HeaderOf(l) /\ h.base = BasePage(l[1])
  BY <1>1, <1>2, <1>3, DescribedBlock
<1> QED
  BY <1>1, <1>3, <1>4 DEF h, HeaderOf, Header

LEMMA SeparateHeaderTells ==
  ASSUME SizesFit, PageInv, BlockInv, HeaderInv, NEW l \in live, NEW i \in Matches(l[1])
  PROVE  /\ Mine(l) /\ ~Embedded(l[2]) /\ i \in DOMAIN gOtherBlocks
         /\ gOtherBlocks[i] \in 1 .. numHeaders
         /\ gOtherBlocks[i] \in HeaderIds /\ cell[gOtherBlocks[i]] = HeaderOf(l)
<1> DEFINE c == gOtherBlocks[i]
<1>1. i \in DOMAIN gOtherBlocks /\ IsMyBlock(cell[c], l[1])
  BY DEF Matches
<1>2. c \in 1 .. numHeaders /\ c \in HeaderIds
  BY <1>1, DeadPageAssumption DEF HeaderInv, PoolInv, HeaderIds
<1> HIDE DEF c
<1>3. cell[c] \in Headers /\ cell[c].sig = "accutrak"
  BY <1>1, <1>2 DEF BlockInv, RoutineInv, RoutineTypes, IsMyBlock
<1>4. Describes(cell[c]) /\ ~Embedded(cell[c].usize)
  BY <1>2, <1>3 DEF HeaderInv, SeparateInv
<1>5. Mine(l) /\ cell[c] = HeaderOf(l)
  BY <1>1, <1>3, <1>4, DescribedBlock
<1> QED
  BY <1>1, <1>2, <1>4, <1>5 DEF c, HeaderOf, Header

LEMMA FirstMatchIs ==
  ASSUME PoolInv, NEW user, Matches(user) # {}
  PROVE  FirstMatch(user) \in Matches(user)
<1> DEFINE M == Matches(user)
<1>1. M \subseteq Nat /\ M # {}
  BY DEF Matches, PoolInv
<1> HIDE DEF M
<1>2. PICK i \in M : \A j \in M : ~(<<j, i>> \in OpToRel(<, Nat))
  BY <1>1, NatLessThanWellFounded, WFMin
<1>3. \A j \in M : i <= j
  <2>1. \A j \in M : ~(j < i)
    BY <1>1, <1>2 DEF OpToRel
  <2> QED
    BY <1>1, <2>1
<1> QED
  BY <1>3 DEF FirstMatch, M

-------------------------------------------------------------------------------
(* The routines use the page layer as it is specified *)

\* Giving up the block at page b gives up the only one that starts there.
LEMMA GiveUpIs ==
  ASSUME PageInv, NEW t \in Threads, NEW b, NEW m, NEW n, <<b, m>> \in owned, GiveUp(t, b, n)
  PROVE  EnterReleasePages(t, <<b, m>>, b, n)
<1>1. PICK o \in owned : o[1] = b /\ EnterReleasePages(t, o, b, n)
  BY DEF GiveUp
<1>2. o = <<b, m>>
  BY <1>1, OwnedBlock
<1> QED
  BY <1>1, <1>2

\* What the header of a block says is what the page layer has to be told.
LEMMA EmbeddedGivesUp ==
  ASSUME SizesFit, PageInv, BlockInv, HeaderInv, NEW l \in live, EmbeddedMatch(l[1])
  PROVE  LET h == hdr[ProbePage(l[1])]
         IN  Mine(l) /\ h.base = BasePage(l[1]) /\ h.usize = l[2]
<1>1. Mine(l) /\ hdr[ProbePage(l[1])] = HeaderOf(l)
  BY EmbeddedHeaderTells
<1> QED
  BY <1>1 DEF HeaderOf, Header

LEMMA SeparateGivesUp ==
  ASSUME SizesFit, PageInv, BlockInv, HeaderInv, NEW l \in live, Matches(l[1]) # {}
  PROVE  LET h == cell[gOtherBlocks[FirstMatch(l[1])]]
         IN  Mine(l) /\ h.base = BasePage(l[1]) /\ h.usize = l[2]
<1>1. FirstMatch(l[1]) \in Matches(l[1])
  BY FirstMatchIs DEF HeaderInv
<1>2. Mine(l) /\ cell[gOtherBlocks[FirstMatch(l[1])]] = HeaderOf(l)
  BY <1>1, SeparateHeaderTells
<1> QED
  BY <1>2 DEF HeaderOf, Header

\* The steps of the routines in the page layer's terms: they give up a block they were
\* given, with the number of pages the header tells.
LEMMA FreeGivesUp ==
  ASSUME SizesFit, PageInv, BlockInv, HeaderInv, NEW t \in Threads, NEW l \in live,
         FreeEmbedded(t, l) \/ FreeOther(t, l)
  PROVE  LET o == <<BasePage(l[1]), PagesFor(l[2])>>
         IN  /\ Mine(l) /\ o \in owned
             /\ VerifiedPages(l[2]) \in ReleasedPages(o)
             /\ EnterReleasePages(t, o, BasePage(l[1]), VerifiedPages(l[2]))
<1>1. Mine(l) /\ GiveUp(t, BasePage(l[1]), VerifiedPages(l[2]))
  <2>1. CASE FreeEmbedded(t, l)
    <3>1. EmbeddedMatch(l[1])
      BY <2>1 DEF FreeEmbedded
    <3> QED
      BY <2>1, <3>1, EmbeddedGivesUp DEF FreeEmbedded
  <2>2. CASE FreeOther(t, l)
    <3>1. Matches(l[1]) # {}
      BY <2>2 DEF FreeOther, UnlinkHeader
    <3> QED
      BY <2>2, <3>1, SeparateGivesUp DEF FreeOther
  <2> QED
    BY <2>1, <2>2
<1>2. /\ <<BasePage(l[1]), PagesFor(l[2])>> \in owned
      /\ VerifiedPages(l[2]) \in ReleasedPages(<<BasePage(l[1]), PagesFor(l[2])>>)
  BY <1>1, LiveBlockIs
<1> QED
  BY <1>1, <1>2, GiveUpIs

LEMMA ReallocGivesUp ==
  ASSUME SizesFit, PageInv, BlockInv, NEW t \in Threads, ReallocRelease(t)
  PROVE  LET o == <<op[t].old, PagesFor(op[t].usize)>>
         IN  /\ o \in owned /\ op[t].pages \in ReleasedPages(o)
             /\ EnterReleasePages(t, o, op[t].old, op[t].pages)
<1>1. /\ mpc[t] = "release" /\ op[t].pages > 0 /\ GiveUp(t, op[t].old, op[t].pages)
      /\ Fits(op[t].usize) /\ op[t].pages = VerifiedPages(op[t].usize)
  BY DEF ReallocRelease, BlockInv, RoutineInv, Shape
<1>2. Claim("old", t) /\ BlockOf("old", t) = <<op[t].old, PagesFor(op[t].usize)>>
  BY <1>1 DEF Claim, BlockOf
<1>3. <<op[t].old, PagesFor(op[t].usize)>> \in owned
  BY <1>2 DEF BlockInv, ClaimInv, Kinds
<1>4. op[t].pages \in ReleasedPages(<<op[t].old, PagesFor(op[t].usize)>>)
  BY <1>1, BlockPages DEF ReleasedPages
<1> QED
  BY <1>1, <1>3, <1>4, GiveUpIs

LEMMA StepIsSysStep ==
  ASSUME SizesFit, PageInv, BlockInv, HeaderInv, [Next]_vars
  PROVE  [SysNext]_sysVars
<1>o. owned \subseteq Blocks
  BY CallTypes DEF PageInv
<1>1. CASE UNCHANGED vars
  BY <1>1 DEF vars
<1>2. ASSUME NEW t \in Threads, MallocPages(t) PROVE SysNext
  <2>1. PagesFor(op[t].req) \in 2 .. MaxBlockPages /\ EnterGetPages(t, PagesFor(op[t].req))
    <3>1. Fits(op[t].req)
      BY <1>2 DEF MallocPages, BlockInv, RoutineInv, Shape, Fits
    <3> QED
      BY <1>2, <3>1, BlockPages DEF MallocPages
  <2> QED
    BY <2>1 DEF SysNext, ClientStep
<1>3. ASSUME NEW t \in Threads, MallocFailed(t) \/ MallocEmbedded(t) \/ MallocNeedsHeader(t) PROVE SysNext
  BY <1>3 DEF MallocFailed, MallocEmbedded, MallocNeedsHeader, SysNext, ClientStep
<1>4. ASSUME NEW t \in Threads, NEW o \in owned, NEW n \in ReleasedPages(o), EnterReleasePages(t, o, o[1], n)
      PROVE  SysNext
  BY <1>4 DEF SysNext, ClientStep
<1>5. ASSUME NEW t \in Threads, NEW l \in live, FreeEmbedded(t, l) \/ FreeOther(t, l) PROVE SysNext
  BY <1>4, <1>5, FreeGivesUp
<1>6. ASSUME NEW t \in Threads, ReallocRelease(t) PROVE SysNext
  BY <1>4, <1>6, ReallocGivesUp
<1>7. ASSUME NEW t \in Threads, PageStep(t) PROVE SysNext
  BY <1>7 DEF PageStep, SysNext
<1>8. ASSUME NEW t \in Threads,
             \/ MallocDefault(t) \/ GetBlockHeader(t) \/ RefillHeaders(t) \/ NoHeader(t)
             \/ PushHeader(t) \/ FillHeader(t) \/ SignHeader(t) \/ Return(t)
             \/ \E n \in Sizes : Malloc(t, n)
             \/ \E l \in live : FreeDefault(t, l)
             \/ \E l \in live, n \in Sizes :
                  ReallocEmbedded(t, l, n) \/ ReallocOther(t, l, n) \/ ReallocDefault(t, l, n)
             \/ \E b \in Pages, n \in Sizes : FreeAgain(t, b, n)
      PROVE  UNCHANGED sysVars
  BY <1>8 DEF MallocDefault, GetBlockHeader, RefillHeaders, NoHeader, PushHeader, FillHeader, SignHeader,
              Return, Malloc, FreeDefault, ReallocEmbedded, ReallocOther, ReallocDefault, FreeAgain
<1> QED
  BY <1>1, <1>2, <1>3, <1>5, <1>6, <1>7, <1>8 DEF Next, AppStep, MallocStep, Ended

-------------------------------------------------------------------------------
(* What the steps have in common: the routines and their claims *)

\* Only thread t moves.
LEMMA RoutineStep ==
  ASSUME RoutineInv, NEW t \in Threads, RoutineTypes', Shape(t)',
         \A u \in Threads \ {t} :
           mpc'[u] = mpc[u] /\ op'[u] = op[u] /\ pc'[u] = pc[u] /\ size'[u] = size[u]
  PROVE  RoutineInv'
<1>1. ASSUME NEW u \in Threads \ {t} PROVE Shape(u)'
  <2>1. Shape(u)
    BY DEF RoutineInv
  <2> QED
    BY <2>1 DEF Shape
<1> QED
  BY <1>1 DEF RoutineInv

\* A step of the page layer moves thread t within its call.
LEMMA PageStepIs ==
  ASSUME CacheInv, NEW t \in Threads, GetPagesStep(t) \/ ReleasePagesStep(t)
  PROVE  /\ owned' = owned
         /\ \A u \in Threads \ {t} : pc'[u] = pc[u] /\ size'[u] = size[u]
         /\ \/ pc[t] \in GetPC /\ pc'[t] \in GetPC /\ size'[t] = size[t]
            \/ pc[t] \in ReleasePC /\ pc'[t] \in ReleasePC \cup {"idle"}
<1>t. pc \in [Threads -> {"idle"} \cup GetPC \cup ReleasePC] /\ size \in [Threads -> 0 .. MaxBlockPages]
  BY CallTypes
<1>1. CASE GetPagesStep(t)
  <2>1. /\ owned' = owned /\ size' = size /\ pc[t] \in GetPC
        /\ \E l \in GetPC : pc' = [pc EXCEPT ![t] = l]
    BY <1>1 DEF GetPagesStep, ReuseOldest, ReuseRefused, ReuseLatest, CacheMiss, TraceLive, TraceDead,
                Mmap, SetDead, OpenDeadPage, CloseDeadPage, AfterCacheHit, Goto, GetPC
  <2> QED
    BY <2>1, <1>t
<1>2. CASE ReleasePagesStep(t)
  <2>1. /\ owned' = owned /\ pc[t] \in ReleasePC
        /\ \E l \in ReleasePC \cup {"idle"} : pc' = [pc EXCEPT ![t] = l]
        /\ size' = size \/ size' = [size EXCEPT ![t] = 0]
    BY <1>2 DEF ReleasePagesStep, InitHeader, FreeTraceLive, FreeTraceDead, Protect, EnqueueKeep,
                EnqueueEvict, EnqueueNoTag, TestCount, Push, Munmap, OpenDeadPage, CloseDeadPage,
                AfterFreeTrace, Goto, ReleasePC
  <2> QED
    BY <2>1, <1>t
<1> QED
  BY <1>1, <1>2

\* The claims on the blocks: nothing changes, one is handed on, made or given up.
LEMMA ClaimsKept ==
  ASSUME ClaimInv, owned' = owned,
         \A k \in Kinds : \A x : Claim(k, x)' <=> Claim(k, x),
         \A k \in Kinds : \A x : Claim(k, x) => BlockOf(k, x)' = BlockOf(k, x)
  PROVE  ClaimInv'
BY DEF ClaimInv

LEMMA ClaimHandedOn ==
  ASSUME ClaimInv, owned' = owned, NEW k0 \in Kinds, NEW x0, NEW k1 \in Kinds, NEW x1,
         Claim(k0, x0), BlockOf(k1, x1)' = BlockOf(k0, x0),
         \A k \in Kinds : \A x :
           Claim(k, x)' <=> \/ k = k1 /\ x = x1
                            \/ Claim(k, x) /\ ~(k = k0 /\ x = x0),
         \A k \in Kinds : \A x :
           Claim(k, x) /\ ~(k = k0 /\ x = x0) => BlockOf(k, x)' = BlockOf(k, x)
  PROVE  ClaimInv'
BY DEF ClaimInv

LEMMA ClaimMade ==
  ASSUME ClaimInv, NEW k1 \in Kinds, NEW x1, NEW o, o \notin owned,
         owned' = owned \cup {o}, BlockOf(k1, x1)' = o,
         \A k \in Kinds : \A x : Claim(k, x)' <=> (k = k1 /\ x = x1) \/ Claim(k, x),
         \A k \in Kinds : \A x : Claim(k, x) => BlockOf(k, x)' = BlockOf(k, x)
  PROVE  ClaimInv'
BY DEF ClaimInv

LEMMA ClaimGivenUp ==
  ASSUME ClaimInv, NEW k0 \in Kinds, NEW x0, Claim(k0, x0),
         owned' = owned \ {BlockOf(k0, x0)},
         \A k \in Kinds : \A x : Claim(k, x)' <=> Claim(k, x) /\ ~(k = k0 /\ x = x0),
         \A k \in Kinds : \A x :
           Claim(k, x) /\ ~(k = k0 /\ x = x0) => BlockOf(k, x)' = BlockOf(k, x)
  PROVE  ClaimInv'
BY DEF ClaimInv

\* When only thread t's locals change, the others' claims and those of the application
\* to the blocks it keeps stay as they are.
LEMMA OtherClaims ==
  ASSUME NEW t \in Threads,
         \A u \in Threads \ {t} : mpc'[u] = mpc[u] /\ op'[u] = op[u],
         NEW k \in Kinds, NEW x, k = "live" \/ x # t
  PROVE  /\ k # "live" => (Claim(k, x)' <=> Claim(k, x))
         /\ k = "live" => (Claim(k, x)' <=> x \in live' /\ Mine(x)) /\ (Claim(k, x) <=> x \in live /\ Mine(x))
         /\ Claim(k, x) => BlockOf(k, x)' = BlockOf(k, x)
<1>1. CASE k = "live"
  BY <1>1 DEF Claim, BlockOf
<1>2. CASE k # "live"
  BY <1>2 DEF Claim, BlockOf, Kinds
<1> QED
  BY <1>1, <1>2

-------------------------------------------------------------------------------
(* What the steps have in common: the headers *)

LEMMA HeaderFields ==
  ASSUME NEW l
  PROVE  /\ HeaderOf(l).sig = "accutrak" /\ HeaderOf(l).user = l[1]
         /\ HeaderOf(l).base = BasePage(l[1]) /\ HeaderOf(l).usize = l[2]
BY DEF HeaderOf, Header

\* The header of a new block describes it.
LEMMA NewBlock ==
  ASSUME NEW b \in Pages, NEW n \in Nat, NEW l, l = <<UserAddr(b, n), n>>
  PROVE  /\ l \in Nat \X Nat /\ l[1] = UserAddr(b, n) /\ l[2] = n /\ BasePage(l[1]) = b
         /\ Mine(l) => /\ l \in live => Describes(HeaderOf(l))
                       /\ l \in live' => Describes(HeaderOf(l))'
<1>1. b \in Nat
  BY Constants
<1>2. l \in Nat \X Nat /\ BasePage(l[1]) = b
  BY <1>1, WayBack
<1> QED
  BY <1>2, HeaderFields DEF Describes, Mine

LEMMA HeaderPageInjective ==
  ASSUME NEW b \in Pages, NEW c \in Pages, HeaderPage(b) = HeaderPage(c)
  PROVE  b = c
BY Constants DEF HeaderPage

\* The headers in the blocks: all are kept, one is grounded with its block gone, or one is
\* written with its block new.
LEMMA EmbeddedKept ==
  ASSUME SizesFit, PageInv, BlockInv, EmbeddedInv,
         \A p \in Pages : hdr'[p] = hdr[p] \/ hdr'[p].sig # "accutrak",
         \A l \in live : Mine(l) => LET p == HeaderPage(BasePage(l[1])) IN hdr'[p] = hdr[p],
         \A l : Mine(l) /\ Embedded(l[2]) => (l \in live' <=> l \in live)
  PROVE  EmbeddedInv'
<1>1. ASSUME NEW p \in Pages, hdr'[p].sig = "accutrak"
      PROVE  Describes(hdr[p])' /\ Embedded(hdr'[p].usize) /\ p = HeaderPage(hdr'[p].base)
  <2>1. hdr'[p] = hdr[p] /\ Describes(hdr[p]) /\ Embedded(hdr[p].usize) /\ p = HeaderPage(hdr[p].base)
    BY <1>1 DEF EmbeddedInv
  <2> QED
    BY <2>1 DEF Describes, Mine
<1>2. ASSUME NEW l \in live', Mine(l), Embedded(l[2])
      PROVE  hdr'[HeaderPage(BasePage(l[1]))] = HeaderOf(l)
  BY <1>2 DEF EmbeddedInv
<1> QED
  BY <1>1, <1>2 DEF EmbeddedInv, Mine, HeaderOf, Describes

LEMMA EmbeddedDropped ==
  ASSUME SizesFit, PageInv, BlockInv, EmbeddedInv, NEW l \in live, Mine(l),
         live' = live \ {l}, hdr' = [hdr EXCEPT ![HeaderPage(BasePage(l[1]))] = Grounded]
  PROVE  EmbeddedInv'
<1> DEFINE q == HeaderPage(BasePage(l[1]))
<1>l. q \in Pages /\ BasePage(l[1]) \in Pages
  BY LiveBlockIs
<1>h. /\ hdr'[q].sig # "accutrak"
      /\ \A p \in Pages : p # q => hdr'[p] = hdr[p]
  BY <1>l DEF BlockInv, RoutineInv, RoutineTypes, Grounded, Header
<1> HIDE DEF q
<1>1. ASSUME NEW p \in Pages, hdr'[p].sig = "accutrak"
      PROVE  Describes(hdr[p])' /\ Embedded(hdr'[p].usize) /\ p = HeaderPage(hdr'[p].base)
  <2> DEFINE h == hdr[p]
  <2>1. p # q /\ hdr'[p] = h
    BY <1>1, <1>h
  <2>2. Describes(h) /\ Embedded(h.usize) /\ p = HeaderPage(h.base)
    BY <1>1, <2>1 DEF EmbeddedInv
  <2>3. h.usize \in Nat /\ h.base \in Nat
    BY DEF BlockInv, RoutineInv, RoutineTypes, Headers
  <2>4. BasePage(h.user) = h.base
    BY <2>2, <2>3, WayBack DEF Describes
  <2>5. <<h.user, h.usize>> # l
    BY <2>1, <2>2, <2>4 DEF q
  <2> QED
    BY <2>1, <2>2, <2>5 DEF Describes
<1>2. ASSUME NEW m \in live', Mine(m), Embedded(m[2])
      PROVE  hdr'[HeaderPage(BasePage(m[1]))] = HeaderOf(m)
  <2>1. m \in live /\ m # l
    OBVIOUS
  <2>2. BasePage(m[1]) \in Pages /\ HeaderPage(BasePage(m[1])) \in Pages
    BY <1>2, <2>1, LiveBlockIs
  <2>3. HeaderPage(BasePage(m[1])) # q
    BY <1>l, <1>2, <2>1, <2>2, OneBlockAtAddress, HeaderPageInjective DEF q
  <2> QED
    BY <1>2, <1>h, <2>1, <2>2, <2>3 DEF EmbeddedInv
<1> QED
  BY <1>1, <1>2 DEF EmbeddedInv, Mine, HeaderOf, Describes

LEMMA EmbeddedAdded ==
  ASSUME SizesFit, PageInv, BlockInv, EmbeddedInv, NEW b \in Pages, NEW n \in Nat, NEW l,
         l = <<UserAddr(b, n), n>>, Mine(l), Embedded(n), HeaderPage(b) \in Pages,
         \A m \in live : Mine(m) => BasePage(m[1]) # b,
         live' = live \cup {l}, hdr' = [hdr EXCEPT ![HeaderPage(b)] = HeaderOf(l)]
  PROVE  EmbeddedInv'
<1>l. BasePage(l[1]) = b /\ l[2] = n /\ Describes(HeaderOf(l))'
  BY NewBlock
<1>h. /\ hdr'[HeaderPage(b)] = HeaderOf(l)
      /\ \A p \in Pages : p # HeaderPage(b) => hdr'[p] = hdr[p]
  BY DEF BlockInv, RoutineInv, RoutineTypes
<1>1. ASSUME NEW p \in Pages, hdr'[p].sig = "accutrak"
      PROVE  Describes(hdr[p])' /\ Embedded(hdr'[p].usize) /\ p = HeaderPage(hdr'[p].base)
  <2>1. CASE p = HeaderPage(b)
    <3>1. hdr'[p] = HeaderOf(l) /\ HeaderOf(l).usize = n /\ HeaderOf(l).base = b
      BY <1>l, <1>h, <2>1, HeaderFields
    <3>2. Describes(hdr[p])'
      BY <1>l, <3>1 DEF Describes, HeaderOf
    <3> QED
      BY <2>1, <3>1, <3>2
  <2>2. CASE p # HeaderPage(b)
    BY <1>1, <1>h, <2>2 DEF EmbeddedInv, Describes
  <2> QED
    BY <2>1, <2>2
<1>2. ASSUME NEW m \in live', Mine(m), Embedded(m[2])
      PROVE  hdr'[HeaderPage(BasePage(m[1]))] = HeaderOf(m)
  <2>1. CASE m = l
    BY <2>1, <1>l, <1>h
  <2>2. CASE m # l
    <3>1. m \in live
      BY <2>2
    <3>2. BasePage(m[1]) \in Pages /\ HeaderPage(BasePage(m[1])) \in Pages
      BY <1>2, <3>1, LiveBlockIs
    <3>3. HeaderPage(BasePage(m[1])) # HeaderPage(b)
      BY <1>2, <3>1, <3>2, HeaderPageInjective
    <3> QED
      BY <1>2, <1>h, <3>1, <3>2, <3>3 DEF EmbeddedInv
  <2> QED
    BY <2>1, <2>2
<1> QED
  BY <1>1, <1>2 DEF EmbeddedInv, Mine, HeaderOf, Describes

\* The headers out of the blocks, likewise.
LEMMA SeparateKept ==
  ASSUME SeparateInv,
         \A i \in HeaderIds : \/ cell'[i] = cell[i]
                              \/ cell[i].sig # "accutrak" /\ cell'[i].sig # "accutrak",
         Listed \subseteq Listed',
         \A l : Mine(l) /\ ~Embedded(l[2]) => (l \in live' <=> l \in live)
  PROVE  SeparateInv'
<1>1. ASSUME NEW i \in HeaderIds, cell'[i].sig = "accutrak"
      PROVE  /\ cell'[i] = cell[i]
             /\ Describes(cell[i])' /\ ~Embedded(cell'[i].usize) /\ i \in Listed'
  <2>1. cell'[i] = cell[i] /\ Describes(cell[i]) /\ ~Embedded(cell[i].usize) /\ i \in Listed
    BY <1>1 DEF SeparateInv
  <2> QED
    BY <2>1 DEF Describes, Mine
<1>2. ASSUME NEW i \in HeaderIds, NEW j \in HeaderIds, cell'[i].sig = "accutrak",
             cell'[j].sig = "accutrak", cell'[i].user = cell'[j].user
      PROVE  i = j
  BY <1>1, <1>2 DEF SeparateInv
<1>3. ASSUME NEW l \in live', Mine(l), ~Embedded(l[2])
      PROVE  \E i \in HeaderIds : cell'[i] = HeaderOf(l)
  <2>1. PICK i \in HeaderIds : cell[i] = HeaderOf(l)
    BY <1>3 DEF SeparateInv
  <2> QED
    BY <2>1, HeaderFields
<1> QED
  BY <1>1, <1>2, <1>3 DEF SeparateInv, Mine, HeaderOf, Describes

LEMMA SeparateDropped ==
  ASSUME SizesFit, PageInv, BlockInv, SeparateInv, NEW l \in live, NEW c \in HeaderIds, Mine(l),
         cell[c] = HeaderOf(l), live' = live \ {l},
         cell' = [cell EXCEPT ![c].sig = "FREEBLK!"], Listed \ {c} \subseteq Listed'
  PROVE  SeparateInv'
<1>h. /\ cell'[c].sig # "accutrak" /\ cell[c].sig = "accutrak" /\ cell[c].user = l[1]
      /\ \A i \in HeaderIds : i # c => cell'[i] = cell[i]
  BY HeaderFields DEF BlockInv, RoutineInv, RoutineTypes, Headers
<1>1. ASSUME NEW i \in HeaderIds, cell'[i].sig = "accutrak"
      PROVE  /\ cell'[i] = cell[i]
             /\ Describes(cell[i])' /\ ~Embedded(cell'[i].usize) /\ i \in Listed'
  <2>1. i # c /\ cell'[i] = cell[i]
    BY <1>1, <1>h
  <2>2. Describes(cell[i]) /\ ~Embedded(cell[i].usize) /\ i \in Listed
    BY <1>1, <2>1 DEF SeparateInv
  <2>3. cell[i].user # l[1]
    BY <1>1, <1>h, <2>1 DEF SeparateInv
  <2> QED
    BY <2>1, <2>2, <2>3 DEF Describes
<1>2. ASSUME NEW i \in HeaderIds, NEW j \in HeaderIds, cell'[i].sig = "accutrak",
             cell'[j].sig = "accutrak", cell'[i].user = cell'[j].user
      PROVE  i = j
  BY <1>1, <1>2 DEF SeparateInv
<1>3. ASSUME NEW m \in live', Mine(m), ~Embedded(m[2])
      PROVE  \E i \in HeaderIds : cell'[i] = HeaderOf(m)
  <2>1. m \in live /\ m # l
    OBVIOUS
  <2>2. PICK i \in HeaderIds : cell[i] = HeaderOf(m)
    BY <1>3, <2>1 DEF SeparateInv
  <2>3. l = <<l[1], l[2]>> /\ m = <<m[1], m[2]>>
    BY <1>3, <2>1, LiveBlockIs
  <2>4. HeaderOf(m) # HeaderOf(l)
    BY <2>1, <2>3, HeaderFields
  <2> QED
    BY <1>h, <2>2, <2>4
<1> QED
  BY <1>1, <1>2, <1>3 DEF SeparateInv, Mine, HeaderOf, Describes

LEMMA SeparateAdded ==
  ASSUME SizesFit, PageInv, BlockInv, SeparateInv, NEW b \in Pages, NEW n \in Nat, NEW l,
         NEW c \in HeaderIds, l = <<UserAddr(b, n), n>>, Mine(l), ~Embedded(n),
         \A m \in live : Mine(m) => BasePage(m[1]) # b,
         cell[c].sig # "accutrak", cell'[c] = HeaderOf(l),
         \A i \in HeaderIds : i # c => cell'[i] = cell[i],
         live' = live \cup {l}, c \in Listed, Listed' = Listed
  PROVE  SeparateInv'
<1>l. /\ BasePage(l[1]) = b /\ l[2] = n /\ Describes(HeaderOf(l))'
      /\ cell'[c].sig = "accutrak" /\ cell'[c].user = l[1] /\ cell'[c].usize = n
  BY NewBlock, HeaderFields
<1>1. ASSUME NEW i \in HeaderIds, i # c, cell'[i].sig = "accutrak"
      PROVE  /\ cell'[i] = cell[i] /\ cell[i].user # l[1]
             /\ Describes(cell[i])' /\ ~Embedded(cell'[i].usize) /\ i \in Listed'
  <2>1. cell'[i] = cell[i] /\ Describes(cell[i]) /\ ~Embedded(cell[i].usize) /\ i \in Listed
    BY <1>1 DEF SeparateInv
  <2>2. cell[i].user # l[1]
    BY <1>l, <2>1 DEF Describes, Mine
  <2> QED
    BY <2>1, <2>2 DEF Describes
<1>2. Describes(cell[c])' /\ ~Embedded(cell'[c].usize) /\ c \in Listed'
  BY <1>l DEF Describes, HeaderOf
<1>3. ASSUME NEW i \in HeaderIds, NEW j \in HeaderIds, cell'[i].sig = "accutrak",
             cell'[j].sig = "accutrak", cell'[i].user = cell'[j].user
      PROVE  i = j
  BY <1>l, <1>1, <1>3 DEF SeparateInv
<1>4. ASSUME NEW m \in live', Mine(m), ~Embedded(m[2])
      PROVE  \E i \in HeaderIds : cell'[i] = HeaderOf(m)
  <2>1. CASE m = l
    BY <2>1
  <2>2. CASE m # l
    <3>1. PICK i \in HeaderIds : cell[i] = HeaderOf(m)
      BY <1>4, <2>2 DEF SeparateInv
    <3> QED
      BY <3>1, HeaderFields
  <2> QED
    BY <2>1, <2>2
<1> QED
  BY <1>1, <1>2, <1>3, <1>4 DEF SeparateInv, Mine, HeaderOf, Describes

-------------------------------------------------------------------------------
(* The lists of headers *)

\* Leaving out entry i of a list without repetitions: r is the rest of s.
LEMMA LeftOut ==
  ASSUME NEW r, NEW s, NEW i \in DOMAIN s, NEW at, Distinct(s),
         \A j \in DOMAIN r : at[j] \in DOMAIN s /\ at[j] # i /\ r[j] = s[at[j]],
         \A j, k \in DOMAIN r : at[j] = at[k] => j = k,
         \A k \in DOMAIN s : k # i => \E j \in DOMAIN r : at[j] = k
  PROVE  Distinct(r) /\ Entries(r) = Entries(s) \ {s[i]}
<1>1. Distinct(r)
  BY DEF Distinct
<1>2. ASSUME NEW x \in Entries(r) PROVE x \in Entries(s) \ {s[i]}
  <2>1. PICK j \in DOMAIN r : x = r[j]
    BY DEF Entries
  <2>2. x = s[at[j]] /\ at[j] \in DOMAIN s /\ at[j] # i
    BY <2>1
  <2> QED
    BY <2>2 DEF Entries, Distinct
<1>3. ASSUME NEW x \in Entries(s) \ {s[i]} PROVE x \in Entries(r)
  <2>1. PICK k \in DOMAIN s : x = s[k] /\ k # i
    BY DEF Entries
  <2>2. PICK j \in DOMAIN r : at[j] = k
    BY <2>1
  <2> QED
    BY <2>1, <2>2 DEF Entries
<1> QED
  BY <1>1, <1>2, <1>3

\* Unlinking entry i.
LEMMA Unlinked ==
  ASSUME NEW S, NEW s \in Seq(S), NEW i \in DOMAIN s,
         Distinct(s)
  PROVE  LET r == SubSeq(s, 1, i - 1) \o SubSeq(s, i + 1, Len(s))
         IN  /\ r \in Seq(S)
             /\ Distinct(r)
             /\ Entries(r) = Entries(s) \ {s[i]}
<1> DEFINE a == SubSeq(s, 1, i - 1)
           b == SubSeq(s, i + 1, Len(s))
           r == a \o b
           n == Len(s)
<1>1. n \in Nat /\ i \in 1 .. n /\ DOMAIN s = 1 .. n /\ \A j \in 1 .. n : s[j] \in S
  OBVIOUS
<1>2. /\ a \in Seq(S) /\ Len(a) = i - 1 /\ \A j \in 1 .. i - 1 : a[j] = s[j]
      /\ b \in Seq(S) /\ Len(b) = n - i /\ \A j \in 1 .. n - i : b[j] = s[i + j]
  <2>1. /\ Len(a) = i - 1 /\ \A j \in 1 .. i - 1 : a[j] = s[j]
        /\ Len(b) = n - i /\ \A j \in 1 .. n - i : b[j] = s[i + j]
    BY <1>1, SubSeqProperties
  <2>2. a \in Seq(S) /\ b \in Seq(S)
    BY <1>1, SubSeqProperties
  <2> QED
    BY <2>1, <2>2
<1> HIDE DEF a, b, n
<1>3. /\ r \in Seq(S) /\ Len(r) = Len(a) + Len(b)
      /\ \A j \in 1 .. Len(a) + Len(b) : r[j] = IF j <= Len(a) THEN a[j] ELSE b[j - Len(a)]
  BY <1>2, ConcatProperties
<1> HIDE DEF r
<1>4. DOMAIN r = 1 .. n - 1
  BY <1>1, <1>2, <1>3
<1> DEFINE at == [j \in 1 .. n - 1 |-> IF j < i THEN j ELSE j + 1]
<1>5. ASSUME NEW j \in 1 .. n - 1 PROVE at[j] \in 1 .. n /\ at[j] # i /\ r[j] = s[at[j]]
  <2>1. CASE j < i
    BY <1>1, <1>2, <1>3, <2>1
  <2>2. CASE ~(j < i)
    <3>1. /\ j \in 1 .. Len(a) + Len(b) /\ ~(j <= Len(a)) /\ j - Len(a) \in 1 .. n - i
          /\ i + (j - Len(a)) = j + 1 /\ j + 1 \in 1 .. n /\ j + 1 # i
      BY <1>1, <1>2, <2>2
    <3>2. r[j] = b[j - Len(a)]
      BY <1>3, <3>1
    <3> QED
      BY <1>2, <2>2, <3>1, <3>2
  <2> QED
    BY <2>1, <2>2
<1>6. ASSUME NEW j \in 1 .. n - 1, NEW k \in 1 .. n - 1, at[j] = at[k] PROVE j = k
  BY <1>1, <1>6
<1>7. ASSUME NEW k \in 1 .. n, k # i PROVE \E j \in 1 .. n - 1 : at[j] = k
  <2>1. CASE k < i
    BY <1>1, <2>1
  <2>2. CASE k > i
    <3>1. k - 1 \in 1 .. n - 1 /\ at[k - 1] = k
      BY <1>1, <2>2
    <3> QED
      BY <3>1
  <2> QED
    BY <1>1, <1>7, <2>1, <2>2
<1> HIDE DEF at
<1>8. /\ \A j \in DOMAIN r : at[j] \in DOMAIN s /\ at[j] # i /\ r[j] = s[at[j]]
      /\ \A j, k \in DOMAIN r : at[j] = at[k] => j = k
      /\ \A k \in DOMAIN s : k # i => \E j \in DOMAIN r : at[j] = k
  BY <1>1, <1>4, <1>5, <1>6, <1>7
<1>9. Distinct(r) /\ Entries(r) = Entries(s) \ {s[i]}
  BY <1>8, LeftOut
<1> QED
  BY <1>3, <1>9 DEF r, a, b, n

\* Taking the first entry off a list.
LEMMA Popped ==
  ASSUME NEW S, NEW s \in Seq(S), s # <<>>,
         Distinct(s)
  PROVE  /\ Tail(s) \in Seq(S) /\ Head(s) \in S /\ Head(s) \in Entries(s)
         /\ Distinct(Tail(s))
         /\ Entries(Tail(s)) = Entries(s) \ {Head(s)}
<1> DEFINE n == Len(s)
           r == Tail(s)
           at == [j \in 1 .. n - 1 |-> j + 1]
<1>1. /\ n \in Nat \ {0} /\ DOMAIN s = 1 .. n /\ Head(s) = s[1] /\ s[1] \in S
      /\ r \in Seq(S) /\ DOMAIN r = 1 .. n - 1 /\ \A j \in 1 .. n - 1 : r[j] = s[j + 1]
      /\ s[1] \in Entries(s)
  BY DEF Entries
<1> HIDE DEF r, n
<1>2. /\ 1 \in 1 .. n
      /\ \A j \in 1 .. n - 1 : at[j] \in 1 .. n /\ at[j] # 1 /\ r[j] = s[at[j]]
      /\ \A j, k \in 1 .. n - 1 : at[j] = at[k] => j = k
  BY <1>1
<1>3. \A k \in 1 .. n : k # 1 => k - 1 \in 1 .. n - 1 /\ at[k - 1] = k
  BY <1>1
<1> HIDE DEF at
<1>4. /\ 1 \in DOMAIN s
      /\ \A j \in DOMAIN r : at[j] \in DOMAIN s /\ at[j] # 1 /\ r[j] = s[at[j]]
      /\ \A j, k \in DOMAIN r : at[j] = at[k] => j = k
      /\ \A k \in DOMAIN s : k # 1 => \E j \in DOMAIN r : at[j] = k
  BY <1>1, <1>2, <1>3
<1>5. Distinct(r) /\ Entries(r) = Entries(s) \ {s[1]}
  BY <1>4, LeftOut
<1> QED
  BY <1>1, <1>5 DEF r

\* Putting an entry in front of a list.
LEMMA Pushed ==
  ASSUME NEW S, NEW s \in Seq(S), NEW x \in S, Distinct(s), x \notin Entries(s)
  PROVE  /\ <<x>> \o s \in Seq(S) /\ Distinct(<<x>> \o s)
         /\ Entries(<<x>> \o s) = Entries(s) \cup {x}
<1> DEFINE n == Len(s)
<1>1. /\ n \in Nat /\ DOMAIN s = 1 .. n /\ \A j \in 1 .. n : s[j] \in S /\ s[j] # x
      /\ \A j, k \in 1 .. n : s[j] = s[k] => j = k
  BY DEF Distinct, Entries
<1>2. /\ <<x>> \o s \in Seq(S) /\ Distinct(<<x>> \o s)
      /\ Entries(<<x>> \o s) = Entries(s) \cup {x}
  <2> DEFINE r == <<x>> \o s
  <2>1. /\ r \in Seq(S) /\ DOMAIN r = 1 .. n + 1 /\ r[1] = x
        /\ \A j \in 2 .. n + 1 : r[j] = s[j - 1]
    BY <1>1
  <2> HIDE DEF n, r
  <2>2. \A j \in 2 .. n + 1 : j - 1 \in 1 .. n /\ r[j] = s[j - 1]
    BY <1>1, <2>1
  <2>3. \A j \in 1 .. n : j + 1 \in 1 .. n + 1 /\ r[j + 1] = s[j]
    BY <1>1, <2>1
  <2>4. ASSUME NEW j \in 1 .. n + 1, NEW k \in 1 .. n + 1, r[j] = r[k] PROVE j = k
    <3>1. CASE j = 1 \/ k = 1
      <4>1. \A i \in 2 .. n + 1 : r[i] # x
        BY <1>1, <2>2
      <4>2. j \notin 2 .. n + 1 /\ k \notin 2 .. n + 1
        BY <2>1, <2>4, <3>1, <4>1
      <4> QED
        BY <1>1, <4>2
    <3>2. CASE j # 1 /\ k # 1
      <4>1. j \in 2 .. n + 1 /\ k \in 2 .. n + 1
        BY <1>1, <3>2
      <4>2. s[j - 1] = s[k - 1] /\ j - 1 \in 1 .. n /\ k - 1 \in 1 .. n
        BY <2>2, <2>4, <4>1
      <4>3. j - 1 = k - 1
        BY <1>1, <4>2
      <4> QED
        BY <1>1, <4>3
    <3> QED
      BY <3>1, <3>2
  <2>5. ASSUME NEW y \in Entries(r) PROVE y \in Entries(s) \cup {x}
    <3>1. PICK j \in 1 .. n + 1 : y = r[j]
      BY <2>1 DEF Entries
    <3>2. CASE j = 1
      BY <2>1, <3>1, <3>2
    <3>3. CASE j \in 2 .. n + 1
      BY <1>1, <2>2, <3>1, <3>3 DEF Entries
    <3> QED
      BY <1>1, <3>2, <3>3
  <2>6. x \in Entries(r) /\ Entries(s) \subseteq Entries(r)
    <3>1. 1 \in 1 .. n + 1
      BY <1>1
    <3>2. x \in Entries(r)
      BY <2>1, <3>1 DEF Entries
    <3>3. ASSUME NEW j \in 1 .. n PROVE s[j] \in Entries(r)
      <4>1. j + 1 \in DOMAIN r /\ r[j + 1] = s[j]
        BY <2>1, <2>3
      <4>2. r[j + 1] \in Entries(r)
        BY <4>1 DEF Entries
      <4> QED
        BY <4>1, <4>2
    <3> QED
      BY <1>1, <3>2, <3>3 DEF Entries
  <2>7. Entries(r) = Entries(s) \cup {x}
    BY <2>5, <2>6
  <2>8. Distinct(r)
    BY <2>1, <2>4 DEF Distinct
  <2> QED
    BY <2>1, <2>7, <2>8 DEF r
<1> QED
  BY <1>2

\* Putting an entry behind a list.
LEMMA Appended ==
  ASSUME NEW S, NEW s \in Seq(S), NEW x \in S, Distinct(s), x \notin Entries(s)
  PROVE  /\ Append(s, x) \in Seq(S) /\ Distinct(Append(s, x))
         /\ Entries(Append(s, x)) = Entries(s) \cup {x}
<1> DEFINE n == Len(s)
<1>1. /\ n \in Nat /\ DOMAIN s = 1 .. n /\ \A j \in 1 .. n : s[j] \in S /\ s[j] # x
      /\ \A j, k \in 1 .. n : s[j] = s[k] => j = k
  BY DEF Distinct, Entries
<1>2. /\ Append(s, x) \in Seq(S) /\ Distinct(Append(s, x))
      /\ Entries(Append(s, x)) = Entries(s) \cup {x}
  <2> DEFINE r == Append(s, x)
  <2>1. /\ r \in Seq(S) /\ DOMAIN r = 1 .. n + 1 /\ r[n + 1] = x
        /\ \A j \in 1 .. n : r[j] = s[j] /\ j \in 1 .. n + 1
    BY <1>1
  <2> HIDE DEF r
  <2>2. Entries(r) = Entries(s) \cup {x}
    BY <1>1, <2>1 DEF Entries
  <2>3. Distinct(r)
    BY <1>1, <2>1 DEF Distinct
  <2> QED
    BY <2>1, <2>2, <2>3 DEF r
<1> QED
  BY <1>2

\* Thread t moves; the headers the others have in their hands are left alone.
LEMMA PoolStep ==
  ASSUME PoolInv, NEW t \in Threads,
         \A u \in Threads \ {t} : mpc'[u] = mpc[u] /\ op'[u] = op[u],
         numHeaders' \in numHeaders .. MaxHeaders,
         gOtherBlocks' \in Seq(1 .. numHeaders'), gFreeBlockHeader' \in Seq(1 .. numHeaders'),
         Listed' \cap Pooled' = {},
         Distinct(gOtherBlocks)',
         Distinct(gFreeBlockHeader)',
         \A u \in Threads \ {t} : mpc[u] \in IdPC =>
            /\ cell'[op[u].id] = cell[op[u].id]
            /\ op[u].id \in Listed' <=> op[u].id \in Listed
            /\ op[u].id \notin Pooled',
         mpc'[t] \in IdPC =>
            /\ HeaderInHand(t)'
            /\ \A u \in Threads \ {t} : mpc[u] \in IdPC => op[u].id # op'[t].id
  PROVE  PoolInv'
<1>1. ASSUME NEW u \in Threads, mpc'[u] \in IdPC PROVE HeaderInHand(u)'
  <2>1. CASE u = t
    BY <1>1, <2>1
  <2>2. CASE u # t
    <3>1. HeaderInHand(u) /\ mpc[u] \in IdPC
      BY <1>1, <2>2 DEF PoolInv
    <3>2. numHeaders \in Nat /\ numHeaders' \in Nat /\ numHeaders <= numHeaders'
      BY DeadPageAssumption DEF PoolInv
    <3> QED
      BY <2>2, <3>1, <3>2 DEF HeaderInHand
  <2> QED
    BY <2>1, <2>2
<1>2. ASSUME NEW u \in Threads, NEW v \in Threads, u # v, mpc'[u] \in IdPC, mpc'[v] \in IdPC
      PROVE  op'[u].id # op'[v].id
  BY <1>2 DEF PoolInv
<1>3. numHeaders' \in 0 .. MaxHeaders
  BY DeadPageAssumption DEF PoolInv
<1> QED
  BY <1>1, <1>2, <1>3 DEF PoolInv

\* The lists stay as they are, and thread t has no header in hand.
LEMMA PoolKept ==
  ASSUME PoolInv, NEW t \in Threads, UNCHANGED headerVars, mpc'[t] \notin IdPC,
         \A u \in Threads \ {t} : mpc'[u] = mpc[u] /\ op'[u] = op[u]
  PROVE  PoolInv'
<1>1. /\ cell' = cell /\ gOtherBlocks' = gOtherBlocks /\ gFreeBlockHeader' = gFreeBlockHeader
      /\ numHeaders' = numHeaders /\ Listed' = Listed /\ Pooled' = Pooled
  BY DEF headerVars, Listed, Pooled
<1>2. /\ numHeaders \in numHeaders .. MaxHeaders /\ Listed \cap Pooled = {}
      /\ gOtherBlocks \in Seq(1 .. numHeaders) /\ gFreeBlockHeader \in Seq(1 .. numHeaders)
      /\ Distinct(gOtherBlocks) /\ Distinct(gFreeBlockHeader)
      /\ \A u \in Threads : mpc[u] \in IdPC => HeaderInHand(u)
  BY DeadPageAssumption DEF PoolInv
<1>3. Distinct(gOtherBlocks)' /\ Distinct(gFreeBlockHeader)'
  BY <1>1, <1>2 DEF Distinct
<1> QED
  BY <1>1, <1>2, <1>3, PoolStep DEF HeaderInHand

\* Thread t takes a header, puts it on the list and fills it in.
LEMMA PoolGetBlockHeader ==
  ASSUME RoutineTypes, PoolInv, SeparateInv, NEW t \in Threads, GetBlockHeader(t)
  PROVE  PoolInv'
<1> DEFINE c == Head(gFreeBlockHeader)
<1>1. /\ mpc' = [mpc EXCEPT ![t] = "pushHeader"] /\ op' = [op EXCEPT ![t].id = c]
      /\ gFreeBlockHeader # <<>> /\ gFreeBlockHeader' = Tail(gFreeBlockHeader)
      /\ gOtherBlocks' = gOtherBlocks /\ cell' = cell /\ numHeaders' = numHeaders
      /\ Listed' = Listed
  BY DEF GetBlockHeader, MGoto, Listed
<1>2. /\ numHeaders \in numHeaders .. MaxHeaders /\ Listed \cap Pooled = {}
      /\ gOtherBlocks \in Seq(1 .. numHeaders) /\ gFreeBlockHeader \in Seq(1 .. numHeaders)
      /\ Distinct(gOtherBlocks) /\ Distinct(gFreeBlockHeader)
      /\ \A u \in Threads : mpc[u] \in IdPC => HeaderInHand(u)
  BY DeadPageAssumption DEF PoolInv
<1>3. /\ gFreeBlockHeader' \in Seq(1 .. numHeaders) /\ c \in 1 .. numHeaders /\ c \in Pooled
      /\ Distinct(gFreeBlockHeader)' /\ Pooled' = Pooled \ {c}
  <2>1. /\ Tail(gFreeBlockHeader) \in Seq(1 .. numHeaders) /\ c \in 1 .. numHeaders
        /\ c \in Entries(gFreeBlockHeader) /\ Distinct(Tail(gFreeBlockHeader))
        /\ Entries(Tail(gFreeBlockHeader)) = Entries(gFreeBlockHeader) \ {c}
    BY <1>1, <1>2, Popped
  <2>2. Distinct(gFreeBlockHeader)' /\ Pooled' = Entries(Tail(gFreeBlockHeader))
    BY <1>1, <2>1 DEF Distinct, Pooled, Entries
  <2> QED
    BY <1>1, <2>1, <2>2 DEF Pooled
<1> HIDE DEF c
<1>4. /\ mpc'[t] = "pushHeader" /\ op'[t].id = c
      /\ \A u \in Threads \ {t} : mpc'[u] = mpc[u] /\ op'[u] = op[u]
  BY <1>1 DEF RoutineTypes
<1>5. c \in HeaderIds /\ cell[c].sig # "accutrak"
  BY <1>2, <1>3, DeadPageAssumption DEF SeparateInv, HeaderIds
<1>6. HeaderInHand(t)'
  BY <1>1, <1>2, <1>3, <1>4, <1>5 DEF HeaderInHand
<1>7. Distinct(gOtherBlocks)'
  BY <1>1, <1>2 DEF Distinct
<1>8. \A u \in Threads \ {t} : mpc[u] \in IdPC => op[u].id \notin Pooled
  BY <1>2 DEF HeaderInHand
<1>9. \A u \in Threads \ {t} : mpc[u] \in IdPC =>
        op[u].id \notin Pooled' /\ op[u].id # op'[t].id /\ cell'[op[u].id] = cell[op[u].id]
  BY <1>1, <1>3, <1>4, <1>8
<1>10. Listed' \cap Pooled' = {}
  BY <1>1, <1>2, <1>3
<1> QED
  BY <1>1, <1>2, <1>3, <1>4, <1>6, <1>7, <1>9, <1>10, PoolStep

LEMMA PoolRefillHeaders ==
  ASSUME RoutineTypes, PoolInv, NEW t \in Threads, RefillHeaders(t)
  PROVE  PoolInv'
<1> DEFINE f == [i \in 1 .. HeadersPerBuffer |-> numHeaders + i]
           n == numHeaders + HeadersPerBuffer
<1>1. /\ mpc' = mpc /\ op' = op /\ mpc[t] = "getHeader"
      /\ gFreeBlockHeader' = f /\ gOtherBlocks' = gOtherBlocks /\ cell' = cell
      /\ numHeaders' = n /\ n <= MaxHeaders /\ Listed' = Listed
  BY DEF RefillHeaders, Listed
<1>2. /\ numHeaders \in Nat /\ n \in numHeaders .. MaxHeaders
      /\ gOtherBlocks \in Seq(1 .. numHeaders) /\ Distinct(gOtherBlocks)
      /\ \A u \in Threads : mpc[u] \in IdPC => HeaderInHand(u)
  BY <1>1, DeadPageAssumption DEF PoolInv
<1>3. /\ f \in Seq(1 .. n) /\ Distinct(f) /\ \A i \in Entries(f) : i > numHeaders
  BY <1>2, DeadPageAssumption DEF Distinct, Entries
<1>4. Listed \subseteq 1 .. numHeaders /\ gOtherBlocks \in Seq(1 .. n)
  <2>1. 1 .. numHeaders \subseteq 1 .. n
    BY <1>2
  <2>2. \A i \in DOMAIN gOtherBlocks : gOtherBlocks[i] \in 1 .. numHeaders
    BY <1>2
  <2> HIDE DEF n
  <2>3. gOtherBlocks \in Seq(1 .. n)
    BY <1>2, <2>1
  <2> QED
    BY <2>2, <2>3 DEF Listed, Entries
<1> HIDE DEF f
<1>5. Pooled' = Entries(f) /\ Distinct(gFreeBlockHeader)' /\ Distinct(gOtherBlocks)'
  BY <1>1, <1>2, <1>3 DEF Pooled, Entries, Distinct
<1>6. Listed' \cap Pooled' = {}
  <2>1. \A i \in 1 .. numHeaders : ~(i > numHeaders)
    BY <1>2
  <2> QED
    BY <1>1, <1>3, <1>4, <1>5, <2>1
<1>7. \A u \in Threads \ {t} : mpc[u] \in IdPC => op[u].id \notin Pooled'
  <2>1. \A u \in Threads \ {t} : mpc[u] \in IdPC => op[u].id \in 1 .. numHeaders
    BY <1>2 DEF HeaderInHand
  <2> QED
    BY <1>2, <1>3, <1>5, <2>1
<1>8. mpc'[t] \notin IdPC /\ \A u \in Threads \ {t} : mpc'[u] = mpc[u] /\ op'[u] = op[u]
  BY <1>1 DEF IdPC
<1> QED
  BY <1>1, <1>2, <1>3, <1>4, <1>5, <1>6, <1>7, <1>8, PoolStep

LEMMA PoolPushHeader ==
  ASSUME RoutineTypes, PoolInv, NEW t \in Threads, PushHeader(t)
  PROVE  PoolInv'
<1> DEFINE c == op[t].id
<1>1. /\ mpc[t] = "pushHeader" /\ mpc' = [mpc EXCEPT ![t] = "fillHeader"] /\ op' = op
      /\ gOtherBlocks' = Append(gOtherBlocks, c)
      /\ gFreeBlockHeader' = gFreeBlockHeader /\ cell' = cell /\ numHeaders' = numHeaders
      /\ Pooled' = Pooled
  BY DEF PushHeader, MGoto, Pooled
<1>2. /\ numHeaders \in numHeaders .. MaxHeaders /\ Listed \cap Pooled = {}
      /\ gOtherBlocks \in Seq(1 .. numHeaders) /\ gFreeBlockHeader \in Seq(1 .. numHeaders)
      /\ Distinct(gOtherBlocks) /\ Distinct(gFreeBlockHeader)
      /\ \A u \in Threads : mpc[u] \in IdPC => HeaderInHand(u)
      /\ \A u \in Threads \ {t} : mpc[u] \in IdPC => op[u].id # c
  BY <1>1, DeadPageAssumption DEF PoolInv, IdPC
<1>3. /\ c \in 1 .. numHeaders /\ c \notin Pooled /\ c \notin Listed
      /\ cell[c].sig # "accutrak"
  BY <1>1, <1>2 DEF HeaderInHand, IdPC
<1>4. /\ gOtherBlocks' \in Seq(1 .. numHeaders)
      /\ Distinct(gOtherBlocks)' /\ Listed' = Listed \cup {c}
  <2> DEFINE r == Append(gOtherBlocks, c)
  <2>1. r \in Seq(1 .. numHeaders) /\ Distinct(r) /\ Entries(r) = Entries(gOtherBlocks) \cup {c}
    <3>1. c \in 1 .. numHeaders /\ c \notin Entries(gOtherBlocks)
      BY <1>3 DEF Listed
    <3>2. gOtherBlocks \in Seq(1 .. numHeaders) /\ Distinct(gOtherBlocks)
      BY <1>2
    <3> DEFINE S == 1 .. numHeaders
               q == gOtherBlocks
    <3>3. c \in S /\ c \notin Entries(q) /\ q \in Seq(S) /\ Distinct(q)
      BY <3>1, <3>2
    <3> HIDE DEF c, S, q
    <3>4. Append(q, c) \in Seq(S) /\ Distinct(Append(q, c)) /\ Entries(Append(q, c)) = Entries(q) \cup {c}
      BY <3>3, Appended
    <3> QED
      BY <3>4 DEF S, q
  <2> HIDE DEF r
  <2>2. Distinct(gOtherBlocks)' /\ Listed' = Entries(r)
    BY <1>1, <2>1 DEF Distinct, Listed, Entries, r
  <2> QED
    BY <1>1, <2>1, <2>2 DEF Listed, r
<1>5. /\ mpc'[t] = "fillHeader"
      /\ \A u \in Threads \ {t} : mpc'[u] = mpc[u] /\ op'[u] = op[u]
  BY <1>1 DEF RoutineTypes
<1>6. HeaderInHand(t)'
  BY <1>1, <1>3, <1>4, <1>5 DEF HeaderInHand
<1>7. Distinct(gFreeBlockHeader)'
  BY <1>1, <1>2 DEF Distinct
<1> HIDE DEF c
<1>8. \A u \in Threads \ {t} : mpc[u] \in IdPC =>
        /\ op[u].id \notin Pooled /\ op[u].id # op'[t].id /\ (op[u].id \in Listed' <=> op[u].id \in Listed)
  BY <1>1, <1>2, <1>4 DEF HeaderInHand, c
<1>9. Listed' \cap Pooled' = {}
  BY <1>1, <1>2, <1>3, <1>4
<1> QED
  BY <1>1, <1>2, <1>4, <1>5, <1>6, <1>7, <1>8, <1>9, PoolStep

LEMMA PoolFillHeader ==
  ASSUME RoutineTypes, PoolInv, NEW t \in Threads, FillHeader(t)
  PROVE  /\ PoolInv'
         /\ \A i \in HeaderIds : \/ cell'[i] = cell[i]
                                 \/ cell[i].sig # "accutrak" /\ cell'[i].sig # "accutrak"
<1> DEFINE c == op[t].id
<1>1. /\ mpc[t] = "fillHeader" /\ mpc' = [mpc EXCEPT ![t] = "signHeader"] /\ op' = op
      /\ gOtherBlocks' = gOtherBlocks /\ gFreeBlockHeader' = gFreeBlockHeader
      /\ numHeaders' = numHeaders /\ Pooled' = Pooled /\ Listed' = Listed
      /\ cell' = [cell EXCEPT ![c] = Header(@.sig, UserAddr(op[t].base, op[t].req),
                                            op[t].base, op[t].req)]
  BY DEF FillHeader, MGoto, Pooled, Listed
<1>2. /\ numHeaders \in numHeaders .. MaxHeaders /\ Listed \cap Pooled = {}
      /\ gOtherBlocks \in Seq(1 .. numHeaders) /\ gFreeBlockHeader \in Seq(1 .. numHeaders)
      /\ Distinct(gOtherBlocks) /\ Distinct(gFreeBlockHeader)
      /\ \A u \in Threads : mpc[u] \in IdPC => HeaderInHand(u)
      /\ \A u \in Threads \ {t} : mpc[u] \in IdPC => op[u].id # c
  BY <1>1, DeadPageAssumption DEF PoolInv, IdPC
<1>3. /\ c \in 1 .. numHeaders /\ c \notin Pooled /\ c \in Listed
      /\ cell[c].sig # "accutrak"
  BY <1>1, <1>2 DEF HeaderInHand, IdPC
<1>4. c \in HeaderIds
  BY <1>2, <1>3, DeadPageAssumption DEF HeaderIds
<1> HIDE DEF c
<1>5. /\ cell'[c].sig = cell[c].sig /\ cell'[c].user = UserAddr(op[t].base, op[t].req)
      /\ cell'[c].base = op[t].base /\ cell'[c].usize = op[t].req
  BY <1>1, <1>4 DEF RoutineTypes, Header
<1>6. \A i \in HeaderIds : i # c => cell'[i] = cell[i]
  BY <1>1, <1>4 DEF RoutineTypes
<1>7. /\ mpc'[t] = "signHeader" /\ op'[t].id = c
      /\ \A u \in Threads \ {t} : mpc'[u] = mpc[u] /\ op'[u] = op[u]
  BY <1>1 DEF RoutineTypes, c
<1>8. HeaderInHand(t)'
  BY <1>1, <1>3, <1>5, <1>7 DEF HeaderInHand
<1>9. Distinct(gFreeBlockHeader)' /\ Distinct(gOtherBlocks)'
  BY <1>1, <1>2 DEF Distinct
<1>10. \A u \in Threads \ {t} : mpc[u] \in IdPC =>
         op[u].id \notin Pooled /\ op[u].id # c /\ cell'[op[u].id] = cell[op[u].id]
  <2>1. ASSUME NEW u \in Threads \ {t}, mpc[u] \in IdPC
        PROVE  op[u].id \notin Pooled /\ op[u].id # c /\ op[u].id \in 1 .. numHeaders
    BY <1>2, <2>1 DEF HeaderInHand
  <2>2. 1 .. numHeaders \subseteq HeaderIds
    BY <1>2, DeadPageAssumption DEF HeaderIds
  <2> QED
    BY <1>6, <2>1, <2>2
<1>11. PoolInv'
  BY <1>1, <1>2, <1>7, <1>8, <1>9, <1>10, PoolStep
<1> QED
  BY <1>3, <1>5, <1>6, <1>11

LEMMA PoolSignHeader ==
  ASSUME RoutineTypes, PoolInv, NEW t \in Threads, mpc[t] = "signHeader", mpc'[t] \notin IdPC,
         cell' = [cell EXCEPT ![op[t].id].sig = "accutrak"],
         UNCHANGED <<gOtherBlocks, gFreeBlockHeader, numHeaders>>,
         \A u \in Threads \ {t} : mpc'[u] = mpc[u] /\ op'[u] = op[u]
  PROVE  /\ PoolInv' /\ Listed' = Listed
         /\ op[t].id \in HeaderIds /\ op[t].id \in Listed /\ cell[op[t].id].sig # "accutrak"
         /\ cell'[op[t].id] = Header("accutrak", UserAddr(op[t].base, op[t].req), op[t].base, op[t].req)
         /\ \A i \in HeaderIds : i # op[t].id => cell'[i] = cell[i]
<1> DEFINE c == op[t].id
<1>1. Pooled' = Pooled /\ Listed' = Listed
  BY DEF Pooled, Listed
<1>2. /\ numHeaders \in numHeaders .. MaxHeaders /\ Listed \cap Pooled = {}
      /\ gOtherBlocks \in Seq(1 .. numHeaders) /\ gFreeBlockHeader \in Seq(1 .. numHeaders)
      /\ Distinct(gOtherBlocks) /\ Distinct(gFreeBlockHeader)
      /\ \A u \in Threads : mpc[u] \in IdPC => HeaderInHand(u)
      /\ \A u \in Threads \ {t} : mpc[u] \in IdPC => op[u].id # c
  BY DeadPageAssumption DEF PoolInv, IdPC
<1>3. /\ c \in 1 .. numHeaders /\ c \notin Pooled /\ c \in Listed
      /\ cell[c].sig # "accutrak" /\ cell[c].user = UserAddr(op[t].base, op[t].req)
      /\ cell[c].base = op[t].base /\ cell[c].usize = op[t].req
  BY <1>2 DEF HeaderInHand, IdPC
<1>4. c \in HeaderIds
  BY <1>2, <1>3, DeadPageAssumption DEF HeaderIds
<1> HIDE DEF c
<1>5. cell'[c] = Header("accutrak", UserAddr(op[t].base, op[t].req), op[t].base, op[t].req)
  <2>1. cell[c] \in Headers
    BY <1>4 DEF RoutineTypes
  <2>2. cell'[c] = [cell[c] EXCEPT !.sig = "accutrak"]
    BY <1>4 DEF RoutineTypes, c
  <2> QED
    BY <1>3, <2>1, <2>2 DEF Header, Headers
<1>6. \A i \in HeaderIds : i # c => cell'[i] = cell[i]
  BY <1>4 DEF RoutineTypes, c
<1>9. Distinct(gFreeBlockHeader)' /\ Distinct(gOtherBlocks)'
  BY <1>2 DEF Distinct
<1>10. \A u \in Threads \ {t} : mpc[u] \in IdPC =>
         op[u].id \notin Pooled /\ cell'[op[u].id] = cell[op[u].id]
  <2>1. ASSUME NEW u \in Threads \ {t}, mpc[u] \in IdPC
        PROVE  op[u].id \notin Pooled /\ op[u].id # c /\ op[u].id \in 1 .. numHeaders
    BY <1>2, <2>1 DEF HeaderInHand
  <2>2. 1 .. numHeaders \subseteq HeaderIds
    BY <1>2, DeadPageAssumption DEF HeaderIds
  <2> QED
    BY <1>6, <2>1, <2>2
<1>11. PoolInv'
  BY <1>1, <1>2, <1>9, <1>10, PoolStep
<1> QED
  BY <1>1, <1>3, <1>4, <1>5, <1>6, <1>11 DEF c

\* The header of a block that comes back goes from the list to the pool.
LEMMA PoolUnlinkHeader ==
  ASSUME RoutineTypes, PoolInv, SeparateInv, NEW t \in Threads, NEW user, UnlinkHeader(user),
         FirstMatch(user) \in DOMAIN gOtherBlocks,
         cell[gOtherBlocks[FirstMatch(user)]].sig = "accutrak",
         numHeaders' = numHeaders, mpc'[t] \notin IdPC,
         \A u \in Threads \ {t} : mpc'[u] = mpc[u] /\ op'[u] = op[u]
  PROVE  LET c == gOtherBlocks[FirstMatch(user)]
         IN  /\ PoolInv' /\ Listed' = Listed \ {c}
             /\ c \in HeaderIds /\ cell' = [cell EXCEPT ![c].sig = "FREEBLK!"]
<1> DEFINE i == FirstMatch(user)
           c == gOtherBlocks[i]
           r == SubSeq(gOtherBlocks, 1, i - 1) \o SubSeq(gOtherBlocks, i + 1, Len(gOtherBlocks))
<1>1. /\ gOtherBlocks' = r /\ gFreeBlockHeader' = <<c>> \o gFreeBlockHeader
      /\ cell' = [cell EXCEPT ![c].sig = "FREEBLK!"]
  BY DEF UnlinkHeader
<1>2. /\ numHeaders \in numHeaders .. MaxHeaders /\ Listed \cap Pooled = {}
      /\ gOtherBlocks \in Seq(1 .. numHeaders) /\ gFreeBlockHeader \in Seq(1 .. numHeaders)
      /\ Distinct(gOtherBlocks) /\ Distinct(gFreeBlockHeader)
      /\ \A u \in Threads : mpc[u] \in IdPC => HeaderInHand(u)
  BY DeadPageAssumption DEF PoolInv
<1> HIDE DEF i
<1>3. /\ r \in Seq(1 .. numHeaders) /\ Distinct(r)
      /\ Entries(r) = Entries(gOtherBlocks) \ {c}
  BY <1>2, Unlinked DEF i
<1> HIDE DEF r
<1>4. c \in 1 .. numHeaders /\ c \in Listed /\ c \notin Pooled /\ c \in HeaderIds
  <2>1. c \in 1 .. numHeaders /\ c \in Listed
    BY <1>2 DEF Listed, Entries, i
  <2> QED
    BY <1>2, <2>1, DeadPageAssumption DEF HeaderIds
<1> DEFINE q == <<c>> \o gFreeBlockHeader
<1>5. q \in Seq(1 .. numHeaders) /\ Distinct(q) /\ Entries(q) = Entries(gFreeBlockHeader) \cup {c}
  <2> HIDE DEF c
  <2> QED
    BY <1>2, <1>4, Pushed DEF Pooled
<1> HIDE DEF q
<1>6. /\ Listed' = Listed \ {c} /\ Pooled' = Pooled \cup {c}
      /\ Distinct(gOtherBlocks)' /\ Distinct(gFreeBlockHeader)'
  <2>1. gOtherBlocks' = r /\ gFreeBlockHeader' = q
    BY <1>1 DEF q
  <2>2. Distinct(gOtherBlocks)'
    BY <1>3, <2>1 DEF Distinct
  <2>3. Distinct(gFreeBlockHeader)'
    BY <1>5, <2>1 DEF Distinct
  <2>4. Listed' = Entries(r) /\ Pooled' = Entries(q)
    BY <2>1 DEF Listed, Pooled, Entries
  <2> QED
    BY <1>3, <1>5, <2>2, <2>3, <2>4 DEF Listed, Pooled
<1>7. \A k \in HeaderIds : k # c => cell'[k] = cell[k]
  BY <1>1, <1>4 DEF RoutineTypes
<1>8. \A u \in Threads \ {t} : mpc[u] \in IdPC =>
         /\ op[u].id \notin Pooled' /\ cell'[op[u].id] = cell[op[u].id]
         /\ op[u].id \in Listed' <=> op[u].id \in Listed
  <2>1. ASSUME NEW u \in Threads \ {t}, mpc[u] \in IdPC
        PROVE  op[u].id \notin Pooled /\ op[u].id # c /\ op[u].id \in 1 .. numHeaders
    BY <1>2, <2>1 DEF HeaderInHand, i
  <2>2. 1 .. numHeaders \subseteq HeaderIds
    BY <1>2, DeadPageAssumption DEF HeaderIds
  <2> QED
    BY <1>6, <1>7, <2>1, <2>2
<1>9. gOtherBlocks' \in Seq(1 .. numHeaders) /\ gFreeBlockHeader' \in Seq(1 .. numHeaders)
  BY <1>1, <1>3, <1>5 DEF q
<1>10. Listed' \cap Pooled' = {}
  BY <1>2, <1>6
<1>11. PoolInv'
  BY <1>2, <1>6, <1>8, <1>9, <1>10, PoolStep
<1> QED
  BY <1>1, <1>4, <1>6, <1>11 DEF i

-------------------------------------------------------------------------------
(* Recognition *)

\* A block of ours is recognised through the one header that describes it.
LEMMA Recognised ==
  ASSUME SizesFit, PageInv, BlockInv, HeaderInv, NEW l \in live, Mine(l)
  PROVE  /\ MaybeEmbedded(l[1]) /\ ProbePage(l[1]) = HeaderPage(BasePage(l[1]))
         /\ Embedded(l[2]) =>
              /\ EmbeddedMatch(l[1]) /\ Matches(l[1]) = {}
              /\ hdr[ProbePage(l[1])] = HeaderOf(l)
         /\ ~Embedded(l[2]) =>
              /\ ~EmbeddedMatch(l[1]) /\ Scanned(l[1])
              /\ \E i \in DOMAIN gOtherBlocks :
                   Matches(l[1]) = {i} /\ cell[gOtherBlocks[i]] = HeaderOf(l)
<1> DEFINE b == BasePage(l[1])
<1>1. /\ l[1] \in Nat /\ l[2] \in Nat /\ b \in Pages /\ b \in Nat /\ l[1] = UserAddr(b, l[2])
      /\ HeaderPage(b) \in Pages
  BY LiveBlockIs, Constants
<1> HIDE DEF b
<1>2. /\ RawCandidate(l[1]) = b * PageSize /\ ProbePage(l[1]) = HeaderPage(b) /\ MaybeEmbedded(l[1])
      /\ CheckUnderrun => Scanned(l[1])
      /\ ~CheckUnderrun => Embedded(l[2])
  BY <1>1, WayBack
<1>3. IsMyBlock(HeaderOf(l), l[1])
  BY <1>2, HeaderFields DEF IsMyBlock, b
<1>4. CASE Embedded(l[2])
  <2>1. hdr[HeaderPage(b)] = HeaderOf(l)
    BY <1>4 DEF HeaderInv, EmbeddedInv, b
  <2>2. EmbeddedMatch(l[1])
    BY <1>1, <1>2, <1>3, <2>1 DEF EmbeddedMatch, Probed
  <2>3. Matches(l[1]) = {}
    BY <1>4, SeparateHeaderTells
  <2> QED
    BY <1>2, <1>4, <2>1, <2>2, <2>3 DEF b
<1>5. CASE ~Embedded(l[2])
  <2>1. ~EmbeddedMatch(l[1])
    BY <1>5, EmbeddedHeaderTells
  <2>2. Scanned(l[1])
    BY <1>2, <1>5, Constants
  <2>3. PICK c \in HeaderIds : cell[c] = HeaderOf(l)
    BY <1>5 DEF HeaderInv, SeparateInv
  <2>4. c \in Listed /\ cell[c].sig = "accutrak" /\ cell[c].user = l[1]
    BY <2>3, HeaderFields DEF HeaderInv, SeparateInv
  <2>5. PICK i \in DOMAIN gOtherBlocks : gOtherBlocks[i] = c
    BY <2>4 DEF Listed, Entries
  <2>6. i \in Matches(l[1])
    BY <1>3, <2>3, <2>5 DEF Matches
  <2>7. ASSUME NEW j \in Matches(l[1]) PROVE j = i
    <3>1. j \in DOMAIN gOtherBlocks /\ gOtherBlocks[j] \in HeaderIds /\ cell[gOtherBlocks[j]] = HeaderOf(l)
      BY SeparateHeaderTells
    <3>2. gOtherBlocks[j] = c
      BY <2>3, <2>4, <3>1, HeaderFields DEF HeaderInv, SeparateInv
    <3> QED
      BY <2>5, <3>1, <3>2 DEF HeaderInv, PoolInv, Distinct
  <2>8. Matches(l[1]) = {i}
    BY <2>6, <2>7
  <2> QED
    BY <1>2, <1>5, <2>1, <2>2, <2>3, <2>5, <2>8 DEF b
<1> QED
  BY <1>4, <1>5

\* What no block of ours starts at is not recognised.
LEMMA NotRecognised ==
  ASSUME SizesFit, PageInv, BlockInv, HeaderInv, NEW user,
         \A l \in live : Mine(l) => l[1] # user
  PROVE  ~EmbeddedMatch(user) /\ Matches(user) = {}
<1>0. \A h \in Headers : Describes(h) => ~IsMyBlock(h, user)
  BY DEF Describes, IsMyBlock, Mine
<1>1. ~EmbeddedMatch(user)
  <2> SUFFICES ASSUME EmbeddedMatch(user) PROVE FALSE
    OBVIOUS
  <2>1. ProbePage(user) \in Pages /\ IsMyBlock(hdr[ProbePage(user)], user)
    BY DEF EmbeddedMatch, Probed
  <2>2. hdr[ProbePage(user)] \in Headers /\ hdr[ProbePage(user)].sig = "accutrak"
    BY <2>1 DEF BlockInv, RoutineInv, RoutineTypes, IsMyBlock
  <2>3. Describes(hdr[ProbePage(user)])
    BY <2>1, <2>2 DEF HeaderInv, EmbeddedInv
  <2> QED
    BY <1>0, <2>1, <2>2, <2>3
<1>2. ASSUME NEW i \in Matches(user) PROVE FALSE
  <2> DEFINE c == gOtherBlocks[i]
  <2>1. i \in DOMAIN gOtherBlocks /\ IsMyBlock(cell[c], user)
    BY DEF Matches
  <2>2. c \in HeaderIds
    BY <2>1, DeadPageAssumption DEF HeaderInv, PoolInv, HeaderIds
  <2> HIDE DEF c
  <2>3. cell[c] \in Headers /\ cell[c].sig = "accutrak"
    BY <2>1, <2>2 DEF BlockInv, RoutineInv, RoutineTypes, IsMyBlock
  <2>4. Describes(cell[c])
    BY <2>2, <2>3 DEF HeaderInv, SeparateInv
  <2> QED
    BY <1>0, <2>1, <2>3, <2>4
<1> QED
  BY <1>1, <1>2

-------------------------------------------------------------------------------
(* What the steps have in common: all of it *)

\* The allocation is over; the claim to realloc's old block stays.
LEMMA AllocatedIs ==
  ASSUME RoutineTypes, NEW t \in Threads, Allocated(t)
  PROVE  /\ mpc' \in [Threads -> MallocPC] /\ op' \in [Threads -> Locals]
         /\ \/ mpc'[t] = "app" /\ op'[t] = NoOp
            \/ mpc'[t] = "release" /\ op'[t].pages > 0
         /\ (op'[t].pages > 0 <=> op[t].pages > 0)
         /\ op[t].pages > 0 => /\ op'[t].old = op[t].old /\ op'[t].usize = op[t].usize
                               /\ op'[t].pages = op[t].pages
         /\ \A u \in Threads \ {t} : mpc'[u] = mpc[u] /\ op'[u] = op[u]
<1>t. mpc \in [Threads -> MallocPC] /\ op \in [Threads -> Locals] /\ op[t] \in Locals
  BY DEF RoutineTypes
<1>1. CASE op[t].pages > 0
  <2> DEFINE r == [NoOp EXCEPT !.old = op[t].old, !.usize = op[t].usize, !.pages = op[t].pages]
  <2>1. mpc' = [mpc EXCEPT ![t] = "release"] /\ op' = [op EXCEPT ![t] = r]
    BY <1>1 DEF Allocated, Reallocating, MGoto
  <2>2. r \in Locals /\ r.old = op[t].old /\ r.usize = op[t].usize /\ r.pages = op[t].pages
    BY <1>t DEF NoOp, Locals
  <2> HIDE DEF r
  <2> QED
    BY <1>t, <1>1, <2>1, <2>2 DEF MallocPC
<1>2. CASE ~(op[t].pages > 0)
  <2>1. mpc' = [mpc EXCEPT ![t] = "app"] /\ op' = [op EXCEPT ![t] = NoOp]
    BY <1>2 DEF Allocated, Reallocating, MGoto
  <2>2. NoOp \in Locals /\ NoOp.pages = 0
    BY DEF NoOp, Locals
  <2>3. /\ mpc'[t] = "app" /\ op'[t] = NoOp /\ mpc' \in [Threads -> MallocPC]
        /\ op' \in [Threads -> Locals]
        /\ \A u \in Threads \ {t} : mpc'[u] = mpc[u] /\ op'[u] = op[u]
    BY <1>t, <2>1, <2>2 DEF MallocPC
  <2>4. ~(op'[t].pages > 0)
    BY <2>2, <2>3
  <2>5. op'[t].pages > 0 <=> op[t].pages > 0
    BY <1>2, <2>4
  <2>6. op[t].pages > 0 => /\ op'[t].old = op[t].old /\ op'[t].usize = op[t].usize
                           /\ op'[t].pages = op[t].pages
    BY <1>2
  <2> QED
    BY <2>3, <2>5, <2>6
<1> QED
  BY <1>1, <1>2

LEMMA SameClaims ==
  ASSUME ClaimInv, NEW t \in Threads, owned' = owned,
         \A u \in Threads \ {t} : mpc'[u] = mpc[u] /\ op'[u] = op[u],
         \A l : Mine(l) => (l \in live' <=> l \in live),
         op'[t].pages > 0 <=> op[t].pages > 0,
         op[t].pages > 0 => /\ op'[t].old = op[t].old /\ op'[t].usize = op[t].usize
                            /\ op'[t].pages = op[t].pages,
         mpc'[t] \in PoolPC <=> mpc[t] \in PoolPC,
         mpc[t] \in PoolPC => op'[t].base = op[t].base /\ op'[t].req = op[t].req
  PROVE  ClaimInv'
<1>1. ASSUME NEW k \in Kinds, NEW x
      PROVE  /\ Claim(k, x)' <=> Claim(k, x)
             /\ Claim(k, x) => BlockOf(k, x)' = BlockOf(k, x)
  <2>1. CASE k = "live" \/ x # t
    BY <2>1, OtherClaims
  <2>2. CASE k = "old" /\ x = t
    BY <2>2 DEF Claim, BlockOf
  <2>3. CASE k = "new" /\ x = t
    BY <2>3 DEF Claim, BlockOf
  <2> QED
    BY <2>1, <2>2, <2>3 DEF Kinds
<1> QED
  BY <1>1, ClaimsKept

\* No header is touched.
LEMMA HeadersKept ==
  ASSUME SizesFit, PageInv, BlockInv, HeaderInv, NEW t \in Threads,
         \A u \in Threads \ {t} : mpc'[u] = mpc[u] /\ op'[u] = op[u],
         \A l : Mine(l) => (l \in live' <=> l \in live),
         mpc'[t] \notin IdPC, hdr' = hdr, UNCHANGED headerVars
  PROVE  HeaderInv'
<1>1. EmbeddedInv'
  BY EmbeddedKept DEF HeaderInv
<1>2. SeparateInv'
  BY SeparateKept DEF HeaderInv, headerVars, Listed
<1>3. PoolInv'
  BY PoolKept DEF HeaderInv
<1> QED
  BY <1>1, <1>2, <1>3 DEF HeaderInv

\* A step of thread t that touches neither blocks nor headers.
LEMMA QuietStep ==
  ASSUME SizesFit, PageInv, BlockInv, HeaderInv, NEW t \in Threads, RoutineTypes', Shape(t)',
         \A u \in Threads \ {t} :
           mpc'[u] = mpc[u] /\ op'[u] = op[u] /\ pc'[u] = pc[u] /\ size'[u] = size[u],
         owned' = owned, \A l : Mine(l) => (l \in live' <=> l \in live),
         op'[t].pages > 0 <=> op[t].pages > 0,
         op[t].pages > 0 => /\ op'[t].old = op[t].old /\ op'[t].usize = op[t].usize
                            /\ op'[t].pages = op[t].pages,
         mpc'[t] \notin PoolPC, mpc[t] \notin PoolPC, hdr' = hdr, UNCHANGED headerVars
  PROVE  BlockInv' /\ HeaderInv'
<1>1. RoutineInv'
  BY RoutineStep DEF BlockInv
<1>2. LiveInv'
  BY DEF BlockInv, LiveInv, Mine
<1>3. ClaimInv'
  BY SameClaims DEF BlockInv
<1>4. HeaderInv'
  BY HeadersKept DEF PoolPC
<1> QED
  BY <1>1, <1>2, <1>3, <1>4 DEF BlockInv

-------------------------------------------------------------------------------
(* The steps that touch no block of ours *)

LEMMA StepMalloc ==
  ASSUME SizesFit, PageInv, BlockInv, HeaderInv, NEW t \in Threads, NEW n \in Sizes, Malloc(t, n)
  PROVE  BlockInv' /\ HeaderInv'
<1>t. RoutineTypes /\ Shape(t) /\ op[t] \in Locals /\ n \in Nat
  BY Constants DEF BlockInv, RoutineInv, RoutineTypes
<1>1. /\ mpc[t] = "app" /\ op[t] = NoOp /\ pc[t] = "idle"
      /\ mpc' = [mpc EXCEPT ![t] = "malloc"] /\ op' = [op EXCEPT ![t].req = n]
      /\ UNCHANGED <<pc, size, owned, hdr, cell, live>> /\ UNCHANGED headerVars
  BY <1>t DEF Malloc, Shape, MGoto, sysVars, callVars, headerVars
<1>2. /\ mpc'[t] = "malloc" /\ op'[t] = [op[t] EXCEPT !.req = n]
      /\ mpc' \in [Threads -> MallocPC] /\ op' \in [Threads -> Locals]
      /\ \A u \in Threads \ {t} : mpc'[u] = mpc[u] /\ op'[u] = op[u]
  BY <1>t, <1>1 DEF RoutineTypes, MallocPC, Locals
<1>3. op'[t].req = n /\ op'[t].pages = op[t].pages /\ op'[t].usize = op[t].usize /\ op'[t].old = op[t].old
  BY <1>t, <1>2 DEF Locals
<1>4. RoutineTypes'
  BY <1>t, <1>1, <1>2 DEF RoutineTypes
<1>5. Shape(t)'
  BY <1>1, <1>2, <1>3 DEF Shape, PoolPC, IdPC, NoOp
<1>6. mpc[t] \notin PoolPC /\ mpc'[t] \notin PoolPC
  BY <1>1, <1>2 DEF PoolPC, IdPC
<1> QED
  BY <1>1, <1>2, <1>3, <1>4, <1>5, <1>6, QuietStep

\* The C library serves the request, or GetPages has no pages for it: the routine is over.
LEMMA StepAllocated ==
  ASSUME SizesFit, PageInv, BlockInv, HeaderInv, NEW t \in Threads,
         MallocDefault(t) \/ MallocFailed(t)
  PROVE  BlockInv' /\ HeaderInv'
<1>t. RoutineTypes /\ Shape(t) /\ pc \in [Threads -> {"idle"} \cup GetPC \cup ReleasePC]
      /\ size \in [Threads -> 0 .. MaxBlockPages] /\ op[t] \in Locals
  BY CallTypes DEF BlockInv, RoutineInv, PageInv, RoutineTypes
<1>1. /\ Allocated(t) /\ mpc[t] \in {"malloc", "getPages"} /\ hdr' = hdr /\ UNCHANGED headerVars
      /\ owned' = owned /\ pc'[t] = "idle"
      /\ \A u \in Threads \ {t} : pc'[u] = pc[u] /\ size'[u] = size[u]
  <2>1. CASE MallocDefault(t)
    BY <1>t, <2>1 DEF MallocDefault, Shape, sysVars, callVars
  <2>2. CASE MallocFailed(t)
    BY <1>t, <2>2 DEF MallocFailed, ReturnGetPages, Goto
  <2> QED
    BY <2>1, <2>2
<1>2. \A l \in live' : l \in live \/ (l \in Nat \X Nat /\ ~Mine(l))
  <2>1. CASE MallocDefault(t)
    <3>1. op[t].req \in Nat
      BY <1>t DEF Locals
    <3> QED
      BY <2>1, <3>1, DeadPageAssumption DEF MallocDefault, Mine
  <2>2. CASE MallocFailed(t)
    BY <2>2 DEF MallocFailed
  <2> QED
    BY <2>1, <2>2
<1>3. live \subseteq live'
  BY DEF MallocDefault, MallocFailed
<1>4. /\ mpc' \in [Threads -> MallocPC] /\ op' \in [Threads -> Locals]
      /\ \/ mpc'[t] = "app" /\ op'[t] = NoOp
         \/ mpc'[t] = "release" /\ op'[t].pages > 0
      /\ (op'[t].pages > 0 <=> op[t].pages > 0)
      /\ op[t].pages > 0 => /\ op'[t].old = op[t].old /\ op'[t].usize = op[t].usize
                            /\ op'[t].pages = op[t].pages
      /\ \A u \in Threads \ {t} : mpc'[u] = mpc[u] /\ op'[u] = op[u]
  BY <1>t, <1>1, AllocatedIs
<1>5. RoutineTypes'
  BY <1>t, <1>1, <1>2, <1>4 DEF RoutineTypes, headerVars
<1>6. Shape(t)'
  BY <1>t, <1>1, <1>4 DEF Shape, PoolPC, IdPC
<1>7. mpc[t] \notin PoolPC /\ mpc'[t] \notin PoolPC
  BY <1>1, <1>4 DEF PoolPC, IdPC
<1>8. \A l : Mine(l) => (l \in live' <=> l \in live)
  BY <1>2, <1>3
<1> QED
  BY <1>1, <1>4, <1>5, <1>6, <1>7, <1>8, QuietStep

LEMMA StepMallocPages ==
  ASSUME SizesFit, PageInv, BlockInv, HeaderInv, NEW t \in Threads, MallocPages(t)
  PROVE  BlockInv' /\ HeaderInv'
<1>t. RoutineTypes /\ Shape(t) /\ pc \in [Threads -> {"idle"} \cup GetPC \cup ReleasePC]
      /\ size \in [Threads -> 0 .. MaxBlockPages]
  BY CallTypes DEF BlockInv, RoutineInv, PageInv
<1>1. /\ mpc[t] = "malloc" /\ Fits(op[t].req) /\ mpc' = [mpc EXCEPT ![t] = "getPages"]
      /\ UNCHANGED <<op, owned, hdr, live>> /\ UNCHANGED headerVars
      /\ pc' = [pc EXCEPT ![t] = IF Cacheable(PagesFor(op[t].req)) THEN "GetPages" ELSE "Mmap"]
      /\ size' = [size EXCEPT ![t] = PagesFor(op[t].req)]
  BY <1>t DEF MallocPages, EnterGetPages, Goto, MGoto, Shape, Fits
<1>2. /\ mpc'[t] = "getPages" /\ mpc' \in [Threads -> MallocPC]
      /\ pc'[t] \in GetPC /\ size'[t] = PagesFor(op[t].req)
      /\ \A u \in Threads \ {t} :
           mpc'[u] = mpc[u] /\ op'[u] = op[u] /\ pc'[u] = pc[u] /\ size'[u] = size[u]
  BY <1>t, <1>1 DEF RoutineTypes, MallocPC, GetPC
<1>3. RoutineTypes'
  BY <1>t, <1>1, <1>2 DEF RoutineTypes, headerVars
<1>4. Shape(t)'
  BY <1>t, <1>1, <1>2 DEF Shape, PoolPC, IdPC
<1>5. mpc[t] \notin PoolPC /\ mpc'[t] \notin PoolPC
  BY <1>1, <1>2 DEF PoolPC, IdPC
<1> QED
  BY <1>1, <1>2, <1>3, <1>4, <1>5, QuietStep

LEMMA StepReturn ==
  ASSUME SizesFit, PageInv, BlockInv, HeaderInv, NEW t \in Threads, Return(t)
  PROVE  BlockInv' /\ HeaderInv'
<1>t. RoutineTypes /\ Shape(t)
  BY DEF BlockInv, RoutineInv
<1>1. /\ mpc[t] = "releasePages" /\ op[t] = NoOp /\ pc[t] = "idle"
      /\ mpc' = [mpc EXCEPT ![t] = "app"]
      /\ UNCHANGED <<pc, size, owned, hdr, op, live>> /\ UNCHANGED headerVars
  BY <1>t DEF Return, Shape, MGoto, sysVars, callVars, headerVars
<1>2. /\ mpc'[t] = "app" /\ mpc' \in [Threads -> MallocPC]
      /\ \A u \in Threads \ {t} : mpc'[u] = mpc[u] /\ op'[u] = op[u]
  BY <1>t, <1>1 DEF RoutineTypes, MallocPC
<1>4. RoutineTypes'
  BY <1>t, <1>1, <1>2 DEF RoutineTypes, headerVars
<1>5. Shape(t)'
  BY <1>1, <1>2 DEF NoOp, Shape, PoolPC, IdPC
<1>6. mpc[t] \notin PoolPC /\ mpc'[t] \notin PoolPC
  BY <1>1, <1>2 DEF PoolPC, IdPC
<1> QED
  BY <1>1, <1>2, <1>4, <1>5, <1>6, QuietStep

\* A block the routines do not recognise is none of theirs.
LEMMA StepDefault ==
  ASSUME SizesFit, PageInv, BlockInv, HeaderInv, NEW t \in Threads, NEW l \in live,
         FreeDefault(t, l) \/ \E n \in Sizes : ReallocDefault(t, l, n)
  PROVE  BlockInv' /\ HeaderInv' /\ (process' = "undetected" => process = "undetected")
<1>t. RoutineTypes /\ Shape(t)
  BY DEF BlockInv, RoutineInv
<1>m. ~Mine(l)
  <2>1. CASE FreeDefault(t, l)
    BY <2>1, Recognised DEF FreeDefault
  <2>2. CASE \E n \in Sizes : ReallocDefault(t, l, n)
    BY <2>2 DEF ReallocDefault, Mine
  <2> QED
    BY <2>1, <2>2
<1>1. /\ mpc[t] = "app" /\ UNCHANGED <<mpc, op, pc, size, owned, hdr>> /\ UNCHANGED headerVars
      /\ (process' = "undetected" => process = "undetected")
  BY DEF FreeDefault, ReallocDefault, sysVars, callVars
<1>2. /\ \A k \in live' : k \in live \/ (k \in Nat \X Nat /\ ~Mine(k))
      /\ \A k \in live : k = l \/ k \in live'
  <2>1. CASE FreeDefault(t, l)
    BY <2>1 DEF FreeDefault
  <2>2. ASSUME NEW n \in Sizes, ReallocDefault(t, l, n)
        PROVE  /\ \A k \in live' : k \in live \/ (k \in Nat \X Nat /\ ~Mine(k))
               /\ \A k \in live : k = l \/ k \in live'
    <3>1. n \in Nat
      BY Constants
    <3> QED
      BY <2>2, <3>1, DeadPageAssumption DEF ReallocDefault, Mine
  <2> QED
    BY <2>1, <2>2
<1>3. \A k : Mine(k) => (k \in live' <=> k \in live)
  BY <1>m, <1>2
<1>4. RoutineTypes'
  BY <1>t, <1>1, <1>2 DEF RoutineTypes, headerVars
<1>5. Shape(t)'
  BY <1>t, <1>1 DEF Shape
<1>6. mpc[t] \notin PoolPC /\ mpc'[t] \notin PoolPC
  BY <1>1 DEF PoolPC, IdPC
<1> QED
  BY <1>1, <1>3, <1>4, <1>5, <1>6, QuietStep

\* A block in the cache is no client's, and so no header describes it.
LEMMA StepFreeAgain ==
  ASSUME SizesFit, PageInv, BlockInv, HeaderInv, NEW t \in Threads, NEW b \in Pages, NEW n \in Sizes,
         FreeAgain(t, b, n)
  PROVE  BlockInv' /\ HeaderInv' /\ process' # "undetected"
<1>t. RoutineTypes /\ Shape(t)
  BY DEF BlockInv, RoutineInv
<1> DEFINE user == UserAddr(b, n)
<1>1. /\ mpc[t] = "app" /\ UNCHANGED <<mpc, op, pc, size, owned, hdr, live>> /\ UNCHANGED headerVars
      /\ \E i \in DOMAIN CacheSeq : b = CacheSeq[i]
      /\ EmbeddedMatch(user) \/ Matches(user) # {} \/ process' # "undetected"
  BY DEF FreeAgain, sysVars, callVars
<1>2. ASSUME NEW l \in live, Mine(l), l[1] = user PROVE FALSE
  <2>1. b \in Nat /\ n \in Nat
    BY Constants
  <2>2. BasePage(l[1]) = b
    BY <1>2, <2>1, WayBack
  <2>3. <<b, PagesFor(l[2])>> \in owned /\ PagesFor(l[2]) \in 2 .. MaxBlockPages
    BY <1>2, <2>2, LiveBlockIs
  <2>4. b \in Run(b, PagesFor(l[2])) /\ b \in Run(b, 2)
    BY <2>1, <2>3, SysAllocAssumption DEF Run
  <2> QED
    BY <1>1, <2>3, <2>4 DEF PageInv, NoPageTwice
<1>3. process' # "undetected"
  BY <1>1, <1>2, NotRecognised
<1>4. RoutineTypes'
  BY <1>t, <1>1 DEF RoutineTypes, headerVars
<1>5. Shape(t)'
  BY <1>t, <1>1 DEF Shape
<1>6. mpc[t] \notin PoolPC /\ mpc'[t] \notin PoolPC
  BY <1>1 DEF PoolPC, IdPC
<1> QED
  BY <1>1, <1>3, <1>4, <1>5, <1>6, QuietStep

-------------------------------------------------------------------------------
(* malloc *)

\* A malloc looks for, links, fills in or signs a header for its block.
LEMMA PoolMove ==
  ASSUME SizesFit, PageInv, BlockInv, HeaderInv, NEW t \in Threads,
         mpc[t] \in PoolPC, mpc'[t] \in PoolPC, UNCHANGED <<pc, size, owned, hdr, live>>,
         mpc' \in [Threads -> MallocPC], op' \in [Threads -> Locals], cell' \in [HeaderIds -> Headers],
         \A u \in Threads \ {t} : mpc'[u] = mpc[u] /\ op'[u] = op[u],
         op'[t].req = op[t].req, op'[t].base = op[t].base, op'[t].pages = op[t].pages,
         op'[t].old = op[t].old, op'[t].usize = op[t].usize
  PROVE  BlockInv' /\ EmbeddedInv'
<1>1. RoutineTypes'
  BY DEF BlockInv, RoutineInv, RoutineTypes
<1>2. Shape(t)'
  <2>1. Shape(t)
    BY DEF BlockInv, RoutineInv
  <2> QED
    BY <2>1 DEF Shape, PoolPC, IdPC
<1>3. RoutineInv'
  BY <1>1, <1>2, RoutineStep DEF BlockInv
<1>4. LiveInv'
  BY DEF BlockInv, LiveInv, Mine
<1>5. ClaimInv'
  BY SameClaims DEF BlockInv
<1>6. EmbeddedInv'
  BY EmbeddedKept DEF HeaderInv
<1> QED
  BY <1>3, <1>4, <1>5, <1>6 DEF BlockInv

LEMMA StepPool ==
  ASSUME SizesFit, PageInv, BlockInv, HeaderInv, NEW t \in Threads,
         GetBlockHeader(t) \/ RefillHeaders(t) \/ NoHeader(t) \/ PushHeader(t) \/ FillHeader(t)
  PROVE  BlockInv' /\ HeaderInv'
<1>t. /\ mpc \in [Threads -> MallocPC] /\ op \in [Threads -> Locals] /\ op[t] \in Locals
      /\ cell \in [HeaderIds -> Headers] /\ hdr' = hdr /\ live' = live
      /\ UNCHANGED <<pc, size, owned, hdr, live>>
      /\ RoutineTypes /\ PoolInv /\ SeparateInv
  BY DEF BlockInv, RoutineInv, RoutineTypes, HeaderInv, GetBlockHeader, RefillHeaders, NoHeader,
         PushHeader, FillHeader, sysVars, callVars
<1>1. CASE GetBlockHeader(t)
  <2>1. /\ mpc[t] = "getHeader" /\ mpc' = [mpc EXCEPT ![t] = "pushHeader"] /\ cell' = cell
        /\ op' = [op EXCEPT ![t].id = Head(gFreeBlockHeader)] /\ gFreeBlockHeader # <<>>
        /\ Listed' = Listed
    BY <1>1 DEF GetBlockHeader, MGoto, Listed
  <2>2. Head(gFreeBlockHeader) \in Nat
    <3>1. Head(gFreeBlockHeader) \in 1 .. numHeaders
      BY <2>1, <1>t DEF PoolInv
    <3> QED
      BY <3>1
  <2>3. op'[t] = [op[t] EXCEPT !.id = Head(gFreeBlockHeader)]
    BY <2>1, <1>t
  <2>4. /\ op'[t] \in Locals /\ op'[t].req = op[t].req /\ op'[t].base = op[t].base
        /\ op'[t].pages = op[t].pages /\ op'[t].usize = op[t].usize /\ op'[t].old = op[t].old
    BY <2>2, <2>3, <1>t DEF Locals
  <2>5. /\ mpc[t] \in PoolPC /\ mpc'[t] \in PoolPC /\ mpc' \in [Threads -> MallocPC]
        /\ op' \in [Threads -> Locals]
        /\ \A u \in Threads \ {t} : mpc'[u] = mpc[u] /\ op'[u] = op[u]
    BY <2>1, <2>3, <2>4, <1>t DEF MallocPC, PoolPC, IdPC
  <2>6. BlockInv' /\ EmbeddedInv'
    BY <2>1, <2>4, <2>5, <1>t, PoolMove
  <2>7. PoolInv'
    BY <1>1, <1>t, PoolGetBlockHeader
  <2>8. SeparateInv'
    BY <2>1, <1>t, SeparateKept
  <2> QED
    BY <2>6, <2>7, <2>8 DEF HeaderInv
<1>2. CASE RefillHeaders(t) \/ NoHeader(t)
  <2>1. mpc[t] = "getHeader" /\ mpc' = mpc /\ cell' = cell /\ op' = op /\ Listed' = Listed
    BY <1>2 DEF RefillHeaders, NoHeader, headerVars, Listed
  <2>2. mpc[t] \in PoolPC /\ mpc[t] \notin IdPC
    BY <2>1 DEF PoolPC, IdPC
  <2>6. BlockInv' /\ EmbeddedInv'
    BY <2>1, <2>2, <1>t, PoolMove
  <2>7. PoolInv'
    <3>1. CASE RefillHeaders(t)
      BY <3>1, <1>t, PoolRefillHeaders
    <3>2. CASE NoHeader(t)
      BY <3>2, <2>1, <2>2, <1>t, PoolKept DEF NoHeader
    <3> QED
      BY <1>2, <3>1, <3>2
  <2>8. SeparateInv'
    BY <2>1, <1>t, SeparateKept
  <2> QED
    BY <2>6, <2>7, <2>8 DEF HeaderInv
<1>3. CASE PushHeader(t)
  <2>1. /\ mpc[t] = "pushHeader" /\ mpc' = [mpc EXCEPT ![t] = "fillHeader"] /\ cell' = cell
        /\ op' = op
    BY <1>3 DEF PushHeader, MGoto
  <2>2. /\ mpc[t] \in PoolPC /\ mpc'[t] \in PoolPC /\ mpc' \in [Threads -> MallocPC]
        /\ \A u \in Threads \ {t} : mpc'[u] = mpc[u]
    BY <2>1, <1>t DEF MallocPC, PoolPC, IdPC
  <2>3. Listed \subseteq Listed'
    <3>1. gOtherBlocks \in Seq(1 .. numHeaders)
      BY <1>t DEF PoolInv
    <3>2. gOtherBlocks' = Append(gOtherBlocks, op[t].id)
      BY <1>3 DEF PushHeader
    <3>3. \A i \in DOMAIN gOtherBlocks : i \in DOMAIN gOtherBlocks' /\ gOtherBlocks'[i] = gOtherBlocks[i]
      BY <3>1, <3>2
    <3> QED
      BY <3>3 DEF Listed, Entries
  <2>6. BlockInv' /\ EmbeddedInv'
    BY <2>1, <2>2, <1>t, PoolMove
  <2>7. PoolInv'
    BY <1>3, <1>t, PoolPushHeader
  <2>8. SeparateInv'
    BY <2>1, <2>3, <1>t, SeparateKept
  <2> QED
    BY <2>6, <2>7, <2>8 DEF HeaderInv
<1>4. CASE FillHeader(t)
  <2> DEFINE c == op[t].id
             h == Header(cell[c].sig, UserAddr(op[t].base, op[t].req), op[t].base, op[t].req)
  <2>1. /\ mpc[t] = "fillHeader" /\ mpc' = [mpc EXCEPT ![t] = "signHeader"] /\ op' = op
        /\ cell' = [cell EXCEPT ![c] = Header(@.sig, UserAddr(op[t].base, op[t].req),
                                              op[t].base, op[t].req)]
        /\ Listed' = Listed
    BY <1>4 DEF FillHeader, MGoto, Listed
  <2>2. /\ mpc[t] \in PoolPC /\ mpc'[t] \in PoolPC /\ mpc' \in [Threads -> MallocPC]
        /\ \A u \in Threads \ {t} : mpc'[u] = mpc[u]
    BY <2>1, <1>t DEF MallocPC, PoolPC, IdPC
  <2>3. cell' \in [HeaderIds -> Headers]
    <3>1. op[t].base \in Nat /\ op[t].req \in Nat
      BY <1>t DEF Locals
    <3>2. UserAddr(op[t].base, op[t].req) \in Nat
      BY <3>1, WayBack
    <3>3. c \in HeaderIds => h \in Headers
      BY <3>1, <3>2, <1>t DEF Header, Headers
    <3>4. cell' = [cell EXCEPT ![c] = h]
      BY <2>1
    <3> HIDE DEF h, c
    <3> QED
      BY <3>3, <3>4, <1>t
  <2>6. BlockInv' /\ EmbeddedInv'
    BY <2>1, <2>2, <2>3, <1>t, PoolMove
  <2>7. /\ PoolInv'
        /\ \A i \in HeaderIds : \/ cell'[i] = cell[i]
                                \/ cell[i].sig # "accutrak" /\ cell'[i].sig # "accutrak"
    BY <1>4, <1>t, PoolFillHeader
  <2>8. SeparateInv'
    BY <2>1, <2>7, <1>t, SeparateKept
  <2> QED
    BY <2>6, <2>7, <2>8 DEF HeaderInv
<1> QED
  BY <1>1, <1>2, <1>3, <1>4

\* What GetPages hands out is nobody's, and malloc's own addresses are not the C library's.
LEMMA FreshBlock ==
  ASSUME SizesFit, PageInv, NEW t \in Threads, Holds(t), NEW n, Fits(n), size[t] = PagesFor(n)
  PROVE  /\ n \in Nat /\ raw[t] \in Pages /\ raw[t] \in Nat /\ HeaderPage(raw[t]) \in Pages
         /\ UserAddr(raw[t], n) \in Nat /\ UserAddr(raw[t], n) \notin ForeignAddrs
         /\ \A o \in owned : o[1] # raw[t]
<1>1. n \in Nat /\ PagesFor(n) \in 2 .. MaxBlockPages
  BY BlockPages
<1>2. raw[t] \in Pages /\ raw[t] \in Nat
  BY CallTypes, Constants DEF PageInv, Holds
<1>3. raw[t] \in Run(raw[t], size[t]) /\ HeaderPage(raw[t]) \in Run(raw[t], size[t])
  BY <1>1, <1>2, SysAllocAssumption DEF Run, HeaderPage
<1>4. HeaderPage(raw[t]) \in Pages
  BY <1>3 DEF PageInv, Placed, Mapped
<1>5. UserAddr(raw[t], n) \in Nat /\ UserAddr(raw[t], n) \div PageSize = HeaderPage(raw[t])
  BY <1>1, <1>2, WayBack
<1>6. UserAddr(raw[t], n) \notin ForeignAddrs
  BY <1>4, <1>5, DeadPageAssumption
<1>7. ASSUME NEW o \in owned, o[1] = raw[t] PROVE FALSE
  <2>1. o \in Blocks
    BY CallTypes DEF PageInv
  <2>2. o[1] \in Run(o[1], o[2])
    <3>1. o[1] \in Pages /\ o[2] \in 1 .. MaxBlockPages
      BY <2>1 DEF Blocks
    <3>2. o[1] \in Nat /\ o[2] \in Nat /\ o[2] >= 1
      <4>1. o[1] \in Nat
        BY <3>1, Constants
      <4>2. o[2] \in Nat /\ o[2] >= 1
        BY <3>1, SysAllocAssumption
      <4> QED
        BY <4>1, <4>2
    <3> QED
      BY <3>2 DEF Run
  <2> QED
    BY <1>3, <1>7, <2>2 DEF PageInv, NoPageTwice
<1> QED
  BY <1>1, <1>2, <1>4, <1>5, <1>6, <1>7

\* GetPages has returned a block.
LEMMA GotBlock ==
  ASSUME SizesFit, PageInv, BlockInv, NEW t \in Threads, mpc[t] = "getPages", raw[t] # Null,
         ReturnGetPages(t)
  PROVE  LET n == op[t].req
             b == raw[t]
         IN  /\ Fits(n) /\ n \in Nat /\ b \in Pages /\ b \in Nat /\ HeaderPage(b) \in Pages
             /\ UserAddr(b, n) \in Nat /\ UserAddr(b, n) \notin ForeignAddrs
             /\ <<b, PagesFor(n)>> \notin owned /\ owned' = owned \cup {<<b, PagesFor(n)>>}
             /\ \A l \in live : Mine(l) => BasePage(l[1]) # b
             /\ pc'[t] = "idle" /\ \A u \in Threads \ {t} : pc'[u] = pc[u] /\ size'[u] = size[u]
<1>1. Fits(op[t].req) /\ size[t] = PagesFor(op[t].req) /\ pc[t] \in GetPC
  BY DEF BlockInv, RoutineInv, Shape
<1>2. Holds(t)
  BY <1>1 DEF Holds
<1>3. /\ op[t].req \in Nat /\ raw[t] \in Pages /\ raw[t] \in Nat /\ HeaderPage(raw[t]) \in Pages
      /\ UserAddr(raw[t], op[t].req) \in Nat /\ UserAddr(raw[t], op[t].req) \notin ForeignAddrs
      /\ \A o \in owned : o[1] # raw[t]
  BY <1>1, <1>2, FreshBlock
<1>4. \A l \in live : Mine(l) => BasePage(l[1]) # raw[t]
  <2>1. \A l \in live : Mine(l) => <<BasePage(l[1]), PagesFor(l[2])>> \in owned
    BY LiveBlockIs
  <2> QED
    BY <1>3, <2>1
<1>5. owned' = owned \cup {<<raw[t], PagesFor(op[t].req)>>}
  BY <1>1 DEF ReturnGetPages
<1>6. pc'[t] = "idle" /\ \A u \in Threads \ {t} : pc'[u] = pc[u] /\ size'[u] = size[u]
  BY CallTypes DEF ReturnGetPages, Goto, PageInv
<1> QED
  BY <1>1, <1>3, <1>4, <1>5, <1>6

LEMMA StepMallocEmbedded ==
  ASSUME SizesFit, PageInv, BlockInv, HeaderInv, NEW t \in Threads, MallocEmbedded(t)
  PROVE  BlockInv' /\ HeaderInv'
<1>0. PICK n, b : n = op[t].req /\ b = raw[t]
  OBVIOUS
<1> DEFINE l == <<UserAddr(b, n), n>>
           o == <<b, PagesFor(n)>>
<1>t. RoutineTypes /\ Shape(t) /\ op[t] \in Locals
  BY DEF BlockInv, RoutineInv, RoutineTypes
<1>1. /\ mpc[t] = "getPages" /\ b # Null /\ ReturnGetPages(t) /\ Embedded(n)
      /\ hdr' = [hdr EXCEPT ![HeaderPage(b)] = Header("accutrak", UserAddr(b, n), b, n)]
      /\ live' = live \cup {l} /\ Allocated(t) /\ UNCHANGED headerVars
  BY <1>0 DEF MallocEmbedded
<1>2. /\ Fits(n) /\ n \in Nat /\ b \in Pages /\ b \in Nat /\ HeaderPage(b) \in Pages
      /\ UserAddr(b, n) \in Nat /\ UserAddr(b, n) \notin ForeignAddrs
      /\ o \notin owned /\ owned' = owned \cup {o}
      /\ \A m \in live : Mine(m) => BasePage(m[1]) # b
      /\ pc'[t] = "idle" /\ \A u \in Threads \ {t} : pc'[u] = pc[u] /\ size'[u] = size[u]
  BY <1>0, <1>1, GotBlock
<1>3. /\ mpc' \in [Threads -> MallocPC] /\ op' \in [Threads -> Locals]
      /\ \/ mpc'[t] = "app" /\ op'[t] = NoOp
         \/ mpc'[t] = "release" /\ op'[t].pages > 0
      /\ (op'[t].pages > 0 <=> op[t].pages > 0)
      /\ op[t].pages > 0 => /\ op'[t].old = op[t].old /\ op'[t].usize = op[t].usize
                            /\ op'[t].pages = op[t].pages
      /\ \A u \in Threads \ {t} : mpc'[u] = mpc[u] /\ op'[u] = op[u]
  BY <1>t, <1>1, AllocatedIs
<1>4. /\ Mine(l) /\ l \in Nat \X Nat /\ l[1] = UserAddr(b, n) /\ l[2] = n /\ BasePage(l[1]) = b
      /\ hdr' = [hdr EXCEPT ![HeaderPage(b)] = HeaderOf(l)] /\ HeaderOf(l) \in Headers
  <2>1. l \in Nat \X Nat /\ l[1] = UserAddr(b, n) /\ l[2] = n /\ BasePage(l[1]) = b
    BY <1>2, WayBack
  <2>2. HeaderOf(l) = Header("accutrak", UserAddr(b, n), b, n)
    BY <2>1 DEF HeaderOf
  <2>3. Mine(l)
    BY <1>2, <2>1 DEF Mine
  <2>4. HeaderOf(l) \in Headers
    BY <1>2, <2>2 DEF Header, Headers
  <2>5. hdr' = [hdr EXCEPT ![HeaderPage(b)] = HeaderOf(l)]
    BY <1>1, <2>2
  <2> QED
    BY <2>1, <2>3, <2>4, <2>5
<1> HIDE DEF l
<1>5. RoutineInv'
  <2>1. RoutineTypes'
    <3>1. hdr' \in [Pages -> Headers]
      BY <1>t, <1>4 DEF RoutineTypes
    <3>2. live' \subseteq Nat \X Nat
      BY <1>t, <1>1, <1>4 DEF RoutineTypes
    <3>3. cell' = cell
      BY <1>1 DEF headerVars
    <3> QED
      BY <1>t, <1>3, <3>1, <3>2, <3>3 DEF RoutineTypes
  <2>2. Shape(t)'
    BY <1>t, <1>2, <1>3 DEF Shape, PoolPC, IdPC, NoOp
  <2> QED
    BY <2>1, <2>2, <1>2, <1>3, RoutineStep DEF BlockInv
<1>6. LiveInv'
  BY <1>1, <1>2, <1>4 DEF BlockInv, LiveInv, Mine
<1>7. ClaimInv'
  <2>1. ASSUME NEW k \in Kinds, NEW x
        PROVE  /\ Claim(k, x)' <=> (k = "live" /\ x = l) \/ Claim(k, x)
               /\ Claim(k, x) => BlockOf(k, x)' = BlockOf(k, x)
    <3>1. CASE k = "live" \/ x # t
      BY <3>1, <1>1, <1>3, <1>4, OtherClaims
    <3>2. CASE k = "old" /\ x = t
      BY <3>2, <1>3 DEF Claim, BlockOf
    <3>3. CASE k = "new" /\ x = t
      BY <3>3, <1>1, <1>3 DEF Claim, PoolPC, IdPC
    <3> QED
      BY <3>1, <3>2, <3>3 DEF Kinds
  <2>2. BlockOf("live", l)' = o
    BY <1>4 DEF BlockOf
  <2> QED
    BY <2>1, <2>2, <1>2, ClaimMade DEF BlockInv, Kinds
<1>8. EmbeddedInv'
  BY <1>1, <1>2, <1>4, EmbeddedAdded DEF HeaderInv, l
<1>9. SeparateInv'
  <2>1. \A m : Mine(m) /\ ~Embedded(m[2]) => (m \in live' <=> m \in live)
    BY <1>1, <1>4
  <2> QED
    BY <1>1, <2>1, SeparateKept DEF HeaderInv, headerVars, Listed
<1>10. PoolInv'
  <2>1. mpc'[t] \notin IdPC
    BY <1>3 DEF IdPC
  <2> QED
    BY <1>1, <1>3, <2>1, PoolKept DEF HeaderInv
<1> QED
  BY <1>5, <1>6, <1>7, <1>8, <1>9, <1>10 DEF BlockInv, HeaderInv

LEMMA StepMallocNeedsHeader ==
  ASSUME SizesFit, PageInv, BlockInv, HeaderInv, NEW t \in Threads, MallocNeedsHeader(t)
  PROVE  BlockInv' /\ HeaderInv'
<1>0. PICK n, b : n = op[t].req /\ b = raw[t]
  OBVIOUS
<1> DEFINE o == <<b, PagesFor(n)>>
<1>t. /\ RoutineTypes /\ Shape(t) /\ op[t] \in Locals /\ op \in [Threads -> Locals]
      /\ mpc \in [Threads -> MallocPC]
  BY DEF BlockInv, RoutineInv, RoutineTypes
<1>1. /\ mpc[t] = "getPages" /\ b # Null /\ ReturnGetPages(t) /\ ~Embedded(n)
      /\ mpc' = [mpc EXCEPT ![t] = "getHeader"] /\ op' = [op EXCEPT ![t].base = b]
      /\ hdr' = hdr /\ live' = live /\ UNCHANGED headerVars
  BY <1>0 DEF MallocNeedsHeader, MGoto
<1>2. /\ Fits(n) /\ n \in Nat /\ b \in Pages /\ b \in Nat
      /\ o \notin owned /\ owned' = owned \cup {o}
      /\ pc'[t] = "idle" /\ \A u \in Threads \ {t} : pc'[u] = pc[u] /\ size'[u] = size[u]
  BY <1>0, <1>1, GotBlock
<1>3. /\ mpc'[t] = "getHeader" /\ mpc' \in [Threads -> MallocPC]
      /\ op'[t] = [op[t] EXCEPT !.base = b]
      /\ \A u \in Threads \ {t} : mpc'[u] = mpc[u] /\ op'[u] = op[u]
  BY <1>1, <1>t DEF MallocPC, PoolPC, IdPC
<1>4. /\ op'[t] \in Locals /\ op'[t].base = b /\ op'[t].req = n
      /\ op'[t].pages = op[t].pages /\ op'[t].usize = op[t].usize /\ op'[t].old = op[t].old
  BY <1>0, <1>2, <1>3, <1>t DEF Locals
<1>5. RoutineInv'
  <2>1. op' \in [Threads -> Locals]
    BY <1>1, <1>3, <1>4, <1>t
  <2>2. RoutineTypes'
    BY <1>t, <1>1, <1>3, <2>1 DEF RoutineTypes, headerVars
  <2>3. Shape(t)'
    BY <1>t, <1>1, <1>2, <1>3, <1>4 DEF Shape, PoolPC, IdPC
  <2> QED
    BY <2>2, <2>3, <1>2, <1>3, RoutineStep DEF BlockInv
<1>6. LiveInv'
  BY <1>1 DEF BlockInv, LiveInv, Mine
<1>7. ClaimInv'
  <2>1. ASSUME NEW k \in Kinds, NEW x
        PROVE  /\ Claim(k, x)' <=> (k = "new" /\ x = t) \/ Claim(k, x)
               /\ Claim(k, x) => BlockOf(k, x)' = BlockOf(k, x)
    <3>1. CASE k = "live" \/ x # t
      BY <3>1, <1>1, <1>3, OtherClaims
    <3>2. CASE k = "old" /\ x = t
      BY <3>2, <1>4 DEF Claim, BlockOf
    <3>3. CASE k = "new" /\ x = t
      BY <3>3, <1>1, <1>3 DEF Claim, PoolPC, IdPC
    <3> QED
      BY <3>1, <3>2, <3>3 DEF Kinds
  <2>2. BlockOf("new", t)' = o
    BY <1>4 DEF BlockOf
  <2> QED
    BY <2>1, <2>2, <1>2, ClaimMade DEF BlockInv, Kinds
<1>8. HeaderInv'
  <2>1. mpc'[t] \notin IdPC
    BY <1>3 DEF IdPC
  <2> QED
    BY <2>1, <1>1, <1>3, HeadersKept
<1> QED
  BY <1>5, <1>6, <1>7, <1>8 DEF BlockInv

LEMMA StepSignHeader ==
  ASSUME SizesFit, PageInv, BlockInv, HeaderInv, NEW t \in Threads, SignHeader(t)
  PROVE  BlockInv' /\ HeaderInv'
<1>0. PICK n, b, c : n = op[t].req /\ b = op[t].base /\ c = op[t].id
  OBVIOUS
<1> DEFINE l == <<UserAddr(b, n), n>>
<1>t. RoutineTypes /\ Shape(t) /\ op[t] \in Locals /\ PoolInv /\ SeparateInv
  BY DEF BlockInv, RoutineInv, RoutineTypes, HeaderInv
<1>1. /\ mpc[t] = "signHeader" /\ cell' = [cell EXCEPT ![c].sig = "accutrak"]
      /\ live' = live \cup {l} /\ Allocated(t) /\ hdr' = hdr
      /\ UNCHANGED <<pc, size, owned>> /\ UNCHANGED <<gOtherBlocks, gFreeBlockHeader, numHeaders>>
  BY <1>0 DEF SignHeader, sysVars, callVars
<1>2. /\ Fits(n) /\ n \in Nat /\ ~Embedded(n) /\ pc[t] = "idle"
      /\ b \in Pages /\ b \in Nat /\ HeaderPage(b) \in Pages
      /\ Claim("new", t) /\ BlockOf("new", t) = <<b, PagesFor(n)>>
  <2>1. Fits(n) /\ ~Embedded(n) /\ pc[t] = "idle" /\ mpc[t] \in PoolPC
    BY <1>0, <1>1, <1>t DEF Shape, PoolPC, IdPC
  <2>2. Claim("new", t) /\ BlockOf("new", t) = <<b, PagesFor(n)>>
    BY <1>0, <2>1 DEF Claim, BlockOf
  <2>3. <<b, PagesFor(n)>> \in owned
    BY <2>2 DEF BlockInv, ClaimInv, Kinds
  <2>4. n \in Nat /\ PagesFor(n) >= 2
    BY <2>1, BlockPages
  <2> QED
    BY <2>1, <2>2, <2>3, <2>4, OwnedBlock, Constants
<1>3. /\ mpc' \in [Threads -> MallocPC] /\ op' \in [Threads -> Locals]
      /\ \/ mpc'[t] = "app" /\ op'[t] = NoOp
         \/ mpc'[t] = "release" /\ op'[t].pages > 0
      /\ (op'[t].pages > 0 <=> op[t].pages > 0)
      /\ op[t].pages > 0 => /\ op'[t].old = op[t].old /\ op'[t].usize = op[t].usize
                            /\ op'[t].pages = op[t].pages
      /\ \A u \in Threads \ {t} : mpc'[u] = mpc[u] /\ op'[u] = op[u]
  BY <1>t, <1>1, AllocatedIs
<1>4. Mine(l) /\ l \in Nat \X Nat /\ l[1] = UserAddr(b, n) /\ l[2] = n /\ BasePage(l[1]) = b
  <2>1. /\ l \in Nat \X Nat /\ l[1] = UserAddr(b, n) /\ l[2] = n /\ BasePage(l[1]) = b
        /\ UserAddr(b, n) \div PageSize = HeaderPage(b)
    BY <1>2, WayBack
  <2> QED
    BY <1>2, <2>1, DeadPageAssumption DEF Mine
<1>5. HeaderOf(l) = Header("accutrak", UserAddr(b, n), b, n)
  BY <1>4 DEF HeaderOf
<1>6. /\ PoolInv' /\ Listed' = Listed /\ c \in HeaderIds /\ c \in Listed
      /\ cell[c].sig # "accutrak" /\ cell'[c] = HeaderOf(l)
      /\ \A i \in HeaderIds : i # c => cell'[i] = cell[i]
  <2>1. mpc'[t] \notin IdPC
    BY <1>3 DEF IdPC
  <2> QED
    BY <2>1, <1>0, <1>1, <1>3, <1>5, <1>t, PoolSignHeader
<1> HIDE DEF l
<1>7. RoutineInv'
  <2>1. cell' \in [HeaderIds -> Headers]
    BY <1>1, <1>t DEF RoutineTypes, Headers
  <2>2. RoutineTypes'
    BY <1>t, <1>1, <1>3, <1>4, <2>1 DEF RoutineTypes
  <2>3. Shape(t)'
    BY <1>t, <1>1, <1>2, <1>3 DEF Shape, PoolPC, IdPC
  <2> QED
    BY <2>2, <2>3, <1>1, <1>3, RoutineStep DEF BlockInv
<1>8. LiveInv'
  BY <1>1, <1>2, <1>4 DEF BlockInv, LiveInv, Mine
<1>9. ClaimInv'
  <2>1. ASSUME NEW k \in Kinds, NEW x
        PROVE  /\ Claim(k, x)' <=> \/ k = "live" /\ x = l
                                   \/ Claim(k, x) /\ ~(k = "new" /\ x = t)
               /\ Claim(k, x) /\ ~(k = "new" /\ x = t) => BlockOf(k, x)' = BlockOf(k, x)
    <3>1. CASE k = "live" \/ x # t
      BY <3>1, <1>1, <1>3, <1>4, OtherClaims
    <3>2. CASE k = "old" /\ x = t
      BY <3>2, <1>3 DEF Claim, BlockOf
    <3>3. CASE k = "new" /\ x = t
      BY <3>3, <1>3 DEF Claim, PoolPC, IdPC
    <3> QED
      BY <3>1, <3>2, <3>3 DEF Kinds
  <2>2. BlockOf("live", l)' = BlockOf("new", t)
    BY <1>2, <1>4 DEF BlockOf
  <2> QED
    BY <2>1, <2>2, <1>1, <1>2, ClaimHandedOn DEF BlockInv, Kinds
<1>10. \A m \in live : Mine(m) => BasePage(m[1]) # b
  <2> SUFFICES ASSUME NEW m \in live, Mine(m), BasePage(m[1]) = b PROVE FALSE
    OBVIOUS
  <2>1. Claim("live", m) /\ BlockOf("live", m)[1] = BlockOf("new", t)[1]
    BY <1>2 DEF Claim, BlockOf
  <2> QED
    BY <2>1, <1>2, OneClaim DEF BlockInv, Kinds
<1>11. EmbeddedInv'
  <2>1. \A m : Mine(m) /\ Embedded(m[2]) => (m \in live' <=> m \in live)
    BY <1>1, <1>2, <1>4
  <2> QED
    BY <1>1, <2>1, EmbeddedKept DEF HeaderInv
<1>12. SeparateInv'
  BY <1>1, <1>2, <1>4, <1>6, <1>10, <1>t, SeparateAdded DEF l
<1> QED
  BY <1>6, <1>7, <1>8, <1>9, <1>11, <1>12 DEF BlockInv, HeaderInv

-------------------------------------------------------------------------------
(* free and realloc *)

\* free and realloc ground the header of the block they are given.
LEMMA HeaderDropped ==
  ASSUME SizesFit, PageInv, BlockInv, HeaderInv, NEW t \in Threads, NEW l \in live,
         \A u \in Threads \ {t} : mpc'[u] = mpc[u] /\ op'[u] = op[u],
         mpc'[t] \notin IdPC, live' = live \ {l},
         \/ /\ EmbeddedMatch(l[1]) /\ hdr' = [hdr EXCEPT ![ProbePage(l[1])] = Grounded]
            /\ UNCHANGED headerVars
         \/ UnlinkHeader(l[1]) /\ hdr' = hdr /\ numHeaders' = numHeaders
  PROVE  /\ HeaderInv' /\ Mine(l)
         /\ cell' \in [HeaderIds -> Headers] /\ hdr' \in [Pages -> Headers]
<1>t. /\ RoutineTypes /\ cell \in [HeaderIds -> Headers] /\ hdr \in [Pages -> Headers]
      /\ PoolInv /\ SeparateInv /\ EmbeddedInv
  BY DEF BlockInv, RoutineInv, RoutineTypes, HeaderInv
<1>1. CASE /\ EmbeddedMatch(l[1]) /\ hdr' = [hdr EXCEPT ![ProbePage(l[1])] = Grounded]
           /\ UNCHANGED headerVars
  <2>1. Mine(l) /\ Embedded(l[2]) /\ ProbePage(l[1]) = HeaderPage(BasePage(l[1]))
    BY <1>1, EmbeddedHeaderTells
  <2>2. EmbeddedInv'
    BY <1>1, <1>t, <2>1, EmbeddedDropped
  <2>3. SeparateInv'
    <3>1. \A m : Mine(m) /\ ~Embedded(m[2]) => (m \in live' <=> m \in live)
      BY <2>1
    <3> QED
      BY <1>1, <1>t, <3>1, SeparateKept DEF headerVars, Listed
  <2>4. PoolInv'
    BY <1>1, <1>t, PoolKept
  <2>5. Grounded \in Headers
    BY DEF Grounded, Header, Headers
  <2>6. cell' \in [HeaderIds -> Headers] /\ hdr' \in [Pages -> Headers]
    BY <1>1, <1>t, <2>5 DEF headerVars
  <2> QED
    BY <2>1, <2>2, <2>3, <2>4, <2>6 DEF HeaderInv
<1>2. CASE UnlinkHeader(l[1]) /\ hdr' = hdr /\ numHeaders' = numHeaders
  <2>0. PICK c : c = gOtherBlocks[FirstMatch(l[1])]
    OBVIOUS
  <2>1. FirstMatch(l[1]) \in Matches(l[1])
    BY <1>2, <1>t, FirstMatchIs DEF UnlinkHeader
  <2>2. /\ Mine(l) /\ ~Embedded(l[2]) /\ FirstMatch(l[1]) \in DOMAIN gOtherBlocks
        /\ cell[c] = HeaderOf(l) /\ cell[c].sig = "accutrak"
    BY <2>0, <2>1, SeparateHeaderTells, HeaderFields
  <2>3. /\ PoolInv' /\ Listed' = Listed \ {c}
        /\ c \in HeaderIds /\ cell' = [cell EXCEPT ![c].sig = "FREEBLK!"]
    BY <1>2, <1>t, <2>0, <2>2, PoolUnlinkHeader
  <2>4. SeparateInv'
    BY <1>t, <2>2, <2>3, SeparateDropped
  <2>5. EmbeddedInv'
    <3>1. \A m : Mine(m) /\ Embedded(m[2]) => (m \in live' <=> m \in live)
      BY <2>2
    <3> QED
      BY <1>2, <1>t, <3>1, EmbeddedKept
  <2>6. cell' \in [HeaderIds -> Headers] /\ hdr' \in [Pages -> Headers]
    BY <1>2, <1>t, <2>3 DEF Headers
  <2> QED
    BY <2>2, <2>3, <2>4, <2>5, <2>6 DEF HeaderInv
<1> QED
  BY <1>1, <1>2

LEMMA StepFree ==
  ASSUME SizesFit, PageInv, BlockInv, HeaderInv, NEW t \in Threads, NEW l \in live,
         FreeEmbedded(t, l) \/ FreeOther(t, l)
  PROVE  BlockInv' /\ HeaderInv'
<1>t. /\ RoutineTypes /\ Shape(t) /\ mpc \in [Threads -> MallocPC]
      /\ pc \in [Threads -> {"idle"} \cup GetPC \cup ReleasePC] /\ size \in [Threads -> 0 .. MaxBlockPages]
  BY CallTypes DEF BlockInv, RoutineInv, RoutineTypes, PageInv
<1>1. /\ mpc[t] = "app" /\ op[t] = NoOp /\ mpc' = [mpc EXCEPT ![t] = "releasePages"] /\ op' = op
      /\ live' = live \ {l}
  BY <1>t DEF FreeEmbedded, FreeOther, MGoto, Shape
<1>2. /\ mpc'[t] = "releasePages" /\ mpc' \in [Threads -> MallocPC]
      /\ \A u \in Threads \ {t} : mpc'[u] = mpc[u] /\ op'[u] = op[u]
  BY <1>1, <1>t DEF MallocPC
<1>3. /\ HeaderInv' /\ Mine(l)
      /\ cell' \in [HeaderIds -> Headers] /\ hdr' \in [Pages -> Headers]
  <2>1. \/ /\ EmbeddedMatch(l[1]) /\ hdr' = [hdr EXCEPT ![ProbePage(l[1])] = Grounded]
           /\ UNCHANGED headerVars
        \/ UnlinkHeader(l[1]) /\ hdr' = hdr /\ numHeaders' = numHeaders
    BY DEF FreeEmbedded, FreeOther
  <2>2. mpc'[t] \notin IdPC
    BY <1>2 DEF IdPC
  <2> QED
    BY <1>1, <1>2, <2>1, <2>2, HeaderDropped
<1>4. /\ owned' = owned \ {BlockOf("live", l)} /\ pc'[t] \in ReleasePC
      /\ \A u \in Threads \ {t} : pc'[u] = pc[u] /\ size'[u] = size[u]
  <2> DEFINE o == <<BasePage(l[1]), PagesFor(l[2])>>
  <2>1. EnterReleasePages(t, o, BasePage(l[1]), VerifiedPages(l[2]))
    BY FreeGivesUp
  <2>2. BlockOf("live", l) = o
    BY DEF BlockOf
  <2> HIDE DEF o
  <2> QED
    BY <1>t, <2>1, <2>2 DEF EnterReleasePages, Goto, ReleasePC
<1>5. RoutineInv'
  <2>1. RoutineTypes'
    BY <1>t, <1>1, <1>2, <1>3 DEF RoutineTypes
  <2>2. Shape(t)'
    BY <1>1, <1>2, <1>4 DEF Shape, PoolPC, IdPC, NoOp
  <2> QED
    BY <2>1, <2>2, <1>2, <1>4, RoutineStep DEF BlockInv
<1>6. LiveInv'
  BY <1>1 DEF BlockInv, LiveInv, Mine
<1>7. ClaimInv'
  <2>1. ASSUME NEW k \in Kinds, NEW x
        PROVE  /\ Claim(k, x)' <=> Claim(k, x) /\ ~(k = "live" /\ x = l)
               /\ Claim(k, x) /\ ~(k = "live" /\ x = l) => BlockOf(k, x)' = BlockOf(k, x)
    <3>1. CASE k = "live" \/ x # t
      BY <3>1, <1>1, <1>2, OtherClaims
    <3>2. CASE k = "old" /\ x = t
      BY <3>2, <1>1 DEF Claim, BlockOf
    <3>3. CASE k = "new" /\ x = t
      BY <3>3, <1>1, <1>2 DEF Claim, PoolPC, IdPC
    <3> QED
      BY <3>1, <3>2, <3>3 DEF Kinds
  <2>2. Claim("live", l)
    BY <1>3 DEF Claim
  <2> QED
    BY <2>1, <2>2, <1>4, ClaimGivenUp DEF BlockInv, Kinds
<1> QED
  BY <1>3, <1>5, <1>6, <1>7 DEF BlockInv

LEMMA StepRealloc ==
  ASSUME SizesFit, PageInv, BlockInv, HeaderInv, NEW t \in Threads, NEW l \in live, NEW n \in Sizes,
         ReallocEmbedded(t, l, n) \/ ReallocOther(t, l, n)
  PROVE  BlockInv' /\ HeaderInv'
<1>0. PICK b, s, m : b = BasePage(l[1]) /\ s = l[2] /\ m = VerifiedPages(s)
  OBVIOUS
<1>t. /\ RoutineTypes /\ Shape(t) /\ mpc \in [Threads -> MallocPC] /\ op \in [Threads -> Locals]
      /\ op[t] \in Locals /\ n \in Nat
  BY Constants DEF BlockInv, RoutineInv, RoutineTypes
<1>1. /\ mpc[t] = "app" /\ op[t] = NoOp /\ pc[t] = "idle"
      /\ mpc' = [mpc EXCEPT ![t] = "malloc"] /\ live' = live \ {l}
      /\ UNCHANGED <<pc, size, owned>>
      /\ \/ /\ EmbeddedMatch(l[1]) /\ hdr' = [hdr EXCEPT ![ProbePage(l[1])] = Grounded]
            /\ UNCHANGED headerVars
         \/ UnlinkHeader(l[1]) /\ hdr' = hdr /\ numHeaders' = numHeaders
  BY <1>t DEF ReallocEmbedded, ReallocOther, MGoto, Shape, sysVars, callVars
<1>2. op' = [op EXCEPT ![t].req = n, ![t].old = b, ![t].usize = s, ![t].pages = m]
  <2>1. CASE ReallocEmbedded(t, l, n)
    <3>1. EmbeddedMatch(l[1])
      BY <2>1 DEF ReallocEmbedded
    <3>2. hdr[ProbePage(l[1])].base = b /\ hdr[ProbePage(l[1])].usize = s
      BY <3>1, <1>0, EmbeddedGivesUp
    <3> QED
      BY <1>0, <2>1, <3>2 DEF ReallocEmbedded
  <2>2. CASE ReallocOther(t, l, n)
    <3> DEFINE h == cell[gOtherBlocks[FirstMatch(l[1])]]
    <3>1. Matches(l[1]) # {}
      BY <2>2 DEF ReallocOther, UnlinkHeader
    <3>2. h.base = b /\ h.usize = s
      BY <3>1, <1>0, SeparateGivesUp
    <3> QED
      BY <1>0, <2>2, <3>2 DEF ReallocOther
  <2> QED
    BY <2>1, <2>2
<1>3. /\ mpc'[t] = "malloc" /\ mpc' \in [Threads -> MallocPC]
      /\ \A u \in Threads \ {t} : mpc'[u] = mpc[u] /\ op'[u] = op[u]
  BY <1>1, <1>2, <1>t DEF MallocPC
<1>4. /\ HeaderInv' /\ Mine(l)
      /\ cell' \in [HeaderIds -> Headers] /\ hdr' \in [Pages -> Headers]
  <2>2. mpc'[t] \notin IdPC
    BY <1>3 DEF IdPC
  <2> QED
    BY <1>1, <1>3, <2>2, HeaderDropped
<1>5. b \in Nat /\ s \in Nat /\ m \in Nat /\ m > 0 /\ Fits(s) /\ m = VerifiedPages(s)
  <2>1. /\ b \in Pages /\ Fits(s) /\ s \in Nat /\ PagesFor(s) \in 2 .. MaxBlockPages
        /\ m \in ReleasedPages(<<b, PagesFor(s)>>)
    BY <1>0, <1>4, LiveBlockIs
  <2>2. m \in Nat /\ m > 0
    BY <2>1, SysAllocAssumption DEF ReleasedPages
  <2> QED
    BY <1>0, <2>1, <2>2, Constants
<1>6. op'[t] \in Locals /\ op'[t].req = n /\ op'[t].old = b /\ op'[t].usize = s /\ op'[t].pages = m
  BY <1>2, <1>5, <1>t DEF Locals
<1>7. RoutineInv'
  <2>1. op' \in [Threads -> Locals]
    BY <1>2, <1>3, <1>6, <1>t
  <2>2. RoutineTypes'
    BY <1>t, <1>1, <1>3, <1>4, <2>1 DEF RoutineTypes
  <2>3. Shape(t)'
    BY <1>1, <1>3, <1>5, <1>6 DEF Shape, PoolPC, IdPC
  <2> QED
    BY <2>2, <2>3, <1>1, <1>3, RoutineStep DEF BlockInv
<1>8. LiveInv'
  BY <1>1 DEF BlockInv, LiveInv, Mine
<1>9. ClaimInv'
  <2>1. ASSUME NEW k \in Kinds, NEW x
        PROVE  /\ Claim(k, x)' <=> \/ k = "old" /\ x = t
                                   \/ Claim(k, x) /\ ~(k = "live" /\ x = l)
               /\ Claim(k, x) /\ ~(k = "live" /\ x = l) => BlockOf(k, x)' = BlockOf(k, x)
    <3>1. CASE k = "live" \/ x # t
      BY <3>1, <1>1, <1>3, OtherClaims
    <3>2. CASE k = "old" /\ x = t
      <4>1. ~Claim(k, x)
        BY <3>2, <1>1 DEF Claim, NoOp
      <4>2. Claim(k, x)'
        BY <3>2, <1>5, <1>6 DEF Claim
      <4> QED
        BY <3>2, <4>1, <4>2
    <3>3. CASE k = "new" /\ x = t
      BY <3>3, <1>1, <1>3 DEF Claim, PoolPC, IdPC
    <3> QED
      BY <3>1, <3>2, <3>3 DEF Kinds
  <2>2. Claim("live", l) /\ BlockOf("old", t)' = BlockOf("live", l)
    BY <1>0, <1>4, <1>6 DEF Claim, BlockOf
  <2> QED
    BY <2>1, <2>2, <1>1, ClaimHandedOn DEF BlockInv, Kinds
<1> QED
  BY <1>4, <1>7, <1>8, <1>9 DEF BlockInv

LEMMA StepReallocRelease ==
  ASSUME SizesFit, PageInv, BlockInv, HeaderInv, NEW t \in Threads, ReallocRelease(t)
  PROVE  BlockInv' /\ HeaderInv'
<1>t. /\ RoutineTypes /\ Shape(t) /\ mpc \in [Threads -> MallocPC] /\ op \in [Threads -> Locals]
      /\ pc \in [Threads -> {"idle"} \cup GetPC \cup ReleasePC] /\ size \in [Threads -> 0 .. MaxBlockPages]
  BY CallTypes DEF BlockInv, RoutineInv, RoutineTypes, PageInv
<1>1. /\ mpc[t] = "release" /\ op[t].pages > 0 /\ mpc' = [mpc EXCEPT ![t] = "releasePages"]
      /\ op' = [op EXCEPT ![t] = NoOp] /\ UNCHANGED <<hdr, live>> /\ UNCHANGED headerVars
  BY <1>t DEF ReallocRelease, MGoto, Shape
<1>2. /\ mpc'[t] = "releasePages" /\ mpc' \in [Threads -> MallocPC]
      /\ op'[t] = NoOp /\ op' \in [Threads -> Locals]
      /\ \A u \in Threads \ {t} : mpc'[u] = mpc[u] /\ op'[u] = op[u]
  <2>1. NoOp \in Locals
    BY DEF NoOp, Locals
  <2> QED
    BY <1>1, <1>t, <2>1 DEF MallocPC
<1>3. /\ owned' = owned \ {BlockOf("old", t)} /\ pc'[t] \in ReleasePC
      /\ \A u \in Threads \ {t} : pc'[u] = pc[u] /\ size'[u] = size[u]
  <2> DEFINE o == <<op[t].old, PagesFor(op[t].usize)>>
  <2>1. EnterReleasePages(t, o, op[t].old, op[t].pages)
    BY ReallocGivesUp
  <2>2. BlockOf("old", t) = o
    BY DEF BlockOf
  <2> HIDE DEF o
  <2> QED
    BY <1>t, <2>1, <2>2 DEF EnterReleasePages, Goto, ReleasePC
<1>4. RoutineInv'
  <2>1. RoutineTypes'
    BY <1>t, <1>1, <1>2 DEF RoutineTypes, headerVars
  <2>2. Shape(t)'
    BY <1>2, <1>3 DEF Shape, PoolPC, IdPC, NoOp
  <2> QED
    BY <2>1, <2>2, <1>2, <1>3, RoutineStep DEF BlockInv
<1>5. LiveInv'
  BY <1>1 DEF BlockInv, LiveInv, Mine
<1>6. ClaimInv'
  <2>1. ASSUME NEW k \in Kinds, NEW x
        PROVE  /\ Claim(k, x)' <=> Claim(k, x) /\ ~(k = "old" /\ x = t)
               /\ Claim(k, x) /\ ~(k = "old" /\ x = t) => BlockOf(k, x)' = BlockOf(k, x)
    <3>1. CASE k = "live" \/ x # t
      BY <3>1, <1>1, <1>2, OtherClaims
    <3>2. CASE k = "old" /\ x = t
      BY <3>2, <1>2 DEF Claim, NoOp
    <3>3. CASE k = "new" /\ x = t
      BY <3>3, <1>1, <1>2 DEF Claim, PoolPC, IdPC
    <3> QED
      BY <3>1, <3>2, <3>3 DEF Kinds
  <2>2. Claim("old", t)
    BY <1>1 DEF Claim
  <2> QED
    BY <2>1, <2>2, <1>3, ClaimGivenUp DEF BlockInv, Kinds
<1>7. HeaderInv'
  <2>1. mpc'[t] \notin IdPC
    BY <1>2 DEF IdPC
  <2> QED
    BY <1>1, <1>2, <2>1, HeadersKept
<1> QED
  BY <1>4, <1>5, <1>6, <1>7 DEF BlockInv

\* A page that is unmapped holds no header.
LEMMA StepPage ==
  ASSUME SizesFit, PageInv, PageInv', BlockInv, HeaderInv, NEW t \in Threads, PageStep(t)
  PROVE  BlockInv' /\ HeaderInv'
<1>t. RoutineTypes /\ Shape(t) /\ hdr \in [Pages -> Headers]
  BY DEF BlockInv, RoutineInv, RoutineTypes
<1>1. /\ GetPagesStep(t) \/ ReleasePagesStep(t)
      /\ hdr' = [p \in Pages |-> IF prot'[p] = "unmapped" THEN Blank ELSE hdr[p]]
      /\ UNCHANGED <<live, mpc, op>> /\ UNCHANGED headerVars
  BY DEF PageStep
<1>2. /\ owned' = owned
      /\ \A u \in Threads \ {t} : pc'[u] = pc[u] /\ size'[u] = size[u]
      /\ \/ pc[t] \in GetPC /\ pc'[t] \in GetPC /\ size'[t] = size[t]
         \/ pc[t] \in ReleasePC /\ pc'[t] \in ReleasePC \cup {"idle"}
  BY <1>1, PageStepIs DEF PageInv
<1>3. mpc[t] \in {"getPages", "releasePages"}
  BY <1>t, <1>2 DEF Shape, GetPC, ReleasePC
<1>4. Blank \in Headers /\ Blank.sig # "accutrak"
  BY DEF Blank, Header, Headers
<1>5. RoutineInv'
  <2>1. hdr' \in [Pages -> Headers]
    BY <1>1, <1>4, <1>t
  <2>2. RoutineTypes'
    BY <1>t, <1>1, <2>1 DEF RoutineTypes, headerVars
  <2>3. Shape(t)'
    BY <1>t, <1>1, <1>2, <1>3 DEF Shape, GetPC, ReleasePC, PoolPC, IdPC
  <2> QED
    BY <2>2, <2>3, <1>1, <1>2, RoutineStep DEF BlockInv
<1>6. LiveInv'
  BY <1>1 DEF BlockInv, LiveInv, Mine
<1>7. ClaimInv'
  BY <1>1, <1>2, SameClaims DEF BlockInv
<1>8. EmbeddedInv'
  <2>1. \A p \in Pages : hdr'[p] = hdr[p] \/ hdr'[p].sig # "accutrak"
    BY <1>1, <1>4
  <2>2. ASSUME NEW l \in live, Mine(l)
        PROVE  hdr'[HeaderPage(BasePage(l[1]))] = hdr[HeaderPage(BasePage(l[1]))]
    <3> DEFINE b == BasePage(l[1])
               n == PagesFor(l[2])
    <3>1. <<b, n>> \in owned /\ b \in Nat /\ n \in 2 .. MaxBlockPages /\ HeaderPage(b) \in Pages
      BY <2>2, LiveBlockIs, Constants
    <3>2. HeaderPage(b) \in Run(b, n)
      BY <3>1, SysAllocAssumption DEF HeaderPage, Run
    <3>3. prot'[HeaderPage(b)] # "unmapped"
      BY <1>2, <3>1, <3>2 DEF PageInv, Placed, Mapped
    <3> QED
      BY <1>1, <3>1, <3>3
  <2> QED
    BY <1>1, <2>1, <2>2, EmbeddedKept DEF HeaderInv
<1>9. SeparateInv'
  BY <1>1, SeparateKept DEF HeaderInv, headerVars, Listed
<1>10. PoolInv'
  <2>1. mpc'[t] \notin IdPC
    BY <1>1, <1>3 DEF IdPC
  <2> QED
    BY <1>1, <2>1, PoolKept DEF HeaderInv
<1> QED
  BY <1>5, <1>6, <1>7, <1>8, <1>9, <1>10 DEF BlockInv, HeaderInv
-------------------------------------------------------------------------------
(* The invariant holds of every state *)

LEMMA InitDeadPageInv == Init => DeadPageInv
<1> SUFFICES ASSUME Init PROVE DeadPageInv
  OBVIOUS
<1>0. /\ SysInit /\ owned = {} /\ pc = [t \in Threads |-> "idle"] /\ live = {}
      /\ hdr = [p \in Pages |-> Blank] /\ cell = [i \in HeaderIds |-> Blank]
      /\ gOtherBlocks = <<>> /\ gFreeBlockHeader = <<>> /\ numHeaders = 0
      /\ mpc = [t \in Threads |-> "app"] /\ op = [t \in Threads |-> NoOp]
      /\ process = "running"
  BY DEF Init, SysInit
<1>1. GuardInv
  BY <1>0, InitProtInv DEF GuardInv, BlocksGuarded, Holds, GetPC, ReleasePC
<1>b. Blank \in Headers /\ Blank.sig = "other" /\ NoOp \in Locals /\ NoOp.pages = 0
  BY DEF Blank, Header, Headers, NoOp, Locals
<1>2. RoutineInv
  <2>1. RoutineTypes
    BY <1>0, <1>b DEF RoutineTypes, MallocPC
  <2>2. ASSUME NEW t \in Threads PROVE Shape(t)
    BY <1>0, <1>b DEF Shape, PoolPC, IdPC
  <2> QED
    BY <2>1, <2>2 DEF RoutineInv
<1>3. LiveInv /\ ClaimInv
  <2>1. \A k \in Kinds : \A x : ~Claim(k, x)
    BY <1>0, <1>b DEF Kinds, Claim, PoolPC, IdPC
  <2> QED
    BY <1>0, <2>1 DEF LiveInv, ClaimInv
<1>4. EmbeddedInv /\ SeparateInv
  BY <1>0, <1>b DEF EmbeddedInv, SeparateInv
<1>5. PoolInv
  <2>1. Listed = {} /\ Pooled = {} /\ Distinct(gOtherBlocks) /\ Distinct(gFreeBlockHeader)
    BY <1>0 DEF Listed, Pooled, Entries, Distinct
  <2>2. numHeaders \in 0 .. MaxHeaders
    BY <1>0, DeadPageAssumption
  <2>3. gOtherBlocks \in Seq(1 .. numHeaders) /\ gFreeBlockHeader \in Seq(1 .. numHeaders)
    BY <1>0
  <2>4. \A t \in Threads : mpc[t] \notin IdPC
    BY <1>0 DEF IdPC
  <2> QED
    BY <2>1, <2>2, <2>3, <2>4 DEF PoolInv
<1> QED
  BY <1>0, <1>1, <1>2, <1>3, <1>4, <1>5 DEF DeadPageInv, BlockInv, HeaderInv, DoubleFreeCaught

LEMMA InvariantParts ==
  ASSUME DeadPageInv
  PROVE  /\ GuardInv /\ ProtInv /\ PageInv /\ BlocksGuarded /\ Placed
         /\ BlockInv /\ HeaderInv /\ process # "undetected"
BY DEF DeadPageInv, GuardInv, ProtInv, PageInv, DoubleFreeCaught

LEMMA StepDeadPageInv == SizesFit /\ DeadPageInv /\ [Next]_vars => DeadPageInv'
<1> SUFFICES ASSUME SizesFit, DeadPageInv, [Next]_vars PROVE DeadPageInv'
  OBVIOUS
<1>c. GuardInv /\ PageInv /\ BlockInv /\ HeaderInv /\ process # "undetected"
  BY InvariantParts
<1>1. GuardInv' /\ PageInv'
  <2>1. GuardInv'
    BY <1>c, StepIsSysStep, StepGuardInv
  <2> QED
    BY <2>1 DEF GuardInv, ProtInv
<1>2. BlockInv' /\ HeaderInv' /\ process' # "undetected"
  <2>0. CASE UNCHANGED vars
    <3>1. /\ UNCHANGED <<owned, pc, size, hdr, cell, gOtherBlocks, gFreeBlockHeader, numHeaders>>
          /\ UNCHANGED <<live, mpc, op, process>>
      BY <2>0 DEF vars, sysVars, callVars, dpVars, headerVars
    <3>2. RoutineInv' /\ LiveInv' /\ ClaimInv'
      <4>1. RoutineInv'
        BY <3>1, <1>c DEF BlockInv, RoutineInv, RoutineTypes, Shape
      <4>2. LiveInv'
        BY <3>1, <1>c DEF BlockInv, LiveInv, Mine
      <4>3. ClaimInv'
        <5>1. PICK t \in Threads : TRUE
          BY SysAllocAssumption
        <5> QED
          BY <3>1, <1>c, <5>1, SameClaims DEF BlockInv
      <4> QED
        BY <4>1, <4>2, <4>3
    <3>3. EmbeddedInv' /\ SeparateInv' /\ PoolInv'
      BY <3>1, <1>c DEF HeaderInv, EmbeddedInv, SeparateInv, PoolInv, HeaderInHand, Describes, Listed, Pooled
    <3> QED
      BY <1>c, <3>1, <3>2, <3>3 DEF BlockInv, HeaderInv
  <2>1. ASSUME NEW t \in Threads, MallocStep(t) PROVE BlockInv' /\ HeaderInv' /\ process' # "undetected"
    <3>1. process' = process \/ process' = "crashed"
      BY <2>1 DEF MallocStep, MallocDefault, MallocPages, MallocFailed, MallocEmbedded, MallocNeedsHeader,
                  GetBlockHeader, RefillHeaders, NoHeader, PushHeader, FillHeader, SignHeader
    <3>2. BlockInv' /\ HeaderInv'
      BY <2>1, <1>c, StepAllocated, StepMallocPages, StepMallocEmbedded, StepMallocNeedsHeader,
         StepPool, StepSignHeader DEF MallocStep
    <3> QED
      BY <1>c, <3>1, <3>2
  <2>2. ASSUME NEW t \in Threads, NEW n \in Sizes, Malloc(t, n)
        PROVE  BlockInv' /\ HeaderInv' /\ process' # "undetected"
    BY <2>2, <1>c, StepMalloc DEF Malloc
  <2>3. ASSUME NEW t \in Threads, NEW l \in live, FreeEmbedded(t, l) \/ FreeOther(t, l)
        PROVE  BlockInv' /\ HeaderInv' /\ process' # "undetected"
    <3>1. process' = process
      BY <2>3 DEF FreeEmbedded, FreeOther
    <3> QED
      BY <2>3, <3>1, <1>c, StepFree
  <2>4. ASSUME NEW t \in Threads, NEW l \in live, NEW n \in Sizes, ReallocEmbedded(t, l, n) \/ ReallocOther(t, l, n)
        PROVE  BlockInv' /\ HeaderInv' /\ process' # "undetected"
    <3>1. process' = process
      BY <2>4 DEF ReallocEmbedded, ReallocOther
    <3> QED
      BY <2>4, <3>1, <1>c, StepRealloc
  <2>5. ASSUME NEW t \in Threads, NEW l \in live, FreeDefault(t, l) \/ \E n \in Sizes : ReallocDefault(t, l, n)
        PROVE  BlockInv' /\ HeaderInv' /\ process' # "undetected"
    BY <2>5, <1>c, StepDefault
  <2>6. ASSUME NEW t \in Threads, NEW b \in Pages, NEW n \in Sizes, FreeAgain(t, b, n)
        PROVE  BlockInv' /\ HeaderInv' /\ process' # "undetected"
    BY <2>6, <1>c, StepFreeAgain
  <2>7. ASSUME NEW t \in Threads, ReallocRelease(t) \/ Return(t) \/ PageStep(t)
        PROVE  BlockInv' /\ HeaderInv' /\ process' # "undetected"
    <3>1. process' = process
      BY <2>7 DEF ReallocRelease, Return, PageStep
    <3> QED
      BY <2>7, <3>1, <1>1, <1>c, StepReallocRelease, StepReturn, StepPage
  <2> QED
    BY <2>0, <2>1, <2>2, <2>3, <2>4, <2>5, <2>6, <2>7 DEF Next, AppStep, Ended
<1> QED
  BY <1>1, <1>2 DEF DeadPageInv, DoubleFreeCaught

\* The invariant holds of every state the program can be in.
LEMMA AlwaysDeadPageInv ==
  ASSUME SizesFit PROVE Spec => []DeadPageInv
<1>1. DeadPageInv /\ [Next]_vars => DeadPageInv'
  BY StepDeadPageInv
<1> QED
  BY <1>1, InitDeadPageInv, PTL DEF Spec

-------------------------------------------------------------------------------
(* The theorems *)

\* The dead-page routines use the page layer the way it is specified: every call they make
\* of GetPages and ReleasePages is one a client that keeps the contract makes, and what they
\* pass to ReleasePages is a block they were given, with all of its pages or, where a page
\* was added for the header, with one less.
THEOREM RoutinesUseThePageLayer ==
  ASSUME SizesFit PROVE Spec => SysSpec
<1>1. Init => SysInit
  BY DEF Init
<1>2. DeadPageInv /\ [Next]_vars => [SysNext]_sysVars
  BY StepIsSysStep, InvariantParts
<1> QED
  BY <1>1, <1>2, AlwaysDeadPageInv, PTL DEF Spec, SysSpec

\* Whatever the application does after it has freed a block, a second free of it while it
\* is in the cache is not taken for a first one.
THEOREM DoubleFreeIsCaught ==
  ASSUME SizesFit PROVE Spec => []DoubleFreeCaught
<1>1. DeadPageInv => DoubleFreeCaught
  BY DEF DeadPageInv
<1> QED
  BY <1>1, AlwaysDeadPageInv, PTL

\* free and realloc recognise every block of the application for what it is.
THEOREM BlocksAreRecognised ==
  ASSUME SizesFit PROVE Spec => []BlockRecognised
<1>1. DeadPageInv => BlockRecognised
  <2> SUFFICES ASSUME DeadPageInv PROVE BlockRecognised
    OBVIOUS
  <2>c. PageInv /\ BlockInv /\ HeaderInv /\ BlocksGuarded
    BY InvariantParts
  <2>1. ASSUME NEW l \in live, ~Mine(l) PROVE ~EmbeddedMatch(l[1]) /\ Matches(l[1]) = {}
    <3>1. \A k \in live : Mine(k) => k[1] # l[1]
      BY <2>1 DEF Mine
    <3> QED
      BY <3>1, <2>c, NotRecognised
  <2>2. ASSUME NEW l \in live, Mine(l)
        PROVE  /\ MaybeEmbedded(l[1]) => prot[ProbePage(l[1])] = "live"
               /\ ~MarkedFree(l[1])
               /\ \/ EmbeddedMatch(l[1]) /\ hdr[ProbePage(l[1])].usize = l[2] /\ Matches(l[1]) = {}
                  \/ /\ ~EmbeddedMatch(l[1]) /\ Scanned(l[1])
                     /\ Cardinality(Matches(l[1])) = 1
                     /\ cell[gOtherBlocks[FirstMatch(l[1])]].usize = l[2]
    <3> DEFINE b == BasePage(l[1])
               n == PagesFor(l[2])
    <3>1. /\ b \in Pages /\ n \in 2 .. MaxBlockPages /\ <<b, n>> \in owned
          /\ l[1] = UserAddr(b, l[2]) /\ l[2] \in Nat
      BY <2>2, <2>c, LiveBlockIs
    <3>2. ProbePage(l[1]) = HeaderPage(b)
      BY <2>2, <2>c, Recognised
    <3>3. HeaderPage(b) \in Run(b, n) /\ HeaderPage(b) # DeadPage(b, n)
      <4> HIDE DEF b, n
      <4>1. b \in Nat /\ n \in Nat /\ n >= 2
        BY <3>1, Constants, SysAllocAssumption
      <4> QED
        BY <4>1, Constants DEF Run, HeaderPage, DeadPage
    <3>4. prot[HeaderPage(b)] = "live"
      <4> HIDE DEF b, n
      <4>1. Guarded(b, n)
        BY <3>1, <2>c DEF BlocksGuarded
      <4> QED
        BY <3>3, <4>1 DEF Guarded
    <3>5. CASE Embedded(l[2])
      <4>1. EmbeddedMatch(l[1]) /\ Matches(l[1]) = {} /\ hdr[ProbePage(l[1])] = HeaderOf(l)
        BY <2>2, <2>c, <3>5, Recognised
      <4>2. hdr[ProbePage(l[1])].usize = l[2] /\ hdr[ProbePage(l[1])].sig = "accutrak"
        BY <4>1, HeaderFields
      <4> QED
        BY <3>2, <3>4, <4>1, <4>2 DEF MarkedFree
    <3>6. CASE ~Embedded(l[2])
      <4>1. /\ ~EmbeddedMatch(l[1]) /\ Scanned(l[1])
            /\ \E i \in DOMAIN gOtherBlocks :
                 Matches(l[1]) = {i} /\ cell[gOtherBlocks[i]] = HeaderOf(l)
        BY <2>2, <2>c, <3>6, Recognised
      <4>2. PICK i \in DOMAIN gOtherBlocks :
                 Matches(l[1]) = {i} /\ cell[gOtherBlocks[i]] = HeaderOf(l)
        BY <4>1
      <4>3. Cardinality(Matches(l[1])) = 1
        BY <4>2, FS_Singleton
      <4>4. FirstMatch(l[1]) = i
        BY <4>2, <2>c, FirstMatchIs DEF HeaderInv
      <4>5. CheckUnderrun
        BY <3>1, <3>6, Constants, WayBack
      <4> QED
        BY <3>2, <3>4, <4>1, <4>2, <4>3, <4>4, <4>5, HeaderFields DEF MarkedFree
    <3> QED
      BY <3>5, <3>6
  <2> QED
    BY <2>1, <2>2 DEF BlockRecognised
<1> QED
  BY <1>1, AlwaysDeadPageInv, PTL

\* When no routine is in progress the page layer's blocks are the application's, one each.
THEOREM NoBlockIsLost ==
  ASSUME SizesFit PROVE Spec => []NoBlockLost
<1>1. DeadPageInv => NoBlockLost
  <2> SUFFICES ASSUME DeadPageInv, \A t \in Threads : mpc[t] = "app"
               PROVE  /\ Cardinality(owned) = Cardinality({l \in live : Mine(l)})
                      /\ \A o \in owned : \E l \in live : RawCandidate(l[1]) = o[1] * PageSize
    BY DEF NoBlockLost
  <2>c. PageInv /\ BlockInv /\ owned \subseteq Blocks
    BY InvariantParts, CallTypes DEF PageInv
  <2> DEFINE L == {l \in live : Mine(l)}
             block(l) == <<BasePage(l[1]), PagesFor(l[2])>>
  \* All claims are the application's.
  <2>1. ASSUME NEW k \in Kinds, NEW x, Claim(k, x) PROVE k = "live"
    <3>1. \A t \in Threads : op[t].pages = 0 /\ mpc[t] \notin PoolPC
      BY <2>c DEF BlockInv, RoutineInv, Shape, NoOp, PoolPC, IdPC
    <3> QED
      BY <2>1, <3>1 DEF Claim, Kinds
  <2>2. ASSUME NEW o \in owned PROVE \E l \in L : block(l) = o
    <3>1. PICK k \in Kinds : \E x : Claim(k, x) /\ BlockOf(k, x) = o
      BY <2>c DEF BlockInv, ClaimInv
    <3>2. PICK x : Claim(k, x) /\ BlockOf(k, x) = o
      BY <3>1
    <3>3. k = "live"
      BY <2>1, <3>2
    <3> QED
      BY <3>2, <3>3 DEF Claim, BlockOf
  <2>3. ASSUME NEW l \in L PROVE block(l) \in owned
    BY <2>3, <2>c, LiveBlockIs
  <2>4. ASSUME NEW l \in L, NEW m \in L, block(l) = block(m) PROVE l = m
    BY <2>4, <2>c, OneBlockAtAddress
  <2>5. IsFiniteSet(owned)
    <3>1. IsFiniteSet(Pages) /\ IsFiniteSet(1 .. MaxBlockPages)
      BY SysAllocAssumption, FS_Interval DEF Pages
    <3>2. IsFiniteSet(Blocks)
      BY <3>1, FS_Product DEF Blocks
    <3> QED
      BY <3>2, <2>c, FS_Subset
  <2> DEFINE f == [l \in L |-> block(l)]
  <2>6. f \in Injection(L, owned) /\ f \in Surjection(L, owned)
    <3> HIDE DEF L, block
    <3>1. f \in [L -> owned]
      BY <2>3
    <3>2. f \in Surjection(L, owned)
      BY <2>2, <3>1 DEF Surjection
    <3>3. f \in Injection(L, owned)
      BY <2>4, <3>1 DEF Injection, IsInjective
    <3> QED
      BY <3>2, <3>3
  <2>7. Cardinality(owned) = Cardinality(L)
    <3> HIDE DEF L, f
    <3> QED
      BY <2>5, <2>6, FS_Injection
  <2>8. ASSUME NEW o \in owned PROVE \E l \in live : RawCandidate(l[1]) = o[1] * PageSize
    <3>1. PICK l \in live : Mine(l) /\ block(l) = o
      BY <2>2
    <3>2. BasePage(l[1]) \in Pages /\ l[1] = UserAddr(BasePage(l[1]), l[2]) /\ l[2] \in Nat
      BY <3>1, <2>c, LiveBlockIs
    <3>3. RawCandidate(l[1]) = BasePage(l[1]) * PageSize
      BY <3>2, Constants, WayBack
    <3> QED
      BY <3>1, <3>3
  <2> QED
    BY <2>7, <2>8
<1> QED
  BY <1>1, AlwaysDeadPageInv, PTL

\* The place the mode watches, in pages.
LEMMA WatchedPage ==
  ASSUME NEW b \in Nat, NEW n, Fits(n), SizesFit, NEW l, l = <<UserAddr(b, n), n>>
  PROVE  Watched(l) \div PageSize = DeadPage(b, PagesFor(n))
<1> DEFINE s == PageSize
           p == PagesFor(n)
<1>c. s \in Nat \ {0} /\ b * s \in Nat
  BY Constants
<1>n. n \in Nat /\ p \in Nat /\ p >= 2 /\ RealSize(n) = p * s
  BY BlockPages, SysAllocAssumption
<1>1. CASE CheckUnderrun
  <2>1. Watched(l) = b * s + (s - 1)
    BY <1>1, <1>c DEF UserAddr, UserOffset, Watched
  <2>2. s - 1 \in Nat /\ s - 1 < s
    BY <1>c
  <2>3. (b * s + (s - 1)) \div s = b
    BY <2>2, <1>c, Layout!Quotient
  <2> QED
    BY <2>1, <2>3, <1>1 DEF DeadPage
<1>2. CASE ~CheckUnderrun
  <2> DEFINE q == p - 1
             f == FinalSize(n)
  <2>1. q \in Nat /\ b + q \in Nat /\ p * s = q * s + s /\ (b + q) * s = b * s + q * s
        /\ q * s \in Nat
    BY <1>n, <1>c
  <2>2. UserOffset(n) = p * s - s - f /\ UserOffset(n) \in Nat
    BY <1>2, <1>n, Places DEF UserOffset
  <2>3. Watched(l) = b * s + UserOffset(n) + f
    BY <1>2 DEF Watched, UserAddr
  <2>4. f \in Int
    <3>1. Layout!AlignedSize(n) \in Nat /\ \E k \in Nat : Layout!Slack(n) = k * s - Layout!AlignedSize(n)
      BY <1>n, Constants, Layout!WholePages
    <3> QED
      BY <3>1, SameLayout, Constants DEF FinalSize
  <2>5. Watched(l) = (b + q) * s + 0
    <3> HIDE DEF q, s, f, p
    <3> QED
      BY <2>1, <2>2, <2>3, <2>4, <1>c
  <2>6. ((b + q) * s + 0) \div s = b + q
    <3> HIDE DEF q
    <3> QED
      BY <2>1, <1>c, Layout!Quotient
  <2> QED
    BY <2>5, <2>6, <1>2, <1>n DEF DeadPage
<1> QED
  BY <1>1, <1>2

\* The pages the bytes of a block are in.
LEMMA UserPages ==
  ASSUME NEW b \in Nat, NEW n, Fits(n), SizesFit,
         NEW a \in UserAddr(b, n) .. (UserAddr(b, n) + n - 1)
  PROVE  /\ a \div PageSize \in Run(b, PagesFor(n))
         /\ a \div PageSize # DeadPage(b, PagesFor(n))
<1> DEFINE s == PageSize
           p == PagesFor(n)
           q == a \div s
           r == a % s
<1>c. s \in Nat \ {0} /\ b * s \in Nat
  BY Constants
<1>n. n \in Nat /\ p \in Nat /\ p >= 2 /\ RealSize(n) = p * s
  BY BlockPages, SysAllocAssumption
<1>u. /\ UserAddr(b, n) = b * s + UserOffset(n) /\ UserOffset(n) \in Nat
      /\ CheckUnderrun => UserOffset(n) = s /\ UserOffset(n) + n <= p * s
      /\ ~CheckUnderrun => UserOffset(n) + n <= p * s - s
  <2>1. PICK k \in Nat :
           /\ n <= k * PageSize /\ k * PageSize \in Nat /\ RealSize(n) \in Nat
           /\ ~Crowded(n) => RealSize(n) = k * PageSize + PageSize
           /\ CheckUnderrun => UserOffset(n) = PageSize
           /\ ~CheckUnderrun =>
                /\ UserOffset(n) \in Nat /\ UserOffset(n) >= HeaderSize
                /\ UserOffset(n) < PageSize
                /\ UserOffset(n) + n <= RealSize(n) - PageSize
    BY <1>n, Places
  <2> DEFINE z == k * s
  <2>2. n <= z /\ z \in Nat /\ (CheckUnderrun => p * s = z + s)
    BY <2>1, <1>n DEF Crowded
  <2>3. CheckUnderrun => UserOffset(n) = s
    BY <2>1
  <2>4. ~CheckUnderrun => UserOffset(n) \in Nat /\ UserOffset(n) + n <= p * s - s
    BY <2>1, <1>n
  <2> HIDE DEF z, s, p
  <2> QED
    BY <2>2, <2>3, <2>4, <1>c, <1>n, Constants DEF UserAddr, s
<1>a. a \in Nat /\ a >= b * s + UserOffset(n) /\ a < b * s + UserOffset(n) + n
  <2> HIDE DEF s
  <2> QED
    BY <1>u, <1>n, <1>c
<1>q. q \in Nat /\ r \in Nat /\ a = q * s + r /\ r < s
  BY <1>a, <1>c, Layout!DivMod
\* A page is at or after page e if its end is past the start of e, and before f if it starts before.
<1>1. ASSUME NEW e \in Nat, e * s <= a PROVE e <= q
  <2> SUFFICES ASSUME q < e PROVE FALSE
    BY <1>q
  <2>1. q * s + s <= e * s
    <3>1. q * s < e * s
      <4>1. PICK d \in Nat : e = q + 1 + d
        <5>1. e - (q + 1) \in Nat /\ e = q + 1 + (e - (q + 1))
          BY <1>q
        <5> QED
          BY <5>1
      <4> HIDE DEF q
      <4>2. e * s = q * s + s + d * s /\ d * s \in Nat
        BY <4>1, <1>q, <1>c
      <4> HIDE DEF s
      <4>3. q * s \in Nat
        BY <1>q, <1>c
      <4> QED
        BY <4>2, <4>3, <1>c
    <3> HIDE DEF q
    <3> QED
      BY <3>1, <1>q, <1>c, Layout!Multiples
  <2> HIDE DEF q, r, s
  <2>2. q * s \in Nat /\ e * s \in Nat
    BY <1>q, <1>c
  <2> QED
    BY <2>1, <2>2, <1>1, <1>q, <1>a, <1>c
<1>2. ASSUME NEW f \in Nat, a < f * s PROVE q < f
  <2> SUFFICES ASSUME f <= q PROVE FALSE
    BY <1>q
  <2>1. PICK d \in Nat : q = f + d
    <3>1. q - f \in Nat /\ q = f + (q - f)
      BY <1>q
    <3> QED
      BY <3>1
  <2> HIDE DEF q, r
  <2>2. q * s = f * s + d * s /\ d * s \in Nat /\ f * s \in Nat
    BY <2>1, <1>c
  <2> HIDE DEF s
  <2> QED
    BY <2>2, <1>2, <1>q
<1>3. CASE CheckUnderrun
  <2>1. (b + 1) * s = b * s + s /\ (b + p) * s = b * s + p * s /\ p * s \in Nat
    BY <1>c, <1>n
  <2>2. (b + 1) * s <= a /\ a < (b + p) * s
    <3> HIDE DEF s, p
    <3> QED
      BY <2>1, <1>3, <1>a, <1>u, <1>n, <1>c
  <2>3. b + 1 <= q /\ q < b + p
    <3>1. b + 1 \in Nat /\ b + p \in Nat
      BY <1>n
    <3> HIDE DEF q, s, p
    <3> QED
      BY <3>1, <2>2, <1>1, <1>2
  <2> QED
    BY <2>3, <1>3, <1>n, <1>q DEF Run, DeadPage
<1>4. CASE ~CheckUnderrun
  <2> DEFINE w == p - 1
  <2>1. w \in Nat /\ p * s = w * s + s /\ (b + w) * s = b * s + w * s /\ w * s \in Nat /\ b + w \in Nat
    <3>1. w \in Nat /\ p = w + 1
      BY <1>n
    <3> HIDE DEF w, p, s
    <3>2. w * s \in Nat /\ (w + 1) * s = w * s + s /\ (b + w) * s = b * s + w * s
      BY <3>1, <1>c
    <3> QED
      BY <3>1, <3>2
  <2>2. b * s <= a /\ a < (b + w) * s
    <3> HIDE DEF s, p, w
    <3> QED
      BY <2>1, <1>4, <1>a, <1>u, <1>n, <1>c
  <2>3. b <= q /\ q < b + w
    <3> HIDE DEF q, s, w
    <3> QED
      BY <2>1, <2>2, <1>1, <1>2
  <2> QED
    BY <2>3, <1>4, <1>n, <1>q DEF Run, DeadPage
<1> QED
  BY <1>3, <1>4

\* If the kernel never refuses, every byte of a block is accessible, and the byte the mode
\* watches traps, unless the block's pages were released as a shorter block before.
THEOREM UserBlocksAreGuarded ==
  ASSUME SizesFit, ~KernelRefuses PROVE Spec => []UserBlockGuarded
<1>1. DeadPageInv => UserBlockGuarded
  <2> SUFFICES ASSUME DeadPageInv, NEW l \in live, Mine(l)
               PROVE  \E o \in owned :
                        /\ \A a \in l[1] .. (l[1] + l[2] - 1) :
                             a \div PageSize \in Run(o[1], o[2]) /\ prot[a \div PageSize] = "live"
                        /\ o[1] \notin cut => prot[Watched(l) \div PageSize] = "dead"
    BY DEF UserBlockGuarded
  <2>c. PageInv /\ BlockInv /\ BlocksGuarded
    BY InvariantParts
  <2>0. PICK b, n, p : b = BasePage(l[1]) /\ n = l[2] /\ p = PagesFor(n)
    OBVIOUS
  <2>1. b \in Nat /\ Fits(n) /\ <<b, p>> \in owned /\ l[1] = UserAddr(b, n) /\ l = <<UserAddr(b, n), n>>
    BY <2>0, <2>c, LiveBlockIs, Constants
  <2>2. Guarded(b, p)
    BY <2>1, <2>c DEF BlocksGuarded
  <2>3. ASSUME NEW a \in UserAddr(b, n) .. (UserAddr(b, n) + n - 1)
        PROVE  a \div PageSize \in Run(b, p) /\ prot[a \div PageSize] = "live"
    <3>1. a \div PageSize \in Run(b, p) /\ a \div PageSize # DeadPage(b, p)
      BY <2>0, <2>1, UserPages
    <3> QED
      BY <3>1, <2>2 DEF Guarded
  <2>4. b \notin cut => prot[Watched(l) \div PageSize] = "dead"
    BY <2>0, <2>1, <2>2, WatchedPage DEF Guarded
  <2> QED
    BY <2>0, <2>1, <2>3, <2>4
<1> QED
  BY <1>1, AlwaysDeadPageInv, PTL
===============================================================================
