------------------------- MODULE DeadPageLayoutProofs -------------------------
(***************************************************************************)
(* The layout of the dead-page allocator holds for every request size, not *)
(* only for those a run sweeps over, and for every page, header and        *)
(* alignment size LayoutConstants admits.                                  *)
(***************************************************************************)
EXTENDS LayoutSweep, TLAPS

-------------------------------------------------------------------------------
(* Division *)

LEMMA DivMod ==
  ASSUME NEW n \in Nat, NEW m \in Nat \ {0}
  PROVE  /\ n \div m \in Nat /\ n % m \in Nat
         /\ n = m * (n \div m) + (n % m)
         /\ n % m < m
OBVIOUS

LEMMA Quotient ==
  ASSUME NEW k \in Nat, NEW r \in Nat, NEW m \in Nat \ {0}, r < m
  PROVE  (k * m + r) \div m = k /\ (k * m + r) % m = r
OBVIOUS

\* RoundUp gives the multiple of m it should.
LEMMA Rounded ==
  ASSUME NEW n \in Nat, NEW m \in Nat \ {0}
  PROVE  \E k \in Nat : RoundUp(n, m) = k * m /\ n <= k * m /\ k * m < n + m
<1> DEFINE q == n \div m
           r == n % m
<1>1. q \in Nat /\ r \in Nat /\ n = m * q + r /\ r < m
  BY DivMod
<1>2. m * q = q * m /\ (q + 1) * m = q * m + m /\ q * m \in Nat
  BY <1>1
<1>3. RoundUp(n, m) = IF r > 0 THEN n + m - r ELSE n
  BY DEF RoundUp
<1> HIDE DEF q, r
<1>4. CASE r > 0
  <2>1. RoundUp(n, m) = (q + 1) * m /\ n <= (q + 1) * m /\ (q + 1) * m < n + m
    BY <1>1, <1>2, <1>3, <1>4
  <2>2. q + 1 \in Nat
    BY <1>1
  <2> QED
    BY <2>1, <2>2
<1>5. CASE r = 0
  <2>1. RoundUp(n, m) = q * m /\ n <= q * m /\ q * m < n + m
    BY <1>1, <1>2, <1>3, <1>5
  <2> QED
    BY <1>1, <2>1
<1> QED
  BY <1>1, <1>4, <1>5

\* Of two multiples of m the greater is greater by m at least.
LEMMA Multiples ==
  ASSUME NEW m \in Nat \ {0}, NEW j \in Nat, NEW k \in Nat, j * m < k * m
  PROVE  j * m + m <= k * m
<1>1. j < k
  <2> SUFFICES ASSUME k <= j PROVE k * m <= j * m
    OBVIOUS
  <2>1. PICK d \in Nat : j = k + d
    <3>1. j - k \in Nat /\ j = k + (j - k)
      OBVIOUS
    <3> QED
      BY <3>1
  <2>2. j * m = k * m + d * m /\ d * m \in Nat
    BY <2>1
  <2> QED
    BY <2>2
<1>2. PICK d \in Nat : k = j + 1 + d
  <2>1. k - (j + 1) \in Nat /\ k = j + 1 + (k - (j + 1))
    BY <1>1
  <2> QED
    BY <2>1
<1>3. k * m = j * m + m + d * m /\ d * m \in Nat
  BY <1>2
<1> QED
  BY <1>3

-------------------------------------------------------------------------------
(* The pages of a block *)

\* The user space of a request takes k pages, and the dead page is one more.
LEMMA WholePages ==
  ASSUME LayoutConstants, NEW n \in Nat
  PROVE  \E k \in Nat :
           /\ PagedSize(n) = k * PageSize + PageSize
           /\ AlignedSize(n) \in Nat /\ n <= AlignedSize(n)
           /\ AlignedSize(n) <= k * PageSize
           /\ k * PageSize < AlignedSize(n) + PageSize
           /\ Slack(n) = k * PageSize - AlignedSize(n)
<1> DEFINE a == AlignedSize(n)
<1>c. PageSize \in Nat \ {0} /\ Alignment \in Nat \ {0}
  BY DEF LayoutConstants
<1>1. a \in Nat /\ n <= a
  <2>1. PICK j \in Nat : RoundUp(n, Alignment) = j * Alignment /\ n <= j * Alignment
    BY <1>c, Rounded
  <2>2. j * Alignment \in Nat
    BY <1>c
  <2> QED
    BY <2>1, <2>2 DEF AlignedSize
<1> HIDE DEF a
<1>2. PICK j \in Nat : /\ RoundUp(a + PageSize, PageSize) = j * PageSize
                       /\ a + PageSize <= j * PageSize
                       /\ j * PageSize < (a + PageSize) + PageSize
  <2>1. a + PageSize \in Nat
    BY <1>1, <1>c
  <2> QED
    BY <2>1, <1>c, Rounded
<1>3. j # 0
  BY <1>1, <1>2, <1>c
<1>4. PICK k \in Nat : j = k + 1
  <2>1. j - 1 \in Nat /\ j = (j - 1) + 1
    BY <1>3
  <2> QED
    BY <2>1
<1>5. j * PageSize = k * PageSize + PageSize /\ k * PageSize \in Nat
  BY <1>4, <1>c
<1>6. PagedSize(n) = k * PageSize + PageSize
  BY <1>2, <1>5 DEF PagedSize, a
<1>7. Slack(n) = k * PageSize - a
  BY <1>1, <1>5, <1>6, <1>c DEF Slack, a
<1> QED
  BY <1>1, <1>2, <1>5, <1>6, <1>7, <1>c DEF a

\* In overrun checking both the aligned size and the page size are multiples of the
\* alignment, and so is what lies between them.
LEMMA AlignedPages ==
  ASSUME LayoutConstants, ~underrun, NEW n \in Nat, NEW k \in Nat
  PROVE  \E i, j \in Nat : AlignedSize(n) = i * Alignment /\ k * PageSize = j * Alignment
<1>c. PageSize \in Nat \ {0} /\ Alignment \in Nat \ {0} /\ PageSize % Alignment = 0
  BY DEF LayoutConstants
<1>1. PICK i \in Nat : AlignedSize(n) = i * Alignment
  BY <1>c, Rounded DEF AlignedSize
<1>2. PICK q \in Nat : PageSize = Alignment * q
  <2> DEFINE d == PageSize \div Alignment
  <2>1. d \in Nat /\ PageSize = Alignment * d + (PageSize % Alignment)
    BY <1>c, DivMod
  <2> HIDE DEF d
  <2>2. PageSize = Alignment * d
    BY <2>1, <1>c
  <2> QED
    BY <2>1, <2>2
<1>3. k * PageSize = (k * q) * Alignment /\ k * q \in Nat
  BY <1>2, <1>c
<1> QED
  BY <1>1, <1>3

LEMMA AlignedSlack ==
  ASSUME LayoutConstants, ~underrun, NEW n \in Nat
  PROVE  Slack(n) % Alignment = 0 /\ (PageSize - Alignment) % Alignment = 0
<1>c. PageSize \in Nat \ {0} /\ Alignment \in Nat \ {0} /\ Alignment <= PageSize
  BY DEF LayoutConstants
<1>1. PICK k \in Nat : /\ AlignedSize(n) <= k * PageSize
                       /\ Slack(n) = k * PageSize - AlignedSize(n)
  BY WholePages
<1>2. ASSUME NEW i \in Nat, NEW j \in Nat, i * Alignment <= j * Alignment
      PROVE  (j * Alignment - i * Alignment) % Alignment = 0
  <2>1. i <= j
    <3> SUFFICES ASSUME j < i PROVE FALSE
      OBVIOUS
    <3>1. PICK d \in Nat : i = j + 1 + d
      <4>1. i - (j + 1) \in Nat /\ i = j + 1 + (i - (j + 1))
        OBVIOUS
      <4> QED
        BY <4>1
    <3>2. i * Alignment = j * Alignment + Alignment + d * Alignment /\ d * Alignment \in Nat
      BY <3>1, <1>c
    <3> QED
      BY <3>2, <1>2, <1>c
  <2>2. PICK d \in Nat : j = i + d
    <3>1. j - i \in Nat /\ j = i + (j - i)
      BY <2>1
    <3> QED
      BY <3>1
  <2>3. j * Alignment - i * Alignment = d * Alignment + 0
    BY <2>2, <1>c
  <2> QED
    BY <2>3, <1>c, Quotient
<1>3. Slack(n) % Alignment = 0
  <2>1. PICK i \in Nat, j \in Nat : AlignedSize(n) = i * Alignment /\ k * PageSize = j * Alignment
    BY AlignedPages
  <2> QED
    BY <2>1, <1>1, <1>2
<1>4. (PageSize - Alignment) % Alignment = 0
  <2>1. PICK j \in Nat : 1 * PageSize = j * Alignment
    BY AlignedPages
  <2>2. PageSize = j * Alignment /\ 1 * Alignment = Alignment /\ 1 * Alignment <= j * Alignment
    BY <2>1, <1>c
  <2>3. (j * Alignment - 1 * Alignment) % Alignment = 0
    BY <2>2, <1>2
  <2> QED
    BY <2>2, <2>3
<1> QED
  BY <1>3, <1>4

\* Where the user block starts and where the dead page is, in either mode.
LEMMA Places ==
  ASSUME LayoutConstants, underrun \in BOOLEAN, NEW n \in Nat
  PROVE  \E k \in Nat :
           /\ n <= k * PageSize /\ k * PageSize \in Nat /\ RealSize(n) \in Nat
           /\ ~Crowded(n) => RealSize(n) = k * PageSize + PageSize
           /\ underrun =>
                /\ k * PageSize < n + PageSize
                /\ UserOffset(n) = PageSize
                /\ AlignedSize(n) = n /\ FinalSize(n) = n
                /\ ~Crowded(n)
           /\ ~underrun =>
                /\ UserOffset(n) \in Nat /\ UserOffset(n) >= HeaderSize
                /\ UserOffset(n) < PageSize
                /\ UserOffset(n) % Alignment = 0
                /\ UserOffset(n) + n <= RealSize(n) - PageSize
                /\ RealSize(n) >= k * PageSize + PageSize
<1>c. /\ PageSize \in Nat \ {0} /\ Alignment \in Nat \ {0} /\ HeaderSize \in Nat \ {0}
      /\ HeaderSize + Alignment <= PageSize
  BY DEF LayoutConstants
<1>1. PICK k \in Nat : /\ PagedSize(n) = k * PageSize + PageSize
                       /\ AlignedSize(n) \in Nat /\ n <= AlignedSize(n)
                       /\ AlignedSize(n) <= k * PageSize
                       /\ k * PageSize < AlignedSize(n) + PageSize
                       /\ Slack(n) = k * PageSize - AlignedSize(n)
  BY WholePages
<1>2. k * PageSize \in Nat
  BY <1>c
<1> DEFINE u == k * PageSize
           a == AlignedSize(n)
<1>3. CASE underrun
  <2>1. a = n /\ ~Crowded(n) /\ FinalSize(n) = n /\ UserOffset(n) = PageSize
    BY <1>3 DEF AlignedSize, Crowded, FinalSize, UserOffset
  <2>2. RealSize(n) = u + PageSize /\ RealSize(n) \in Nat
    BY <1>1, <1>2, <2>1, <1>c DEF RealSize
  <2> QED
    BY <1>1, <1>2, <1>3, <2>1, <2>2
<1>4. CASE ~underrun /\ ~Crowded(n)
  <2>1. RealSize(n) = u + PageSize /\ FinalSize(n) = a /\ Slack(n) >= HeaderSize
    BY <1>1, <1>2, <1>4, <1>c DEF Crowded, FinalSize, RealSize
  <2>2. UserOffset(n) = u - a /\ UserOffset(n) = Slack(n)
    BY <1>1, <1>2, <1>4, <2>1, <1>c DEF UserOffset
  <2>3. UserOffset(n) % Alignment = 0
    BY <2>2, <1>4, AlignedSlack
  <2> HIDE DEF u, a
  <2>4. a \in Nat /\ u \in Nat /\ n <= a /\ a <= u /\ u < a + PageSize
    BY <1>1, <1>2 DEF u, a
  <2>5. UserOffset(n) \in Nat /\ UserOffset(n) >= HeaderSize /\ UserOffset(n) < PageSize
    BY <2>1, <2>2, <2>4, <1>c
  <2>6. UserOffset(n) + n <= RealSize(n) - PageSize /\ RealSize(n) >= u + PageSize
    BY <2>1, <2>2, <2>4, <1>c
  <2>7. n <= u /\ RealSize(n) \in Nat
    BY <2>1, <2>4, <1>c
  <2> QED
    BY <1>4, <2>1, <2>3, <2>4, <2>5, <2>6, <2>7 DEF u
<1>5. CASE ~underrun /\ Crowded(n)
  <2>1. /\ RealSize(n) = u + PageSize + PageSize
        /\ FinalSize(n) = a + Slack(n) + Alignment
    BY <1>1, <1>5 DEF FinalSize, RealSize
  <2> HIDE DEF u, a
  <2>2. a \in Nat /\ u \in Nat /\ n <= a /\ a <= u /\ u < a + PageSize /\ Slack(n) = u - a
    BY <1>1, <1>2 DEF u, a
  <2>3. UserOffset(n) = PageSize - Alignment
    BY <2>1, <2>2, <1>5, <1>c DEF UserOffset
  <2>4. UserOffset(n) % Alignment = 0
    BY <2>3, <1>5, AlignedSlack
  <2>5. UserOffset(n) \in Nat /\ UserOffset(n) >= HeaderSize /\ UserOffset(n) < PageSize
    BY <2>3, <1>c
  <2>6. UserOffset(n) + n <= RealSize(n) - PageSize /\ RealSize(n) >= u + PageSize
    BY <2>1, <2>2, <2>3, <1>c
  <2>7. n <= u /\ RealSize(n) \in Nat
    BY <2>1, <2>2, <1>c
  <2> QED
    BY <1>5, <2>2, <2>4, <2>5, <2>6, <2>7 DEF u
<1> QED
  BY <1>3, <1>4, <1>5

-------------------------------------------------------------------------------
(* The theorems *)

\* The requests of the sweep, and the constants the layout relies on.
SweepInv == req \in Nat /\ underrun \in BOOLEAN /\ LayoutConstants

LEMMA InitSweepInv == SweepInit => SweepInv
BY DEF SweepInit, SweepInv

LEMMA StepSweepInv == SweepInv /\ [SweepNext]_<<req, underrun>> => SweepInv'
<1> SUFFICES ASSUME SweepInv, [SweepNext]_<<req, underrun>> PROVE SweepInv'
  OBVIOUS
<1>1. LayoutConstants' /\ underrun' \in BOOLEAN
  BY DEF SweepInv, SweepNext, LayoutConstants
<1>2. req' \in Nat
  <2>1. CASE SweepNext
    <3>1. (req + 1) % (MaxRequest + 1) \in Nat
      <4>1. req + 1 \in Nat /\ MaxRequest + 1 \in Nat \ {0}
        BY SweepAssumption DEF SweepInv
      <4> QED
        BY <4>1, DivMod
    <3> QED
      BY <2>1, <3>1 DEF SweepNext
  <2> QED
    BY <2>1 DEF SweepInv
<1> QED
  BY <1>1, <1>2 DEF SweepInv

\* For every request size (but 0 in underrun checking), user space, header and dead page
\* lie in the raw block and apart, and the user address is aligned.
LEMMA BlocksArePlaced == Sweep => []UserBlockPlaced
<1>1. SweepInv => UserBlockPlaced
  <2> SUFFICES ASSUME SweepInv, underrun => req > 0 PROVE UserBlockPlaced
    BY DEF UserBlockPlaced
  <2>c. /\ PageSize \in Nat \ {0} /\ Alignment \in Nat \ {0} /\ HeaderSize \in Nat \ {0}
        /\ HeaderSize + Alignment <= PageSize /\ PageSize % Alignment = 0
        /\ LayoutConstants /\ underrun \in BOOLEAN /\ req \in Nat
    BY DEF SweepInv, LayoutConstants
  <2>1. PICK k \in Nat :
           /\ req <= k * PageSize /\ k * PageSize \in Nat /\ RealSize(req) \in Nat
           /\ ~Crowded(req) => RealSize(req) = k * PageSize + PageSize
           /\ underrun =>
                /\ k * PageSize < req + PageSize
                /\ UserOffset(req) = PageSize
                /\ AlignedSize(req) = req /\ FinalSize(req) = req
                /\ ~Crowded(req)
           /\ ~underrun =>
                /\ UserOffset(req) \in Nat /\ UserOffset(req) >= HeaderSize
                /\ UserOffset(req) < PageSize
                /\ UserOffset(req) % Alignment = 0
                /\ UserOffset(req) + req <= RealSize(req) - PageSize
                /\ RealSize(req) >= k * PageSize + PageSize
    BY <2>c, Places
  <2>2. CASE ~underrun
    <3>1. HeaderOffset(req) = 0 /\ DeadOffset(req) = RealSize(req) - PageSize
      BY <2>2 DEF HeaderOffset, DeadOffset
    <3> QED
      BY <2>c, <2>1, <2>2, <3>1 DEF UserBlockPlaced, InBlock, Overlap
  <2>3. CASE underrun
    <3>1. /\ HeaderOffset(req) = PageSize + PageSize - HeaderSize /\ DeadOffset(req) = 0
          /\ UserOffset(req) = PageSize
      BY <2>1, <2>3 DEF HeaderOffset, DeadOffset
    <3> DEFINE u == k * PageSize
    <3>2. u \in Nat /\ req <= u /\ RealSize(req) = u + PageSize
      BY <2>1, <2>3
    <3>3. PageSize <= u
      <4>1. 0 * PageSize < k * PageSize
        BY <2>1, <2>3, <2>c
      <4> QED
        BY <4>1, <2>c, Multiples
    <3>4. Embedded(req) => req + HeaderSize <= PageSize
      <4> SUFFICES ASSUME Embedded(req) PROVE req + HeaderSize <= PageSize
        OBVIOUS
      <4>1. PageSize > req /\ u - req >= HeaderSize
        BY <2>1, <2>3, <2>c, <3>2 DEF Embedded
      <4>2. u = PageSize
        <5>1. u < PageSize + PageSize
          BY <2>1, <2>3, <2>c, <4>1
        <5>2. ~(1 * PageSize < k * PageSize)
          BY <5>1, <2>c, Multiples
        <5> QED
          BY <5>2, <3>2, <3>3, <2>c
      <4> QED
        BY <4>1, <4>2, <2>c
    <3> HIDE DEF u
    <3>5. PageSize % Alignment = 0
      BY <2>c
    <3> QED
      BY <2>c, <3>1, <3>2, <3>3, <3>4, <3>5 DEF UserBlockPlaced, InBlock, Overlap
  <2> QED
    BY <2>2, <2>3, <2>c
<1> QED
  BY <1>1, InitSweepInv, StepSweepInv, PTL DEF Sweep

\* A user address alone leads free to the header malloc wrote and to the raw block, for
\* every request size and every page the block may start at.
LEMMA FoundAgain ==
  ASSUME LayoutConstants, underrun \in BOOLEAN, NEW n \in Nat, NEW c \in Nat
  PROVE  LET base == c * PageSize
         IN  /\ RawCandidate(base + UserOffset(n)) = base
             /\ Embedded(n) => ProbeAddr(base + UserOffset(n)) = base + HeaderOffset(n)
<1>c. PageSize \in Nat \ {0} /\ HeaderSize \in Nat \ {0} /\ c * PageSize \in Nat
  BY DEF LayoutConstants
<1>1. CASE underrun
  <2>1. UserOffset(n) = PageSize
    BY <1>1 DEF UserOffset
  <2> QED
    BY <2>1, <1>1, <1>c DEF RawCandidate, ProbeAddr, HeaderOffset
<1>2. CASE ~underrun
  <2>1. UserOffset(n) \in Nat /\ UserOffset(n) < PageSize
    BY <1>2, Places
  <2>2. (c * PageSize + UserOffset(n)) % PageSize = UserOffset(n)
    BY <2>1, <1>c, Quotient
  <2> QED
    BY <2>1, <2>2, <1>2, <1>c DEF RawCandidate, ProbeAddr, HeaderOffset
<1> QED
  BY <1>1, <1>2

\* The release recomputes the size from the request, by another formula, which knows
\* nothing of a page added for the header.
LEMMA SizeAgain ==
  ASSUME LayoutConstants, underrun \in BOOLEAN, NEW n \in Nat
  PROVE  RawSize(n) = PagedSize(n)
<1>c. PageSize \in Nat \ {0} /\ Alignment \in Nat \ {0} /\ HeaderSize \in Nat \ {0}
  BY DEF LayoutConstants
<1>1. PICK k \in Nat : /\ PagedSize(n) = k * PageSize + PageSize
                       /\ AlignedSize(n) \in Nat /\ n <= AlignedSize(n)
                       /\ AlignedSize(n) <= k * PageSize
                       /\ k * PageSize < AlignedSize(n) + PageSize
                       /\ Slack(n) = k * PageSize - AlignedSize(n)
  BY WholePages
<1> DEFINE u == k * PageSize
<1>2. u \in Nat /\ PagedSize(n) = u + PageSize
  BY <1>1, <1>c
\* The request itself, not only its aligned size, needs the last of the pages.
<1>3. n <= u /\ u < n + PageSize
  <2>1. CASE underrun
    BY <2>1, <1>1, <1>2 DEF AlignedSize
  <2>2. CASE ~underrun
    <3>1. PICK i \in Nat, j \in Nat : AlignedSize(n) = i * Alignment /\ u = j * Alignment
      BY <2>2, AlignedPages
    <3>2. PICK q \in Nat : 1 * PageSize = q * Alignment
      BY <2>2, AlignedPages
    <3>3. PICK l \in Nat : RoundUp(n, Alignment) = l * Alignment /\ l * Alignment < n + Alignment
      BY <1>c, Rounded
    <3>4. AlignedSize(n) < n + Alignment
      BY <3>3, <2>2 DEF AlignedSize
    <3>5. AlignedSize(n) + PageSize = (i + q) * Alignment /\ i + q \in Nat
      BY <3>1, <3>2, <1>c
    <3>6. u + Alignment <= AlignedSize(n) + PageSize
      <4>1. j * Alignment < (i + q) * Alignment
        BY <1>1, <3>1, <3>5
      <4> QED
        BY <4>1, <3>1, <3>5, <1>c, Multiples
    <3> HIDE DEF u
    <3>7. n <= u
      BY <1>1, <1>2 DEF u
    <3> QED
      BY <3>4, <3>6, <3>7, <1>1, <1>2, <1>c
  <2> QED
    BY <2>1, <2>2
<1>4. RawSize(n) = u + PageSize
  <2>1. PICK r \in Nat : 2 * PageSize + n - 1 = (u + PageSize) + r /\ r < PageSize
    <3> DEFINE r == PageSize + n - 1 - u
    <3>1. r \in Nat /\ r < PageSize /\ 2 * PageSize + n - 1 = (u + PageSize) + r
      <4> HIDE DEF u
      <4> QED
        BY <1>2, <1>3, <1>c
    <3> HIDE DEF r
    <3> QED
      BY <3>1
  <2>2. u + PageSize = (k + 1) * PageSize /\ k + 1 \in Nat
    BY <1>c
  <2>3. 2 * PageSize + n - 1 = (k + 1) * PageSize + r
    BY <2>1, <2>2
  <2>4. (2 * PageSize + n - 1) \div PageSize = k + 1
    <3>1. ((k + 1) * PageSize + r) \div PageSize = k + 1
      <4> DEFINE j == k + 1
      <4>1. j \in Nat
        OBVIOUS
      <4> HIDE DEF j
      <4>2. (j * PageSize + r) \div PageSize = j
        BY <2>1, <4>1, <1>c, Quotient
      <4> QED
        BY <4>2 DEF j
    <3> QED
      BY <2>3, <3>1
  <2> QED
    BY <2>2, <2>4 DEF RawSize
<1> QED
  BY <1>2, <1>4

\* For every request size free finds the header and the raw block, and releases as many
\* pages as malloc took, unless the header needed a page of its own.
LEMMA HeadersAreFound == Sweep => []HeaderFoundAgain
<1>1. SweepInv => HeaderFoundAgain
  <2> SUFFICES ASSUME SweepInv PROVE HeaderFoundAgain
    OBVIOUS
  <2>c. /\ LayoutConstants /\ underrun \in BOOLEAN /\ req \in Nat
        /\ PageSize \in Nat \ {0}
    BY DEF SweepInv, LayoutConstants
  <2>1. ~underrun => Embedded(req)
    BY <2>c, Places DEF Embedded
  <2>2. ASSUME NEW base \in {PageSize, 7 * PageSize}
        PROVE  /\ RawCandidate(base + UserOffset(req)) = base
               /\ Embedded(req) => ProbeAddr(base + UserOffset(req)) = base + HeaderOffset(req)
    <3>1. PICK c \in Nat : base = c * PageSize
      <4>1. PageSize = 1 * PageSize
        BY <2>c
      <4> QED
        BY <4>1
    <3> QED
      BY <2>c, <3>1, FoundAgain
  <2>3. ~Crowded(req) => RawSize(req) = RealSize(req)
    BY <2>c, SizeAgain DEF RealSize
  <2> QED
    BY <2>1, <2>2, <2>3 DEF HeaderFoundAgain
<1> QED
  BY <1>1, InitSweepInv, StepSweepInv, PTL DEF Sweep

\* Blocks of every size are laid out as the dead-page routines need it: nothing of a block
\* overlaps, and free finds again what malloc has put where.
THEOREM BlocksAreLaidOut == Sweep => []BlockLaidOut
<1>1. UserBlockPlaced /\ HeaderFoundAgain => BlockLaidOut
  BY DEF BlockLaidOut
<1> QED
  BY <1>1, BlocksArePlaced, HeadersAreFound, PTL
===============================================================================
