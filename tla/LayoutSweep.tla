----------------------------- MODULE LayoutSweep ------------------------------
(***************************************************************************)
(* Sweeps the layout arithmetic of the dead-page allocator over all request*)
(* sizes up to MaxRequest, for overrun and for underrun checking, with the *)
(* page, header and alignment sizes of the 64-bit Linux build.             *)
(***************************************************************************)
EXTENDS Integers

CONSTANTS
  PageSize, HeaderSize, Alignment,
  MaxRequest            \* bound: the largest request that is examined

ASSUME SweepAssumption == MaxRequest \in Nat

VARIABLES
  req,                  \* the request examined
  underrun              \* is the sweep for underrun checking?

INSTANCE DeadPageLayout WITH CheckUnderrun <- underrun

SweepInit == req = 0 /\ underrun \in BOOLEAN /\ LayoutConstants
SweepNext == req' = (req + 1) % (MaxRequest + 1) /\ UNCHANGED underrun
Sweep == SweepInit /\ [][SweepNext]_<<req, underrun>>

InBlock(lo, hi) == 0 <= lo /\ hi <= RealSize(req)
Overlap(lo1, hi1, lo2, hi2) == lo1 < hi2 /\ lo2 < hi1

\* The user block lies in the accessible pages of its own raw block, aligned, and an
\* embedded header lies there too without touching it.  (A block of size 0 gets no page
\* for the user in underrun checking.)
UserBlockPlaced ==
  (underrun => req > 0) =>
    /\ InBlock(UserOffset(req), UserOffset(req) + req)
    /\ ~Overlap(UserOffset(req), UserOffset(req) + req, DeadOffset(req), DeadOffset(req) + PageSize)
    /\ UserOffset(req) % Alignment = 0
    /\ Embedded(req) =>
         /\ InBlock(HeaderOffset(req), HeaderOffset(req) + HeaderSize)
         /\ ~Overlap(HeaderOffset(req), HeaderOffset(req) + HeaderSize,
                     UserOffset(req), UserOffset(req) + req)
         /\ ~Overlap(HeaderOffset(req), HeaderOffset(req) + HeaderSize,
                     DeadOffset(req), DeadOffset(req) + PageSize)

\* VerifyBlockWithDeadPage looks for the header where MallocBlockWithDeadPage wrote it,
\* whatever page the raw block starts at.  For overrun checking the header is always in
\* the block (the "Internal error" abort is never reached).  The release then recomputes
\* the size the block has, unless it got one more page for its header.
HeaderFoundAgain ==
  /\ ~underrun => Embedded(req)
  /\ \A base \in {PageSize, 7 * PageSize} :
       /\ RawCandidate(base + UserOffset(req)) = base
       /\ Embedded(req) => ProbeAddr(base + UserOffset(req)) = base + HeaderOffset(req)
  /\ ~Crowded(req) => RawSize(req) = RealSize(req)

\* Every block is laid out so that its bytes, its header and its dead page are apart, and so
\* that free, which is given the user address alone, finds all of it again.
BlockLaidOut == UserBlockPlaced /\ HeaderFoundAgain
===============================================================================
