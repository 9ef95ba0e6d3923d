---------------------------- MODULE DeadPageLayout ----------------------------
(***************************************************************************)
(* The arithmetic of MallocBlockWithDeadPage and VerifyBlockWithDeadPage   *)
(* (src/src/MallocDeadPage.cpp): how many pages a request takes, where the *)
(* user block and its header lie in them, and what the release path        *)
(* recomputes from the header.  Sizes and offsets are in bytes; offsets    *)
(* are relative to the raw block.                                          *)
(***************************************************************************)
EXTENDS Integers

CONSTANTS
  PageSize,       \* PatchManager::GetPageSize
  HeaderSize,     \* sizeof(BlockWithDeadPageHeader)
  Alignment,      \* PatchManager::GetAlignment, a power of two in 1 .. 256
  CheckUnderrun   \* PatchManager::CheckUnderrun

\* What the arithmetic takes for granted; the modules that use it assume it.
LayoutConstants ==
  /\ PageSize \in Nat \ {0}
  /\ HeaderSize \in Nat \ {0}
  /\ Alignment \in Nat \ {0}
  /\ PageSize % Alignment = 0
  /\ HeaderSize + Alignment <= PageSize
  /\ CheckUnderrun \in BOOLEAN

\* The smallest multiple of m that is not below n.
RoundUp(n, m) == IF n % m > 0 THEN n + m - (n % m) ELSE n

\* iSize after the alignment, which is for overrun checking only.
AlignedSize(req) == IF CheckUnderrun THEN req ELSE RoundUp(req, Alignment)

\* lRealSize with the dead page added and rounded up to pages.
PagedSize(req) == RoundUp(AlignedSize(req) + PageSize, PageSize)

\* Bytes of the accessible pages the user block leaves over.
Slack(req) == PagedSize(req) - PageSize - AlignedSize(req)

\* Bug: no page is added for the header.
BugCrowded(req) == FALSE

\* Overrun checking puts the header before the user block: when there is no room for
\* it, one more page is taken.
Crowded(req) == ~CheckUnderrun /\ Slack(req) < HeaderSize

RealSize(req) == IF Crowded(req) THEN PagedSize(req) + PageSize ELSE PagedSize(req)

FinalSize(req) ==
  IF Crowded(req) THEN AlignedSize(req) + Slack(req) + Alignment ELSE AlignedSize(req)

\* lpUserAddr - lpRawBlock
UserOffset(req) == IF CheckUnderrun THEN PageSize ELSE RealSize(req) - PageSize - FinalSize(req)

\* Is the header in the block itself?  If not, it is taken from the header pool.
Embedded(req) ==
  IF CheckUnderrun
  THEN PageSize > FinalSize(req) /\ RealSize(req) - PageSize - FinalSize(req) >= HeaderSize
  ELSE UserOffset(req) >= HeaderSize

\* Where MallocBlockWithDeadPage writes an embedded header.
HeaderOffset(req) == IF CheckUnderrun THEN UserOffset(req) + PageSize - HeaderSize ELSE 0

\* The dead page of the block.
DeadOffset(req) == IF CheckUnderrun THEN 0 ELSE RealSize(req) - PageSize

\* Where VerifyBlockWithDeadPage looks for the header of the block at address user.
ProbeAddr(user) ==
  IF CheckUnderrun THEN user + PageSize - HeaderSize ELSE user - (user % PageSize)

\* The raw block VerifyBlockWithDeadPage expects the block at address user to have.
RawCandidate(user) == IF CheckUnderrun THEN user - PageSize ELSE user - (user % PageSize)

\* orRawSize: the size VerifyBlockWithDeadPage works out from mUserSize.
RawSize(req) == ((2 * PageSize + req - 1) \div PageSize) * PageSize
===============================================================================
