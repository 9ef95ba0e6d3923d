---------------------------- MODULE InternalBuffer ----------------------------
(***************************************************************************)
(* The memory the replay tool keeps its own entries in (GetBlockInternal   *)
(* of src/src/MallocReplay.cpp), so that they do not disturb the heap that *)
(* is measured.  Chunks from the system are cut up from the head of one    *)
(* list of free nodes; what is released goes back to its head.  Nodes are  *)
(* never joined again, and a request takes the first node as it comes: its *)
(* size is not looked at, except to split it.  The tool asks for entries   *)
(* of one size only (AllocatedBlock when it replays, OutstandingBlock when *)
(* it analyses).  Every operation runs under gInternalBufferLock.          *)
(***************************************************************************)
EXTENDS Integers, Sequences

CONSTANTS
  ChunkSize,   \* what GrowInternalBuffer asks the system for
  NodeSize,    \* sizeof(SINGLE_LINK_LIST_NODE), which also heads every chunk
  EntrySize    \* sz: the size of an entry

\* A node's header fits into an entry, and an entry into a new chunk.
ASSUME BufferAssumption ==
  /\ ChunkSize \in Nat /\ NodeSize \in Nat \ {0} /\ EntrySize \in Nat
  /\ NodeSize <= EntrySize
  /\ NodeSize + EntrySize <= ChunkSize

VARIABLE
  pool         \* the buffer: see EmptyPool

\* top: the address the system gives the next chunk; chunks: gRawChuncks, their
\* addresses; free: gFreeInternalBlocks; handed: the addresses of the entries in use.
EmptyPool == [top |-> 0, chunks |-> {}, free |-> <<>>, handed |-> {}]

\* GrowInternalBuffer, called when no node is left: one node, behind the chunk's header.
Grown(p) ==
  [top |-> p.top + ChunkSize,
   chunks |-> p.chunks \cup {p.top},
   free |-> <<[at |-> p.top + NodeSize, mSize |-> ChunkSize - NodeSize]>>,
   handed |-> p.handed]

\* The node a request pops, and the list it leaves: what is behind the entry goes back
\* when it is large enough for another.
Stocked(p) == IF p.free = <<>> THEN Grown(p) ELSE p
Popped(p) == Head(Stocked(p).free)
Remainder(node) == [at |-> node.at + EntrySize, mSize |-> node.mSize - EntrySize]
Splits(node) == node.mSize >= 2 * EntrySize

\* Bug: what is behind the entry goes back whatever its size.
BugGot(p) ==
  LET node == Popped(p)
      rest == Tail(Stocked(p).free)
  IN  [Stocked(p) EXCEPT !.free = <<Remainder(node)>> \o rest,
                         !.handed = p.handed \cup {node.at}]

\* The first node is taken from a stock that has one.
HandedOut(p) ==
  LET rest == Tail(p.free)
  IN  [top |-> p.top,
       chunks |-> p.chunks,
       free |-> IF Splits(Head(p.free)) THEN <<Remainder(Head(p.free))>> \o rest ELSE rest,
       handed |-> p.handed \cup {Head(p.free).at}]
Got(p) == HandedOut(Stocked(p))

\* ReleaseBlockInternal: the node has the size of an entry, whatever it had before.
Released(p, a) ==
  [top |-> p.top,
   chunks |-> p.chunks,
   free |-> <<[at |-> a, mSize |-> EntrySize]>> \o p.free,
   handed |-> p.handed \ {a}]

GetBlockInternal == pool' = Got(pool)
ReleaseBlockInternal == \E a \in pool.handed : pool' = Released(pool, a)

PoolInit == pool = EmptyPool
PoolNext == GetBlockInternal \/ ReleaseBlockInternal
PoolSpec == PoolInit /\ [][PoolNext]_pool

-------------------------------------------------------------------------------
Apart(a, n, b, m) == a + n <= b \/ b + m <= a

InChunk(p, a, n) ==
  \E c \in p.chunks : c + NodeSize <= a /\ a + n <= c + ChunkSize

Disjoint(p) ==
  /\ \A a, b \in p.handed : a # b => Apart(a, EntrySize, b, EntrySize)
  /\ \A a \in p.handed, i \in DOMAIN p.free :
       Apart(a, EntrySize, p.free[i].at, p.free[i].mSize)
  /\ \A i, j \in DOMAIN p.free : i # j =>
       Apart(p.free[i].at, p.free[i].mSize, p.free[j].at, p.free[j].mSize)
  /\ \A a \in p.handed : InChunk(p, a, EntrySize)
  /\ \A i \in DOMAIN p.free : InChunk(p, p.free[i].at, p.free[i].mSize)

\* Every entry and every free node lies in a chunk, behind its header, and no byte is in
\* two of them.  A request takes whatever node comes first, so this rests on no node
\* ever being smaller than an entry.
BlocksApart == Disjoint(pool)
===============================================================================
