----------------------------- MODULE ReplayProofs -----------------------------
(***************************************************************************)
(* The replay tool, for any logs, options, sizes of the buffers and number *)
(* of threads.                                                             *)
(*                                                                         *)
(* The disk thread never fills the buffer the controller and the workers   *)
(* read from (Replay!BufferNotOverwritten).  By itself this is not         *)
(* inductive: the controller takes a buffer over when the status of the    *)
(* disk thread's job is not "read", but the disk thread reads on from its  *)
(* own look at that status.  It is enough that ReadFile clears the status  *)
(* last, and that Stop, which does overwrite a job that is being read,     *)
(* comes when no buffer is taken over any more (BufferInv).                *)
(*                                                                         *)
(* Every job is the operation with the number the workers count for it     *)
(* (BatchInLog), between two batches the heap is the one the logged        *)
(* program had (HeapAsLogged), and the nodes are counted right             *)
(* (NodesExact).  For this the invariant says, one upon the other, that    *)
(*   - what lies in front of the controller is the file from the start of  *)
(*     the next record on, without a gap, and the batch is the operations  *)
(*     in front of it (ReaderInv);                                         *)
(*   - a worker not past the batch is counted in gNumWorkingThreads, the   *)
(*     last of them alone lets the controller go on (WorkerInv);           *)
(*   - each operation executed has left in the heap and in one table, its  *)
(*     thread's or the shared one as its flag says, the block it made,     *)
(*     until one of those executed released it (BlocksInv).                *)
(* They hold for every log until the controller takes the buffer it has    *)
(* used up again (the variable again).  It never does on a log behind      *)
(* whose timestamps there is more than the buffer keeps in reserve, or     *)
(* with timestamps ignored (LastBatchFits, ReplayedOnce).                  *)
(*                                                                         *)
(* First come the buffer the tool's entries live in and the two modes that *)
(* execute nothing.  GetBlockInternal and ReleaseBlockInternal keep the    *)
(* entries they hand out apart (InternalBuffer!BlocksApart), for chunks,   *)
(* nodes and entries of any size that fit into each other.  Disjointness   *)
(* alone is not inductive: the head of the list is handed out without a    *)
(* look at its size, so no node may be smaller than an entry, and a new    *)
(* chunk must lie above all others.  AnalyzeTiming follows the logged      *)
(* program, and PrintAll accounts for every operation                      *)
(* (LogAnalysis!TimingExact and PrintExact, by TimingInv and PrintInv).    *)
(* Beyond the figures, the invariant says what a release relies on: an     *)
(* entry is known by its number and by its address, has the size of the    *)
(* operation that made the block, and is the pool's.                       *)
(***************************************************************************)
EXTENDS MallocReplay, ConsolidatedLogProofs

-------------------------------------------------------------------------------
(* The internal buffer. *)

Node == [at : Nat, mSize : Nat]
Pools == [top : Nat, chunks : SUBSET Nat, free : Seq(Node), handed : SUBSET Nat]

LargeEnough(p) == \A i \in DOMAIN p.free : p.free[i].mSize >= EntrySize
ChunksBelow(p) == \A c \in p.chunks : c + ChunkSize <= p.top

Good(p) == p \in Pools /\ LargeEnough(p) /\ ChunksBelow(p) /\ Disjoint(p)

\* The inductive invariant.
PoolInv == Good(pool)

-------------------------------------------------------------------------------
(* Lists of nodes *)

\* A node put in front of a list moves the others up by one.
LEMMA PrependNode ==
  ASSUME NEW x \in Node, NEW s \in Seq(Node)
  PROVE  /\ <<x>> \o s \in Seq(Node)
         /\ Len(<<x>> \o s) = Len(s) + 1
         /\ (<<x>> \o s)[1] = x
         /\ \A i \in 2 .. Len(s) + 1 : (<<x>> \o s)[i] = s[i - 1]
OBVIOUS

\* The node at the head is the first; the others move down by one.
LEMMA PopNode ==
  ASSUME NEW s \in Seq(Node), s # <<>>
  PROVE  /\ Head(s) = s[1] /\ Head(s) \in Node /\ Len(s) >= 1 /\ 1 \in DOMAIN s
         /\ Tail(s) \in Seq(Node)
         /\ Len(Tail(s)) = Len(s) - 1
         /\ \A i \in 1 .. Len(s) - 1 : Tail(s)[i] = s[i + 1]
OBVIOUS

-------------------------------------------------------------------------------
\* A new chunk lies above all that is in use.
LEMMA GrownGood ==
  ASSUME NEW p, Good(p), p.free = <<>>
  PROVE  Good(Grown(p)) /\ Grown(p).free # <<>>
<1> DEFINE q == Grown(p)
           node == [at |-> p.top + NodeSize, mSize |-> ChunkSize - NodeSize]
<1>1. /\ q.top = p.top + ChunkSize /\ q.chunks = p.chunks \cup {p.top}
      /\ q.free = <<node>> /\ q.handed = p.handed
  BY DEF Grown, Good, Pools
<1>2. /\ p.top \in Nat /\ p.chunks \in SUBSET Nat /\ p.handed \in SUBSET Nat
      /\ node \in Node /\ node.at = p.top + NodeSize /\ node.mSize = ChunkSize - NodeSize
  BY BufferAssumption DEF Good, Pools, Node
<1>3. q \in Pools
  <2>1. q.top \in Nat /\ q.free \in Seq(Node)
    BY <1>1, <1>2, BufferAssumption
  <2>2. q.chunks \in SUBSET Nat /\ q.handed \in SUBSET Nat
    BY <1>1, <1>2
  <2> QED BY <2>1, <2>2 DEF Grown, Pools
<1>4. DOMAIN q.free = {1} /\ q.free[1] = node
  BY <1>1
<1>5. LargeEnough(q)
  BY <1>2, <1>4, BufferAssumption DEF LargeEnough
<1>6. ChunksBelow(q)
  BY <1>1, <1>2, BufferAssumption DEF ChunksBelow, Good
<1>7. Disjoint(q)
  <2>1. \A a \in p.handed : a + EntrySize <= p.top /\ InChunk(q, a, EntrySize)
    BY <1>1, <1>2, BufferAssumption DEF Good, Disjoint, InChunk, ChunksBelow
  <2>2. \A a, b \in q.handed : a # b => Apart(a, EntrySize, b, EntrySize)
    BY <1>1 DEF Good, Disjoint
  <2>3. \A a \in q.handed, i \in DOMAIN q.free :
          Apart(a, EntrySize, q.free[i].at, q.free[i].mSize)
    BY <1>1, <1>2, <1>4, <2>1, BufferAssumption DEF Apart
  <2>4. InChunk(q, node.at, node.mSize)
    BY <1>1, <1>2, BufferAssumption DEF InChunk
  <2> QED BY <1>1, <1>4, <2>1, <2>2, <2>3, <2>4 DEF Disjoint
<1> QED BY <1>1, <1>3, <1>5, <1>6, <1>7 DEF Good

\* So a request finds a node.
LEMMA StockedGood ==
  ASSUME NEW p, Good(p)
  PROVE  Good(Stocked(p)) /\ Stocked(p).free # <<>>
BY GrownGood DEF Stocked

-------------------------------------------------------------------------------
(* Parts of nodes *)

\* What is apart from a node is apart from every part of it.
LEMMA PartApart ==
  ASSUME NEW a \in Nat, NEW n \in Nat, NEW b \in Nat, NEW m \in Nat,
         NEW c \in Nat, NEW k \in Nat,
         Apart(a, n, b, m) \/ Apart(b, m, a, n), b <= c, c + k <= b + m
  PROVE  Apart(a, n, c, k) /\ Apart(c, k, a, n)
BY DEF Apart

\* A part of what lies in a chunk lies in the chunk.
LEMMA PartInChunk ==
  ASSUME NEW p, p \in Pools, NEW b \in Nat, NEW m \in Nat, NEW c \in Nat, NEW k \in Nat,
         InChunk(p, b, m), b <= c, c + k <= b + m
  PROVE  InChunk(p, c, k)
<1>1. PICK ch \in p.chunks : ch + NodeSize <= b /\ b + m <= ch + ChunkSize
  BY DEF InChunk
<1>2. ch \in Nat
  BY DEF Pools
<1>3. ch + NodeSize <= c /\ c + k <= ch + ChunkSize
  BY <1>1, <1>2, BufferAssumption
<1> QED BY <1>3 DEF InChunk

\* The entry and what is left of its node are apart from everything else and from each
\* other: the list afterwards has, at i, a part of the node that was at i + d.
LEMMA HandedOutGood ==
  ASSUME NEW q, Good(q), q.free # <<>>
  PROVE  Good(HandedOut(q))
<1> DEFINE s == HandedOut(q)
           node == Head(q.free)
           d == IF Splits(node) THEN 0 ELSE 1
<1>1. /\ q.top \in Nat /\ q.chunks \in SUBSET Nat /\ q.handed \in SUBSET Nat
      /\ q.free \in Seq(Node)
  BY DEF Good, Pools
<1>2. /\ node = q.free[1] /\ node \in Node /\ Len(q.free) >= 1 /\ 1 \in DOMAIN q.free
      /\ Tail(q.free) \in Seq(Node) /\ Len(Tail(q.free)) = Len(q.free) - 1
      /\ \A i \in 1 .. Len(q.free) - 1 : Tail(q.free)[i] = q.free[i + 1]
  BY <1>1, PopNode
<1>3. /\ node.at \in Nat /\ node.mSize \in Nat /\ node.mSize >= EntrySize
      /\ EntrySize \in Nat /\ d \in 0 .. 1 /\ (d = 0 => Splits(node))
  BY <1>2, BufferAssumption DEF Good, LargeEnough, Node
<1>4. /\ s.top = q.top /\ s.chunks = q.chunks /\ s.handed = q.handed \cup {node.at}
      /\ s.free = IF Splits(node) THEN <<Remainder(node)>> \o Tail(q.free) ELSE Tail(q.free)
  BY DEF HandedOut
<1>5. Splits(node) => /\ Remainder(node) \in Node
                      /\ Remainder(node).at = node.at + EntrySize
                      /\ Remainder(node).mSize = node.mSize - EntrySize
                      /\ Remainder(node).mSize >= EntrySize
  BY <1>3 DEF Splits, Remainder, Node
<1>6. /\ s.free \in Seq(Node)
      /\ DOMAIN s.free = 1 .. Len(q.free) - d
      /\ \A i \in DOMAIN s.free : s.free[i] = IF i + d = 1 THEN Remainder(node) ELSE q.free[i + d]
  <2>1. CASE Splits(node)
    <3>1. s.free = <<Remainder(node)>> \o Tail(q.free)
      BY <1>4, <2>1
    <3>2. /\ s.free \in Seq(Node) /\ Len(s.free) = Len(q.free)
          /\ s.free[1] = Remainder(node)
          /\ \A i \in 2 .. Len(q.free) : s.free[i] = Tail(q.free)[i - 1]
      BY <1>2, <1>5, <2>1, <3>1, PrependNode
    <3>3. \A i \in 2 .. Len(q.free) : s.free[i] = q.free[i]
      BY <1>1, <1>2, <3>2
    <3> QED BY <1>1, <1>2, <2>1, <3>2, <3>3
  <2>2. CASE ~Splits(node)
    <3>1. s.free = Tail(q.free)
      BY <1>4, <2>2
    <3> HIDE DEF s
    <3> QED BY <1>1, <1>2, <2>2, <3>1
  <2> QED BY <2>1, <2>2
<1>7. \A i \in DOMAIN s.free :
        /\ i + d \in DOMAIN q.free
        /\ s.free[i].at \in Nat /\ s.free[i].mSize \in Nat /\ s.free[i].mSize >= EntrySize
        /\ q.free[i + d].at \in Nat /\ q.free[i + d].mSize \in Nat
        /\ q.free[i + d].at <= s.free[i].at
        /\ s.free[i].at + s.free[i].mSize <= q.free[i + d].at + q.free[i + d].mSize
        /\ Apart(node.at, EntrySize, s.free[i].at, s.free[i].mSize)
  <2> SUFFICES ASSUME NEW i \in DOMAIN s.free
               PROVE  /\ i + d \in DOMAIN q.free
                      /\ s.free[i].at \in Nat /\ s.free[i].mSize \in Nat
                      /\ s.free[i].mSize >= EntrySize
                      /\ q.free[i + d].at \in Nat /\ q.free[i + d].mSize \in Nat
                      /\ q.free[i + d].at <= s.free[i].at
                      /\ s.free[i].at + s.free[i].mSize <= q.free[i + d].at + q.free[i + d].mSize
                      /\ Apart(node.at, EntrySize, s.free[i].at, s.free[i].mSize)
    OBVIOUS
  <2> HIDE DEF s, node, d
  <2>1. i \in Nat /\ i >= 1 /\ i + d \in DOMAIN q.free /\ q.free[i + d] \in Node
    <3>1. DOMAIN q.free = 1 .. Len(q.free) /\ Len(q.free) \in Nat
      BY <1>1
    <3>2. i \in 1 .. Len(q.free) - d
      BY <1>6
    <3>3. i \in Nat /\ i >= 1 /\ i + d \in DOMAIN q.free
      BY <1>3, <3>1, <3>2
    <3> QED BY <1>1, <3>3
  <2>2. q.free[i + d].at \in Nat /\ q.free[i + d].mSize \in Nat /\ q.free[i + d].mSize >= EntrySize
    BY <2>1 DEF Node, Good, LargeEnough
  <2>3. CASE i + d = 1
    <3>1. d = 0
      BY <1>3, <2>1, <2>3
    <3>2. Splits(node) /\ s.free[i] = Remainder(node) /\ q.free[i + d] = node
      BY <1>2, <1>3, <1>6, <2>3, <3>1
    <3> QED BY <1>3, <1>5, <2>1, <2>2, <3>2 DEF Apart
  <2>4. CASE i + d # 1
    <3>1. s.free[i] = q.free[i + d]
      BY <1>6, <2>4
    <3>2. Apart(node.at, node.mSize, q.free[i + d].at, q.free[i + d].mSize)
      BY <1>2, <2>1, <2>4 DEF Good, Disjoint
    <3>3. Apart(node.at, EntrySize, q.free[i + d].at, q.free[i + d].mSize)
      BY <1>3, <2>2, <3>2 DEF Apart
    <3> QED BY <2>1, <2>2, <3>1, <3>3
  <2> QED BY <2>3, <2>4
<1>8. \A a \in q.handed : a \in Nat /\ Apart(a, EntrySize, node.at, EntrySize)
                                /\ Apart(node.at, EntrySize, a, EntrySize)
  BY <1>1, <1>2, <1>3 DEF Good, Disjoint, Apart
<1> HIDE DEF s, node, d
<1>9. s \in Pools
  <2>1. s.handed \in SUBSET Nat
    BY <1>1, <1>3, <1>4
  <2> QED BY <1>1, <1>4, <1>6, <2>1 DEF s, HandedOut, Pools
<1>10. LargeEnough(s) /\ ChunksBelow(s)
  BY <1>4, <1>7 DEF Good, LargeEnough, ChunksBelow
<1>11. Disjoint(s)
  <2>1. \A a, b \in s.handed : a # b => Apart(a, EntrySize, b, EntrySize)
    BY <1>4, <1>8 DEF Good, Disjoint
  <2>2. \A a \in s.handed, i \in DOMAIN s.free :
          Apart(a, EntrySize, s.free[i].at, s.free[i].mSize)
    <3>1. \A a \in q.handed, i \in DOMAIN s.free :
            Apart(a, EntrySize, s.free[i].at, s.free[i].mSize)
      <4> SUFFICES ASSUME NEW a \in q.handed, NEW i \in DOMAIN s.free
                   PROVE  Apart(a, EntrySize, s.free[i].at, s.free[i].mSize)
        OBVIOUS
      <4> DEFINE b == q.free[i + d].at  m == q.free[i + d].mSize
                 c == s.free[i].at      k == s.free[i].mSize
      <4>1. Apart(a, EntrySize, b, m)
        BY <1>7 DEF Good, Disjoint
      <4>2. /\ a \in Nat /\ EntrySize \in Nat /\ b \in Nat /\ m \in Nat /\ c \in Nat /\ k \in Nat
            /\ b <= c /\ c + k <= b + m
        BY <1>3, <1>7, <1>8
      <4> HIDE DEF b, m, c, k
      <4>3. Apart(a, EntrySize, c, k)
        BY <4>1, <4>2, PartApart
      <4> QED BY <4>3 DEF c, k
    <3> QED BY <1>4, <1>7, <3>1
  <2>3. \A i, j \in DOMAIN s.free : i # j =>
          Apart(s.free[i].at, s.free[i].mSize, s.free[j].at, s.free[j].mSize)
    <3> SUFFICES ASSUME NEW i \in DOMAIN s.free, NEW j \in DOMAIN s.free, i # j
                 PROVE  Apart(s.free[i].at, s.free[i].mSize, s.free[j].at, s.free[j].mSize)
      OBVIOUS
    <3>1. i + d # j + d
      BY <1>1, <1>3, <1>6
    <3>2. Apart(q.free[i + d].at, q.free[i + d].mSize, q.free[j + d].at, q.free[j + d].mSize)
      BY <1>7, <3>1 DEF Good, Disjoint
    <3>3. Apart(q.free[i + d].at, q.free[i + d].mSize, s.free[j].at, s.free[j].mSize)
      BY <1>7, <3>2, PartApart
    <3> QED BY <1>7, <3>3, PartApart
  <2>4. \A a \in s.handed : InChunk(s, a, EntrySize)
    <3>1. InChunk(q, node.at, EntrySize)
      <4>1. InChunk(q, node.at, node.mSize)
        BY <1>2 DEF Good, Disjoint
      <4> QED BY <1>3, <4>1, PartInChunk DEF Good
    <3>2. \A a \in q.handed : InChunk(q, a, EntrySize)
      BY DEF Good, Disjoint
    <3> QED BY <1>4, <3>1, <3>2 DEF InChunk
  <2>5. \A i \in DOMAIN s.free : InChunk(s, s.free[i].at, s.free[i].mSize)
    <3> SUFFICES ASSUME NEW i \in DOMAIN s.free
                 PROVE  InChunk(s, s.free[i].at, s.free[i].mSize)
      OBVIOUS
    <3>1. InChunk(q, q.free[i + d].at, q.free[i + d].mSize)
      BY <1>7 DEF Good, Disjoint
    <3>2. InChunk(q, s.free[i].at, s.free[i].mSize)
      BY <1>7, <3>1, PartInChunk DEF Good
    <3> QED BY <1>4, <3>2 DEF InChunk
  <2> QED BY <2>1, <2>2, <2>3, <2>4, <2>5 DEF Disjoint
<1> QED BY <1>9, <1>10, <1>11 DEF s, Good

\* A request keeps the pool good, whether or not it has to grow it first.
LEMMA GotGood ==
  ASSUME NEW p, Good(p)
  PROVE  Good(Got(p))
BY StockedGood, HandedOutGood DEF Got

-------------------------------------------------------------------------------
\* A release only moves the entry's bytes from one side to the other.
LEMMA ReleasedGood ==
  ASSUME NEW p, Good(p), NEW a \in p.handed
  PROVE  Good(Released(p, a))
<1> DEFINE s == Released(p, a)
           node == [at |-> a, mSize |-> EntrySize]
<1>1. /\ p.top \in Nat /\ p.chunks \in SUBSET Nat /\ p.handed \in SUBSET Nat
      /\ p.free \in Seq(Node) /\ a \in Nat /\ EntrySize \in Nat
  BY BufferAssumption DEF Good, Pools
<1>2. node \in Node /\ node.at = a /\ node.mSize = EntrySize
  BY <1>1 DEF Node
<1>3. /\ s.top = p.top /\ s.chunks = p.chunks /\ s.handed = p.handed \ {a}
      /\ s.free = <<node>> \o p.free
  BY DEF Released
<1>4. /\ s.free \in Seq(Node) /\ DOMAIN s.free = 1 .. Len(p.free) + 1
      /\ s.free[1] = node
      /\ \A i \in DOMAIN s.free : i # 1 => i - 1 \in DOMAIN p.free /\ s.free[i] = p.free[i - 1]
  <2> HIDE DEF s, node
  <2>1. /\ s.free \in Seq(Node) /\ Len(s.free) = Len(p.free) + 1 /\ s.free[1] = node
        /\ \A i \in 2 .. Len(p.free) + 1 : s.free[i] = p.free[i - 1]
    BY <1>1, <1>2, <1>3, PrependNode
  <2>2. /\ DOMAIN s.free = 1 .. Len(p.free) + 1 /\ DOMAIN p.free = 1 .. Len(p.free)
        /\ Len(p.free) \in Nat
    BY <1>1, <2>1
  <2>3. \A i \in 1 .. Len(p.free) + 1 :
          i # 1 => i \in 2 .. Len(p.free) + 1 /\ i - 1 \in 1 .. Len(p.free)
    BY <2>2
  <2> QED BY <2>1, <2>2, <2>3
<1> HIDE DEF s, node
<1>5. s \in Pools
  <2>1. s.handed \in SUBSET Nat
    BY <1>1, <1>3
  <2> QED BY <1>1, <1>3, <1>4, <2>1 DEF s, Released, Pools
<1>6. LargeEnough(s) /\ ChunksBelow(s)
  BY <1>1, <1>2, <1>3, <1>4 DEF Good, LargeEnough, ChunksBelow
<1>7. Disjoint(s)
  <2>1. \A b, c \in s.handed : b # c => Apart(b, EntrySize, c, EntrySize)
    BY <1>3 DEF Good, Disjoint
  <2>2. \A b \in s.handed, i \in DOMAIN s.free :
          Apart(b, EntrySize, s.free[i].at, s.free[i].mSize)
    BY <1>2, <1>3, <1>4 DEF Good, Disjoint
  <2>3. \A i \in DOMAIN p.free : /\ p.free[i].at \in Nat /\ p.free[i].mSize \in Nat
                                 /\ Apart(a, EntrySize, p.free[i].at, p.free[i].mSize)
                                 /\ Apart(p.free[i].at, p.free[i].mSize, a, EntrySize)
    <3> SUFFICES ASSUME NEW i \in DOMAIN p.free
                 PROVE  /\ p.free[i].at \in Nat /\ p.free[i].mSize \in Nat
                        /\ Apart(a, EntrySize, p.free[i].at, p.free[i].mSize)
                        /\ Apart(p.free[i].at, p.free[i].mSize, a, EntrySize)
      OBVIOUS
    <3>1. p.free[i] \in Node
      BY <1>1
    <3>2. Apart(a, EntrySize, p.free[i].at, p.free[i].mSize)
      BY DEF Good, Disjoint
    <3> QED BY <3>1, <3>2 DEF Apart, Node
  <2>4. \A i, j \in DOMAIN s.free : i # j =>
          Apart(s.free[i].at, s.free[i].mSize, s.free[j].at, s.free[j].mSize)
    <3> SUFFICES ASSUME NEW i \in DOMAIN s.free, NEW j \in DOMAIN s.free, i # j
                 PROVE  Apart(s.free[i].at, s.free[i].mSize, s.free[j].at, s.free[j].mSize)
      OBVIOUS
    <3>1. CASE i = 1 \/ j = 1
      BY <1>2, <1>4, <2>3, <3>1
    <3>2. CASE i # 1 /\ j # 1
      <4>1. i - 1 \in DOMAIN p.free /\ j - 1 \in DOMAIN p.free /\ i - 1 # j - 1
        BY <1>1, <1>4, <3>2
      <4> QED BY <1>4, <3>2, <4>1 DEF Good, Disjoint
    <3> QED BY <3>1, <3>2
  <2>5. \A b \in s.handed : InChunk(s, b, EntrySize)
    BY <1>3 DEF Good, Disjoint, InChunk
  <2>6. \A i \in DOMAIN s.free : InChunk(s, s.free[i].at, s.free[i].mSize)
    <3> SUFFICES ASSUME NEW i \in DOMAIN s.free
                 PROVE  InChunk(s, s.free[i].at, s.free[i].mSize)
      OBVIOUS
    <3>1. InChunk(p, s.free[i].at, s.free[i].mSize)
      BY <1>2, <1>4 DEF Good, Disjoint
    <3> QED BY <1>3, <3>1 DEF InChunk
  <2> QED BY <2>1, <2>2, <2>4, <2>5, <2>6 DEF Disjoint
<1> QED BY <1>5, <1>6, <1>7 DEF s, Good

-------------------------------------------------------------------------------
\* The empty pool has nothing to overlap.
LEMMA EmptyPoolGood == Good(EmptyPool)
BY DEF EmptyPool, Good, Pools, LargeEnough, ChunksBelow, Disjoint

\* No sequence of requests and releases, whatever the sizes, hands out a byte twice or one
\* outside of the chunks the system gave.
THEOREM BlocksApartCorrect == PoolSpec => []BlocksApart
<1>1. PoolInit => PoolInv
  BY EmptyPoolGood DEF PoolInit, PoolInv
<1>2. PoolInv /\ [PoolNext]_pool => PoolInv'
  <2> SUFFICES ASSUME PoolInv, [PoolNext]_pool
               PROVE  PoolInv'
    OBVIOUS
  <2>1. CASE GetBlockInternal
    <3>1. Good(Got(pool))
      BY GotGood DEF PoolInv
    <3> QED BY <2>1, <3>1 DEF GetBlockInternal, PoolInv
  <2>2. CASE ReleaseBlockInternal
    <3>1. PICK a \in pool.handed : pool' = Released(pool, a)
      BY <2>2 DEF ReleaseBlockInternal
    <3>2. Good(Released(pool, a))
      BY ReleasedGood DEF PoolInv
    <3> QED BY <3>1, <3>2 DEF PoolInv
  <2>3. CASE UNCHANGED pool
    BY <2>3 DEF PoolInv
  <2> QED BY <2>1, <2>2, <2>3 DEF PoolNext
<1>3. PoolInv => BlocksApart
  BY DEF PoolInv, Good, BlocksApart
<1> QED BY <1>1, <1>2, <1>3, PTL DEF PoolSpec

-------------------------------------------------------------------------------
(* The bytes of a set of blocks. *)

\* The operations that make a block, and the bytes of the block.
Allocating(l) == {m \in 1 .. Len(Operations(l)) : Allocates(Operations(l)[m])}
BytesMade(l, m) == SizeInBytes[AllocatedSize(Operations(l)[m])]

LogsOf(Th) == {l \in Seq(RecordsOf(Th, {"small", "big"})) : Matched(l)}

\* What is used of a log below.
LEMMA LogOperations ==
  ASSUME NEW Th, NEW l \in LogsOf(Th)
  PROVE  /\ l \in Seq(RecordsOf(Th, {"small", "big"})) /\ Matched(l)
         /\ Len(Operations(l)) \in Nat
         /\ \A m \in 1 .. Len(Operations(l)) :
              Operations(l)[m] \in RecordsOf(Th, {"small", "big"}) /\ ~IsTimestamp(Operations(l)[m])
         /\ \A m \in Allocating(l) : BytesMade(l, m) \in Nat
         /\ Allocating(l) \subseteq 1 .. Len(Operations(l))
<1> DEFINE ops == Operations(l)
<1>1. l \in Seq(RecordsOf(Th, {"small", "big"})) /\ Matched(l)
  BY DEF LogsOf
<1>2. ops \in Seq(RecordsOf(Th, {"small", "big"}))
      /\ \A m \in 1 .. Len(ops) : ops[m] \in RecordsOf(Th, {"small", "big"}) /\ ~IsTimestamp(ops[m])
  BY <1>1, OperationsAreOperations
<1>3. Allocating(l) = {m \in 1 .. Len(ops) : Allocates(ops[m])}
      /\ \A m \in Allocating(l) : BytesMade(l, m) = SizeInBytes[AllocatedSize(ops[m])]
  BY DEF Allocating, BytesMade
<1> HIDE DEF ops
<1>4. Len(ops) \in Nat
  BY <1>2
<1>5. ASSUME NEW m \in Allocating(l) PROVE SizeInBytes[AllocatedSize(ops[m])] \in Nat
  <2>1. m \in 1 .. Len(ops) /\ Allocates(ops[m])
    BY <1>3
  <2>2. AllocatedSize(ops[m]) \in {"small", "big"}
    BY <1>2, <2>1, RecordFields
  <2> QED BY <2>2, AnalysisAssumption
<1>6. Allocating(l) \subseteq 1 .. Len(ops) /\ \A m \in Allocating(l) : BytesMade(l, m) \in Nat
  BY <1>3, <1>5
<1> QED BY <1>1, <1>2, <1>4, <1>6 DEF ops

\* The bytes are added up operation by operation.
LEMMA BytesUpToValues ==
  ASSUME NEW Th, NEW l \in LogsOf(Th), NEW S \in SUBSET Allocating(l)
  PROVE  /\ BytesUpTo(l, S) \in [0 .. Len(Operations(l)) -> Nat]
         /\ BytesUpTo(l, S)[0] = 0
         /\ \A n \in 1 .. Len(Operations(l)) : BytesUpTo(l, S)[n] =
              BytesUpTo(l, S)[n - 1] + (IF n \in S THEN BytesMade(l, n) ELSE 0)
<1> DEFINE N == Len(Operations(l))
           sz(n) == SizeInBytes[AllocatedSize(Operations(l)[n])]
           more(n) == IF n \in S THEN sz(n) ELSE 0
           step == [n \in 1 .. N |-> [x \in Nat |-> x + more(n)]]
<1>1. N \in Nat
  BY LogOperations
<1>2. \A n \in S : sz(n) \in Nat
  BY LogOperations DEF BytesMade
<1> HIDE DEF N, sz
<1>3. \A n \in 1 .. N : more(n) \in Nat
  BY <1>2
<1> HIDE DEF more
<1>4. step \in [1 .. N -> [Nat -> Nat]] /\ \A n \in 1 .. N, x \in Nat : step[n][x] = x + more(n)
  BY <1>3
<1>5. PICK f \in [0 .. N -> Nat] : f[0] = 0 /\ \A i \in 1 .. N : f[i] = step[i][f[i - 1]]
  <2>1. PICK f : Unfolds(f, N, Nat, 0, step)
    <3> HIDE DEF step
    <3> QED BY <1>1, <1>4, PrimitiveRecursion
  <2> QED BY <2>1 DEF Unfolds
<1>6. ASSUME NEW n \in 0 .. N, n # 0
      PROVE  f[n] = IF n \in S THEN f[n - 1] + sz(n) ELSE f[n - 1]
  <2>1. n \in 1 .. N /\ n - 1 \in 0 .. N
    BY <1>1, <1>6
  <2>2. f[n - 1] \in Nat
    BY <2>1
  <2> HIDE DEF step
  <2>3. f[n] = f[n - 1] + more(n)
    BY <1>4, <1>5, <2>1, <2>2
  <2> QED BY <2>2, <2>3 DEF more
<1>7. f = [n \in 0 .. N |-> IF n = 0 THEN 0
                             ELSE IF n \in S THEN f[n - 1] + sz(n) ELSE f[n - 1]]
  <2> HIDE DEF step
  <2> QED BY <1>5, <1>6
<1> DEFINE B == BytesUpTo(l, S)
<1>8. B = [n \in 0 .. N |-> IF n = 0 THEN 0
                            ELSE IF n \in S THEN B[n - 1] + sz(n) ELSE B[n - 1]]
  BY <1>7 DEF BytesUpTo, N, sz
<1>9. 0 \in 0 .. N /\ \A n \in 1 .. N : n \in 0 .. N /\ n # 0 /\ n - 1 \in 0 .. N
  BY <1>1
<1> HIDE DEF B
<1>10. B[0] = 0 /\ DOMAIN B = 0 .. N /\ B = [n \in 0 .. N |-> B[n]]
       /\ \A n \in 1 .. N : B[n] = IF n \in S THEN B[n - 1] + sz(n) ELSE B[n - 1]
  <2>1. B[0] = 0
    BY <1>8, <1>9
  <2>2. DOMAIN B = 0 .. N
    BY <1>8
  <2>3. B = [n \in 0 .. N |-> B[n]]
    BY <1>8, <2>2
  <2>4. \A n \in 1 .. N : B[n] = IF n \in S THEN B[n - 1] + sz(n) ELSE B[n - 1]
    BY <1>8, <1>9
  <2> QED BY <2>1, <2>2, <2>3, <2>4
<1> DEFINE P == {n \in 0 .. N : B[n] \in Nat}
<1>11. 0 .. N \subseteq P
  <2>1. 0 \in P
    BY <1>9, <1>10
  <2>2. ASSUME NEW n \in 0 .. N - 1, n \in P PROVE n + 1 \in P
    <3>1. n + 1 \in 1 .. N /\ (n + 1) - 1 = n /\ n + 1 \in 0 .. N /\ B[n] \in Nat
      BY <1>1, <2>2
    <3>2. B[n + 1] = IF n + 1 \in S THEN B[n] + sz(n + 1) ELSE B[n]
      BY <3>1, <1>10
    <3>3. n + 1 \in S => sz(n + 1) \in Nat
      BY <1>2
    <3> QED BY <3>1, <3>2, <3>3
  <2>3. 0 \in Int /\ N \in Int
    BY <1>1
  <2> HIDE DEF P
  <2> QED BY <2>1, <2>2, <2>3, IntervalInduction
<1>12. B \in [0 .. N -> Nat]
  <2>1. \A n \in 0 .. N : B[n] \in Nat
    BY <1>11
  <2> QED BY <1>10, <2>1
<1>13. ASSUME NEW n \in 1 .. N PROVE B[n] = B[n - 1] + (IF n \in S THEN BytesMade(l, n) ELSE 0)
  <2>1. B[n] = IF n \in S THEN B[n - 1] + sz(n) ELSE B[n - 1]
    BY <1>10
  <2>2. B[n - 1] \in Nat
    BY <1>9, <1>12
  <2>3. sz(n) = BytesMade(l, n)
    BY DEF sz, BytesMade
  <2> QED BY <2>1, <2>2, <2>3
<1> QED BY <1>10, <1>12, <1>13 DEF B, N

\* No block, no bytes.
LEMMA BytesOfNone ==
  ASSUME NEW Th, NEW l \in LogsOf(Th)
  PROVE  BytesOf(l, {}) = 0
<1> DEFINE N == Len(Operations(l))
           B == BytesUpTo(l, {})
           P == {n \in 0 .. N : B[n] = 0}
<1>1. N \in Nat /\ 0 \in Int /\ N \in Int
  BY LogOperations
<1>2. B[0] = 0 /\ \A n \in 1 .. N : B[n] = B[n - 1] + 0
  <2>1. {} \in SUBSET Allocating(l)
    OBVIOUS
  <2> QED BY <2>1, BytesUpToValues
<1> HIDE DEF N, B
<1>3. 0 \in P
  BY <1>1, <1>2
<1>4. ASSUME NEW n \in 0 .. N - 1, n \in P PROVE n + 1 \in P
  <2>1. n + 1 \in 1 .. N /\ (n + 1) - 1 = n /\ n + 1 \in 0 .. N
    BY <1>1
  <2> QED BY <1>2, <1>4, <2>1
<1>5. 0 .. N \subseteq P
  <2> HIDE DEF P
  <2> QED BY <1>1, <1>3, <1>4, IntervalInduction
<1>6. B[N] = 0
  <2>1. N \in 0 .. N
    BY <1>1
  <2> QED BY <2>1, <1>5
<1> QED BY <1>6 DEF B, N, BytesOf

\* A block adds its own.
LEMMA BytesOfOneMore ==
  ASSUME NEW Th, NEW l \in LogsOf(Th), NEW S \in SUBSET Allocating(l),
         NEW m \in Allocating(l), m \notin S
  PROVE  /\ BytesOf(l, S) \in Nat
         /\ BytesOf(l, S \cup {m}) = BytesOf(l, S) + BytesMade(l, m)
<1> DEFINE N == Len(Operations(l))
           S2 == S \cup {m}
           B == BytesUpTo(l, S)
           B2 == BytesUpTo(l, S2)
           z == BytesMade(l, m)
           mk(n) == BytesMade(l, n)
           P == {n \in 0 .. N : B2[n] = B[n] + (IF m <= n THEN z ELSE 0)}
<1>1. N \in Nat /\ 0 \in Int /\ N \in Int /\ m \in 1 .. N /\ z \in Nat
      /\ \A n \in S2 : mk(n) \in Nat
  BY LogOperations
<1>2. /\ B \in [0 .. N -> Nat] /\ B[0] = 0
      /\ \A n \in 1 .. N : B[n] = B[n - 1] + (IF n \in S THEN mk(n) ELSE 0)
  BY BytesUpToValues
<1>3. /\ B2 \in [0 .. N -> Nat] /\ B2[0] = 0
      /\ \A n \in 1 .. N : B2[n] = B2[n - 1] + (IF n \in S2 THEN mk(n) ELSE 0)
  <2>1. S2 \in SUBSET Allocating(l)
    OBVIOUS
  <2> HIDE DEF S2
  <2> QED BY <2>1, BytesUpToValues
<1>4. mk(m) = z
  OBVIOUS
<1>s. \A n : n \in S2 <=> n \in S \/ n = m
  OBVIOUS
<1> HIDE DEF N, B, B2, z, mk, S2
<1>5. 0 \in P
  BY <1>1, <1>2, <1>3
<1>6. ASSUME NEW n \in 0 .. N - 1, n \in P PROVE n + 1 \in P
  <2>1. n + 1 \in 1 .. N /\ (n + 1) - 1 = n /\ n + 1 \in 0 .. N /\ n \in 0 .. N /\ n \in Int /\ m \in Int
    BY <1>1
  <2>2. B[n] \in Nat /\ B2[n] = B[n] + (IF m <= n THEN z ELSE 0)
    BY <1>2, <1>6, <2>1
  <2>3. B[n + 1] = B[n] + (IF n + 1 \in S THEN mk(n + 1) ELSE 0)
    BY <1>2, <2>1
  <2>4. B2[n + 1] = B2[n] + (IF n + 1 \in S2 THEN mk(n + 1) ELSE 0)
    BY <1>3, <2>1
  <2>5. CASE n + 1 = m
    <3>1. n + 1 \notin S /\ n + 1 \in S2 /\ mk(n + 1) = z
      BY <1>s, <1>4, <2>5
    <3>2. B[n + 1] = B[n] /\ B2[n + 1] = B[n] + z /\ m <= n + 1
      BY <1>1, <2>1, <2>2, <2>3, <2>4, <2>5, <3>1
    <3> QED BY <2>1, <2>2, <3>2, <2>5
  <2>6. CASE n + 1 # m
    <3>1. (n + 1 \in S2 <=> n + 1 \in S) /\ (m <= n <=> m <= n + 1)
      BY <1>s, <2>1, <2>6
    <3>2. n + 1 \in S => mk(n + 1) \in Nat
      BY <1>1, <1>s
    <3>3. B2[n + 1] = B[n + 1] + (IF m <= n + 1 THEN z ELSE 0)
      BY <1>1, <2>2, <2>3, <2>4, <3>1, <3>2
    <3> QED BY <2>1, <3>3
  <2> QED BY <2>5, <2>6
<1>7. 0 .. N \subseteq P
  <2> HIDE DEF P
  <2> QED BY <1>1, <1>5, <1>6, IntervalInduction
<1>8. B[N] \in Nat /\ B2[N] = B[N] + z
  <2>1. N \in 0 .. N /\ m <= N
    BY <1>1
  <2>2. N \in P
    BY <2>1, <1>7
  <2> QED BY <1>2, <2>1, <2>2
<1> QED BY <1>8 DEF B, B2, N, S2, z, BytesOf

-------------------------------------------------------------------------------
(* The figures. *)

\* The thread a block is counted for.
CountedFor(l, m) == Counted(Operations(l)[m].mFreeByOtherThread, Operations(l)[m].mThreadID)

\* The figures are those of the blocks S.
Figured(l, S, y) ==
  /\ S \in SUBSET Allocating(l)
  /\ y.bytes = BytesOf(l, S)
  /\ y.blocks = Cardinality(S)
  /\ y.perThread = [t \in 0 .. TotalThreads |-> Cardinality({m \in S : t = CountedFor(l, m)})]

\* There are finitely many blocks.
LEMMA BlocksFinite ==
  ASSUME NEW Th, NEW l \in LogsOf(Th), NEW S \in SUBSET Allocating(l)
  PROVE  IsFiniteSet(S) /\ Cardinality(S) \in Nat
<1>1. Len(Operations(l)) \in Nat /\ S \in SUBSET (1 .. Len(Operations(l)))
  BY LogOperations
<1>2. IsFiniteSet(1 .. Len(Operations(l)))
  BY <1>1, FS_Interval
<1>3. IsFiniteSet(S)
  BY <1>1, <1>2, FS_Subset
<1> QED BY <1>3, FS_CardinalityType

\* So their bytes are a number.
LEMMA BytesOfType ==
  ASSUME NEW Th, NEW l \in LogsOf(Th), NEW S \in SUBSET Allocating(l)
  PROVE  BytesOf(l, S) \in Nat
<1>1. Len(Operations(l)) \in Nat
  BY LogOperations
<1>2. BytesUpTo(l, S) \in [0 .. Len(Operations(l)) -> Nat]
  BY BytesUpToValues
<1>3. Len(Operations(l)) \in 0 .. Len(Operations(l))
  BY <1>1
<1>4. BytesUpTo(l, S)[Len(Operations(l))] \in Nat
  BY <1>2, <1>3
<1> QED BY <1>4 DEF BytesOf

\* A new block is one more for its thread, and changes nothing for the others.
LEMMA CountedOneMore ==
  ASSUME NEW Th, NEW l \in LogsOf(Th), NEW S \in SUBSET Allocating(l),
         NEW n \in Allocating(l), n \notin S
  PROVE  \A t \in 0 .. TotalThreads :
           LET here(X) == {m \in X : t = CountedFor(l, m)} IN
           /\ Cardinality(here(S)) \in Nat
           /\ Cardinality(here(S \cup {n})) =
                IF t = CountedFor(l, n) THEN Cardinality(here(S)) + 1 ELSE Cardinality(here(S))
<1> SUFFICES ASSUME NEW t \in 0 .. TotalThreads
             PROVE  LET here(X) == {m \in X : t = CountedFor(l, m)} IN
                    /\ Cardinality(here(S)) \in Nat
                    /\ Cardinality(here(S \cup {n})) =
                         IF t = CountedFor(l, n) THEN Cardinality(here(S)) + 1
                         ELSE Cardinality(here(S))
  OBVIOUS
<1> DEFINE H == {m \in S : t = CountedFor(l, m)}
           H2 == {m \in S \cup {n} : t = CountedFor(l, m)}
<1>1. IsFiniteSet(H) /\ Cardinality(H) \in Nat
  <2>1. H \in SUBSET Allocating(l)
    OBVIOUS
  <2> QED BY <2>1, BlocksFinite
<1>2. n \notin H
  OBVIOUS
<1>3. H2 = IF t = CountedFor(l, n) THEN H \cup {n} ELSE H
  OBVIOUS
<1>4. Cardinality(H2) = IF t = CountedFor(l, n) THEN Cardinality(H) + 1 ELSE Cardinality(H)
  <2> HIDE DEF H, H2
  <2> QED BY <1>1, <1>2, <1>3, FS_AddElement
<1> QED BY <1>1, <1>4

\* The figures of a block more.
LEMMA FiguredOneMore ==
  ASSUME NEW Th, NEW l \in LogsOf(Th), NEW S, NEW y, Figured(l, S, y),
         NEW n \in Allocating(l), n \notin S
  PROVE  Figured(l, S \cup {n}, AfterAllocation(y, Operations(l)[n]))
<1> DEFINE S2 == S \cup {n}
           r == Operations(l)[n]
           y2 == AfterAllocation(y, r)
           c == CountedFor(l, n)
           f(X) == [t \in 0 .. TotalThreads |-> Cardinality({m \in X : t = CountedFor(l, m)})]
<1>1. S \in SUBSET Allocating(l) /\ S2 \in SUBSET Allocating(l)
  BY DEF Figured
<1>2. y2.bytes = y.bytes + BytesMade(l, n) /\ y2.blocks = y.blocks + 1
      /\ y2.perThread = [y.perThread EXCEPT ![c] = @ + 1]
  BY DEF AfterAllocation, BytesMade, CountedFor
<1>3. y.bytes = BytesOf(l, S) /\ y.blocks = Cardinality(S) /\ y.perThread = f(S)
  BY DEF Figured
<1>4. y2.bytes = BytesOf(l, S2)
  <2>1. BytesOf(l, S \cup {n}) = BytesOf(l, S) + BytesMade(l, n)
    BY <1>1, BytesOfOneMore
  <2> HIDE DEF y2
  <2> QED BY <1>2, <1>3, <2>1
<1>5. y2.blocks = Cardinality(S2)
  <2>1. IsFiniteSet(S)
    BY <1>1, BlocksFinite
  <2>2. Cardinality(S \cup {n}) = Cardinality(S) + 1
    BY <2>1, FS_AddElement
  <2> HIDE DEF y2
  <2> QED BY <1>2, <1>3, <2>2
<1>6. y2.perThread = f(S2)
  <2>1. ASSUME NEW t \in 0 .. TotalThreads
        PROVE  f(S2)[t] = IF t = c THEN f(S)[t] + 1 ELSE f(S)[t]
    <3>1. Cardinality({m \in S \cup {n} : t = CountedFor(l, m)}) =
            IF t = c THEN Cardinality({m \in S : t = CountedFor(l, m)}) + 1
            ELSE Cardinality({m \in S : t = CountedFor(l, m)})
      BY <1>1, CountedOneMore
    <3> QED BY <3>1
  <2>2. DOMAIN f(S) = 0 .. TotalThreads /\ f(S2) = [t \in 0 .. TotalThreads |-> f(S2)[t]]
    OBVIOUS
  <2> HIDE DEF y2, c
  <2> DEFINE g == f(S)
             g2 == f(S2)
  <2>3. y2.perThread = [g EXCEPT ![c] = @ + 1]
    BY <1>2, <1>3, Zenon
  <2> HIDE DEF g, g2
  <2>4. [g EXCEPT ![c] = @ + 1] = [t \in DOMAIN g |-> IF t = c THEN g[c] + 1 ELSE g[t]]
    OBVIOUS
  <2>5. [t \in 0 .. TotalThreads |-> IF t = c THEN g[c] + 1 ELSE g[t]] = g2
    BY <2>1, <2>2 DEF g, g2
  <2> QED BY <2>2, <2>3, <2>4, <2>5 DEF g, g2
<1> QED BY <1>1, <1>4, <1>5, <1>6 DEF Figured

\* The figures of a block less.
LEMMA FiguredOneLess ==
  ASSUME NEW Th, NEW l \in LogsOf(Th), NEW S, NEW y, Figured(l, S, y),
         NEW m \in S, NEW r, NEW e, e.mSize = BytesMade(l, m),
         Counted(r.mAllocatedByOtherThread, r.mThreadID) = CountedFor(l, m)
  PROVE  Figured(l, S \ {m}, AfterRelease(y, r, e))
<1> DEFINE S2 == S \ {m}
           y2 == AfterRelease(y, r, e)
           c == CountedFor(l, m)
           f(X) == [t \in 0 .. TotalThreads |-> Cardinality({k \in X : t = CountedFor(l, k)})]
<1>1. S \in SUBSET Allocating(l) /\ S2 \in SUBSET Allocating(l) /\ m \in Allocating(l)
      /\ m \notin S2 /\ S2 \cup {m} = S
  BY DEF Figured
<1>2. y2.bytes = y.bytes - BytesMade(l, m) /\ y2.blocks = y.blocks - 1
      /\ y2.perThread = [y.perThread EXCEPT ![c] = @ - 1]
  BY DEF AfterRelease
<1>3. y.bytes = BytesOf(l, S) /\ y.blocks = Cardinality(S) /\ y.perThread = f(S)
  BY DEF Figured
<1>4. y2.bytes = BytesOf(l, S2)
  <2>1. BytesOf(l, S2 \cup {m}) = BytesOf(l, S2) + BytesMade(l, m) /\ BytesOf(l, S2) \in Nat
        /\ BytesMade(l, m) \in Nat
    <3> HIDE DEF S2
    <3> QED BY <1>1, BytesOfOneMore, LogOperations
  <2>2. BytesOf(l, S) = BytesOf(l, S2) + BytesMade(l, m)
    BY <1>1, <2>1, Zenon
  <2> HIDE DEF y2, S2
  <2> QED BY <1>2, <1>3, <2>1, <2>2
<1>5. y2.blocks = Cardinality(S2)
  <2>1. IsFiniteSet(S) /\ m \in S
    BY <1>1, BlocksFinite
  <2>2. Cardinality(S \ {m}) = Cardinality(S) - 1
    BY <2>1, FS_RemoveElement
  <2> HIDE DEF y2
  <2> QED BY <1>2, <1>3, <2>2
<1>6. y2.perThread = f(S2)
  <2>1. ASSUME NEW t \in 0 .. TotalThreads
        PROVE  f(S2)[t] = IF t = c THEN f(S)[t] - 1 ELSE f(S)[t]
    <3> DEFINE h(X) == Cardinality({k \in X : t = CountedFor(l, k)})
    <3> HIDE DEF S2
    <3>1. h(S2) \in Nat
          /\ h(S2 \cup {m}) = IF t = c THEN h(S2) + 1 ELSE h(S2)
      BY <1>1, CountedOneMore
    <3>2. h(S) = IF t = c THEN h(S2) + 1 ELSE h(S2)
      BY <1>1, <3>1, Zenon
    <3>3. f(S2)[t] = h(S2) /\ f(S)[t] = h(S)
      OBVIOUS
    <3> HIDE DEF h, f
    <3> QED BY <3>1, <3>2, <3>3
  <2>2. DOMAIN f(S) = 0 .. TotalThreads /\ f(S2) = [t \in 0 .. TotalThreads |-> f(S2)[t]]
    OBVIOUS
  <2> HIDE DEF y2, c
  <2> DEFINE g == f(S)
             g2 == f(S2)
  <2>3. y2.perThread = [g EXCEPT ![c] = @ - 1]
    BY <1>2, <1>3, Zenon
  <2> HIDE DEF g, g2
  <2>4. [g EXCEPT ![c] = @ - 1] = [t \in DOMAIN g |-> IF t = c THEN g[c] - 1 ELSE g[t]]
    OBVIOUS
  <2>5. [t \in 0 .. TotalThreads |-> IF t = c THEN g[c] - 1 ELSE g[t]] = g2
    BY <2>1, <2>2 DEF g, g2
  <2> QED BY <2>2, <2>3, <2>4, <2>5 DEF g, g2
<1> QED BY <1>1, <1>4, <1>5, <1>6 DEF Figured

\* In the beginning there is nothing to count.
LEMMA FiguredNone ==
  ASSUME NEW Th, NEW l \in LogsOf(Th)
  PROVE  Figured(l, {}, [bytes |-> 0, blocks |-> 0, perThread |-> AllZero(0 .. TotalThreads)])
<1>1. BytesOf(l, {}) = 0
  BY BytesOfNone
<1>2. Cardinality({}) = 0
  BY FS_EmptySet
<1>3. \A t \in 0 .. TotalThreads : {m \in {} : t = CountedFor(l, m)} = {}
  OBVIOUS
<1> QED BY <1>1, <1>2, <1>3 DEF Figured, AllZero

-------------------------------------------------------------------------------
(* The table. *)

TableEntries == [mSeqNo : Nat, mSize : Nat, at : Nat]

\* Table T holds the blocks S, each in an entry of its own; the pool has handed out these
\* entries and no others.
Tabled(l, S, T, p) ==
  /\ S \in SUBSET Allocating(l)
  /\ T \in SUBSET TableEntries
  /\ {e.mSeqNo : e \in T} = S
  /\ {e.at : e \in T} = p.handed
  /\ \A e \in T : e.mSize = BytesMade(l, e.mSeqNo)
  /\ \A e, f \in T : e.mSeqNo = f.mSeqNo \/ e.at = f.at => e = f

\* What a request hands out was not handed out before.
LEMMA GotEntry ==
  ASSUME NEW p, Good(p)
  PROVE  /\ Got(p).handed = p.handed \cup {Popped(p).at}
         /\ Popped(p).at \in Nat \ p.handed
<1> DEFINE q == Stocked(p)
<1>1. Good(q) /\ q.free # <<>> /\ q.handed = p.handed
  BY StockedGood DEF Stocked, Grown
<1>2. Got(p).handed = q.handed \cup {Head(q.free).at} /\ Popped(p) = Head(q.free)
  BY DEF Got, HandedOut, Popped
<1> HIDE DEF q
<1>3. q.free \in Seq(Node) /\ q.handed \in SUBSET Nat
  BY <1>1 DEF Good, Pools
<1>4. Head(q.free) = q.free[1] /\ 1 \in DOMAIN q.free /\ Head(q.free) \in Node
  BY <1>1, <1>3, PopNode
<1>5. q.free[1].at \in Nat /\ q.free[1].mSize \in Nat /\ q.free[1].mSize >= EntrySize
  BY <1>1, <1>4 DEF Good, LargeEnough, Node
<1>6. \A a \in q.handed : Apart(a, EntrySize, q.free[1].at, q.free[1].mSize)
  BY <1>1, <1>4 DEF Good, Disjoint
<1>7. q.free[1].at \notin q.handed
  <2> SUFFICES ASSUME q.free[1].at \in q.handed PROVE FALSE
    OBVIOUS
  <2>1. Apart(q.free[1].at, EntrySize, q.free[1].at, q.free[1].mSize)
    BY <1>6
  <2>2. EntrySize \in Nat \ {0}
    BY BufferAssumption
  <2> QED BY <1>5, <2>1, <2>2 DEF Apart
<1> QED BY <1>1, <1>2, <1>4, <1>5, <1>7

\* An entry is added.
LEMMA TabledOneMore ==
  ASSUME NEW Th, NEW l \in LogsOf(Th), NEW S, NEW T, NEW p, Good(p), Tabled(l, S, T, p),
         NEW n \in Allocating(l), n \notin S,
         NEW e, e = [mSeqNo |-> n, mSize |-> BytesMade(l, n), at |-> Popped(p).at]
  PROVE  Tabled(l, S \cup {n}, T \cup {e}, Got(p))
<1>1. Got(p).handed = p.handed \cup {Popped(p).at} /\ Popped(p).at \in Nat \ p.handed
  BY GotEntry
<1>2. n \in Nat /\ BytesMade(l, n) \in Nat
  BY LogOperations
<1>3. e \in TableEntries /\ e.mSeqNo = n /\ e.mSize = BytesMade(l, n) /\ e.at = Popped(p).at
  BY <1>1, <1>2 DEF TableEntries
<1>4. /\ S \in SUBSET Allocating(l) /\ T \in SUBSET TableEntries
      /\ {x.mSeqNo : x \in T} = S /\ {x.at : x \in T} = p.handed
      /\ \A x \in T : x.mSize = BytesMade(l, x.mSeqNo)
      /\ \A x, y \in T : x.mSeqNo = y.mSeqNo \/ x.at = y.at => x = y
  BY DEF Tabled
<1>5. {x.mSeqNo : x \in T \cup {e}} = S \cup {n}
  BY <1>3, <1>4
<1>6. {x.at : x \in T \cup {e}} = Got(p).handed
  BY <1>1, <1>3, <1>4
<1>7. \A x \in T \cup {e} : x.mSize = BytesMade(l, x.mSeqNo)
  BY <1>3, <1>4
<1>8. \A x \in T : x.mSeqNo # e.mSeqNo /\ x.at # e.at
  <2>1. \A x \in T : x.mSeqNo \in S /\ x.at \in p.handed
    BY <1>4
  <2> QED BY <1>1, <1>3, <2>1
<1>9. \A x, y \in T \cup {e} : x.mSeqNo = y.mSeqNo \/ x.at = y.at => x = y
  BY <1>4, <1>8
<1> QED BY <1>3, <1>4, <1>5, <1>6, <1>7, <1>9 DEF Tabled

\* An entry is taken out.
LEMMA TabledOneLess ==
  ASSUME NEW l, NEW S, NEW T, NEW p, Tabled(l, S, T, p), NEW e \in T
  PROVE  Tabled(l, S \ {e.mSeqNo}, T \ {e}, Released(p, e.at))
<1>1. Released(p, e.at).handed = p.handed \ {e.at}
  BY DEF Released
<1>4. /\ S \in SUBSET Allocating(l) /\ T \in SUBSET TableEntries
      /\ {x.mSeqNo : x \in T} = S /\ {x.at : x \in T} = p.handed
      /\ \A x \in T : x.mSize = BytesMade(l, x.mSeqNo)
      /\ \A x, y \in T : x.mSeqNo = y.mSeqNo \/ x.at = y.at => x = y
  BY DEF Tabled
<1>5. {x.mSeqNo : x \in T \ {e}} = S \ {e.mSeqNo}
  BY <1>4
<1>6. {x.at : x \in T \ {e}} = p.handed \ {e.at}
  BY <1>4
<1> QED BY <1>1, <1>4, <1>5, <1>6 DEF Tabled

\* The table and the pool have as many entries as there are blocks.
LEMMA TabledCounts ==
  ASSUME NEW Th, NEW l \in LogsOf(Th), NEW S, NEW T, NEW p, Tabled(l, S, T, p)
  PROVE  /\ Cardinality(T) = Cardinality(S)
         /\ Cardinality(p.handed) = Cardinality(S)
<1>1. /\ S \in SUBSET Allocating(l)
      /\ {x.mSeqNo : x \in T} = S /\ {x.at : x \in T} = p.handed
      /\ \A x, y \in T : x.mSeqNo = y.mSeqNo \/ x.at = y.at => x = y
  BY DEF Tabled
<1>2. IsFiniteSet(S)
  BY <1>1, BlocksFinite
<1> DEFINE g == [x \in T |-> x.mSeqNo]
           h == [x \in T |-> x.at]
<1>3. g \in Injection(T, S) /\ g \in Surjection(T, S)
  BY <1>1 DEF Injection, Surjection, IsInjective
<1>4. h \in Surjection(T, p.handed) /\ h \in Injection(T, p.handed)
  BY <1>1 DEF Injection, Surjection, IsInjective
<1>5. IsFiniteSet(T) /\ Cardinality(T) = Cardinality(S)
  <2> HIDE DEF g
  <2> QED BY <1>2, <1>3, FS_Injection
<1>6. Cardinality(p.handed) = Cardinality(T)
  <2> HIDE DEF h
  <2> QED BY <1>4, <1>5, FS_Surjection
<1> QED BY <1>5, <1>6

-------------------------------------------------------------------------------
(* The peaks. *)

PeakTypes(q) ==
  /\ q.bytes \in Nat /\ q.bytesSeqNo \in Nat /\ q.blocks \in Nat /\ q.blocksSeqNo \in Nat

\* After n operations the peaks are the highest there were.
Peaked(l, n, q) ==
  LET BlocksAfter(k) == Cardinality(Outstanding(l)[k])
      BytesAfter(k) == BytesOf(l, Outstanding(l)[k])
  IN  /\ PeakTypes(q)
      /\ \A k \in 0 .. n : BytesAfter(k) <= q.bytes /\ BlocksAfter(k) <= q.blocks
      /\ q.bytes > 0 => BytesAfter(q.bytesSeqNo - 1) = q.bytes
      /\ q.blocks > 0 => BlocksAfter(q.blocksSeqNo - 1) = q.blocks

\* For every thread too.
ThreadBlocks(l, S, t) == Cardinality({m \in S : t = CountedFor(l, m)})
ThreadsPeaked(l, n, q) ==
  \A t \in 0 .. TotalThreads :
    /\ q.perThread[t] \in Nat
    /\ \A k \in 0 .. n : ThreadBlocks(l, Outstanding(l)[k], t) <= q.perThread[t]
    /\ \E k \in 0 .. n : ThreadBlocks(l, Outstanding(l)[k], t) = q.perThread[t]

\* The outstanding blocks are among those the log makes.
LEMMA OutstandingAllocating ==
  ASSUME NEW Th, NEW l \in LogsOf(Th), NEW n \in 0 .. Len(Operations(l))
  PROVE  Outstanding(l)[n] \in SUBSET Allocating(l) /\ Outstanding(l)[n] \subseteq 1 .. n
<1>1. Outstanding(l)[n] = Unreleased(l, 1 .. n)
  BY OutstandingUnreleased, LogOperations
<1>2. 1 .. n \subseteq 1 .. Len(Operations(l))
  BY LogOperations
<1>3. Unreleased(l, 1 .. n) \subseteq 1 .. n
      /\ \A m \in Unreleased(l, 1 .. n) : Allocates(Operations(l)[m])
  BY DEF Unreleased
<1> QED BY <1>1, <1>2, <1>3 DEF Allocating

\* One more operation.
LEMMA PeakedNext ==
  ASSUME NEW Th, NEW l \in LogsOf(Th), NEW n \in 0 .. Len(Operations(l)) - 1,
         NEW q, Peaked(l, n, q), NEW S, S = Outstanding(l)[n + 1], NEW y, Figured(l, S, y), NEW r
  PROVE  Peaked(l, n + 1, Higher(q, y, n + 2, r))
<1> DEFINE blk(k) == Cardinality(Outstanding(l)[k])
           byt(k) == BytesOf(l, Outstanding(l)[k])
           q2 == Higher(q, y, n + 2, r)
<1>0. n \in Nat /\ n + 1 \in 0 .. Len(Operations(l)) /\ Len(Operations(l)) \in Nat
  BY LogOperations
<1>1. /\ PeakTypes(q) /\ \A k \in 0 .. n : byt(k) <= q.bytes /\ blk(k) <= q.blocks
      /\ q.bytes > 0 => byt(q.bytesSeqNo - 1) = q.bytes
      /\ q.blocks > 0 => blk(q.blocksSeqNo - 1) = q.blocks
  BY DEF Peaked
<1>2. y.bytes = byt(n + 1) /\ y.blocks = blk(n + 1) /\ S \in SUBSET Allocating(l)
  BY DEF Figured
<1>3. y.bytes \in Nat /\ y.blocks \in Nat
  BY <1>2, BytesOfType, BlocksFinite DEF Figured
<1>4. /\ q2.bytes = IF q.bytes < y.bytes THEN y.bytes ELSE q.bytes
      /\ q2.bytesSeqNo = IF q.bytes < y.bytes THEN n + 2 ELSE q.bytesSeqNo
      /\ q2.blocks = IF q.blocks < y.blocks THEN y.blocks ELSE q.blocks
      /\ q2.blocksSeqNo = IF q.blocks < y.blocks THEN n + 2 ELSE q.blocksSeqNo
  BY DEF Higher
<1>5. q.bytes \in Nat /\ q.bytesSeqNo \in Nat /\ q.blocks \in Nat /\ q.blocksSeqNo \in Nat
  BY <1>1 DEF PeakTypes
<1> HIDE DEF blk, byt, q2
<1>6. PeakTypes(q2)
  BY <1>3, <1>4, <1>5 DEF PeakTypes
<1>7. ASSUME NEW k \in 0 .. n + 1 PROVE byt(k) <= q2.bytes /\ blk(k) <= q2.blocks
  <2>1. CASE k \in 0 .. n
    <3>1. byt(k) <= q.bytes /\ blk(k) <= q.blocks
      BY <1>1, <2>1
    <3>2. byt(k) \in Nat /\ blk(k) \in Nat
      <4>1. k \in 0 .. Len(Operations(l))
        BY <1>0
      <4> QED BY <4>1, OutstandingAllocating, BytesOfType, BlocksFinite DEF byt, blk
    <3> QED BY <1>3, <1>4, <1>5, <3>1, <3>2
  <2>2. CASE k = n + 1
    BY <1>2, <1>3, <1>4, <1>5, <2>2
  <2> QED BY <1>0, <2>1, <2>2
<1>8. q2.bytes > 0 => byt(q2.bytesSeqNo - 1) = q2.bytes
  <2>1. CASE q.bytes < y.bytes
    <3>1. q2.bytesSeqNo - 1 = n + 1 /\ q2.bytes = y.bytes
      BY <1>0, <1>4, <2>1
    <3> QED BY <1>2, <3>1
  <2>2. CASE ~(q.bytes < y.bytes)
    <3>1. q2.bytesSeqNo = q.bytesSeqNo /\ q2.bytes = q.bytes
      BY <1>4, <2>2
    <3> QED BY <1>1, <3>1
  <2> QED BY <2>1, <2>2
<1>9. q2.blocks > 0 => blk(q2.blocksSeqNo - 1) = q2.blocks
  <2>1. CASE q.blocks < y.blocks
    <3>1. q2.blocksSeqNo - 1 = n + 1 /\ q2.blocks = y.blocks
      BY <1>0, <1>4, <2>1
    <3> QED BY <1>2, <3>1
  <2>2. CASE ~(q.blocks < y.blocks)
    <3>1. q2.blocksSeqNo = q.blocksSeqNo /\ q2.blocks = q.blocks
      BY <1>4, <2>2
    <3> QED BY <1>1, <3>1
  <2> QED BY <2>1, <2>2
<1> QED BY <1>6, <1>7, <1>8, <1>9 DEF Peaked, blk, byt, q2

-------------------------------------------------------------------------------
(* Reading the log. *)

\* The number of the next operation is known from the records read.
Position(l) ==
  /\ cursor \in 0 .. Len(l)
  /\ recSeqNo = Len(OperationsUpTo(l)[cursor]) + 1

\* The operations read are the first of the log.
LEMMA PositionInLog ==
  ASSUME NEW Th, NEW l \in LogsOf(Th), Position(l)
  PROVE  recSeqNo \in Nat /\ recSeqNo - 1 \in 0 .. Len(Operations(l))
<1> DEFINE O == OperationsUpTo(l)
           N == Len(l)
<1>1. l \in Seq(RecordsOf(Th, {"small", "big"})) /\ N \in Nat
  BY DEF LogsOf
<1>2. O \in [0 .. N -> Seq(RecordsOf(Th, {"small", "big"}))]
  BY <1>1, OperationsUpToValues
<1>3. cursor \in 0 .. N /\ N \in 0 .. N /\ N \in cursor .. N /\ recSeqNo = Len(O[cursor]) + 1
  BY <1>1 DEF Position
<1>4. Continues(O[N], O[cursor])
  BY <1>1, <1>3, OperationsGrow
<1>5. Operations(l) = O[N]
  BY DEF Operations
<1> HIDE DEF O, N
<1>6. O[N] \in Seq(RecordsOf(Th, {"small", "big"})) /\ O[cursor] \in Seq(RecordsOf(Th, {"small", "big"}))
  BY <1>2, <1>3
<1>7. Len(O[N]) \in Nat /\ Len(O[cursor]) \in Nat /\ Len(O[cursor]) <= Len(O[N])
  BY <1>4, <1>6 DEF Continues
<1> QED BY <1>3, <1>5, <1>7

\* The next record is a timestamp, or the operation with the next number.
LEMMA NextRecord ==
  ASSUME NEW Th, NEW l \in LogsOf(Th), Position(l), cursor # Len(l)
  PROVE  LET r == l[cursor + 1] IN
         /\ cursor + 1 \in 0 .. Len(l)
         /\ IsTimestamp(r) => recSeqNo = Len(OperationsUpTo(l)[cursor + 1]) + 1
         /\ ~IsTimestamp(r) => /\ recSeqNo \in 1 .. Len(Operations(l))
                               /\ recSeqNo - 1 \in 0 .. Len(Operations(l)) - 1
                               /\ Operations(l)[recSeqNo] = r
                               /\ recSeqNo + 1 = Len(OperationsUpTo(l)[cursor + 1]) + 1
<1> DEFINE O == OperationsUpTo(l)
           N == Len(l)
           i == cursor + 1
           r == l[i]
<1>1. l \in Seq(RecordsOf(Th, {"small", "big"})) /\ N \in Nat
  BY DEF LogsOf
<1>2. cursor \in 0 .. N /\ cursor # N /\ recSeqNo = Len(O[cursor]) + 1
  BY DEF Position
<1>3. i \in 1 .. N /\ i \in 0 .. N /\ i - 1 = cursor
  <2> HIDE DEF N
  <2> QED BY <1>1, <1>2
<1>4. IsTimestamp(r) => O[i] = O[cursor]
  BY <1>1, <1>3, OperationsUpToValues
<1>5. ~IsTimestamp(r) => /\ SeqNo(l, i) = Len(O[cursor]) + 1
                         /\ SeqNo(l, i) \in 1 .. Len(Operations(l))
                         /\ Operations(l)[SeqNo(l, i)] = r
  <2>1. ~IsTimestamp(l[i]) => /\ SeqNo(l, i) = Len(O[i - 1]) + 1
                              /\ SeqNo(l, i) \in 1 .. Len(Operations(l))
                              /\ Operations(l)[SeqNo(l, i)] = l[i]
    BY <1>1, <1>3, OperationOfRecord
  <2> HIDE DEF O, i
  <2> QED BY <2>1, <1>3
<1>6. SeqNo(l, i) = Len(O[i])
  BY DEF SeqNo
<1>7. Len(Operations(l)) \in Nat
  BY LogOperations
<1>8. CASE IsTimestamp(r)
  <2> HIDE DEF O, N, i
  <2>1. recSeqNo = Len(O[i]) + 1
    BY <1>2, <1>4, <1>8
  <2> QED BY <1>3, <1>8, <2>1 DEF O, N, i
<1>9. CASE ~IsTimestamp(r)
  <2>1. recSeqNo = SeqNo(l, i) /\ recSeqNo \in 1 .. Len(Operations(l)) /\ Operations(l)[recSeqNo] = r
        /\ recSeqNo = Len(O[i])
    <3> HIDE DEF O, N, i, r
    <3> QED BY <1>2, <1>5, <1>6, <1>9
  <2>2. recSeqNo - 1 \in 0 .. Len(Operations(l)) - 1 /\ recSeqNo + 1 = Len(O[i]) + 1
    <3> HIDE DEF O, N, i, r
    <3> QED BY <1>7, <2>1
  <2> QED BY <1>3, <1>9, <2>1, <2>2
<1> QED BY <1>8, <1>9

\* The blocks after an operation, and how many they are.
LEMMA OutstandingNext ==
  ASSUME NEW Th, NEW l \in LogsOf(Th), NEW n \in 1 .. Len(Operations(l))
  PROVE  LET r == Operations(l)[n]
             old == Outstanding(l)[n - 1]
             left == old \ (IF Releases(r) THEN {r.mMatchedMalloc} ELSE {})
         IN  /\ Outstanding(l)[n] = left \cup (IF Allocates(r) THEN {n} ELSE {})
             /\ n \notin old
             /\ Allocates(r) => n \in Allocating(l)
             /\ Releases(r) => r.mMatchedMalloc \in old
             /\ Cardinality(old) \in Nat
             /\ Cardinality(Outstanding(l)[n]) =
                  Cardinality(old) - (IF Releases(r) THEN 1 ELSE 0) + (IF Allocates(r) THEN 1 ELSE 0)
<1> DEFINE r == Operations(l)[n]
           old == Outstanding(l)[n - 1]
           new == Outstanding(l)[n]
           left == old \ (IF Releases(r) THEN {r.mMatchedMalloc} ELSE {})
<1>0. l \in Seq(RecordsOf(Th, {"small", "big"})) /\ Matched(l) /\ Len(Operations(l)) \in Nat
  BY LogOperations
<1>1. new = left \cup (IF Allocates(r) THEN {n} ELSE {})
  BY <1>0, OutstandingValues
<1>2. Releases(r) => r.mMatchedMalloc \in old
  BY <1>0 DEF Matched
<1>3. n - 1 \in 0 .. Len(Operations(l))
  BY <1>0
<1>4. old \in SUBSET Allocating(l) /\ old \subseteq 1 .. n - 1
  BY <1>3, OutstandingAllocating
<1>5. n \notin old
  BY <1>4
<1>6. Allocates(r) => n \in Allocating(l)
  BY DEF Allocating
<1>7. IsFiniteSet(old) /\ Cardinality(old) \in Nat
  BY <1>4, BlocksFinite
<1>8. Cardinality(new) = Cardinality(old) - (IF Releases(r) THEN 1 ELSE 0) + (IF Allocates(r) THEN 1 ELSE 0)
  <2> DEFINE m == r.mMatchedMalloc
  <2>1. IsFiniteSet(left) /\ Cardinality(left) = Cardinality(old) - (IF Releases(r) THEN 1 ELSE 0)
        /\ n \notin left
    <3>1. CASE Releases(r)
      <4>1. left = old \ {m} /\ m \in old
        BY <1>2, <3>1
      <4> HIDE DEF left, old, m, r
      <4>2. IsFiniteSet(old \ {m}) /\ Cardinality(old \ {m}) = Cardinality(old) - 1
        BY <1>7, <4>1, FS_RemoveElement
      <4> QED BY <1>5, <1>7, <3>1, <4>1, <4>2
    <3>2. CASE ~Releases(r)
      <4>1. left = old
        BY <3>2
      <4> HIDE DEF left, old
      <4> QED BY <1>5, <1>7, <3>2, <4>1
    <3> QED BY <3>1, <3>2
  <2>2. Cardinality(left) \in Nat
    BY <2>1, FS_CardinalityType
  <2> HIDE DEF left, new, old, r
  <2>3. CASE Allocates(r)
    <3>1. Cardinality(left \cup {n}) = Cardinality(left) + 1
      BY <2>1, FS_AddElement
    <3> QED BY <1>1, <2>1, <2>2, <2>3, <3>1
  <2>4. CASE ~Allocates(r)
    BY <1>1, <1>7, <2>1, <2>2, <2>4
  <2> QED BY <2>3, <2>4
<1> QED BY <1>1, <1>2, <1>5, <1>6, <1>7, <1>8

\* The peaks of the threads after one more operation, r: of the one whose count it has
\* changed last the peak is compared, and no other thread has more blocks than before.
LEMMA ThreadsPeakedNext ==
  ASSUME NEW Th, NEW l \in LogsOf(Th), NEW n \in 0 .. Len(Operations(l)) - 1,
         NEW q, ThreadsPeaked(l, n, q), NEW S, S = Outstanding(l)[n + 1],
         NEW y, Figured(l, S, y), NEW r, r = Operations(l)[n + 1]
  PROVE  ThreadsPeaked(l, n + 1, Higher(q, y, n + 2, r))
<1> DEFINE old == Outstanding(l)[n]
           of(T, t) == {m \in T : t = CountedFor(l, m)}
           q2 == Higher(q, y, n + 2, r)
<1>0. /\ n \in Nat /\ n \in 0 .. n /\ n + 1 \in 0 .. n + 1 /\ n + 1 \in 1 .. Len(Operations(l))
      /\ n \in 0 .. Len(Operations(l)) /\ n + 1 \in 0 .. Len(Operations(l)) /\ n + 1 - 1 = n
  BY LogOperations
<1>1. IsFiniteSet(old) /\ IsFiniteSet(S)
  BY <1>0, OutstandingAllocating, BlocksFinite
<1>2. S = (old \ (IF Releases(r) THEN {r.mMatchedMalloc} ELSE {}))
            \cup (IF Allocates(r) THEN {n + 1} ELSE {})
  BY <1>0, OutstandingNext
<1>3. Allocates(r) => CountedFor(l, n + 1) \in ThreadIndex(r)
  BY DEF CountedFor, ThreadIndex
<1> SUFFICES ASSUME NEW t \in 0 .. TotalThreads
             PROVE  /\ q2.perThread[t] \in Nat
                    /\ \A k \in 0 .. n + 1 : ThreadBlocks(l, Outstanding(l)[k], t) <= q2.perThread[t]
                    /\ \E k \in 0 .. n + 1 : ThreadBlocks(l, Outstanding(l)[k], t) = q2.perThread[t]
  BY DEF ThreadsPeaked
<1> DEFINE blk(k) == ThreadBlocks(l, Outstanding(l)[k], t)
           x == q.perThread[t]
           x2 == q2.perThread[t]
           z == y.perThread[t]
<1>4. x \in Nat /\ (\A k \in 0 .. n : blk(k) <= x) /\ \E k \in 0 .. n : blk(k) = x
  BY DEF ThreadsPeaked
<1>5. z = blk(n + 1) /\ z \in Nat
  <2>1. z = ThreadBlocks(l, S, t)
    BY DEF Figured, ThreadBlocks
  <2>2. IsFiniteSet(of(S, t)) /\ Cardinality(of(S, t)) \in Nat
    BY <1>1, FS_Subset, FS_CardinalityType
  <2> QED BY <2>1, <2>2 DEF ThreadBlocks
<1>6. x2 = IF t \in ThreadIndex(r) /\ x < z THEN z ELSE x
  BY DEF Higher
<1>7. t \notin ThreadIndex(r) => z <= x
  <2> SUFFICES ASSUME t \notin ThreadIndex(r) PROVE z <= x
    OBVIOUS
  <2>1. of(S, t) \subseteq of(old, t)
    BY <1>2, <1>3
  <2>2. /\ IsFiniteSet(of(old, t)) /\ Cardinality(of(old, t)) \in Nat
        /\ Cardinality(of(S, t)) <= Cardinality(of(old, t))
    BY <1>1, <2>1, FS_Subset, FS_CardinalityType
  <2>3. z = Cardinality(of(S, t)) /\ blk(n) = Cardinality(of(old, t))
    BY <1>5 DEF ThreadBlocks
  <2>4. blk(n) <= x
    BY <1>0, <1>4
  <2> HIDE DEF of, blk, x, z
  <2> QED BY <1>4, <1>5, <2>2, <2>3, <2>4
<1> HIDE DEF q2, blk, x, x2, z, old
<1>8. ASSUME NEW k \in 0 .. n PROVE blk(k) \in Nat
  <2>1. IsFiniteSet(Outstanding(l)[k])
    <3>1. k \in 0 .. Len(Operations(l))
      BY <1>0
    <3> QED BY <3>1, OutstandingAllocating, BlocksFinite
  <2>2. Cardinality(of(Outstanding(l)[k], t)) \in Nat
    BY <2>1, FS_Subset, FS_CardinalityType
  <2> QED BY <2>2 DEF blk, ThreadBlocks
<1>9. x2 \in Nat /\ x <= x2 /\ z <= x2 /\ (x2 = x \/ x2 = z)
  BY <1>4, <1>5, <1>6, <1>7
<1>10. \A k \in 0 .. n + 1 : blk(k) <= x2
  <2> SUFFICES ASSUME NEW k \in 0 .. n + 1 PROVE blk(k) <= x2
    OBVIOUS
  <2>1. CASE k \in 0 .. n
    BY <1>4, <1>8, <1>9, <2>1
  <2>2. CASE k = n + 1
    BY <1>5, <1>9, <2>2
  <2> QED BY <1>0, <2>1, <2>2
<1>11. \E k \in 0 .. n + 1 : blk(k) = x2
  <2>1. CASE x2 = x
    <3>1. 0 .. n \subseteq 0 .. n + 1
      BY <1>0
    <3> QED BY <1>4, <2>1, <3>1
  <2>2. CASE x2 = z
    BY <1>0, <1>5, <2>2
  <2> QED BY <1>9, <2>1, <2>2
<1> QED BY <1>9, <1>10, <1>11 DEF blk, x2

-------------------------------------------------------------------------------
(* AnalyzeTiming. *)

\* The inductive invariant of the analysis, for a log l.
TimingInv(l) ==
  LET out == Outstanding(l)[recSeqNo - 1]
  IN  /\ Position(l)
      /\ Good(pool)
      /\ Tabled(l, out, gHashTable, pool)
      /\ Figured(l, out, outstanding)
      /\ Peaked(l, recSeqNo - 1, peaks) /\ ThreadsPeaked(l, recSeqNo - 1, peaks)

\* It starts with no record read and an empty table.
LEMMA TimingInvInit ==
  ASSUME NEW Th, NEW l \in LogsOf(Th)
  PROVE  AnalysisInit => TimingInv(l)
<1> SUFFICES ASSUME AnalysisInit PROVE TimingInv(l)
  OBVIOUS
<1>1. l \in Seq(RecordsOf(Th, {"small", "big"}))
  BY DEF LogsOf
<1>2. Position(l)
  <2>1. OperationsUpTo(l)[0] = <<>> /\ Len(l) \in Nat
    BY <1>1, OperationsUpToValues
  <2>2. cursor = 0 /\ recSeqNo = 1
    BY DEF AnalysisInit
  <2> QED BY <2>1, <2>2 DEF Position
<1>3. recSeqNo - 1 = 0 /\ Outstanding(l)[0] = {}
  BY <1>1, OutstandingValues DEF AnalysisInit
<1>4. Good(pool) /\ pool.handed = {} /\ gHashTable = {}
  BY EmptyPoolGood DEF AnalysisInit, PoolInit, EmptyPool
<1>5. Tabled(l, {}, gHashTable, pool)
  BY <1>4 DEF Tabled
<1>6. Figured(l, {}, outstanding)
  BY FiguredNone DEF AnalysisInit
<1>7. Peaked(l, 0, peaks)
  <2>1. BytesOf(l, {}) = 0 /\ Cardinality({}) = 0
    BY BytesOfNone, FS_EmptySet
  <2>2. /\ peaks.bytes = 0 /\ peaks.bytesSeqNo = 0 /\ peaks.blocks = 0 /\ peaks.blocksSeqNo = 0
    BY DEF AnalysisInit
  <2>3. PeakTypes(peaks) /\ peaks.bytes = 0 /\ peaks.blocks = 0
    BY <2>2 DEF PeakTypes
  <2>4. \A k \in 0 .. 0 : k = 0
    OBVIOUS
  <2>5. \A k \in 0 .. 0 : /\ BytesOf(l, Outstanding(l)[k]) <= peaks.bytes
                          /\ Cardinality(Outstanding(l)[k]) <= peaks.blocks
    BY <1>3, <2>1, <2>3, <2>4
  <2> QED BY <2>3, <2>5 DEF Peaked
<1>8. ThreadsPeaked(l, 0, peaks)
  <2> SUFFICES ASSUME NEW t \in 0 .. TotalThreads
               PROVE  /\ peaks.perThread[t] = 0
                      /\ \A k \in 0 .. 0 : ThreadBlocks(l, Outstanding(l)[k], t) = 0
    BY DEF ThreadsPeaked
  <2>1. peaks.perThread[t] = 0
    BY DEF AnalysisInit, AllZero
  <2>2. {m \in {} : t = CountedFor(l, m)} = {}
    OBVIOUS
  <2>3. ThreadBlocks(l, {}, t) = 0
    BY <2>2, FS_EmptySet DEF ThreadBlocks
  <2>4. \A k \in 0 .. 0 : k = 0
    OBVIOUS
  <2> QED BY <1>3, <2>1, <2>3, <2>4
<1> QED BY <1>2, <1>3, <1>4, <1>5, <1>6, <1>7, <1>8 DEF TimingInv

\* The block the record r with number n releases is in the table, and counted for the
\* thread the record says.
LEMMA TakenOut ==
  ASSUME NEW Th, NEW l \in LogsOf(Th), NEW n \in 1 .. Len(Operations(l)),
         NEW S, S = Outstanding(l)[n - 1],
         Good(pool), Tabled(l, S, gHashTable, pool), Figured(l, S, outstanding),
         Releases(Operations(l)[n])
  PROVE  LET r == Operations(l)[n]
             taken == Taken(r.mMatchedMalloc)
             old == CHOOSE e \in taken : TRUE
             left == S \ {r.mMatchedMalloc}
         IN  /\ taken # {}
             /\ Good(Released(pool, old.at))
             /\ Tabled(l, left, gHashTable \ taken, Released(pool, old.at))
             /\ Figured(l, left, AfterRelease(outstanding, r, old))
<1> DEFINE r == Operations(l)[n]
           m == r.mMatchedMalloc
           taken == Taken(m)
           old == CHOOSE e \in taken : TRUE
<1>1. m \in S /\ S \in SUBSET Allocating(l)
  BY OutstandingNext DEF Tabled
<1>2. /\ \A e \in gHashTable : e.mSize = BytesMade(l, e.mSeqNo)
      /\ \A e, f \in gHashTable : e.mSeqNo = f.mSeqNo \/ e.at = f.at => e = f
      /\ {e.mSeqNo : e \in gHashTable} = S /\ {e.at : e \in gHashTable} = pool.handed
  BY DEF Tabled
<1>3. PICK e \in gHashTable : e.mSeqNo = m
  BY <1>1, <1>2
<1>4. taken = {e}
  BY <1>2, <1>3 DEF Taken
<1>5. old = e
  BY <1>4
<1>6. old \in gHashTable /\ old.mSeqNo = m /\ old.mSize = BytesMade(l, m) /\ old.at \in pool.handed
  <2>1. e.at \in pool.handed /\ e.mSize = BytesMade(l, m)
    BY <1>2, <1>3
  <2> QED BY <1>3, <1>5, <2>1
<1>7. Good(Released(pool, old.at))
  <2> HIDE DEF old
  <2> QED BY <1>6, ReleasedGood
<1>8. Tabled(l, S \ {m}, gHashTable \ taken, Released(pool, old.at))
  <2>1. gHashTable \ taken = gHashTable \ {old}
    BY <1>4, <1>5
  <2> HIDE DEF old, taken, m
  <2>2. Tabled(l, S \ {old.mSeqNo}, gHashTable \ {old}, Released(pool, old.at))
    BY <1>6, TabledOneLess
  <2> QED BY <1>6, <2>1, <2>2
<1>9. Counted(r.mAllocatedByOtherThread, r.mThreadID) = CountedFor(l, m)
  <2>1. /\ r.mAllocatedByOtherThread = (r.mThreadID # Operations(l)[m].mThreadID)
        /\ Operations(l)[m].mFreeByOtherThread = r.mAllocatedByOtherThread
    BY LogOperations, MatchedOperations
  <2> HIDE DEF r, m
  <2> QED BY <2>1 DEF Counted, CountedFor
<1>10. Figured(l, S \ {m}, AfterRelease(outstanding, r, old))
  <2> HIDE DEF old, r, m
  <2> QED BY <1>1, <1>6, <1>9, FiguredOneLess
<1> QED BY <1>4, <1>7, <1>8, <1>10

\* The block the record with number n makes is added.
LEMMA PutIn ==
  ASSUME NEW Th, NEW l \in LogsOf(Th), NEW n \in Allocating(l), recSeqNo = n,
         NEW S, n \notin S, NEW T, NEW p, NEW y,
         Good(p), Tabled(l, S, T, p), Figured(l, S, y)
  PROVE  LET r == Operations(l)[n]
         IN  /\ Good(Got(p))
             /\ Tabled(l, S \cup {n}, T \cup {NewEntry(p, r)}, Got(p))
             /\ Figured(l, S \cup {n}, AfterAllocation(y, r))
<1>1. NewEntry(p, Operations(l)[n]) =
        [mSeqNo |-> n, mSize |-> BytesMade(l, n), at |-> Popped(p).at]
  BY DEF NewEntry, BytesMade
<1>2. Tabled(l, S \cup {n}, T \cup {NewEntry(p, Operations(l)[n])}, Got(p))
  BY <1>1, TabledOneMore
<1> QED BY <1>2, GotGood, FiguredOneMore

\* Every record read keeps it.
LEMMA TimingInvKept ==
  ASSUME NEW Th, NEW l \in LogsOf(Th), TimingInv(l), cursor # Len(l), AnalyzeTiming(l)
  PROVE  TimingInv(l)'
<1> DEFINE n == recSeqNo
           r == l[cursor + 1]
           S == Outstanding(l)[n - 1]
           S2 == Outstanding(l)[n]
<1>1. /\ Position(l) /\ Good(pool) /\ Tabled(l, S, gHashTable, pool)
      /\ Figured(l, S, outstanding) /\ Peaked(l, n - 1, peaks) /\ ThreadsPeaked(l, n - 1, peaks)
  BY DEF TimingInv
<1>2. n \in Nat /\ n - 1 \in 0 .. Len(Operations(l))
  BY <1>1, PositionInLog
<1>3. CASE AnalyzeTimestamp(l)
  <2>1. IsTimestamp(r) /\ cursor' = cursor + 1 /\ n' = n /\ gHashTable' = gHashTable
        /\ pool' = pool /\ outstanding' = outstanding /\ peaks' = peaks
    BY <1>3 DEF AnalyzeTimestamp, timingVars
  <2>2. cursor + 1 \in 0 .. Len(l) /\ n = Len(OperationsUpTo(l)[cursor + 1]) + 1
    BY <1>1, <2>1, NextRecord
  <2>3. Position(l)'
    BY <2>1, <2>2 DEF Position
  <2> QED BY <1>1, <2>1, <2>3 DEF TimingInv
<1>4. CASE AnalyzeOperation(l)
  <2> DEFINE taken == IF Releases(r) THEN Taken(r.mMatchedMalloc) ELSE {}
             old == CHOOSE e \in taken : TRUE
             p == IF taken = {} THEN pool ELSE Released(pool, old.at)
             y == IF taken = {} THEN outstanding ELSE AfterRelease(outstanding, r, old)
             left == S \ (IF Releases(r) THEN {r.mMatchedMalloc} ELSE {})
  <2>1. /\ ~IsTimestamp(r)
        /\ pool' = (IF Allocates(r) THEN Got(p) ELSE p)
        /\ gHashTable' = (gHashTable \ taken) \cup (IF Allocates(r) THEN {NewEntry(p, r)} ELSE {})
        /\ outstanding' = (IF Allocates(r) THEN AfterAllocation(y, r) ELSE y)
        /\ n' = n + 1 /\ peaks' = Higher(peaks, outstanding', n', r) /\ cursor' = cursor + 1
    BY <1>4 DEF AnalyzeOperation
  <2>2. /\ cursor + 1 \in 0 .. Len(l)
        /\ n \in 1 .. Len(Operations(l)) /\ n - 1 \in 0 .. Len(Operations(l)) - 1
        /\ Operations(l)[n] = r
        /\ n + 1 = Len(OperationsUpTo(l)[cursor + 1]) + 1
    BY <1>1, <2>1, NextRecord
  <2>3. Position(l)'
    BY <2>1, <2>2 DEF Position
  <2>4. /\ S2 = left \cup (IF Allocates(r) THEN {n} ELSE {})
        /\ n \notin S
        /\ Allocates(r) => n \in Allocating(l)
    <3>1. LET ops == Operations(l)[n] IN
          /\ S2 = (S \ (IF Releases(ops) THEN {ops.mMatchedMalloc} ELSE {}))
                    \cup (IF Allocates(ops) THEN {n} ELSE {})
          /\ n \notin S
          /\ Allocates(ops) => n \in Allocating(l)
      BY <2>2, OutstandingNext
    <3> HIDE DEF r, n
    <3> QED BY <2>2, <3>1
  <2>5. Good(p) /\ Tabled(l, left, gHashTable \ taken, p) /\ Figured(l, left, y)
    <3>1. CASE Releases(r)
      <4> DEFINE m == r.mMatchedMalloc
                 tk == Taken(m)
                 o == CHOOSE e \in tk : TRUE
      <4>1. /\ tk # {} /\ Good(Released(pool, o.at))
            /\ Tabled(l, S \ {m}, gHashTable \ tk, Released(pool, o.at))
            /\ Figured(l, S \ {m}, AfterRelease(outstanding, r, o))
        <5>1. LET ops == Operations(l)[n]
                  q == Taken(ops.mMatchedMalloc)
                  f == CHOOSE e \in q : TRUE
              IN  /\ q # {} /\ Good(Released(pool, f.at))
                  /\ Tabled(l, S \ {ops.mMatchedMalloc}, gHashTable \ q, Released(pool, f.at))
                  /\ Figured(l, S \ {ops.mMatchedMalloc}, AfterRelease(outstanding, ops, f))
          <6>1. Releases(Operations(l)[n])
            BY <2>2, <3>1
          <6> HIDE DEF r, n, S
          <6>2. S = Outstanding(l)[n - 1]
            BY DEF S
          <6> QED BY <1>1, <2>2, <6>1, <6>2, TakenOut
        <5> HIDE DEF r, n, S
        <5> QED BY <2>2, <5>1
      <4>2. taken = tk /\ old = o /\ left = S \ {m}
        BY <3>1
      <4> HIDE DEF tk, o, m, S, r, n, left, taken, old
      <4>3. p = Released(pool, old.at) /\ y = AfterRelease(outstanding, r, old)
        BY <4>1, <4>2
      <4> HIDE DEF p, y
      <4> QED BY <4>1, <4>2, <4>3
    <3>2. CASE ~Releases(r)
      <4>1. taken = {} /\ left = S
        BY <3>2
      <4>2. p = pool /\ y = outstanding /\ gHashTable \ taken = gHashTable
        BY <4>1
      <4> HIDE DEF taken, left, S, p, y
      <4> QED BY <1>1, <4>1, <4>2
    <3> QED BY <3>1, <3>2
  <2> HIDE DEF taken, old, p, y, left, S
  <2>6. Good(pool') /\ Tabled(l, S2, gHashTable', pool') /\ Figured(l, S2, outstanding')
    <3>1. CASE Allocates(r)
      <4>1. n \in Allocating(l) /\ n \notin left /\ recSeqNo = n
        BY <2>4, <3>1 DEF left
      <4>2. /\ Good(Got(p))
            /\ Tabled(l, left \cup {n}, (gHashTable \ taken) \cup {NewEntry(p, Operations(l)[n])}, Got(p))
            /\ Figured(l, left \cup {n}, AfterAllocation(y, Operations(l)[n]))
        <5> HIDE DEF n
        <5> QED BY <2>5, <4>1, PutIn
      <4>3. /\ S2 = left \cup {n} /\ pool' = Got(p)
            /\ gHashTable' = (gHashTable \ taken) \cup {NewEntry(p, Operations(l)[n])}
            /\ outstanding' = AfterAllocation(y, Operations(l)[n])
        BY <2>1, <2>2, <2>4, <3>1
      <4> HIDE DEF S2, n
      <4> QED BY <4>2, <4>3
    <3>2. CASE ~Allocates(r)
      <4>1. S2 = left /\ pool' = p /\ gHashTable' = gHashTable \ taken /\ outstanding' = y
        BY <2>1, <2>4, <3>2
      <4> HIDE DEF S2, n
      <4> QED BY <2>5, <4>1
    <3> QED BY <3>1, <3>2
  <2>7. Peaked(l, n, peaks') /\ ThreadsPeaked(l, n, peaks')
    <3> DEFINE k == n - 1
    <3>1. k \in 0 .. Len(Operations(l)) - 1 /\ k + 1 = n /\ k + 2 = n + 1
      BY <1>2, <2>2
    <3>2. /\ Peaked(l, k, peaks) /\ ThreadsPeaked(l, k, peaks)
          /\ S2 = Outstanding(l)[k + 1] /\ Figured(l, S2, outstanding')
          /\ r = Operations(l)[k + 1]
      BY <1>1, <2>2, <2>6, <3>1
    <3> HIDE DEF k, S2, r
    <3>3. /\ Peaked(l, k + 1, Higher(peaks, outstanding', k + 2, r))
          /\ ThreadsPeaked(l, k + 1, Higher(peaks, outstanding', k + 2, r))
      BY <3>1, <3>2, PeakedNext, ThreadsPeakedNext
    <3> QED BY <2>1, <3>1, <3>3
  <2>8. recSeqNo' - 1 = n
    BY <1>2, <2>1
  <2>9. /\ Good(pool)' /\ Tabled(l, Outstanding(l)[recSeqNo - 1], gHashTable, pool)'
        /\ Figured(l, Outstanding(l)[recSeqNo - 1], outstanding)'
        /\ Peaked(l, recSeqNo - 1, peaks)' /\ ThreadsPeaked(l, recSeqNo - 1, peaks)'
    <3> HIDE DEF n
    <3> QED BY <2>6, <2>7, <2>8
  <2> QED BY <2>3, <2>9 DEF TimingInv
<1> QED BY <1>3, <1>4 DEF AnalyzeTiming

\* It says that the analysis is exact.
LEMMA TimingInvExact ==
  ASSUME NEW Th, NEW l \in LogsOf(Th), TimingInv(l)
  PROVE  TimingExact(l)
<1> DEFINE n == recSeqNo - 1
           out == Outstanding(l)[n]
<1>1. /\ Tabled(l, out, gHashTable, pool) /\ Figured(l, out, outstanding) /\ Peaked(l, n, peaks)
      /\ ThreadsPeaked(l, n, peaks)
  BY DEF TimingInv
<1> HIDE DEF n
<1>2. Cardinality(gHashTable) = Cardinality(out) /\ Cardinality(pool.handed) = Cardinality(out)
  BY <1>1, TabledCounts
<1>3. {e.mSeqNo : e \in gHashTable} = out /\ {e.at : e \in gHashTable} = pool.handed
  BY <1>1 DEF Tabled
<1>4. /\ outstanding.blocks = Cardinality(out) /\ outstanding.bytes = BytesOf(l, out)
      /\ \A t \in 0 .. TotalThreads :
           outstanding.perThread[t] = Cardinality({m \in out : t = CountedFor(l, m)})
  BY <1>1 DEF Figured
<1>5. \A t \in 0 .. TotalThreads : outstanding.perThread[t] =
        Cardinality({m \in out : t = IF Operations(l)[m].mFreeByOtherThread THEN 0
                                     ELSE Operations(l)[m].mThreadID})
  BY <1>4 DEF CountedFor, Counted
<1>6. /\ \A k \in 0 .. n : /\ BytesOf(l, Outstanding(l)[k]) <= peaks.bytes
                           /\ Cardinality(Outstanding(l)[k]) <= peaks.blocks
      /\ peaks.bytes > 0 => BytesOf(l, Outstanding(l)[peaks.bytesSeqNo - 1]) = peaks.bytes
      /\ peaks.blocks > 0 => Cardinality(Outstanding(l)[peaks.blocksSeqNo - 1]) = peaks.blocks
  BY <1>1 DEF Peaked
<1> HIDE DEF out
<1>7. out = Outstanding(l)[recSeqNo - 1] /\ n = recSeqNo - 1
  BY DEF out, n
<1>8. \A t \in 0 .. TotalThreads :
        LET after(k) == Cardinality({m \in Outstanding(l)[k] :
                                       t = IF Operations(l)[m].mFreeByOtherThread THEN 0
                                           ELSE Operations(l)[m].mThreadID})
        IN  /\ \A k \in 0 .. n : after(k) <= peaks.perThread[t]
            /\ \E k \in 0 .. n : after(k) = peaks.perThread[t]
  BY <1>1 DEF ThreadsPeaked, ThreadBlocks, CountedFor, Counted
<1> QED BY <1>2, <1>3, <1>4, <1>5, <1>6, <1>7, <1>8 DEF TimingExact

-------------------------------------------------------------------------------
(* PrintAll. *)

\* How many of the first n numbers are in A, one number later.
LEMMA OneMoreCounted ==
  ASSUME NEW A, NEW n \in Nat
  PROVE  LET upTo(k) == {m \in 1 .. k : m \in A} IN
         /\ IsFiniteSet(upTo(n)) /\ Cardinality(upTo(n)) \in Nat
         /\ Cardinality(upTo(n + 1)) = Cardinality(upTo(n)) + (IF n + 1 \in A THEN 1 ELSE 0)
<1> DEFINE U == {m \in 1 .. n : m \in A}
           U2 == {m \in 1 .. n + 1 : m \in A}
<1>1. IsFiniteSet(U) /\ Cardinality(U) \in Nat /\ n + 1 \notin U
  <2>1. IsFiniteSet(1 .. n)
    BY FS_Interval
  <2>2. U \in SUBSET (1 .. n) /\ n + 1 \notin U
    OBVIOUS
  <2> QED BY <2>1, <2>2, FS_Subset, FS_CardinalityType
<1>2. U2 = IF n + 1 \in A THEN U \cup {n + 1} ELSE U
  <2>1. \A m : m \in 1 .. n + 1 <=> m \in 1 .. n \/ m = n + 1
    OBVIOUS
  <2> QED BY <2>1
<1>3. Cardinality(U2) = Cardinality(U) + (IF n + 1 \in A THEN 1 ELSE 0)
  <2> HIDE DEF U, U2
  <2>1. CASE n + 1 \in A
    <3>1. Cardinality(U \cup {n + 1}) = Cardinality(U) + 1
      BY <1>1, FS_AddElement
    <3> QED BY <1>2, <2>1, <3>1
  <2>2. CASE n + 1 \notin A
    BY <1>1, <1>2, <2>2
  <2> QED BY <2>1, <2>2
<1> QED BY <1>1, <1>3

\* The matched operations of kind k, and the operations that are no malloc, among the
\* first n.
MatchedOf(l, n, k) ==
  {m \in 1 .. n : Operations(l)[m].mType = k /\ Releases(Operations(l)[m])}
OtherThanMalloc(l, n) == {m \in 1 .. n : Operations(l)[m].mType # "malloc"}

Counts == [{"malloc", "free", "realloc", "unknown"} -> Nat]

\* After n operations the counts account for all of them.
Printed(l, n, c) ==
  /\ c \in Counts
  /\ c["malloc"] + c["realloc"] - c["free"] - Cardinality(MatchedOf(l, n, "realloc"))
       = Cardinality(Outstanding(l)[n])
  /\ c["unknown"] + Cardinality(MatchedOf(l, n, "free")) + Cardinality(MatchedOf(l, n, "realloc"))
       = Cardinality(OtherThanMalloc(l, n))

\* The inductive invariant of the listing, for a log l.
PrintInv(l) == Position(l) /\ Printed(l, recSeqNo - 1, opCounts)

\* No operation, no counts.
LEMMA PrintInvInit ==
  ASSUME NEW Th, NEW l \in LogsOf(Th)
  PROVE  AnalysisInit => PrintInv(l)
<1> SUFFICES ASSUME AnalysisInit PROVE PrintInv(l)
  OBVIOUS
<1>1. Position(l)
  BY TimingInvInit DEF TimingInv
<1>2. recSeqNo - 1 = 0 /\ Outstanding(l)[0] = {}
  BY LogOperations, OutstandingValues DEF AnalysisInit
<1>3. 1 .. 0 = {}
  OBVIOUS
<1>4. MatchedOf(l, 0, "free") = {} /\ MatchedOf(l, 0, "realloc") = {} /\ OtherThanMalloc(l, 0) = {}
  BY <1>3 DEF MatchedOf, OtherThanMalloc
<1>5. Cardinality({}) = 0
  BY FS_EmptySet
<1>6. opCounts \in Counts /\ opCounts["malloc"] = 0 /\ opCounts["realloc"] = 0
      /\ opCounts["free"] = 0 /\ opCounts["unknown"] = 0
  BY DEF AnalysisInit, AllZero, Counts
<1>7. Printed(l, 0, opCounts)
  BY <1>2, <1>4, <1>5, <1>6 DEF Printed
<1> QED BY <1>1, <1>2, <1>7 DEF PrintInv

\* An operation is counted once, as matched or as unknown, and an unmatched realloc twice.
LEMMA PrintedNext ==
  ASSUME NEW Th, NEW l \in LogsOf(Th), NEW n \in 1 .. Len(Operations(l)),
         NEW c, Printed(l, n - 1, c), NEW d,
         d = [k \in DOMAIN c |-> IF k \in Kinds(Operations(l)[n]) THEN c[k] + 1 ELSE c[k]]
  PROVE  Printed(l, n, d)
<1> DEFINE r == Operations(l)[n]
           one(b) == IF b THEN 1 ELSE 0
<1>0. n - 1 \in Nat /\ (n - 1) + 1 = n
  BY LogOperations
<1>1. /\ r.mType \in {"malloc", "free", "realloc"}
      /\ Allocates(r) <=> r.mType \in {"malloc", "realloc"}
      /\ Releases(r) => r.mType \in {"free", "realloc"}
  <2>1. r \in RecordsOf(Th, {"small", "big"}) /\ ~IsTimestamp(r)
    BY LogOperations
  <2> HIDE DEF r
  <2>2. r.mType \in {"timestamp", "malloc", "free", "realloc"}
    BY <2>1, RecordFields
  <2> QED BY <2>1, <2>2 DEF IsTimestamp, Allocates, Releases
<1>2. ASSUME NEW k
      PROVE  /\ Cardinality(MatchedOf(l, n - 1, k)) \in Nat
             /\ Cardinality(MatchedOf(l, n, k)) =
                  Cardinality(MatchedOf(l, n - 1, k)) + one(r.mType = k /\ Releases(r))
  <2> DEFINE A == {m \in Nat : Operations(l)[m].mType = k /\ Releases(Operations(l)[m])}
             u(j) == {m \in 1 .. j : m \in A}
  <2>1. ASSUME NEW j PROVE u(j) = MatchedOf(l, j, k)
    <3>1. \A m \in 1 .. j : m \in Nat
      OBVIOUS
    <3> QED BY <3>1 DEF MatchedOf
  <2>2. n \in A <=> r.mType = k /\ Releases(r)
    BY <1>0
  <2>3. Cardinality(u(n - 1)) \in Nat
        /\ Cardinality(u((n - 1) + 1)) = Cardinality(u(n - 1)) + (IF (n - 1) + 1 \in A THEN 1 ELSE 0)
    <3> HIDE DEF A
    <3> QED BY <1>0, OneMoreCounted
  <2>4. (n - 1) + 1 \in A <=> n \in A
    BY <1>0
  <2>5. u((n - 1) + 1) = u(n)
    BY <1>0
  <2> HIDE DEF A, u, r
  <2> QED BY <2>1, <2>2, <2>3, <2>4, <2>5
<1>3. /\ Cardinality(OtherThanMalloc(l, n - 1)) \in Nat
      /\ Cardinality(OtherThanMalloc(l, n)) =
           Cardinality(OtherThanMalloc(l, n - 1)) + one(r.mType # "malloc")
  <2> DEFINE A == {m \in Nat : Operations(l)[m].mType # "malloc"}
             u(j) == {m \in 1 .. j : m \in A}
  <2>1. ASSUME NEW j PROVE u(j) = OtherThanMalloc(l, j)
    <3>1. \A m \in 1 .. j : m \in Nat
      OBVIOUS
    <3> QED BY <3>1 DEF OtherThanMalloc
  <2>2. n \in A <=> r.mType # "malloc"
    BY <1>0
  <2>3. Cardinality(u(n - 1)) \in Nat
        /\ Cardinality(u((n - 1) + 1)) = Cardinality(u(n - 1)) + (IF (n - 1) + 1 \in A THEN 1 ELSE 0)
    <3> HIDE DEF A
    <3> QED BY <1>0, OneMoreCounted
  <2>4. (n - 1) + 1 \in A <=> n \in A
    BY <1>0
  <2>5. u((n - 1) + 1) = u(n)
    BY <1>0
  <2> HIDE DEF A, u, r
  <2> QED BY <2>1, <2>2, <2>3, <2>4, <2>5
<1>4. Cardinality(Outstanding(l)[n - 1]) \in Nat
      /\ Cardinality(Outstanding(l)[n]) =
           Cardinality(Outstanding(l)[n - 1]) - one(Releases(r)) + one(Allocates(r))
  BY OutstandingNext
<1>5. Kinds(r) = (IF r.mType \in {"malloc", "realloc"} THEN {r.mType} ELSE {})
                   \cup (IF r.mType = "free" /\ Releases(r) THEN {"free"} ELSE {})
                   \cup (IF r.mType \in {"free", "realloc"} /\ ~Releases(r) THEN {"unknown"} ELSE {})
  <2> HIDE DEF r
  <2> QED BY DEF Kinds
<1> HIDE DEF r
<1>6. /\ c \in Counts
      /\ c["malloc"] + c["realloc"] - c["free"] - Cardinality(MatchedOf(l, n - 1, "realloc"))
           = Cardinality(Outstanding(l)[n - 1])
      /\ c["unknown"] + Cardinality(MatchedOf(l, n - 1, "free"))
           + Cardinality(MatchedOf(l, n - 1, "realloc")) = Cardinality(OtherThanMalloc(l, n - 1))
  BY DEF Printed
<1>7. DOMAIN c = {"malloc", "free", "realloc", "unknown"} /\ \A k \in DOMAIN c : c[k] \in Nat
  BY <1>6 DEF Counts
<1>8. d \in Counts
  <2>1. d = [k \in DOMAIN c |-> IF k \in Kinds(r) THEN c[k] + 1 ELSE c[k]]
    BY DEF r
  <2> QED BY <1>7, <2>1 DEF Counts
<1>9. /\ d["malloc"] = c["malloc"] + one(r.mType = "malloc")
      /\ d["realloc"] = c["realloc"] + one(r.mType = "realloc")
      /\ d["free"] = c["free"] + one(r.mType = "free" /\ Releases(r))
      /\ d["unknown"] = c["unknown"] + one(r.mType # "malloc" /\ ~Releases(r))
  <2>1. \A k \in DOMAIN c : d[k] = IF k \in Kinds(r) THEN c[k] + 1 ELSE c[k]
    BY DEF r
  <2>2. /\ "malloc" \in Kinds(r) <=> r.mType = "malloc"
        /\ "realloc" \in Kinds(r) <=> r.mType = "realloc"
        /\ "free" \in Kinds(r) <=> r.mType = "free" /\ Releases(r)
        /\ "unknown" \in Kinds(r) <=> r.mType # "malloc" /\ ~Releases(r)
    BY <1>1, <1>5
  <2> QED BY <1>7, <2>1, <2>2
<1> DEFINE ma == c["malloc"]
           re == c["realloc"]
           fr == c["free"]
           un == c["unknown"]
           mf == Cardinality(MatchedOf(l, n - 1, "free"))
           mr == Cardinality(MatchedOf(l, n - 1, "realloc"))
           ou == Cardinality(Outstanding(l)[n - 1])
           ot == Cardinality(OtherThanMalloc(l, n - 1))
<1>10. /\ ma \in Nat /\ re \in Nat /\ fr \in Nat /\ un \in Nat
       /\ mf \in Nat /\ mr \in Nat /\ ou \in Nat /\ ot \in Nat
       /\ ma + re - fr - mr = ou /\ un + mf + mr = ot
  BY <1>2, <1>3, <1>4, <1>6, <1>7
<1>11. /\ Cardinality(MatchedOf(l, n, "free")) = mf + one(r.mType = "free" /\ Releases(r))
       /\ Cardinality(MatchedOf(l, n, "realloc")) = mr + one(r.mType = "realloc" /\ Releases(r))
       /\ Cardinality(OtherThanMalloc(l, n)) = ot + one(r.mType # "malloc")
       /\ Cardinality(Outstanding(l)[n]) = ou - one(Releases(r)) + one(Allocates(r))
  BY <1>2, <1>3, <1>4
<1>12. /\ d["malloc"] = ma + one(r.mType = "malloc")
       /\ d["realloc"] = re + one(r.mType = "realloc")
       /\ d["free"] = fr + one(r.mType = "free" /\ Releases(r))
       /\ d["unknown"] = un + one(r.mType # "malloc" /\ ~Releases(r))
  BY <1>9
<1> DEFINE ma2 == d["malloc"]
           re2 == d["realloc"]
           fr2 == d["free"]
           un2 == d["unknown"]
           mf2 == Cardinality(MatchedOf(l, n, "free"))
           mr2 == Cardinality(MatchedOf(l, n, "realloc"))
           ou2 == Cardinality(Outstanding(l)[n])
           ot2 == Cardinality(OtherThanMalloc(l, n))
<1> HIDE DEF ma, re, fr, un, mf, mr, ou, ot
<1>13. ma2 + re2 - fr2 - mr2 = ou2 /\ un2 + mf2 + mr2 = ot2
  <2>1. CASE r.mType = "malloc"
    <3>1. /\ ma2 = ma + 1 /\ re2 = re + 0 /\ fr2 = fr + 0 /\ un2 = un + 0
          /\ mf2 = mf + 0 /\ mr2 = mr + 0 /\ ou2 = ou - 0 + 1 /\ ot2 = ot + 0
      BY <1>1, <1>11, <1>12, <2>1
    <3> HIDE DEF ma2, re2, fr2, un2, mf2, mr2, ou2, ot2
    <3> QED BY <1>10, <3>1
  <2>2. CASE r.mType = "free" /\ Releases(r)
    <3>1. /\ ma2 = ma + 0 /\ re2 = re + 0 /\ fr2 = fr + 1 /\ un2 = un + 0
          /\ mf2 = mf + 1 /\ mr2 = mr + 0 /\ ou2 = ou - 1 + 0 /\ ot2 = ot + 1
      BY <1>1, <1>11, <1>12, <2>2
    <3> HIDE DEF ma2, re2, fr2, un2, mf2, mr2, ou2, ot2
    <3> QED BY <1>10, <3>1
  <2>3. CASE r.mType = "free" /\ ~Releases(r)
    <3>1. /\ ma2 = ma + 0 /\ re2 = re + 0 /\ fr2 = fr + 0 /\ un2 = un + 1
          /\ mf2 = mf + 0 /\ mr2 = mr + 0 /\ ou2 = ou - 0 + 0 /\ ot2 = ot + 1
      BY <1>1, <1>11, <1>12, <2>3
    <3> HIDE DEF ma2, re2, fr2, un2, mf2, mr2, ou2, ot2
    <3> QED BY <1>10, <3>1
  <2>4. CASE r.mType = "realloc" /\ Releases(r)
    <3>1. /\ ma2 = ma + 0 /\ re2 = re + 1 /\ fr2 = fr + 0 /\ un2 = un + 0
          /\ mf2 = mf + 0 /\ mr2 = mr + 1 /\ ou2 = ou - 1 + 1 /\ ot2 = ot + 1
      BY <1>1, <1>11, <1>12, <2>4
    <3> HIDE DEF ma2, re2, fr2, un2, mf2, mr2, ou2, ot2
    <3> QED BY <1>10, <3>1
  <2>5. CASE r.mType = "realloc" /\ ~Releases(r)
    <3>1. /\ ma2 = ma + 0 /\ re2 = re + 1 /\ fr2 = fr + 0 /\ un2 = un + 1
          /\ mf2 = mf + 0 /\ mr2 = mr + 0 /\ ou2 = ou - 0 + 1 /\ ot2 = ot + 1
      BY <1>1, <1>11, <1>12, <2>5
    <3> HIDE DEF ma2, re2, fr2, un2, mf2, mr2, ou2, ot2
    <3> QED BY <1>10, <3>1
  <2> QED BY <1>1, <2>1, <2>2, <2>3, <2>4, <2>5
<1> QED BY <1>8, <1>13 DEF Printed

\* Every record read keeps it.
LEMMA PrintInvKept ==
  ASSUME NEW Th, NEW l \in LogsOf(Th), PrintInv(l), cursor # Len(l), PrintAll(l)
  PROVE  PrintInv(l)'
<1> DEFINE n == recSeqNo
           r == l[cursor + 1]
<1>1. Position(l) /\ Printed(l, n - 1, opCounts)
  BY DEF PrintInv
<1>2. n \in Nat
  BY <1>1, PositionInLog
<1>3. /\ cursor' = cursor + 1 /\ n' = (IF IsTimestamp(r) THEN n ELSE n + 1)
      /\ opCounts' = [k \in DOMAIN opCounts |->
                        IF k \in Kinds(r) THEN opCounts[k] + 1 ELSE opCounts[k]]
  BY DEF PrintAll
<1>4. CASE IsTimestamp(r)
  <2>1. cursor + 1 \in 0 .. Len(l) /\ n = Len(OperationsUpTo(l)[cursor + 1]) + 1
    BY <1>1, <1>4, NextRecord
  <2>2. Position(l)'
    BY <1>3, <1>4, <2>1 DEF Position
  <2>3. Kinds(r) = {}
    BY <1>4 DEF Kinds, IsTimestamp
  <2>4. opCounts' = opCounts
    <3>1. opCounts = [k \in DOMAIN opCounts |-> opCounts[k]]
      BY <1>1 DEF Printed, Counts
    <3>2. opCounts' = [k \in DOMAIN opCounts |-> opCounts[k]]
      BY <1>3, <2>3
    <3> QED BY <3>1, <3>2
  <2>5. n' = n
    BY <1>3, <1>4
  <2>6. Printed(l, recSeqNo - 1, opCounts)'
    BY <1>1, <2>4, <2>5
  <2> QED BY <2>2, <2>6 DEF PrintInv
<1>5. CASE ~IsTimestamp(r)
  <2>1. /\ cursor + 1 \in 0 .. Len(l) /\ n \in 1 .. Len(Operations(l)) /\ Operations(l)[n] = r
        /\ n + 1 = Len(OperationsUpTo(l)[cursor + 1]) + 1
    BY <1>1, <1>5, NextRecord
  <2>2. Position(l)'
    BY <1>3, <1>5, <2>1 DEF Position
  <2>3. Printed(l, n, opCounts')
    <3> HIDE DEF r, n
    <3> QED BY <1>1, <1>3, <2>1, PrintedNext
  <2>4. recSeqNo' - 1 = n
    BY <1>2, <1>3, <1>5
  <2>5. Printed(l, recSeqNo - 1, opCounts)'
    <3> HIDE DEF n
    <3> QED BY <2>3, <2>4
  <2> QED BY <2>2, <2>5 DEF PrintInv
<1> QED BY <1>4, <1>5

\* It says that the listing is exact.
LEMMA PrintInvExact ==
  ASSUME NEW l, PrintInv(l)
  PROVE  PrintExact(l)
BY DEF PrintInv, Printed, PrintExact, MatchedOf, OtherThanMalloc

-------------------------------------------------------------------------------
(* The buffers the controller, the workers and the disk thread share. *)


\* Which of the two buffers: the controller has none at first, and the disk thread has
\* one from the first job on.
BuffersNamed ==
  /\ mpBuffer \in 0 .. 2 /\ inUse \in 0 .. 2
  /\ ctl = "start" => inUse = 0
  /\ ctl # "start" => mpBuffer \in 1 .. 2

\* Behind the end of its loop the controller takes no buffer over.
Stopped == ctl \in {"wakeDisk", "release", "done", "crashed"}
StatusHeld == dsk = "read" => (mStatus = "read" \/ Stopped)

\* The inductive invariant.
BufferInv == BuffersNamed /\ StatusHeld /\ BufferNotOverwritten

-------------------------------------------------------------------------------
LEMMA BufferInvInit == Init => BufferInv
BY DEF Init, BufferInv, BuffersNamed, StatusHeld, Stopped, BufferNotOverwritten

\* Workers and the batches between two reads leave buffers and disk thread alone.
LEMMA WorkersKeepBuffers ==
  ASSUME NEW t \in Threads, Worker(t)
  PROVE  UNCHANGED <<ctl, inUse, dsk, mStatus, mpBuffer>>
BY DEF Worker, EnterBatch, OpMalloc, OpFree, OpRealloc, AwaitBlock, FinishQueuedJobs,
       WakeController, Leave, vars, ctlVars, diskVars

LEMMA BufferInvKept == BufferInv /\ [Next]_vars => BufferInv'
<1> SUFFICES ASSUME BufferInv, [Next]_vars PROVE BufferInv'
  OBVIOUS
<1> USE DEF BufferInv, BuffersNamed, StatusHeld, Stopped, BufferNotOverwritten
<1>1. CASE UNCHANGED <<ctl, inUse, dsk, mStatus, mpBuffer>>
  BY <1>1
<1>2. CASE Controller
  <2>1. CASE FirstRead
    BY <2>1 DEF FirstRead, StartRead
  <2>2. CASE WakeDiskToRead
    BY <2>2 DEF WakeDiskToRead
  <2>3. CASE TakeBuffer
    <3>1. /\ ctl = "loop" /\ mStatus # "read" /\ inUse' = mpBuffer /\ dsk' = dsk
          /\ ctl' \in {"wakeNext", "fill"}
          /\ \/ mpBuffer' = 3 - mpBuffer
             \/ mpBuffer' = mpBuffer /\ mStatus' = mStatus
      BY <2>3 DEF TakeBuffer, StartRead, OtherBuffer
    <3>2. dsk # "read" /\ mpBuffer \in 1 .. 2
      BY <3>1
    <3> QED
      BY <3>1, <3>2
  <2>4. CASE FillBatch
    <3>1. /\ ctl \in {"fill", "loop"} /\ ctl' \in {"loop", "wake"}
          /\ UNCHANGED <<inUse, dsk, mStatus, mpBuffer>>
      BY <2>4 DEF FillBatch, diskVars
    <3> QED
      BY <3>1
  <2>5. CASE WakeWorker
    BY <2>5 DEF WakeWorker, diskVars
  <2>6. CASE WaitForBatch
    <3>1. /\ ctl = "wake" /\ ctl' \in {"loop", "stop"}
          /\ UNCHANGED <<inUse, dsk, mStatus, mpBuffer>>
      BY <2>6 DEF WaitForBatch, diskVars
    <3> QED
      BY <3>1
  <2>7. CASE StopDisk
    BY <2>7 DEF StopDisk
  <2>8. CASE ReleaseAll
    BY <2>8 DEF ReleaseAll
  <2>9. CASE JoinAll \/ ReadFreedEntry
    BY <2>9 DEF JoinAll, ReadFreedEntry, diskVars
  <2> QED
    BY <1>2, <2>1, <2>2, <2>3, <2>4, <2>5, <2>6, <2>7, <2>8, <2>9 DEF Controller
<1>3. CASE Disk
  <2>1. UNCHANGED <<ctl, inUse, mpBuffer>>
    BY <1>3 DEF Disk, DiskSleep, DiskLook, ReadFile, DiskLeave, ctlVars
  <2>2. \/ dsk' # "read" /\ mStatus' \in {mStatus, "idle"}
        \/ dsk' = "read" /\ mStatus = "read" /\ mStatus' = mStatus
    BY <1>3 DEF Disk, DiskSleep, DiskLook, ReadFile, DiskLeave
  <2> QED
    BY <2>1, <2>2
<1>4. ASSUME NEW t \in Threads, Worker(t) PROVE BufferInv'
  BY <1>4, <1>1, WorkersKeepBuffers
<1>5. CASE Terminated \/ UNCHANGED vars
  BY <1>5, <1>1 DEF Terminated, vars, ctlVars, diskVars
<1> QED
  BY <1>2, <1>3, <1>4, <1>5 DEF Next

\* The replay keeps the buffer it reads apart from the one being filled, in ReplayAll ...
THEOREM ReplayBuffers == Spec => []BufferNotOverwritten
<1>1. BufferInv => BufferNotOverwritten
  BY DEF BufferInv
<1> QED
  BY BufferInvInit, BufferInvKept, <1>1, PTL DEF Spec

\* ... and in the tool as a whole: the other two modes leave the replay's state alone.
THEOREM ToolBuffers == ToolSpec => []BufferNotOverwritten
<1>1. ToolInit => BufferInv
  BY BufferInvInit DEF ToolInit
<1>2. BufferInv /\ [ToolNext]_toolVars => BufferInv'
  <2> SUFFICES ASSUME BufferInv, [ToolNext]_toolVars PROVE BufferInv'
    OBVIOUS
  <2>1. [Next]_vars
    BY DEF ToolNext, ReplayAll, Replaying, RunTiming, RunPrint, Exit, toolVars
  <2> QED
    BY <2>1, BufferInvKept
<1>3. BufferInv => BufferNotOverwritten
  BY DEF BufferInv
<1> QED
  BY <1>1, <1>2, <1>3, PTL DEF ToolSpec

-------------------------------------------------------------------------------
(* What the invariant says of each part of the state *)

Ops == Operations(log)

\* The disk thread: what lies in the active part, and in the buffer filled behind it, are
\* the next units of the file, without a gap.
Units(from, n) == [k \in 1 .. n |-> from + k - 1]
Filled == mStatus # "read" /\ inUse # mpBuffer
ActiveEnd == IF Filled THEN filePos - mReadSz ELSE filePos
ActiveStart == ActiveEnd - Len(active)

FileTypes ==
  /\ script \in Scripts
  /\ filePos \in Nat /\ mReadSz \in Nat /\ lTotalReadSize \in Nat
  /\ active \in Seq(Nat)
  /\ buffer \in [1 .. 2 -> Seq(Nat)]
  /\ ctl \in {"start", "wakeFirst", "loop", "wakeNext", "fill", "wake", "stop", "wakeDisk",
              "release", "done", "crashed"}

FileInv ==
  ~Stopped =>
    /\ mStatus \in {"idle", "read"}
    /\ lTotalReadSize = filePos + (IF mStatus = "read" THEN mReadSz ELSE 0)
    /\ lTotalReadSize <= FileSize(log)
    /\ Filled => mReadSz <= filePos /\ buffer[mpBuffer] = Units(filePos - mReadSz, mReadSz)
    /\ Len(active) <= ActiveEnd /\ active = Units(ActiveStart, Len(active))
    /\ inUse = mpBuffer /\ ctl # "start" => lTotalReadSize = FileSize(log)
    /\ ctl \in {"wakeFirst", "wakeNext"} => inUse # mpBuffer
    /\ ctl = "start" => mpBuffer = 0 /\ mStatus = "idle" /\ lTotalReadSize = 0

\* Between two batches the controller is at the start of a record, whose number, if it is
\* an operation, is the next.
AtRecord(i) ==
  /\ ActiveStart = RecordStart(log)[i]
  /\ lRecSeqNumber = Len(OperationsUpTo(log)[i - 1]) + 1
PositionInv == ~Stopped => \E i \in 1 .. Len(log) + 1 : AtRecord(i)

\* Once the last part of the file is taken over, it is not asked for again, if the log has
\* no small last batch.
NotAgain ==
  LastBatchFits(script) /\ inUse = mpBuffer =>
    /\ ctl \in {"loop", "wake"} => active = <<>> \/ Len(active) >= Reserved
    /\ ctl \in {"loop", "wake", "wakeNext", "fill"} => ~lbRefillBuffer

\* The batch: consecutive operations, up to the next.
JobsInv ==
  /\ gpJobs \in [mSequenceNo : Nat, records : Seq(Nat)]
  /\ gpJobs.records = Units(gpJobs.mSequenceNo, Len(gpJobs.records))
  /\ gpJobs.records # <<>> => gpJobs.mSequenceNo >= 1
  /\ gpJobs.mSequenceNo + Len(gpJobs.records) <= Len(Ops) + 1
  /\ lRecSeqNumber \in 1 .. Len(Ops) + 1
  /\ ctl = "wake" => /\ gpJobs.mSequenceNo >= 1
                     /\ lRecSeqNumber = gpJobs.mSequenceNo + Len(gpJobs.records)

\* The workers that are not past the batch.
Called == {t \in Threads : t \in toWake \/ ~workerLock[t] \/ wrk[t] = "working"}

SyncTypes ==
  /\ toWake \subseteq Threads
  /\ wrk \in [Threads -> {"parked", "working", "last", "leaving", "exited"}]
  /\ done \in [Threads -> Nat]
  /\ workerLock \in [Threads -> BOOLEAN]
  /\ gControllerLock \in BOOLEAN
  /\ gAllDone \in BOOLEAN
  /\ gAllDone <=> ctl \in {"release", "done", "crashed"}

SyncInv ==
  /\ \A t \in Threads : t \in toWake \/ ~workerLock[t] => wrk[t] = "parked"
  /\ \A t \in toWake : workerLock[t]
  /\ \A t \in Threads : wrk[t] \in (IF gAllDone THEN {"parked", "leaving", "exited"}
                                    ELSE {"parked", "working", "last"})
  /\ ~gAllDone =>
       /\ gNumWorkingThreads = Cardinality(Called)
       /\ \A t \in Threads : wrk[t] = "last" => gControllerLock /\ Called = {} /\ ctl = "wake"
       /\ \A t, u \in Threads : wrk[t] = "last" /\ wrk[u] = "last" => t = u
       /\ ~gControllerLock => /\ Called = {} /\ ctl = "wake"
                              /\ \A t \in Threads : wrk[t] # "last"
       /\ Called # {} => ctl = "wake"

\* Every thread with an operation of the batch is in it, or was.
Owner(n) == Ops[n].mThreadID
Past(n) ==
  \/ Owner(n) \notin Called
  \/ wrk[Owner(n)] = "working" /\ n - gpJobs.mSequenceNo + 1 <= done[Owner(n)]
Executed ==
  IF ctl = "wake"
  THEN {n \in 1 .. lRecSeqNumber - 1 : n < gpJobs.mSequenceNo \/ Past(n)}
  ELSE 1 .. lRecSeqNumber - 1

EntryOf(n) == Entry(n, AllocatedSize(Ops[n]))
LogEntries == {EntryOf(n) : n \in 1 .. Len(Ops)}
TableInv ==
  /\ own \in [Threads -> SUBSET LogEntries]
  /\ gFreeByOtherThreadHash \in SUBSET LogEntries
  /\ \A t \in Threads : \A e \in own[t] :
       /\ Allocates(Ops[e.mSeqNo]) /\ Owner(e.mSeqNo) = t
       /\ ~Ops[e.mSeqNo].mFreeByOtherThread
  /\ \A e \in gFreeByOtherThreadHash :
       Allocates(Ops[e.mSeqNo]) /\ Ops[e.mSeqNo].mFreeByOtherThread
  /\ \A t \in Threads : wrk[t] = "exited" => own[t] = {}

Entries == (UNION {own[t] : t \in Threads}) \cup gFreeByOtherThreadHash

HeapInv ==
  /\ ~gAllDone => /\ heap = Unreleased(log, Executed)
                  /\ \A n \in Executed : Releases(Ops[n]) => Ops[n].mMatchedMalloc \in Executed
  /\ ~gAllDone \/ script.gFreeAllAtEnd => heap = {e.mSeqNo : e \in Entries}
  /\ ctl = "done" => gFreeByOtherThreadHash = {} /\ \A t \in Threads : own[t] = {}

NodesInv ==
  (\A t \in Threads : wrk[t] # "exited") \/ script.gFreeAllAtEnd => nodes = SmallEntries(Entries)

-------------------------------------------------------------------------------
(* The file: its records, and the batch that starts at one *)

\* What the assumption on the scripts says of the one replayed.
LEMMA ScriptOfReplay ==
  ASSUME script \in Scripts
  PROVE  /\ log \in Seq(RecordsOf(Threads, {"small", "big"})) /\ Matched(log)
         /\ script.gEndRecNo \in Nat
         /\ ChunkSz \in Nat /\ ChunkSz >= 4
         /\ script.gIgnoreTimeStamp \in BOOLEAN /\ script.gFreeAllAtEnd \in BOOLEAN
         /\ Reserved = 4
         /\ IsFiniteSet(Threads) /\ Threads \subseteq Nat \ {0}
<1>1. Reserved = 4
  BY DEF Reserved, RecordSize
<1> QED
  BY <1>1, ReplayAssumption DEF log, ChunkSz

\* The file ends where its last record does.
LEMMA FileSizeValue ==
  ASSUME script \in Scripts
  PROVE  FileSize(log) \in Nat /\ FileSize(log) = RecordStart(log)[Len(log) + 1]
<1>1. log \in Seq(RecordsOf(Threads, {"small", "big"})) /\ Len(log) \in Nat
  BY ScriptOfReplay
<1>2. RecordStart(log) \in [1 .. Len(log) + 1 -> Nat]
  BY <1>1, RecordStartValues
<1> QED
  BY <1>1, <1>2 DEF FileSize

\* The record a unit lies in is one of the log, and that of its first unit is the record.
LEMMA RecordAtUnit ==
  ASSUME script \in Scripts, NEW u \in Nat, u < FileSize(log)
  PROVE  /\ RecordAt(u) \in 1 .. Len(log)
         /\ \A i \in 1 .. Len(log) : u = RecordStart(log)[i] => RecordAt(u) = i
<1> DEFINE RS == RecordStart(log)
           R == RecordsOf(Threads, {"small", "big"})
<1>1. log \in Seq(R) /\ Len(log) \in Nat
  BY ScriptOfReplay
<1>2. \E i \in 1 .. Len(log) : RS[i] <= u /\ u < RS[i + 1]
  BY <1>1, RecordsCoverFile
<1>3. RecordAt(u) \in 1 .. Len(log) /\ RS[RecordAt(u)] <= u /\ u < RS[RecordAt(u) + 1]
  BY <1>2 DEF RecordAt
<1>4. ASSUME NEW i \in 1 .. Len(log), NEW j \in 1 .. Len(log),
             u = RS[i], RS[j] <= u, u < RS[j + 1]
      PROVE  i = j
  <2>1. RS \in [1 .. Len(log) + 1 -> Nat]
    BY <1>1, RecordStartValues
  <2>2. i \in 1 .. Len(log) + 1 /\ j \in 1 .. Len(log) + 1 /\ j + 1 \in 1 .. Len(log) + 1
    BY <1>1
  <2>3. CASE i < j
    <3>1. j \in i .. Len(log) + 1
      BY <1>1, <2>3
    <3>2. RS[i] + 2 * (j - i) <= RS[j]
      BY <1>1, <2>2, <3>1, RecordsInOrder
    <3> HIDE DEF RS
    <3> QED
      BY <1>4, <2>1, <2>2, <2>3, <3>2
  <2>4. CASE j < i
    <3>1. i \in j + 1 .. Len(log) + 1
      BY <1>1, <2>4
    <3>2. RS[j + 1] + 2 * (i - (j + 1)) <= RS[i]
      BY <1>1, <2>2, <3>1, RecordsInOrder
    <3> HIDE DEF RS
    <3> QED
      BY <1>4, <2>1, <2>2, <2>4, <3>2
  <2> QED
    BY <2>3, <2>4
<1> HIDE DEF RS
<1> QED
  BY <1>3, <1>4 DEF RS

-------------------------------------------------------------------------------
(* Cutting a batch. *)

\* Behind the record a unit lies in.
LEMMA NextUnit ==
  ASSUME script \in Scripts, active \in Seq(Nat),
         \A k \in 1 .. Len(active) : active[k] < FileSize(log),
         NEW p \in 1 .. Len(active) + 1, ~(p - 1 + GenericSize >= Len(active))
  PROVE  /\ p \in 1 .. Len(active)
         /\ RecordAt(active[p]) \in 1 .. Len(log)
         /\ log[RecordAt(active[p])] \in RecordsOf(Threads, {"small", "big"})
         /\ RecordSize[log[RecordAt(active[p])].mType] \in 2 .. 4
         /\ p + RecordSize[log[RecordAt(active[p])].mType] \in p + 2 .. p + 4
<1>1. p \in 1 .. Len(active) /\ active[p] \in Nat
  BY DEF GenericSize
<1>2. RecordAt(active[p]) \in 1 .. Len(log)
  BY <1>1, RecordAtUnit
<1>3. log \in Seq(RecordsOf(Threads, {"small", "big"}))
  BY ScriptOfReplay
<1>4. log[RecordAt(active[p])] \in RecordsOf(Threads, {"small", "big"})
  BY <1>2, <1>3
<1> DEFINE size == RecordSize[log[RecordAt(active[p])].mType]
<1>5. size \in 2 .. 4
  BY <1>4, RecordSizes
<1>6. p + size \in p + 2 .. p + 4
  <2> HIDE DEF size
  <2> QED BY <1>1, <1>5
<1> QED
  BY <1>1, <1>2, <1>4, <1>5, <1>6

\* The batch from an active unit on depends on that from a later one only.
LEMMA BatchFromLater ==
  ASSUME script \in Scripts, active \in Seq(Nat),
         \A k \in 1 .. Len(active) : active[k] < FileSize(log),
         NEW p \in 1 .. Len(active) + 1, NEW f, NEW g,
         \A q \in p + 1 .. Len(active) + 1 : f[q] = g[q]
  PROVE  BatchFrom(f, p) = BatchFrom(g, p)
<1>1. Len(active) \in Nat
  OBVIOUS
<1>2. CASE p - 1 + GenericSize >= Len(active)
  BY <1>2 DEF BatchFrom
<1>3. CASE ~(p - 1 + GenericSize >= Len(active))
  <2> DEFINE i == RecordAt(active[p])
             r == log[i]
             next == p + RecordSize[r.mType]
  <2>1. next \in p + 2 .. p + 4
    BY <1>3, NextUnit
  <2>2. next - 1 <= Len(active) => f[next] = g[next]
    <3> HIDE DEF next
    <3> QED BY <1>1, <2>1
  <2>3. ASSUME NEW h
        PROVE  BatchFrom(h, p) =
          IF next - 1 > Len(active) THEN Ended(p, IF IsTimestamp(r) THEN {} ELSE {r.mThreadID}, TRUE)
          ELSE IF IsTimestamp(r)
          THEN IF script.gIgnoreTimeStamp THEN h[next] ELSE Ended(next, {}, FALSE)
          ELSE WithJob(h[next], SeqNo(log, i), r.mThreadID)
    BY <1>3 DEF BatchFrom
  <2> HIDE DEF next, r, i
  <2>4. CASE next - 1 > Len(active)
    BY <2>3, <2>4
  <2>5. CASE ~(next - 1 > Len(active))
    <3>1. f[next] = g[next]
      BY <1>1, <2>1, <2>2, <2>5
    <3> QED
      BY <2>3, <2>5, <3>1
  <2> QED
    BY <2>4, <2>5
<1> QED
  BY <1>2, <1>3

Batches == [ops : Seq(Nat), marked : SUBSET Threads, end : Nat, cut : BOOLEAN]

\* A job in front of a batch changes its operations and its threads.
LEMMA WithJobType ==
  ASSUME NEW b \in Batches, NEW n \in Nat, NEW t \in Threads
  PROVE  /\ WithJob(b, n, t) \in Batches
         /\ WithJob(b, n, t).ops = <<n>> \o b.ops
         /\ WithJob(b, n, t).marked = b.marked \cup {t}
         /\ WithJob(b, n, t).end = b.end
         /\ WithJob(b, n, t).cut = b.cut
<1> DEFINE c == [b EXCEPT !.ops = <<n>> \o @]
           d == [c EXCEPT !.marked = @ \cup {t}]
<1>1. <<n>> \o b.ops \in Seq(Nat)
  BY DEF Batches
<1>2. c \in Batches /\ c.ops = <<n>> \o b.ops /\ c.marked = b.marked /\ c.end = b.end /\ c.cut = b.cut
  BY <1>1 DEF Batches
<1> HIDE DEF c
<1>3. d \in Batches /\ d.ops = c.ops /\ d.marked = c.marked \cup {t} /\ d.end = c.end /\ d.cut = c.cut
  BY <1>2 DEF Batches
<1>4. WithJob(b, n, t) = d
  BY DEF WithJob, c
<1> HIDE DEF d
<1> QED BY <1>2, <1>3, <1>4

\* One record more, and what is behind it, make a batch.
LEMMA BatchFromType ==
  ASSUME script \in Scripts, active \in Seq(Nat),
         \A k \in 1 .. Len(active) : active[k] < FileSize(log),
         NEW p \in 1 .. Len(active) + 1, NEW f \in [1 .. Len(active) + 1 -> Batches]
  PROVE  BatchFrom(f, p) \in Batches
<1>1. Len(active) \in Nat /\ p \in Nat
  OBVIOUS
<1>2. CASE p - 1 + GenericSize >= Len(active)
  <2>1. BatchFrom(f, p) = Ended(p, {}, FALSE)
    BY <1>2 DEF BatchFrom
  <2> QED BY <1>1, <2>1 DEF Ended, Batches
<1>3. CASE ~(p - 1 + GenericSize >= Len(active))
  <2> DEFINE i == RecordAt(active[p])
             r == log[i]
             next == p + RecordSize[r.mType]
  <2>1. i \in 1 .. Len(log) /\ r \in RecordsOf(Threads, {"small", "big"}) /\ next \in p + 2 .. p + 4
    BY <1>3, NextUnit
  <2>2. log \in Seq(RecordsOf(Threads, {"small", "big"}))
    BY ScriptOfReplay
  <2>6. ~IsTimestamp(r) => r.mThreadID \in Threads /\ SeqNo(log, i) \in Nat
    BY <2>1, <2>2, RecordFields, OperationOfRecord
  <2>7. BatchFrom(f, p) =
          IF next - 1 > Len(active) THEN Ended(p, IF IsTimestamp(r) THEN {} ELSE {r.mThreadID}, TRUE)
          ELSE IF IsTimestamp(r)
          THEN IF script.gIgnoreTimeStamp THEN f[next] ELSE Ended(next, {}, FALSE)
          ELSE WithJob(f[next], SeqNo(log, i), r.mThreadID)
    BY <1>3 DEF BatchFrom
  <2> HIDE DEF next, r, i
  <2>8. next \in Nat
    BY <1>1, <2>1
  <2>9. next - 1 <= Len(active) => f[next] \in Batches
    BY <1>1, <2>1
  <2>10. CASE next - 1 > Len(active)
    BY <1>1, <2>6, <2>7, <2>10 DEF Ended, Batches
  <2>11. CASE ~(next - 1 > Len(active))
    <3>1. next - 1 <= Len(active)
      BY <1>1, <2>8, <2>11
    <3>2. f[next] \in Batches
      BY <3>1, <2>9
    <3>3. ~IsTimestamp(r) => WithJob(f[next], SeqNo(log, i), r.mThreadID) \in Batches
      BY <2>6, <3>2, WithJobType
    <3> QED
      BY <2>7, <2>8, <2>11, <3>2, <3>3 DEF Ended, Batches
  <2> QED BY <2>10, <2>11
<1> QED
  BY <1>2, <1>3

\* There is a function with the batch from every unit on, as Batch asks for.
LEMMA BatchesExist ==
  ASSUME script \in Scripts, active \in Seq(Nat),
         \A k \in 1 .. Len(active) : active[k] < FileSize(log)
  PROVE  \E f \in [1 .. Len(active) + 1 -> Batches] :
           /\ \A p \in 1 .. Len(active) + 1 : f[p] = BatchFrom(f, p)
           /\ Batch = f[1]
<1> DEFINE L == Len(active) + 1
           T == [1 .. L -> Batches]
           Upto(f, q) == \A p \in q .. L : f[p] = BatchFrom(f, p)
           P == {q \in 1 .. L + 1 : \E f \in T : Upto(f, q)}
<1>0. L \in Nat /\ L >= 1 /\ 1 \in Int /\ L + 1 \in Int
  OBVIOUS
<1>1. L + 1 \in P
  <2>1. Ended(1, {}, FALSE) \in Batches
    BY DEF Ended, Batches
  <2>2. [p \in 1 .. L |-> Ended(1, {}, FALSE)] \in T
    BY <2>1
  <2>3. Upto([p \in 1 .. L |-> Ended(1, {}, FALSE)], L + 1)
    BY <1>0
  <2>4. L + 1 \in 1 .. L + 1
    BY <1>0
  <2> HIDE DEF L, T, Upto
  <2> QED BY <2>2, <2>3, <2>4
<1>2. ASSUME NEW q \in 1 + 1 .. L + 1, q \in P PROVE q - 1 \in P
  <2>1. PICK f \in T : Upto(f, q)
    BY <1>2
  <2>2. q - 1 \in 1 .. L /\ \A p \in q - 1 .. L : p = q - 1 \/ p \in q .. L
    BY <1>0
  <2> DEFINE b == BatchFrom(f, q - 1)
             g == [f EXCEPT ![q - 1] = b]
  <2>3. b \in Batches
    BY <2>2, BatchFromType
  <2> HIDE DEF b
  <2>4. g \in T /\ g[q - 1] = b /\ \A p \in q .. L : g[p] = f[p]
    <3> HIDE DEF L
    <3> QED BY <1>0, <2>2, <2>3
  <2> HIDE DEF g
  <2>5. ASSUME NEW p \in q - 1 .. L PROVE BatchFrom(g, p) = BatchFrom(f, p)
    <3>1. p \in 1 .. L /\ \A k \in p + 1 .. L : k \in q .. L
      BY <1>0, <2>2
    <3>2. \A k \in p + 1 .. L : g[k] = f[k]
      BY <2>4, <3>1
    <3> QED
      BY <3>1, <3>2, BatchFromLater
  <2>6. Upto(g, q - 1)
    <3> SUFFICES ASSUME NEW p \in q - 1 .. L PROVE g[p] = BatchFrom(g, p)
      OBVIOUS
    <3>1. CASE p = q - 1
      BY <2>4, <2>5, <3>1 DEF b
    <3>2. CASE p \in q .. L
      BY <2>1, <2>4, <2>5, <3>2
    <3> QED
      BY <2>2, <3>1, <3>2
  <2>7. q - 1 \in 1 .. L + 1
    BY <1>0, <2>2
  <2> QED
    BY <2>4, <2>6, <2>7
<1>3. 1 .. L + 1 \subseteq P
  <2> HIDE DEF P, L
  <2> QED BY <1>0, <1>1, <1>2, DownwardInduction
<1>4. 1 \in P
  <2>1. 1 \in 1 .. L + 1
    BY <1>0
  <2> HIDE DEF P, L
  <2> QED BY <1>3, <2>1
<1>5. PICK f \in T : Upto(f, 1)
  BY <1>4
<1>6. \A p \in 1 .. L : f[p] = BatchFrom(f, p)
  BY <1>5
<1>7. f = [p \in 1 .. L |-> BatchFrom(f, p)]
  <2> HIDE DEF L
  <2> QED BY <1>6
<1> DEFINE h == CHOOSE h : h = [p \in 1 .. L |-> BatchFrom(h, p)]
<1>8. h = [p \in 1 .. L |-> BatchFrom(h, p)]
  BY <1>7
<1>9. Batch = h[1]
  BY DEF Batch
\* Two such functions are the same, from the last unit on.
<1> DEFINE Q == {q \in 1 .. L + 1 : \A p \in q .. L : h[p] = f[p]}
<1> HIDE DEF h
<1>10. L + 1 \in Q
  BY <1>0
<1>11. ASSUME NEW q \in 1 + 1 .. L + 1, q \in Q PROVE q - 1 \in Q
  <2>1. q - 1 \in 1 .. L + 1 /\ q - 1 \in 1 .. L /\ (q - 1) + 1 = q
        /\ \A p \in q - 1 .. L : p = q - 1 \/ p \in q .. L
    BY <1>0
  <2>2. \A p \in q .. L : h[p] = f[p]
    BY <1>11
  <2>3. BatchFrom(h, q - 1) = BatchFrom(f, q - 1)
    BY <2>1, <2>2, BatchFromLater
  <2>4. h[q - 1] = BatchFrom(h, q - 1)
    <3> HIDE DEF L
    <3> QED BY <1>8, <2>1
  <2>5. h[q - 1] = f[q - 1]
    BY <1>6, <2>1, <2>3, <2>4
  <2> QED
    BY <2>1, <2>2, <2>5
<1>12. 1 .. L + 1 \subseteq Q
  <2> HIDE DEF Q, L
  <2> QED BY <1>0, <1>10, <1>11, DownwardInduction
<1>13. h[1] = f[1]
  BY <1>0, <1>12
<1> QED
  BY <1>6, <1>9, <1>13

-------------------------------------------------------------------------------
(* Where a batch ends *)

\* A batch from the i-th record of the log to the j-th: its operations are those between,
\* their threads are marked, and where the active part ends with the file, none is cut off,
\* and what is left does not ask for another buffer, if the log has no small last batch.
CutsAt(b, i, j) ==
  /\ b \in Batches /\ b.end \in 1 .. Len(active) + 1
  /\ RecordStart(log)[j] = ActiveStart + b.end - 1
  /\ Len(OperationsUpTo(log)[i - 1]) <= Len(OperationsUpTo(log)[j - 1])
  /\ b.ops = Units(Len(OperationsUpTo(log)[i - 1]) + 1,
                   Len(OperationsUpTo(log)[j - 1]) - Len(OperationsUpTo(log)[i - 1]))
  /\ \A k \in 1 .. Len(b.ops) : Owner(b.ops[k]) \in b.marked
  /\ ActiveStart + Len(active) = FileSize(log) =>
       /\ ~b.cut
       /\ LastBatchFits(script) => b.end = Len(active) + 1 \/ Len(active) + 1 - b.end >= Reserved
Cuts(b, i) == \E j \in i .. Len(log) + 1 : CutsAt(b, i, j)

\* One more unit in front.
InFront(n, m, s) ==
  /\ s \in Seq(Nat) /\ Len(s) = m
  /\ <<n>> \o s = Units(n, m + 1) /\ Len(<<n>> \o s) = m + 1
  /\ \A k \in 1 .. m + 1 : (<<n>> \o s)[k] = IF k = 1 THEN n ELSE s[k - 1]

\* The units of the file from one on, and the one in front of them.
LEMMA UnitsInFront ==
  ASSUME NEW n \in Nat, NEW m \in Nat
  PROVE  InFront(n, m, Units(n + 1, m))
<1> DEFINE s == Units(n + 1, m)
           t == <<n>> \o s
<1>1. s \in Seq(Nat) /\ Len(s) = m /\ \A k \in 1 .. m : s[k] = n + 1 + k - 1
  BY DEF Units
<1> HIDE DEF s
<1>2. /\ t \in Seq(Nat) /\ Len(t) = m + 1
      /\ \A k \in 1 .. m + 1 : t[k] = IF k = 1 THEN n ELSE s[k - 1]
  <2>1. <<n>> \in Seq(Nat) /\ Len(<<n>>) = 1 /\ <<n>>[1] = n
    OBVIOUS
  <2> QED BY <1>1, <2>1
<1> HIDE DEF t
<1>3. ASSUME NEW k \in 1 .. m + 1 PROVE t[k] = n + k - 1
  <2>1. CASE k = 1
    BY <1>2, <2>1
  <2>2. CASE k # 1
    <3>1. k - 1 \in 1 .. m
      BY <2>2
    <3>2. t[k] = s[k - 1] /\ s[k - 1] = n + 1 + (k - 1) - 1
      BY <1>1, <1>2, <2>2, <3>1
    <3> QED BY <3>2
  <2> QED BY <2>1, <2>2
<1>4. t = [k \in 1 .. m + 1 |-> n + k - 1]
  <2>1. t = [k \in 1 .. Len(t) |-> t[k]]
    BY <1>2
  <2> QED BY <1>2, <1>3, <2>1
<1> QED
  BY <1>1, <1>2, <1>4 DEF InFront, Units, s, t

\* The batch is cut out of the log at the ends of two of its records.
LEMMA BatchCuts ==
  ASSUME script \in Scripts, active \in Seq(Nat), ActiveStart \in Nat,
         active = Units(ActiveStart, Len(active)),
         ActiveStart + Len(active) <= FileSize(log),
         NEW i \in 1 .. Len(log) + 1, RecordStart(log)[i] = ActiveStart
  PROVE  Cuts(Batch, i)
<1> DEFINE N == Len(log)
           L == Len(active) + 1
           S == ActiveStart
           RS == RecordStart(log)
           O == OperationsUpTo(log)
           F == FileSize(log)
<1>0. /\ N \in Nat /\ L \in Nat /\ L >= 1 /\ S \in Nat /\ F \in Nat /\ S + (L - 1) <= F
      /\ 1 \in Int /\ N + 1 \in Int
  BY ScriptOfReplay, FileSizeValue
<1>1. log \in Seq(RecordsOf(Threads, {"small", "big"})) /\ Reserved = 4
      /\ script.gIgnoreTimeStamp \in BOOLEAN
  BY ScriptOfReplay
<1>2. /\ RS \in [1 .. N + 1 -> Nat] /\ RS[1] = 0 /\ F = RS[N + 1]
      /\ \A k \in 1 .. N : RS[k + 1] = RS[k] + RecordSize[log[k].mType]
  BY <1>1, RecordStartValues DEF FileSize
<1>3. \A k \in 1 .. N : RecordSize[log[k].mType] \in 2 .. 4
  BY <1>1, RecordSizes
<1>4. \A k \in 1 .. N : RS[k + 1] <= F
  <2> SUFFICES ASSUME NEW k \in 1 .. N PROVE RS[k + 1] <= F
    OBVIOUS
  <2>1. k + 1 \in 1 .. N + 1 /\ N + 1 \in k + 1 .. N + 1
    BY <1>0
  <2>2. RS[k + 1] + 2 * ((N + 1) - (k + 1)) <= RS[N + 1]
    BY <1>1, <2>1, RecordsInOrder
  <2> HIDE DEF N, RS, F
  <2> QED BY <1>0, <1>2, <2>1, <2>2
<1>5. /\ \A k \in 0 .. N : O[k] \in Seq(RecordsOf(Threads, {"small", "big"})) /\ Len(O[k]) \in Nat
      /\ \A k \in 1 .. N : /\ IsTimestamp(log[k]) => O[k] = O[k - 1]
                           /\ ~IsTimestamp(log[k]) => Len(O[k]) = Len(O[k - 1]) + 1
  <2>1. /\ O \in [0 .. N -> Seq(RecordsOf(Threads, {"small", "big"}))]
        /\ \A k \in 1 .. N : O[k] = IF IsTimestamp(log[k]) THEN O[k - 1] ELSE Append(O[k - 1], log[k])
    BY <1>1, OperationsUpToValues
  <2>2. \A k \in 0 .. N : O[k] \in Seq(RecordsOf(Threads, {"small", "big"})) /\ Len(O[k]) \in Nat
    <3> HIDE DEF O
    <3> QED BY <2>1
  <2>3. ASSUME NEW k \in 1 .. N, ~IsTimestamp(log[k]) PROVE Len(O[k]) = Len(O[k - 1]) + 1
    <3>1. O[k] = Append(O[k - 1], log[k])
      BY <2>1, <2>3
    <3>2. k - 1 \in 0 .. N
      BY <1>0
    <3>3. O[k - 1] \in Seq(RecordsOf(Threads, {"small", "big"}))
      BY <2>2, <3>2
    <3> HIDE DEF O
    <3> QED BY <3>1, <3>3
  <2> QED BY <2>1, <2>2, <2>3
<1>6. \A k \in 1 .. L - 1 : active[k] = S + k - 1
  <2> HIDE DEF S
  <2> QED BY DEF Units, S
<1>7. \A k \in 1 .. Len(active) : active[k] < F
  <2> HIDE DEF S, F
  <2> QED BY <1>0, <1>6
<1>8. PICK f \in [1 .. L -> Batches] : /\ \A p \in 1 .. L : f[p] = BatchFrom(f, p)
                                       /\ Batch = f[1]
  <2>1. \A k \in 1 .. Len(active) : active[k] < FileSize(log)
    BY <1>7
  <2> QED
    BY <2>1, BatchesExist
<1> DEFINE P == {k \in 1 .. N + 1 : \A p \in 1 .. L : RS[k] = S + p - 1 => Cuts(f[p], k)}
\* A batch with nothing in it.
<1>9. ASSUME NEW k \in 1 .. N + 1, NEW j \in k .. N + 1, Len(O[j - 1]) = Len(O[k - 1]),
             NEW e \in 1 .. L, NEW m \in SUBSET Threads, NEW c \in BOOLEAN, RS[j] = S + e - 1,
             S + (L - 1) = F => ~c /\ (LastBatchFits(script) => e = L \/ L - e >= Reserved)
      PROVE  Cuts(Ended(e, m, c), k)
  <2> DEFINE b == Ended(e, m, c)
  <2>1. b.ops = <<>> /\ b.end = e /\ b.marked = m /\ b.cut = c /\ b \in Batches
    BY DEF Ended, Batches
  <2>2. Len(O[k - 1]) \in Nat
    BY <1>0, <1>5
  <2> DEFINE n == Len(O[k - 1])
  <2>3. Units(n + 1, n - n) = <<>>
    <3> HIDE DEF n
    <3>1. n \in Nat
      BY <2>2 DEF n
    <3>2. n - n = 0 /\ 1 .. 0 = {}
      BY <3>1
    <3>3. Units(n + 1, 0) = <<>>
      BY <3>2 DEF Units
    <3> QED BY <3>2, <3>3
  <2>4. CutsAt(b, k, j)
    <3>1. b.ops = Units(n + 1, Len(O[j - 1]) - n) /\ Len(b.ops) = 0 /\ 1 .. Len(b.ops) = {}
      BY <1>9, <2>1, <2>3
    <3>2. S + Len(active) = F =>
            /\ ~b.cut
            /\ LastBatchFits(script) => b.end = Len(active) + 1 \/ Len(active) + 1 - b.end >= Reserved
      <4>1. S + (L - 1) = S + Len(active)
        OBVIOUS
      <4> QED BY <1>9, <2>1, <4>1
    <3> HIDE DEF b
    <3>3. n <= Len(O[j - 1])
      BY <1>9, <2>2
    <3> QED
      BY <1>9, <2>1, <3>1, <3>2, <3>3 DEF CutsAt
  <2> QED
    BY <2>4 DEF Cuts
<1>10. N + 1 \in P
  <2> SUFFICES ASSUME NEW p \in 1 .. L, RS[N + 1] = S + p - 1 PROVE Cuts(f[p], N + 1)
    BY <1>0
  <2>1. p = L
    <3> HIDE DEF S, F, L, N, RS
    <3> QED BY <1>0, <1>2
  <2>2. f[p] = Ended(p, {}, FALSE)
    <3>1. p - 1 + GenericSize >= Len(active)
      BY <1>0, <2>1 DEF GenericSize
    <3> QED
      BY <1>8, <3>1 DEF BatchFrom
  <2>3. N + 1 \in N + 1 .. N + 1 /\ N + 1 \in 1 .. N + 1
    BY <1>0
  <2> QED
    BY <1>9, <2>1, <2>2, <2>3
<1>11. ASSUME NEW k \in 1 + 1 .. N + 1, k \in P PROVE k - 1 \in P
  <2> DEFINE q == k - 1
             r == log[q]
             size == RecordSize[r.mType]
  <2>0. q \in 1 .. N /\ q \in 1 .. N + 1 /\ k = q + 1 /\ q \in q .. N + 1 /\ k \in q .. N + 1
        /\ k \in 1 .. N + 1
    BY <1>0
  <2> HIDE DEF q
  <2>1. SUFFICES ASSUME NEW p \in 1 .. L, RS[q] = S + p - 1 PROVE Cuts(f[p], q)
    BY <2>0 DEF q
  <2>2. /\ size \in 2 .. 4 /\ RS[k] = RS[q] + size /\ RS[q] \in Nat /\ RS[k] <= F
        /\ r \in RecordsOf(Threads, {"small", "big"})
    <3>1. size \in 2 .. 4
      BY <1>3, <2>0
    <3>2. RS[k] = RS[q] + size
      BY <1>2, <2>0
    <3>3. RS[q] \in Nat
      BY <1>2, <2>0
    <3>4. RS[k] <= F
      <4> HIDE DEF N, RS, F
      <4> QED BY <1>4, <2>0
    <3>5. r \in RecordsOf(Threads, {"small", "big"})
      BY <1>1, <2>0
    <3> QED BY <3>1, <3>2, <3>3, <3>4, <3>5
  <2>3. Len(O[q - 1]) \in Nat /\ Len(O[k - 1]) \in Nat /\ O[k - 1] = O[q]
    BY <1>0, <1>5, <2>0
  <2>4. CASE p - 1 + GenericSize >= Len(active)
    <3>1. f[p] = Ended(p, {}, FALSE)
      BY <1>8, <2>4 DEF BatchFrom
    <3>2. S + (L - 1) = F => p = L
      <4>1. p >= L - 1
        BY <1>0, <2>4 DEF GenericSize
      <4> HIDE DEF S, L, F, RS, size
      <4> QED BY <1>0, <2>1, <2>2, <4>1
    <3> QED
      BY <1>9, <2>0, <2>1, <3>1, <3>2
  <2>5. CASE ~(p - 1 + GenericSize >= Len(active))
    <3>1. p \in 1 .. Len(active)
      BY <1>0, <2>5 DEF GenericSize
    <3>2. RecordAt(active[p]) = q
      <4>1. active[p] = RS[q] /\ active[p] \in Nat /\ active[p] < FileSize(log)
        BY <1>6, <1>7, <2>1, <3>1
      <4> QED
        BY <2>0, <4>1, RecordAtUnit
    <3> DEFINE next == p + size
    <3>3. f[p] = IF next - 1 > Len(active) THEN Ended(p, IF IsTimestamp(r) THEN {} ELSE {r.mThreadID}, TRUE)
                 ELSE IF IsTimestamp(r)
                 THEN IF script.gIgnoreTimeStamp THEN f[next] ELSE Ended(next, {}, FALSE)
                 ELSE WithJob(f[next], SeqNo(log, q), r.mThreadID)
      <4>1. f[p] = BatchFrom(f, p)
        BY <1>8
      <4> QED BY <2>5, <3>2, <4>1 DEF BatchFrom
    <3>4. next \in Nat /\ next >= p + 2 /\ RS[k] = S + next - 1
      <4> HIDE DEF size, S, RS
      <4> QED BY <1>0, <2>1, <2>2
    <3> HIDE DEF next
    <3>5. CASE next - 1 > Len(active)
      <4> DEFINE m == IF IsTimestamp(r) THEN {} ELSE {r.mThreadID}
      <4>1. f[p] = Ended(p, m, TRUE) /\ m \in SUBSET Threads
        BY <2>2, <3>3, <3>5, RecordFields
      <4>2. S + (L - 1) # F
        <5> HIDE DEF S, F, RS
        <5> QED BY <1>0, <2>2, <3>4, <3>5
      <4> HIDE DEF m
      <4> QED
        BY <1>9, <2>0, <2>1, <4>1, <4>2
    <3>6. CASE ~(next - 1 > Len(active))
      <4>1. next \in 1 .. L
        BY <1>0, <3>4, <3>6
      <4>2. Cuts(f[next], k)
        BY <1>11, <3>4, <4>1
      <4>3. CASE IsTimestamp(r) /\ script.gIgnoreTimeStamp
        <5>1. f[p] = f[next] /\ Len(O[q - 1]) = Len(O[k - 1])
          BY <1>5, <2>0, <2>3, <3>3, <3>6, <4>3
        <5>2. PICK j \in k .. N + 1 : CutsAt(f[next], k, j)
          BY <4>2 DEF Cuts
        <5>3. CutsAt(f[next], q, j)
          <6> HIDE DEF next
          <6> QED BY <5>1, <5>2, Zenon DEF CutsAt
        <5>4. j \in q .. N + 1
          BY <1>0, <2>0
        <5> QED
          BY <5>1, <5>3, <5>4 DEF Cuts
      <4>4. CASE IsTimestamp(r) /\ ~script.gIgnoreTimeStamp
        <5>1. f[p] = Ended(next, {}, FALSE) /\ Len(O[q - 1]) = Len(O[k - 1])
          BY <1>5, <2>0, <2>3, <3>3, <3>6, <4>4
        <5>2. LastBatchFits(script) => F - RS[k] >= Reserved
          BY <2>0, <4>4 DEF LastBatchFits, log
        <5>3. S + (L - 1) = F => (LastBatchFits(script) => L - next >= Reserved)
          <6> HIDE DEF S, F, RS, L
          <6> QED BY <1>0, <1>1, <1>2, <2>0, <3>4, <5>2
        <5> QED
          BY <1>9, <2>0, <3>4, <4>1, <5>1, <5>3
      <4>5. CASE ~IsTimestamp(r)
        <5>1. f[p] = WithJob(f[next], SeqNo(log, q), r.mThreadID)
          BY <3>3, <3>6, <4>5
        <5>2. /\ SeqNo(log, q) = Len(O[q - 1]) + 1 /\ Len(O[k - 1]) = Len(O[q - 1]) + 1
              /\ Operations(log)[SeqNo(log, q)] = r /\ r.mThreadID \in Threads
          <6>1. SeqNo(log, q) = Len(O[q - 1]) + 1 /\ Operations(log)[SeqNo(log, q)] = r
            BY <1>1, <2>0, <4>5, OperationOfRecord
          <6>2. Len(O[k - 1]) = Len(O[q - 1]) + 1
            BY <1>5, <2>0, <2>3, <4>5
          <6>3. r.mThreadID \in Threads
            BY <2>2, <4>5, RecordFields
          <6> QED BY <6>1, <6>2, <6>3
        <5>3. PICK j \in k .. N + 1 : CutsAt(f[next], k, j)
          BY <4>2 DEF Cuts
        <5> DEFINE n == SeqNo(log, q)
                   d == f[next]
                   b == WithJob(d, n, r.mThreadID)
                   m == Len(O[j - 1]) - Len(O[k - 1])
        <5>4. /\ d \in Batches /\ n \in Nat /\ Len(O[k - 1]) = n
              /\ b \in Batches /\ b.ops = <<n>> \o d.ops /\ b.marked = d.marked \cup {r.mThreadID}
              /\ b.end = d.end /\ b.cut = d.cut
          <6>0. d \in Batches
            BY <5>3 DEF CutsAt
          <6>1. d \in Batches /\ n \in Nat /\ Len(O[k - 1]) = n
            BY <2>3, <5>2, <6>0
          <6>2. r.mThreadID \in Threads
            BY <5>2
          <6> HIDE DEF n, d, r
          <6> DEFINE t == r.mThreadID
          <6>3. /\ WithJob(d, n, t) \in Batches /\ WithJob(d, n, t).ops = <<n>> \o d.ops
                /\ WithJob(d, n, t).marked = d.marked \cup {t}
                /\ WithJob(d, n, t).end = d.end /\ WithJob(d, n, t).cut = d.cut
            <7>1. t \in Threads
              BY <6>2
            <7> HIDE DEF t
            <7> QED BY <6>1, <7>1, WithJobType
          <6> QED BY <6>1, <6>3
        <5>5. Len(O[j - 1]) \in Nat /\ j \in q .. N + 1
          BY <1>0, <1>5, <2>0
        <5>6. m \in Nat /\ d.ops = Units(n + 1, m)
          <6>1. /\ d.ops = Units(Len(O[k - 1]) + 1, m)
                /\ Len(O[k - 1]) <= Len(O[j - 1])
            BY <5>3, Zenon DEF CutsAt
          <6>2. m \in Nat
            BY <2>3, <5>5, <6>1
          <6> QED BY <5>4, <6>1, <6>2
        <5>7. /\ d.ops \in Seq(Nat) /\ Len(d.ops) = m
              /\ b.ops = Units(n, m + 1) /\ Len(b.ops) = m + 1
              /\ \A h \in 1 .. m + 1 : b.ops[h] = IF h = 1 THEN n ELSE d.ops[h - 1]
          <6> HIDE DEF n, m, d, b
          <6>1. InFront(n, m, d.ops)
            BY <5>4, <5>6, UnitsInFront
          <6> QED BY <5>4, <6>1 DEF InFront
        <5>8. n = Len(O[q - 1]) + 1 /\ m + 1 = Len(O[j - 1]) - Len(O[q - 1])
              /\ Len(O[q - 1]) <= Len(O[j - 1])
          <6>1. Len(O[k - 1]) <= Len(O[j - 1])
            BY <5>3 DEF CutsAt
          <6> QED BY <2>3, <5>2, <5>4, <5>5, <6>1
        <5>9. \A h \in 1 .. Len(b.ops) : Owner(b.ops[h]) \in b.marked
          <6> SUFFICES ASSUME NEW h \in 1 .. m + 1 PROVE Owner(b.ops[h]) \in b.marked
            BY <5>7
          <6>1. CASE h = 1
            <7>1. b.ops[h] = n
              BY <5>6, <5>7, <6>1
            <7> QED BY <5>2, <5>4, <7>1 DEF Owner, Ops
          <6>2. CASE h # 1
            <7>1. h - 1 \in 1 .. Len(d.ops) /\ b.ops[h] = d.ops[h - 1]
              <8> HIDE DEF n, m, d, b
              <8>1. m \in Nat /\ Len(d.ops) = m
                BY <5>6, <5>7
              <8>2. b.ops[h] = d.ops[h - 1]
                BY <5>7, <6>2
              <8>3. h - 1 \in 1 .. m
                BY <6>2, <8>1
              <8> QED BY <8>1, <8>2, <8>3
            <7>2. Owner(d.ops[h - 1]) \in d.marked
              <8> HIDE DEF n, m, b
              <8> QED BY <5>3, <7>1 DEF CutsAt
            <7> QED BY <5>4, <7>1, <7>2
          <6> QED BY <6>1, <6>2
        <5>10. CutsAt(b, q, j)
          <6>1. /\ d.end \in 1 .. Len(active) + 1 /\ RS[j] = S + d.end - 1
                /\ S + Len(active) = F =>
                     /\ ~d.cut
                     /\ LastBatchFits(script) =>
                          d.end = Len(active) + 1 \/ Len(active) + 1 - d.end >= Reserved
            BY <5>3 DEF CutsAt
          <6> HIDE DEF b, d, n, m
          <6> QED BY <5>4, <5>7, <5>8, <5>9, <6>1 DEF CutsAt
        <5> QED
          BY <5>1, <5>5, <5>10 DEF Cuts
      <4> QED
        BY <4>3, <4>4, <4>5
    <3> QED
      BY <3>5, <3>6
  <2> QED
    BY <2>4, <2>5
<1>12. 1 .. N + 1 \subseteq P
  <2> HIDE DEF P, N
  <2> QED BY <1>0, <1>10, <1>11, DownwardInduction
<1>13. i \in P /\ 1 \in 1 .. L /\ S = S + 1 - 1
  BY <1>0, <1>12
<1> QED
  BY <1>8, <1>13

-------------------------------------------------------------------------------
(* The reader: buffers, positions and the disk thread *)

ReaderInv == FileTypes /\ FileInv /\ PositionInv /\ NotAgain /\ JobsInv

\* As many units as asked for.
LEMMA UnitsSeq ==
  ASSUME NEW a \in Nat, NEW n \in Nat
  PROVE  Units(a, n) \in Seq(Nat) /\ Len(Units(a, n)) = n
BY DEF Units

Joined(s, t, u) ==
  /\ u \in Seq(Nat) /\ Len(u) = Len(s) + Len(t)
  /\ \A k \in 1 .. Len(s) + Len(t) : u[k] = IF k <= Len(s) THEN s[k] ELSE t[k - Len(s)]
\* Two sequences, one behind the other.
LEMMA JoinedSequences ==
  ASSUME NEW s \in Seq(Nat), NEW t \in Seq(Nat)
  PROVE  Joined(s, t, s \o t)
BY DEF Joined

\* Units that follow each other in the file are one run of units ...
LEMMA UnitsJoined ==
  ASSUME NEW a \in Nat, NEW n \in Nat, NEW m \in Nat
  PROVE  Units(a, n) \o Units(a + n, m) = Units(a, n + m)
<1> DEFINE s == Units(a, n)
           t == Units(a + n, m)
           u == s \o t
<1>1. /\ s \in Seq(Nat) /\ Len(s) = n /\ \A k \in 1 .. n : s[k] = a + k - 1
      /\ t \in Seq(Nat) /\ Len(t) = m /\ \A k \in 1 .. m : t[k] = a + n + k - 1
  BY DEF Units
<1> HIDE DEF s, t
<1>2. u \in Seq(Nat) /\ Len(u) = n + m
      /\ \A k \in 1 .. n + m : u[k] = IF k <= n THEN s[k] ELSE t[k - n]
  <2>1. s \in Seq(Nat) /\ t \in Seq(Nat) /\ Len(s) = n /\ Len(t) = m
    BY <1>1
  <2>2. Joined(s, t, s \o t)
    BY <2>1, JoinedSequences
  <2> QED BY <2>1, <2>2 DEF Joined
<1> HIDE DEF u
<1>3. \A k \in 1 .. n + m : u[k] = a + k - 1
  BY <1>1, <1>2
<1>4. u = [k \in 1 .. n + m |-> a + k - 1]
  <2>1. u = [k \in 1 .. Len(u) |-> u[k]]
    BY <1>2
  <2> QED BY <1>2, <1>3, <2>1
<1> QED
  BY <1>4 DEF u, s, t, Units

\* ... and what is behind a unit is one too.
LEMMA UnitsLeft ==
  ASSUME NEW a \in Nat, NEW n \in Nat, NEW e \in 1 .. n + 1
  PROVE  SubSeq(Units(a, n), e, n) = Units(a + e - 1, n + 1 - e)
<1> DEFINE s == Units(a, n)
           u == SubSeq(s, e, n)
<1>1. s \in Seq(Nat) /\ Len(s) = n /\ \A k \in 1 .. n : s[k] = a + k - 1
  BY DEF Units
<1> HIDE DEF s
<1>2. u \in Seq(Nat) /\ Len(u) = n + 1 - e /\ \A k \in 1 .. n + 1 - e : u[k] = s[e + k - 1]
  BY <1>1
<1> HIDE DEF u
<1>3. \A k \in 1 .. n + 1 - e : u[k] = (a + e - 1) + k - 1
  BY <1>1, <1>2
<1>4. u = [k \in 1 .. n + 1 - e |-> (a + e - 1) + k - 1]
  <2>1. u = [k \in 1 .. Len(u) |-> u[k]]
    BY <1>2
  <2> QED BY <1>2, <1>3, <2>1
<1> QED
  BY <1>4 DEF u, s, Units

\* Only the end of the file is where it ends, and all operations are in front of it.
LEMMA EndOfFile ==
  ASSUME script \in Scripts, NEW i \in 1 .. Len(log) + 1, RecordStart(log)[i] = FileSize(log)
  PROVE  OperationsUpTo(log)[i - 1] = Operations(log)
<1> DEFINE N == Len(log)
<1>1. log \in Seq(RecordsOf(Threads, {"small", "big"})) /\ N \in Nat
  BY ScriptOfReplay
<1>2. RecordStart(log) \in [1 .. N + 1 -> Nat]
  BY <1>1, RecordStartValues
<1>3. N + 1 \in i .. N + 1
  BY <1>1
<1>4. RecordStart(log)[i] + 2 * ((N + 1) - i) <= RecordStart(log)[N + 1]
  BY <1>1, <1>3, RecordsInOrder
<1>5. RecordStart(log)[i] \in Nat
  BY <1>2
<1> HIDE DEF N
<1>6. i = N + 1
  BY <1>1, <1>3, <1>4, <1>5 DEF FileSize, N
<1> QED
  BY <1>1, <1>6 DEF Operations, N

\* In front of a record there are no more operations than in the log.
LEMMA OperationsCounted ==
  ASSUME script \in Scripts, NEW i \in 1 .. Len(log) + 1
  PROVE  /\ Len(OperationsUpTo(log)[i - 1]) \in 0 .. Len(Operations(log))
         /\ Len(Operations(log)) \in Nat
<1> DEFINE N == Len(log)
           O == OperationsUpTo(log)
<1>1. log \in Seq(RecordsOf(Threads, {"small", "big"})) /\ N \in Nat
  BY ScriptOfReplay
<1>2. i - 1 \in 0 .. N /\ N \in (i - 1) .. N /\ N \in 0 .. N
  BY <1>1
<1>3. Continues(O[N], O[i - 1])
  BY <1>1, <1>2, OperationsGrow
<1>4. O[i - 1] \in Seq(RecordsOf(Threads, {"small", "big"})) /\ O[N] \in Seq(RecordsOf(Threads, {"small", "big"}))
  <2>1. O \in [0 .. N -> Seq(RecordsOf(Threads, {"small", "big"}))]
    BY <1>1, OperationsUpToValues
  <2> HIDE DEF O, N
  <2> QED BY <1>2, <2>1
<1>5. Operations(log) = O[N]
  BY DEF Operations
<1>6. Len(O[i - 1]) \in 0 .. Len(O[N]) /\ Len(O[N]) \in Nat
  <2> HIDE DEF O, N
  <2> QED BY <1>3, <1>4 DEF Continues
<1> QED
  BY <1>5, <1>6

\* The reader: nothing is read at first.
LEMMA ReaderInvInit == Init => ReaderInv
<1> SUFFICES ASSUME Init PROVE ReaderInv
  OBVIOUS
<1> USE DEF Init
<1>1. script \in Scripts /\ log \in Seq(RecordsOf(Threads, {"small", "big"})) /\ Len(log) \in Nat
  BY ScriptOfReplay
<1>2. FileTypes
  BY <1>1 DEF FileTypes
<1>3. ActiveEnd = 0 /\ ActiveStart = 0 /\ ~Filled
  <2>1. ~Filled /\ Len(active) = 0
    BY DEF Filled
  <2>2. ActiveEnd = 0
    BY <2>1 DEF ActiveEnd
  <2> HIDE DEF Init
  <2>3. ActiveStart = 0
    BY <2>1, <2>2 DEF ActiveStart
  <2> QED BY <2>1, <2>2, <2>3
<1>4. active = Units(0, 0) /\ Len(active) = 0
  BY DEF Units
<1>5. FileInv
  <2>1. FileSize(log) \in Nat
    BY <1>1, FileSizeValue
  <2> QED BY <1>3, <1>4, <2>1 DEF FileInv
<1>6. PositionInv
  <2>1. RecordStart(log)[1] = 0 /\ OperationsUpTo(log)[0] = <<>>
    BY <1>1, RecordStartValues, OperationsUpToValues
  <2>2. 1 \in 1 .. Len(log) + 1 /\ AtRecord(1)
    BY <1>1, <1>3, <2>1 DEF AtRecord
  <2> QED BY <2>2 DEF PositionInv
<1>7. NotAgain
  BY DEF NotAgain
<1>8. JobsInv
  <2>1. Len(Ops) \in Nat
    <3>1. 1 \in 1 .. Len(log) + 1
      BY <1>1
    <3> QED BY <1>1, <3>1, OperationsCounted DEF Ops
  <2>2. gpJobs.records = Units(0, 0) /\ Len(gpJobs.records) = 0
    BY DEF Units
  <2> QED BY <2>1, <2>2 DEF JobsInv
<1> QED
  BY <1>2, <1>5, <1>6, <1>7, <1>8 DEF ReaderInv

\* What the reader's invariant is about.
readerVars == <<script, ctl, active, inUse, lbRefillBuffer, lTotalReadSize, lRecSeqNumber, gpJobs,
                mStatus, mpBuffer, mReadSz, buffer, filePos>>

\* What the reader does not look at may change.
LEMMA ReaderInvStutters == ReaderInv /\ UNCHANGED readerVars => ReaderInv'
<1> SUFFICES ASSUME ReaderInv, UNCHANGED readerVars PROVE ReaderInv'
  OBVIOUS
<1> USE DEF readerVars
<1>1. log' = log /\ Ops' = Ops /\ Stopped' = Stopped /\ Filled' = Filled
  BY DEF log, Ops, Stopped, Filled
<1>2. ActiveEnd' = ActiveEnd /\ ActiveStart' = ActiveStart
  BY <1>1 DEF ActiveEnd, ActiveStart
<1>3. FileTypes'
  BY DEF ReaderInv, FileTypes
<1>4. FileInv'
  BY <1>1, <1>2 DEF ReaderInv, FileInv
<1>5. PositionInv'
  BY <1>1, <1>2 DEF ReaderInv, PositionInv, AtRecord
<1>6. NotAgain'
  BY DEF ReaderInv, NotAgain
<1>7. JobsInv'
  BY <1>1 DEF ReaderInv, JobsInv
<1> QED
  BY <1>3, <1>4, <1>5, <1>6, <1>7 DEF ReaderInv

\* The disk thread fills a buffer.
LEMMA ReaderReadFile == BufferInv /\ ReaderInv /\ ReadFile => ReaderInv'
<1> SUFFICES ASSUME BufferInv, ReaderInv, ReadFile PROVE ReaderInv'
  OBVIOUS
<1>1. /\ dsk = "read" /\ buffer' = [buffer EXCEPT ![mpBuffer] = Units(filePos, mReadSz)]
      /\ filePos' = filePos + mReadSz /\ mStatus' = "idle"
      /\ UNCHANGED <<script, ctl, active, inUse, lbRefillBuffer, lTotalReadSize, lRecSeqNumber,
                     gpJobs, mpBuffer, mReadSz>>
  BY DEF ReadFile, Units, ctlVars
<1>2. log' = log /\ Ops' = Ops /\ Stopped' = Stopped
  BY <1>1 DEF log, Ops, Stopped
<1>3. FileTypes
  BY DEF ReaderInv
<1>4. FileTypes'
  <2>1. Units(filePos, mReadSz) \in Seq(Nat)
    BY <1>3, UnitsSeq DEF FileTypes
  <2>2. buffer' \in [1 .. 2 -> Seq(Nat)]
    BY <1>1, <1>3, <2>1 DEF FileTypes
  <2>3. filePos' \in Nat
    BY <1>1, <1>3 DEF FileTypes
  <2> QED BY <1>1, <1>3, <2>2, <2>3 DEF FileTypes
<1>5. JobsInv' /\ NotAgain'
  BY <1>1, <1>2 DEF ReaderInv, JobsInv, NotAgain
<1>6. CASE Stopped
  BY <1>2, <1>4, <1>5, <1>6 DEF ReaderInv, FileInv, PositionInv
<1>7. CASE ~Stopped
  <2>1. mStatus = "read" /\ mpBuffer # inUse
    BY <1>1, <1>7 DEF BufferInv, StatusHeld, BufferNotOverwritten
  <2>2. /\ lTotalReadSize = filePos + mReadSz /\ lTotalReadSize <= FileSize(log)
        /\ ActiveEnd = filePos /\ ctl # "start"
        /\ Len(active) <= filePos /\ active = Units(ActiveStart, Len(active))
    BY <1>7, <2>1 DEF ReaderInv, FileInv, ActiveEnd, Filled
  <2>3. mpBuffer \in 1 .. 2
    BY <2>2 DEF BufferInv, BuffersNamed
  <2>4. filePos \in Nat /\ mReadSz \in Nat
    BY <1>3 DEF FileTypes
  <2>5. Filled' /\ ActiveEnd' = ActiveEnd /\ ActiveStart' = ActiveStart
    BY <1>1, <2>1, <2>2, <2>4 DEF Filled, ActiveEnd, ActiveStart
  <2>6. buffer'[mpBuffer] = Units(filePos, mReadSz)
    BY <1>1, <1>3, <2>3 DEF FileTypes
  <2>7. FileInv'
    <3>1. /\ mStatus' \in {"idle", "read"}
          /\ lTotalReadSize' = filePos' + (IF mStatus' = "read" THEN mReadSz' ELSE 0)
      BY <1>1, <2>2, <2>4
    <3>2. filePos' - mReadSz' = filePos /\ mReadSz' <= filePos'
      BY <1>1, <2>4
    <3>3. buffer'[mpBuffer'] = Units(filePos' - mReadSz', mReadSz')
      BY <1>1, <2>6, <3>2
    <3> QED
      BY <1>1, <1>2, <2>1, <2>2, <2>5, <3>1, <3>2, <3>3 DEF ReaderInv, FileInv
  <2>8. PositionInv'
    BY <1>1, <1>2, <2>5 DEF ReaderInv, PositionInv, AtRecord
  <2> QED
    BY <1>4, <1>5, <2>7, <2>8 DEF ReaderInv
<1> QED
  BY <1>6, <1>7

\* The first read asks for the units the file starts with.
LEMMA ReaderFirstRead == BufferInv /\ ReaderInv /\ FirstRead => ReaderInv'
<1> SUFFICES ASSUME BufferInv, ReaderInv, FirstRead PROVE ReaderInv'
  OBVIOUS
<1> DEFINE n == Bounded(ChunkSz, FileSize(log))
<1>1. /\ ctl = "start" /\ ctl' = "wakeFirst" /\ mpBuffer' = 1 /\ mReadSz' = n /\ mStatus' = "read"
      /\ lTotalReadSize' = lTotalReadSize + n
      /\ UNCHANGED <<script, active, inUse, lbRefillBuffer, lRecSeqNumber, gpJobs, buffer, filePos>>
  BY DEF FirstRead, StartRead
<1>2. log' = log /\ Ops' = Ops /\ ~Stopped /\ ~Stopped'
  BY <1>1 DEF log, Ops, Stopped
<1>3. FileTypes /\ inUse = 0 /\ mpBuffer = 0 /\ mStatus = "idle" /\ lTotalReadSize = 0
      /\ lTotalReadSize = filePos
      /\ Len(active) <= ActiveEnd /\ active = Units(ActiveStart, Len(active))
  BY <1>1, <1>2 DEF ReaderInv, FileInv, FileTypes, BufferInv, BuffersNamed
<1>4. n \in Nat /\ n <= FileSize(log) /\ FileSize(log) \in Nat
  <2>1. script \in Scripts
    BY <1>3 DEF FileTypes
  <2> QED BY <2>1, ScriptOfReplay, FileSizeValue DEF Bounded
<1> HIDE DEF n
<1>5. ~Filled /\ ~Filled' /\ ActiveEnd' = ActiveEnd /\ ActiveStart' = ActiveStart
  BY <1>1, <1>3 DEF Filled, ActiveEnd, ActiveStart
<1>6. FileTypes'
  BY <1>1, <1>3, <1>4 DEF FileTypes
<1>7. FileInv'
  BY <1>1, <1>2, <1>3, <1>4, <1>5 DEF FileInv
<1>8. PositionInv'
  BY <1>1, <1>2, <1>5 DEF ReaderInv, PositionInv, AtRecord
<1>9. JobsInv' /\ NotAgain'
  BY <1>1, <1>2, <1>3 DEF ReaderInv, JobsInv, NotAgain
<1> QED
  BY <1>6, <1>7, <1>8, <1>9 DEF ReaderInv

\* The controller takes over what the disk thread has read, and never asks for more than
\* the file has.
LEMMA ReaderTakeBuffer == BufferInv /\ ReaderInv /\ TakeBuffer /\ ~again' => ReaderInv'
<1> SUFFICES ASSUME BufferInv, ReaderInv, TakeBuffer, ~again' PROVE ReaderInv'
  OBVIOUS
<1>1. /\ ctl = "loop" /\ MoreToDo /\ NeedsBuffer /\ mStatus # "read"
      /\ active' = active \o buffer[mpBuffer] /\ inUse' = mpBuffer /\ lbRefillBuffer' = FALSE
      /\ UNCHANGED <<script, lRecSeqNumber, gpJobs, buffer, filePos>>
  BY DEF TakeBuffer
<1>2. IF NextReadSz > 0
      THEN /\ mpBuffer' = 3 - mpBuffer /\ mReadSz' = NextReadSz /\ mStatus' = "read"
           /\ lTotalReadSize' = lTotalReadSize + NextReadSz /\ ctl' = "wakeNext"
      ELSE UNCHANGED <<mpBuffer, mReadSz, mStatus, lTotalReadSize>> /\ ctl' = "fill"
  BY DEF TakeBuffer, StartRead, OtherBuffer
<1>3. log' = log /\ Ops' = Ops /\ ~Stopped /\ ~Stopped' /\ script \in Scripts
  BY <1>1, <1>2 DEF log, Ops, Stopped, ReaderInv, FileTypes
<1>4. /\ filePos \in Nat /\ mReadSz \in Nat /\ lTotalReadSize \in Nat /\ active \in Seq(Nat)
      /\ FileSize(log) \in Nat /\ Reserved = 4 /\ ChunkSz \in Nat /\ ChunkSz >= 4
      /\ mpBuffer \in 1 .. 2 /\ Len(active) \in Nat
  BY <1>1, <1>3, ScriptOfReplay, FileSizeValue DEF ReaderInv, FileTypes, BufferInv, BuffersNamed
<1>5. /\ mStatus = "idle" /\ lTotalReadSize = filePos /\ lTotalReadSize <= FileSize(log)
      /\ Filled => mReadSz <= filePos /\ buffer[mpBuffer] = Units(filePos - mReadSz, mReadSz)
      /\ Len(active) <= ActiveEnd /\ active = Units(ActiveStart, Len(active))
      /\ inUse = mpBuffer => lTotalReadSize = FileSize(log)
  BY <1>1, <1>3, <1>4 DEF ReaderInv, FileInv
<1>6. PICK i \in 1 .. Len(log) + 1 : AtRecord(i)
  BY <1>3 DEF ReaderInv, PositionInv
<1>7. inUse # mpBuffer
  BY DEF TakeBuffer
<1> DEFINE L == Len(active)
           S == ActiveStart
<1>8. Filled /\ ActiveEnd = filePos - mReadSz /\ S \in Nat /\ S + L = filePos - mReadSz
      /\ mReadSz <= filePos /\ buffer[mpBuffer] = Units(S + L, mReadSz)
  <2>1. Filled
    BY <1>5, <1>7 DEF Filled
  <2>2. ActiveEnd = filePos - mReadSz
    BY <2>1 DEF ActiveEnd
  <2>3. S = ActiveEnd - L
    BY DEF ActiveStart
  <2>4. S \in Nat /\ S + L = filePos - mReadSz
    <3> HIDE DEF S
    <3> QED BY <1>4, <1>5, <2>1, <2>2, <2>3
  <2> QED BY <1>5, <2>1, <2>2, <2>4
<1>9. active' = Units(S, L + mReadSz) /\ active' \in Seq(Nat) /\ Len(active') = L + mReadSz
  <2>1. active' = Units(S, L) \o Units(S + L, mReadSz)
    BY <1>1, <1>5, <1>8
  <2> HIDE DEF S, L
  <2>2. L \in Nat /\ S \in Nat
    BY <1>4, <1>8 DEF L
  <2>3. active' = Units(S, L + mReadSz)
    BY <1>4, <2>1, <2>2, UnitsJoined
  <2>4. L + mReadSz \in Nat
    BY <1>4, <2>2
  <2> QED BY <2>2, <2>3, <2>4, UnitsSeq
<1>10. NextReadSz \in Nat /\ NextReadSz <= FileSize(log) - lTotalReadSize
       /\ (~(NextReadSz > 0) => lTotalReadSize = FileSize(log))
  <2> DEFINE c == (ChunkSz \div 4) * 4
  <2>1. c \in Nat /\ c > 0
    <3> DEFINE x == ChunkSz
    <3>1. x \in Nat /\ x >= 4
      BY <1>4
    <3> HIDE DEF x
    <3>2. x \div 4 \in Nat /\ x \div 4 >= 1
      BY <3>1
    <3> QED BY <3>2 DEF x
  <2> HIDE DEF c
  <2>2. NextReadSz = Bounded(c, FileSize(log) - lTotalReadSize)
    BY DEF NextReadSz, c
  <2> QED
    BY <1>4, <1>5, <2>1, <2>2 DEF Bounded
<1>11. FileTypes'
  BY <1>1, <1>2, <1>3, <1>4, <1>9, <1>10 DEF ReaderInv, FileTypes
<1>12. ~Filled' /\ ActiveEnd' = filePos /\ ActiveStart' = S
  <2>1. ~Filled'
    BY <1>1, <1>2 DEF Filled
  <2>2. ActiveEnd' = filePos
    BY <1>1, <2>1 DEF ActiveEnd
  <2>3. ActiveStart' = filePos - (L + mReadSz)
    BY <1>9, <2>2 DEF ActiveStart
  <2> HIDE DEF S, L
  <2> QED BY <1>4, <1>8, <2>1, <2>2, <2>3 DEF L
<1>13. FileInv'
  <2>1. Len(active') <= ActiveEnd' /\ active' = Units(ActiveStart', Len(active'))
    <3> HIDE DEF S
    <3> QED BY <1>4, <1>8, <1>9, <1>12
  <2>2. CASE NextReadSz > 0
    BY <1>1, <1>2, <1>3, <1>4, <1>5, <1>10, <1>12, <2>1, <2>2 DEF FileInv
  <2>3. CASE ~(NextReadSz > 0)
    <3>1. /\ mStatus' = "idle" /\ lTotalReadSize' = filePos' /\ ctl' = "fill"
          /\ lTotalReadSize' = FileSize(log)
      BY <1>1, <1>2, <1>5, <1>10, <2>3
    <3> QED
      BY <1>3, <1>4, <1>12, <2>1, <3>1 DEF FileInv
  <2> QED BY <2>2, <2>3
<1>14. PositionInv'
  <2>1. AtRecord(i)'
    BY <1>1, <1>3, <1>6, <1>12 DEF AtRecord
  <2> QED BY <1>3, <1>6, <2>1 DEF PositionInv
<1>15. JobsInv' /\ NotAgain'
  BY <1>1, <1>2, <1>3, <1>4 DEF ReaderInv, JobsInv, NotAgain
<1> QED
  BY <1>11, <1>13, <1>14, <1>15 DEF ReaderInv

-------------------------------------------------------------------------------
(* The batch is what comes next *)

\* The next batch: the operations from lRecSeqNumber on, and their threads marked.
NextBatch(b) ==
  /\ b \in Batches /\ Len(b.ops) \in Nat /\ b.ops = Units(lRecSeqNumber, Len(b.ops))
  /\ \A n \in lRecSeqNumber .. lRecSeqNumber + Len(b.ops) - 1 : Owner(n) \in b.marked
  /\ lRecSeqNumber + Len(b.ops) <= Len(Ops) + 1

\* The batch is the operations that come next in the log.
LEMMA BatchIsNext ==
  ASSUME BufferInv, ReaderInv, ~Stopped, ctl # "start"
  PROVE  /\ NextBatch(Batch)
         /\ \E i \in 1 .. Len(log) + 1 : AtRecord(i) /\ Cuts(Batch, i)
         /\ ActiveStart \in Nat /\ ActiveEnd = ActiveStart + Len(active)
         /\ inUse = mpBuffer => ActiveEnd = FileSize(log)
<1>1. /\ script \in Scripts /\ active \in Seq(Nat) /\ Len(active) \in Nat
      /\ filePos \in Nat /\ mReadSz \in Nat /\ lTotalReadSize \in Nat
  BY DEF ReaderInv, FileTypes
<1>2. /\ mStatus \in {"idle", "read"}
      /\ lTotalReadSize = filePos + (IF mStatus = "read" THEN mReadSz ELSE 0)
      /\ lTotalReadSize <= FileSize(log) /\ FileSize(log) \in Nat
      /\ Filled => mReadSz <= filePos
      /\ Len(active) <= ActiveEnd /\ active = Units(ActiveStart, Len(active))
      /\ inUse = mpBuffer => lTotalReadSize = FileSize(log) /\ mStatus # "read"
  BY <1>1, FileSizeValue DEF ReaderInv, FileInv, BufferInv, BufferNotOverwritten
<1>3. /\ ActiveEnd \in Nat /\ ActiveEnd <= FileSize(log)
      /\ inUse = mpBuffer => ActiveEnd = FileSize(log)
  BY <1>1, <1>2 DEF ActiveEnd, Filled
<1>4. ActiveStart \in Nat /\ ActiveEnd = ActiveStart + Len(active)
  BY <1>1, <1>2, <1>3 DEF ActiveStart
<1>5. PICK i \in 1 .. Len(log) + 1 : AtRecord(i)
  BY DEF ReaderInv, PositionInv
<1>6. Cuts(Batch, i)
  <2>1. RecordStart(log)[i] = ActiveStart /\ ActiveStart + Len(active) <= FileSize(log)
    BY <1>3, <1>4, <1>5 DEF AtRecord
  <2> QED BY <1>1, <1>2, <1>4, <2>1, BatchCuts
<1>7. PICK j \in i .. Len(log) + 1 : CutsAt(Batch, i, j)
  BY <1>6 DEF Cuts
<1> DEFINE b == Batch
           n == Len(OperationsUpTo(log)[i - 1])
           m == Len(OperationsUpTo(log)[j - 1])
<1>8. NextBatch(Batch)
  <2>1. b \in Batches /\ n <= m /\ b.ops = Units(n + 1, m - n)
        /\ \A k \in 1 .. Len(b.ops) : Owner(b.ops[k]) \in b.marked
    BY <1>7 DEF CutsAt
  <2>2. n \in 0 .. Len(Operations(log)) /\ m \in 0 .. Len(Operations(log)) /\ Len(Operations(log)) \in Nat
    <3>1. Len(log) \in Nat
      BY <1>1, ScriptOfReplay
    <3>2. j \in 1 .. Len(log) + 1
      BY <3>1
    <3> QED BY <1>1, <3>2, OperationsCounted
  <2>3. lRecSeqNumber = n + 1
    BY <1>5 DEF AtRecord
  <2> HIDE DEF b, n, m
  <2>4. Len(b.ops) = m - n /\ m - n \in Nat /\ n + 1 \in Nat
    <3>1. m - n \in Nat /\ n + 1 \in Nat
      BY <2>1, <2>2
    <3> QED BY <2>1, <3>1, UnitsSeq
  <2>5. ASSUME NEW k \in lRecSeqNumber .. lRecSeqNumber + Len(b.ops) - 1 PROVE Owner(k) \in b.marked
    <3>1. k - n \in 1 .. m - n
      BY <2>2, <2>3, <2>4
    <3>2. b.ops[k - n] = k
      <4>1. b.ops[k - n] = n + 1 + (k - n) - 1
        BY <2>1, <3>1 DEF Units
      <4> QED BY <2>2, <2>3, <4>1
    <3> QED BY <2>1, <2>4, <3>1, <3>2
  <2>6. lRecSeqNumber + Len(b.ops) <= Len(Ops) + 1
    BY <2>2, <2>3, <2>4 DEF Ops
  <2> QED
    BY <2>1, <2>3, <2>4, <2>5, <2>6 DEF NextBatch, b
<1> QED
  BY <1>3, <1>4, <1>5, <1>6, <1>8

\* A batch is cut off at the end of a record, and its operations are counted.
LEMMA ReaderFillBatch == BufferInv /\ ReaderInv /\ FillBatch => ReaderInv'
<1> SUFFICES ASSUME BufferInv, ReaderInv, FillBatch PROVE ReaderInv'
  OBVIOUS
<1> DEFINE b == Batch
<1>1. /\ ctl \in {"fill", "loop"}
      /\ gpJobs' = [mSequenceNo |-> IF b.marked = {} THEN 0 ELSE lRecSeqNumber, records |-> b.ops]
      /\ lRecSeqNumber' = lRecSeqNumber + Len(b.ops)
      /\ active' = SubSeq(active, b.end, Len(active))
      /\ lbRefillBuffer' = (lbRefillBuffer \/ b.cut)
      /\ ctl' = IF b.marked = {} THEN "loop" ELSE "wake"
      /\ UNCHANGED <<script, inUse, lTotalReadSize, dsk, mStatus, mpBuffer, mReadSz, mSleepLock,
                     buffer, filePos>>
  BY DEF FillBatch, NextSeqNo, diskVars
<1>2. log' = log /\ Ops' = Ops /\ ~Stopped /\ ~Stopped' /\ ctl # "start" /\ ctl' # "start"
      /\ ctl' \notin {"wakeFirst", "wakeNext"}
  BY <1>1 DEF log, Ops, Stopped
<1>3. /\ NextBatch(b) /\ ActiveStart \in Nat /\ ActiveEnd = ActiveStart + Len(active)
      /\ inUse = mpBuffer => ActiveEnd = FileSize(log)
  BY <1>2, BatchIsNext
<1>4. PICK i \in 1 .. Len(log) + 1 : AtRecord(i) /\ Cuts(b, i)
  BY <1>2, BatchIsNext
<1>5. PICK j \in i .. Len(log) + 1 : CutsAt(b, i, j)
  BY <1>4 DEF Cuts
<1> HIDE DEF b
<1> DEFINE S == ActiveStart
           L == Len(active)
<1>6. /\ b \in Batches /\ b.end \in 1 .. L + 1 /\ RecordStart(log)[j] = S + b.end - 1
      /\ S + L = FileSize(log) =>
           ~b.cut /\ (LastBatchFits(script) => b.end = L + 1 \/ L + 1 - b.end >= Reserved)
  BY <1>5 DEF CutsAt
<1>7. /\ script \in Scripts /\ active \in Seq(Nat) /\ L \in Nat /\ S \in Nat
      /\ lRecSeqNumber \in Nat /\ lRecSeqNumber >= 1 /\ Len(Ops) \in Nat
      /\ active = Units(S, L) /\ Len(b.ops) \in Nat
  <2>1. script \in Scripts /\ active \in Seq(Nat) /\ L \in Nat
    BY DEF ReaderInv, FileTypes
  <2>2. Len(Ops) \in Nat
    BY <1>4, <2>1, OperationsCounted DEF Ops
  <2>3. lRecSeqNumber \in 1 .. Len(Ops) + 1
    BY DEF ReaderInv, JobsInv
  <2>4. active = Units(S, L) /\ Len(b.ops) \in Nat
    BY <1>2, <1>3 DEF ReaderInv, FileInv, NextBatch
  <2> QED BY <1>3, <2>1, <2>2, <2>3, <2>4
<1>8. /\ active' = Units(S + b.end - 1, L + 1 - b.end)
      /\ S + b.end - 1 \in Nat /\ L + 1 - b.end \in Nat
      /\ active' \in Seq(Nat) /\ Len(active') = L + 1 - b.end
  <2> HIDE DEF S, L
  <2>1. active' = SubSeq(Units(S, L), b.end, L)
    BY <1>1, <1>7 DEF S, L
  <2>2. active' = Units(S + b.end - 1, L + 1 - b.end)
    BY <1>6, <1>7, <2>1, UnitsLeft
  <2>3. S + b.end - 1 \in Nat /\ L + 1 - b.end \in Nat
    BY <1>6, <1>7
  <2> QED BY <2>2, <2>3, UnitsSeq
<1>9. ActiveEnd' = ActiveEnd /\ ActiveStart' = S + b.end - 1 /\ Filled' = Filled
  <2>1. ActiveEnd' = ActiveEnd /\ Filled' = Filled
    BY <1>1 DEF ActiveEnd, Filled
  <2>2. ActiveStart' = (S + L) - (L + 1 - b.end)
    BY <1>3, <1>8, <2>1 DEF ActiveStart
  <2> HIDE DEF S, L
  <2> QED BY <1>6, <1>7, <2>1, <2>2
<1>10. FileTypes'
  BY <1>1, <1>8 DEF ReaderInv, FileTypes
<1>11. FileInv'
  <2>1. Len(active') <= ActiveEnd' /\ active' = Units(ActiveStart', Len(active'))
    <3>1. ActiveEnd' = S + L
      BY <1>3, <1>9
    <3> HIDE DEF S, L
    <3> QED BY <1>6, <1>7, <1>8, <1>9, <3>1
  <2> QED
    BY <1>1, <1>2, <1>9, <2>1 DEF ReaderInv, FileInv
<1>12. PositionInv'
  <2>1. Len(log) \in Nat
    BY <1>7, ScriptOfReplay
  <2>2. j \in 1 .. Len(log) + 1
    BY <2>1
  <2> DEFINE n == Len(OperationsUpTo(log)[i - 1])
             m == Len(OperationsUpTo(log)[j - 1])
  <2>3. n <= m /\ b.ops = Units(n + 1, m - n) /\ lRecSeqNumber = n + 1
    BY <1>4, <1>5 DEF CutsAt, AtRecord
  <2>4. n \in Nat /\ m \in Nat
    BY <1>4, <1>7, <2>2, OperationsCounted
  <2> HIDE DEF n, m
  <2>5. Len(b.ops) = m - n
    <3>1. m - n \in Nat /\ n + 1 \in Nat
      BY <2>3, <2>4
    <3> QED BY <2>3, <3>1, UnitsSeq
  <2>6. lRecSeqNumber' = m + 1
    BY <1>1, <2>3, <2>4, <2>5
  <2>7. AtRecord(j)'
    BY <1>2, <1>6, <1>9, <2>6 DEF AtRecord, m
  <2> QED BY <1>2, <2>2, <2>7 DEF PositionInv
<1>13. NotAgain'
  <2> SUFFICES ASSUME LastBatchFits(script), inUse = mpBuffer
               PROVE  (active' = <<>> \/ Len(active') >= Reserved) /\ ~lbRefillBuffer'
    <3>1. LastBatchFits(script)' = LastBatchFits(script)
      BY <1>1 DEF LastBatchFits
    <3> QED BY <1>1, <3>1 DEF NotAgain
  <2>1. S + L = FileSize(log)
    BY <1>3
  <2>2. ~lbRefillBuffer
    BY <1>1 DEF ReaderInv, NotAgain
  <2>3. Len(active') = 0 => active' = <<>>
    BY <1>8
  <2> HIDE DEF S, L
  <2>4. b.end = L + 1 => Len(active') = 0
    BY <1>7, <1>8
  <2>5. ~lbRefillBuffer'
    BY <1>1, <1>6, <2>1, <2>2
  <2> QED
    BY <1>6, <1>8, <2>1, <2>3, <2>4, <2>5
<1>14. JobsInv'
  <2>1. b.ops \in Seq(Nat) /\ b.ops = Units(lRecSeqNumber, Len(b.ops))
        /\ lRecSeqNumber + Len(b.ops) <= Len(Ops) + 1
        /\ \A n \in lRecSeqNumber .. lRecSeqNumber + Len(b.ops) - 1 : Owner(n) \in b.marked
    BY <1>3 DEF NextBatch, Batches
  <2>2. lRecSeqNumber' \in 1 .. Len(Ops) + 1
    BY <1>1, <1>7, <2>1
  <2>3. CASE b.marked = {}
    <3>1. Len(b.ops) = 0
      <4>1. Len(b.ops) >= 1 => lRecSeqNumber \in lRecSeqNumber .. lRecSeqNumber + Len(b.ops) - 1
        BY <1>7
      <4>2. Len(b.ops) \in Nat /\ ~(Len(b.ops) >= 1)
        BY <1>7, <2>1, <2>3, <4>1, Zenon
      <4> QED BY <4>2
    <3>2. b.ops = <<>> /\ b.ops = Units(0, 0) /\ Len(b.ops) = 0
      BY <2>1, <3>1 DEF Units
    <3>3. gpJobs'.mSequenceNo = 0 /\ gpJobs'.records = b.ops /\ ctl' # "wake"
          /\ gpJobs' \in [mSequenceNo : Nat, records : Seq(Nat)]
      BY <1>1, <2>1, <2>3
    <3> QED
      BY <1>2, <1>7, <2>2, <3>2, <3>3 DEF JobsInv
  <2>4. CASE b.marked # {}
    <3>1. gpJobs'.mSequenceNo = lRecSeqNumber /\ gpJobs'.records = b.ops
          /\ gpJobs' \in [mSequenceNo : Nat, records : Seq(Nat)]
      BY <1>1, <1>7, <2>1, <2>4
    <3> QED
      BY <1>1, <1>2, <1>7, <2>1, <2>2, <3>1 DEF JobsInv
  <2> QED BY <2>3, <2>4
<1> QED
  BY <1>10, <1>11, <1>12, <1>13, <1>14 DEF ReaderInv

\* The steps between batches leave file and buffers alone.
LEMMA ReaderOtherSteps ==
  ASSUME BufferInv, ReaderInv,
         UNCHANGED <<script, active, inUse, lbRefillBuffer, lTotalReadSize, lRecSeqNumber, gpJobs,
                     mpBuffer, mReadSz, buffer, filePos>>,
         \/ /\ UNCHANGED mStatus
            /\ \/ ctl = "wakeFirst" /\ ctl' = "loop"
               \/ ctl = "wakeNext" /\ ctl' = "fill"
               \/ ctl = "wake" /\ ctl' \in {"loop", "stop", "wake"}
         \/ Stopped'
  PROVE  ReaderInv'
<1>1. log' = log /\ Ops' = Ops
  BY DEF log, Ops
<1>2. FileTypes'
  BY DEF ReaderInv, FileTypes, Stopped
<1>3. CASE Stopped'
  <2>1. NotAgain' /\ JobsInv'
    BY <1>1, <1>3 DEF ReaderInv, NotAgain, JobsInv, Stopped
  <2> QED
    BY <1>2, <1>3, <2>1 DEF ReaderInv, FileInv, PositionInv
<1>4. CASE ~Stopped'
  <2>1. ~Stopped /\ mStatus' = mStatus /\ ctl # "start" /\ ctl' # "start"
        /\ ctl' \notin {"wakeFirst", "wakeNext"}
        /\ (ctl \in {"wakeFirst", "wakeNext"} \/ (ctl = "wake" /\ ctl' \in {"loop", "stop", "wake"}))
        /\ (ctl' = "wake" => ctl = "wake")
    BY <1>4 DEF Stopped
  <2>2. Filled' = Filled /\ ActiveEnd' = ActiveEnd /\ ActiveStart' = ActiveStart
    <3>1. Filled' = Filled
      BY <2>1 DEF Filled
    <3> QED BY <3>1 DEF ActiveEnd, ActiveStart
  <2>3. FileInv'
    BY <1>1, <2>1, <2>2 DEF ReaderInv, FileInv
  <2>4. PositionInv'
    BY <1>1, <2>1, <2>2 DEF ReaderInv, PositionInv, AtRecord
  <2>5. JobsInv'
    BY <1>1, <2>1 DEF ReaderInv, JobsInv
  <2>6. NotAgain'
    <3>1. CASE ctl \in {"wakeFirst", "wakeNext"}
      BY <2>1, <3>1 DEF ReaderInv, FileInv, NotAgain
    <3>2. CASE ctl = "wake" /\ ctl' \in {"loop", "stop", "wake"}
      BY <3>2 DEF ReaderInv, NotAgain
    <3> QED BY <2>1, <3>1, <3>2
  <2> QED
    BY <1>2, <2>3, <2>4, <2>5, <2>6 DEF ReaderInv
<1> QED
  BY <1>3, <1>4

\* Workers touch nothing the reader looks at.
LEMMA WorkersKeepReader == ASSUME NEW t \in Threads, Worker(t) PROVE UNCHANGED readerVars
BY DEF Worker, EnterBatch, OpMalloc, OpFree, OpRealloc, AwaitBlock, FinishQueuedJobs,
       WakeController, Leave, vars, ctlVars, diskVars, readerVars

\* Every step keeps the reader in place.
LEMMA ReaderInvKept ==
  BufferInv /\ ReaderInv /\ [Next]_vars /\ ~again' => ReaderInv'
<1> SUFFICES ASSUME BufferInv, ReaderInv, [Next]_vars, ~again' PROVE ReaderInv'
  OBVIOUS
<1>1. CASE Controller
  <2>1. CASE FirstRead
    BY <2>1, ReaderFirstRead
  <2>2. CASE WakeDiskToRead
    <3>1. /\ \/ ctl = "wakeFirst" /\ ctl' = "loop"
             \/ ctl = "wakeNext" /\ ctl' = "fill"
          /\ UNCHANGED <<script, active, inUse, lbRefillBuffer, lTotalReadSize, lRecSeqNumber,
                         gpJobs, mpBuffer, mReadSz, buffer, filePos, mStatus>>
      BY <2>2 DEF WakeDiskToRead
    <3> QED BY <3>1, ReaderOtherSteps
  <2>3. CASE TakeBuffer
    BY <2>3, ReaderTakeBuffer
  <2>4. CASE FillBatch
    BY <2>4, ReaderFillBatch
  <2>5. CASE WakeWorker
    <3>1. UNCHANGED readerVars
      BY <2>5 DEF WakeWorker, diskVars, readerVars
    <3> QED BY <3>1, ReaderInvStutters
  <2>6. CASE WaitForBatch
    <3>1. /\ ctl = "wake" /\ ctl' \in {"loop", "stop", "wake"}
          /\ UNCHANGED <<script, active, inUse, lbRefillBuffer, lTotalReadSize, lRecSeqNumber,
                         gpJobs, mpBuffer, mReadSz, buffer, filePos, mStatus>>
      BY <2>6 DEF WaitForBatch, diskVars
    <3> QED BY <3>1, ReaderOtherSteps
  <2>7. CASE StopDisk \/ ReleaseAll \/ JoinAll \/ ReadFreedEntry
    <3>1. /\ Stopped'
          /\ UNCHANGED <<script, active, inUse, lbRefillBuffer, lTotalReadSize, lRecSeqNumber,
                         gpJobs, mpBuffer, mReadSz, buffer, filePos>>
      BY <2>7 DEF StopDisk, ReleaseAll, JoinAll, ReadFreedEntry, diskVars, Stopped
    <3> QED BY <3>1, ReaderOtherSteps
  <2> QED
    BY <1>1, <2>1, <2>2, <2>3, <2>4, <2>5, <2>6, <2>7 DEF Controller
<1>2. CASE Disk
  <2>1. CASE ReadFile
    BY <2>1, ReaderReadFile
  <2>2. CASE DiskSleep \/ DiskLook \/ DiskLeave
    <3>1. UNCHANGED readerVars
      BY <2>2 DEF DiskSleep, DiskLook, DiskLeave, ctlVars, readerVars
    <3> QED BY <3>1, ReaderInvStutters
  <2> QED
    BY <1>2, <2>1, <2>2 DEF Disk
<1>3. ASSUME NEW t \in Threads, Worker(t) PROVE ReaderInv'
  BY <1>3, WorkersKeepReader, ReaderInvStutters
<1>4. CASE Terminated \/ UNCHANGED vars
  <2>1. UNCHANGED readerVars
    BY <1>4 DEF Terminated, vars, ctlVars, diskVars, readerVars
  <2> QED BY <2>1, ReaderInvStutters
<1> QED
  BY <1>1, <1>2, <1>3, <1>4 DEF Next

-------------------------------------------------------------------------------
(* The handshake of the controller and the workers *)

\* LeastOf finds the least.
LEMMA LeastThread ==
  ASSUME NEW S \in SUBSET Nat, S # {}
  PROVE  LeastOf(S) \in S /\ \A y \in S : LeastOf(S) <= y
BY LeastNumber DEF LeastOf

\* As many workers as threads at most are called.
LEMMA CalledFinite ==
  /\ IsFiniteSet(Called) /\ Cardinality(Called) \in Nat
  /\ Cardinality(Called) = 0 <=> Called = {}
<1>1. IsFiniteSet(Threads) /\ Called \subseteq Threads
  BY ReplayAssumption DEF Called
<1> QED
  BY <1>1, FS_Subset, FS_CardinalityType, FS_EmptySet

WorkerInv == SyncTypes /\ SyncInv

\* Where no worker is in the batch: each waits at its lock.
LEMMA NobodyCalled ==
  ASSUME WorkerInv, ~gAllDone, ctl # "wake"
  PROVE  /\ Called = {} /\ gControllerLock
         /\ \A t \in Threads : wrk[t] = "parked" /\ workerLock[t]
<1>1. Called = {}
  BY DEF WorkerInv, SyncInv
<1>2. \A t \in Threads : wrk[t] # "last" /\ wrk[t] # "working" /\ workerLock[t] \in BOOLEAN /\ workerLock[t]
  BY <1>1 DEF WorkerInv, SyncInv, SyncTypes, Called
<1>3. \A t \in Threads : wrk[t] = "parked"
  BY <1>2 DEF WorkerInv, SyncInv
<1> QED
  BY <1>1, <1>2, <1>3 DEF WorkerInv, SyncInv, SyncTypes

\* The workers: all are parked at first.
LEMMA WorkerInvInit == Init => WorkerInv
<1> SUFFICES ASSUME Init PROVE WorkerInv
  OBVIOUS
<1>1. Called = {}
  BY DEF Init, Called
<1>2. Cardinality(Called) = 0
  BY <1>1, FS_EmptySet
<1>3. SyncTypes
  BY DEF Init, SyncTypes
<1>4. SyncInv
  BY <1>1, <1>2 DEF Init, SyncInv
<1> QED
  BY <1>3, <1>4 DEF WorkerInv

\* Steps that leave the handshake alone.
LEMMA WorkerInvStutters ==
  ASSUME WorkerInv, done' \in [Threads -> Nat],
         UNCHANGED <<toWake, wrk, workerLock, gControllerLock, gAllDone, gNumWorkingThreads>>,
         ctl' = ctl \/ (ctl # "wake" /\ ~gAllDone /\ ctl' \notin {"release", "done", "crashed"})
                    \/ (ctl = "release" /\ ctl' \in {"done", "crashed"})
  PROVE  WorkerInv'
<1>1. Called' = Called
  BY DEF Called
<1>2. SyncTypes'
  BY DEF WorkerInv, SyncTypes
<1>3. SyncInv'
  <2>1. CASE ctl' = ctl
    BY <1>1, <2>1 DEF WorkerInv, SyncInv
  <2>2. CASE ctl # "wake" /\ ~gAllDone
    <3>1. Called = {} /\ gControllerLock /\ \A t \in Threads : wrk[t] = "parked" /\ workerLock[t]
      BY <2>2, NobodyCalled
    <3> QED
      BY <1>1, <3>1 DEF WorkerInv, SyncInv
  <2>3. CASE ctl = "release"
    BY <1>1, <2>3 DEF WorkerInv, SyncInv, SyncTypes
  <2> QED
    BY <2>1, <2>2, <2>3
<1> QED
  BY <1>2, <1>3 DEF WorkerInv

\* A batch calls the workers of its threads: nobody was called before.
LEMMA WorkerInvFill ==
  BufferInv /\ ReaderInv /\ WorkerInv /\ FillBatch => WorkerInv'
<1> SUFFICES ASSUME BufferInv, ReaderInv, WorkerInv, FillBatch
             PROVE  WorkerInv'
  OBVIOUS
<1> DEFINE b == Batch
<1>1. /\ ctl \in {"fill", "loop"} /\ toWake' = b.marked
      /\ b.marked = {} => ctl' = "loop" /\ gNumWorkingThreads' = gNumWorkingThreads
      /\ b.marked # {} => ctl' = "wake" /\ gNumWorkingThreads' = Cardinality(b.marked)
      /\ UNCHANGED <<gControllerLock, gAllDone, workerLock, wrk, done>>
  BY DEF FillBatch, workVars
<1>2. b.marked \subseteq Threads
  <2>1. ~Stopped /\ ctl # "start"
    BY <1>1 DEF Stopped
  <2> QED BY <2>1, BatchIsNext DEF NextBatch, Batches
<1> HIDE DEF b
<1>3. ~gAllDone
  BY <1>1 DEF WorkerInv, SyncTypes
<1>4. Called = {} /\ gControllerLock /\ \A t \in Threads : wrk[t] = "parked" /\ workerLock[t]
  BY <1>1, <1>3, NobodyCalled
<1>5. Called' = b.marked
  BY <1>1, <1>2, <1>4 DEF Called
<1>6. gNumWorkingThreads' = Cardinality(Called')
  <2>1. gNumWorkingThreads = Cardinality({})
    BY <1>3, <1>4 DEF WorkerInv, SyncInv
  <2> QED BY <1>1, <1>5, <2>1
<1>7. SyncTypes'
  BY <1>1, <1>2, <1>3 DEF WorkerInv, SyncTypes
<1>8. SyncInv'
  BY <1>1, <1>2, <1>3, <1>4, <1>5, <1>6 DEF SyncInv
<1> QED
  BY <1>7, <1>8 DEF WorkerInv

\* A worker that is woken was called, and stays so.
LEMMA WorkerInvWake == WorkerInv /\ WakeWorker => WorkerInv' /\ Called' = Called
<1> SUFFICES ASSUME WorkerInv, WakeWorker PROVE WorkerInv' /\ Called' = Called
  OBVIOUS
<1> DEFINE t == LeastOf(toWake)
<1>1. /\ ctl \in {"wake", "release"} /\ toWake # {}
      /\ workerLock' = [workerLock EXCEPT ![t] = FALSE] /\ toWake' = toWake \ {t}
      /\ UNCHANGED <<ctl, gNumWorkingThreads, gControllerLock, gAllDone, wrk, done>>
  BY DEF WakeWorker, workVars
<1>2. t \in toWake /\ t \in Threads
  <2>1. toWake \subseteq Threads /\ Threads \subseteq Nat
    BY ReplayAssumption DEF WorkerInv, SyncTypes
  <2> QED BY <1>1, <2>1, LeastThread
<1> HIDE DEF t
<1>3. /\ workerLock'[t] = FALSE /\ \A u \in Threads : u # t => workerLock'[u] = workerLock[u]
      /\ workerLock' \in [Threads -> BOOLEAN]
  BY <1>1, <1>2 DEF WorkerInv, SyncTypes
<1>4. Called' = Called
  BY <1>1, <1>2, <1>3 DEF Called
<1>5. SyncTypes'
  BY <1>1, <1>3 DEF WorkerInv, SyncTypes
<1>6. SyncInv'
  BY <1>1, <1>2, <1>3, <1>4 DEF WorkerInv, SyncInv
<1> QED
  BY <1>4, <1>5, <1>6 DEF WorkerInv

\* A worker called takes its lock back and works, or leaves at the end.
LEMMA WorkerInvEnter ==
  ASSUME WorkerInv, NEW t \in Threads, EnterBatch(t)
  PROVE  WorkerInv' /\ (~gAllDone => Called' = Called /\ t \in Called)
<1>1. /\ wrk[t] = "parked" /\ ~workerLock[t] /\ workerLock' = [workerLock EXCEPT ![t] = TRUE]
      /\ done' = [done EXCEPT ![t] = 0]
      /\ wrk' = [wrk EXCEPT ![t] = IF gAllDone THEN "leaving" ELSE "working"]
      /\ UNCHANGED <<ctl, toWake, gNumWorkingThreads, gControllerLock, gAllDone>>
  BY DEF EnterBatch, ctlVars
<1>2. /\ workerLock'[t] = TRUE /\ \A u \in Threads : u # t => workerLock'[u] = workerLock[u] /\ wrk'[u] = wrk[u]
      /\ wrk'[t] = IF gAllDone THEN "leaving" ELSE "working"
  BY <1>1 DEF WorkerInv, SyncTypes
<1>3. t \notin toWake
  BY <1>1 DEF WorkerInv, SyncInv
<1>4. SyncTypes'
  BY <1>1 DEF WorkerInv, SyncTypes
<1>5. ~gAllDone => Called' = Called /\ t \in Called
  BY <1>1, <1>2, <1>3 DEF Called
<1>6. SyncInv'
  <2>1. CASE gAllDone
    BY <1>1, <1>2, <1>3, <2>1 DEF WorkerInv, SyncInv
  <2>2. CASE ~gAllDone
    <3>1. Called' = Called /\ Called # {}
      BY <1>5, <2>2
    <3> QED
      BY <1>1, <1>2, <1>3, <2>2, <3>1 DEF WorkerInv, SyncInv
  <2> QED BY <2>1, <2>2
<1> QED
  BY <1>4, <1>5, <1>6 DEF WorkerInv

\* The last worker to finish is the only one, and finds the controller waiting.
LEMMA WorkerInvFinish ==
  ASSUME WorkerInv, NEW t \in Threads, FinishQueuedJobs(t)
  PROVE  WorkerInv' /\ ~gAllDone /\ ctl = "wake" /\ t \in Called /\ Called' = Called \ {t}
<1>1. /\ wrk[t] = "working" /\ gNumWorkingThreads' = gNumWorkingThreads - 1
      /\ wrk' = [wrk EXCEPT ![t] = IF gNumWorkingThreads = 1 THEN "last" ELSE "parked"]
      /\ UNCHANGED <<ctl, toWake, gControllerLock, gAllDone, workerLock, done>>
  BY DEF FinishQueuedJobs, LastToFinish, ctlVars
<1>2. /\ \A u \in Threads : u # t => wrk'[u] = wrk[u]
      /\ wrk'[t] = IF gNumWorkingThreads = 1 THEN "last" ELSE "parked"
  BY <1>1 DEF WorkerInv, SyncTypes
<1>3. ~gAllDone /\ t \in Called /\ ctl = "wake" /\ t \notin toWake /\ workerLock[t]
      /\ gNumWorkingThreads = Cardinality(Called) /\ gControllerLock
      /\ \A u \in Threads : wrk[u] # "last"
  BY <1>1 DEF WorkerInv, SyncInv, SyncTypes, Called
<1>4. Called' = Called \ {t}
  BY <1>1, <1>2, <1>3 DEF Called
<1>5. IsFiniteSet(Called) /\ Cardinality(Called) \in Nat /\ Cardinality(Called') = Cardinality(Called) - 1
      /\ (Cardinality(Called') = 0 => Called' = {})
  <2>1. IsFiniteSet(Called \ {t})
    BY CalledFinite, FS_RemoveElement
  <2> QED BY <1>3, <1>4, <2>1, CalledFinite, FS_RemoveElement, FS_EmptySet
<1>6. gNumWorkingThreads = 1 => Called' = {}
  BY <1>3, <1>5
<1>7. SyncTypes'
  BY <1>1 DEF WorkerInv, SyncTypes
<1>8. SyncInv'
  <2>1. gNumWorkingThreads' = Cardinality(Called')
    BY <1>1, <1>3, <1>5
  <2>2. \A u \in Threads : wrk'[u] = "last" => u = t /\ gNumWorkingThreads = 1
    BY <1>2, <1>3
  <2> QED
    BY <1>1, <1>2, <1>3, <1>6, <2>1, <2>2 DEF WorkerInv, SyncInv
<1> QED
  BY <1>3, <1>4, <1>7, <1>8 DEF WorkerInv

\* The last one lets the controller go on.
LEMMA WorkerInvWakeController ==
  ASSUME WorkerInv, NEW t \in Threads, WakeController(t)
  PROVE  WorkerInv' /\ Called' = Called /\ Called = {} /\ ~gAllDone /\ ctl = "wake"
<1>1. /\ wrk[t] = "last" /\ gControllerLock' = FALSE /\ wrk' = [wrk EXCEPT ![t] = "parked"]
      /\ UNCHANGED <<ctl, toWake, gNumWorkingThreads, gAllDone, workerLock, done>>
  BY DEF WakeController, ctlVars
<1>2. /\ \A u \in Threads : u # t => wrk'[u] = wrk[u]
      /\ wrk'[t] = "parked"
  BY <1>1 DEF WorkerInv, SyncTypes
<1>3. ~gAllDone /\ Called = {} /\ ctl = "wake" /\ \A u \in Threads : wrk[u] = "last" => u = t
  BY <1>1 DEF WorkerInv, SyncInv
<1>4. Called' = Called
  BY <1>1, <1>2, <1>3 DEF Called
<1>5. SyncTypes'
  BY <1>1 DEF WorkerInv, SyncTypes
<1>6. SyncInv'
  BY <1>1, <1>2, <1>3, <1>4 DEF WorkerInv, SyncInv
<1> QED
  BY <1>3, <1>4, <1>5, <1>6 DEF WorkerInv

\* A job is one of the batch.
LEMMA NextJobInBatch ==
  ASSUME JobsInv, NEW t \in Threads, Working(t)
  PROVE  NextJob(t) \in JobsLeft(t) /\ NextJob(t) \in Nat /\ \A k \in JobsLeft(t) : NextJob(t) <= k
<1>1. JobsLeft(t) \in SUBSET Nat /\ JobsLeft(t) # {}
  BY DEF JobsInv, JobsLeft, JobsOf, Working
<1> QED
  BY <1>1, LeastThread DEF NextJob

\* A job leaves the handshake alone.
LEMMA WorkerInvJob ==
  ASSUME WorkerInv, JobsInv, NEW t \in Threads, OpMalloc(t) \/ OpFree(t) \/ OpRealloc(t)
  PROVE  /\ WorkerInv' /\ Called' = Called /\ Working(t)
         /\ done' = [done EXCEPT ![t] = NextJob(t)]
         /\ UNCHANGED <<script, ctl, lRecSeqNumber, gpJobs, toWake, wrk, workerLock, gControllerLock,
                        gAllDone, gNumWorkingThreads>>
<1>1. /\ Working(t) /\ done' = [done EXCEPT ![t] = NextJob(t)]
      /\ UNCHANGED <<script, ctl, lRecSeqNumber, gpJobs, toWake, wrk, workerLock, gControllerLock,
                     gAllDone, gNumWorkingThreads>>
  BY DEF OpMalloc, OpFree, OpRealloc, JobDone, ctlVars, syncVars
<1>2. done' \in [Threads -> Nat]
  BY <1>1, NextJobInBatch DEF WorkerInv, SyncTypes
<1>3. WorkerInv'
  BY <1>1, <1>2, WorkerInvStutters
<1>4. Called' = Called
  BY <1>1 DEF Called
<1> QED
  BY <1>1, <1>3, <1>4

\* Workers leave at the end only.
LEMMA WorkerInvLeave ==
  ASSUME WorkerInv, NEW t \in Threads, Leave(t)
  PROVE  WorkerInv' /\ gAllDone
<1>1. /\ wrk[t] = "leaving" /\ wrk' = [wrk EXCEPT ![t] = "exited"]
      /\ UNCHANGED <<ctl, toWake, gNumWorkingThreads, gControllerLock, gAllDone, workerLock, done>>
  BY DEF Leave, ctlVars, syncVars
<1>2. /\ \A u \in Threads : u # t => wrk'[u] = wrk[u]
      /\ wrk'[t] = "exited"
  BY <1>1 DEF WorkerInv, SyncTypes
<1>3. gAllDone
  BY <1>1 DEF WorkerInv, SyncInv
<1>4. SyncTypes'
  BY <1>1 DEF WorkerInv, SyncTypes
<1>5. SyncInv'
  BY <1>1, <1>2, <1>3 DEF WorkerInv, SyncInv
<1> QED
  BY <1>3, <1>4, <1>5 DEF WorkerInv

\* At the end all are woken, and all were parked.
LEMMA WorkerInvRelease == WorkerInv /\ ReleaseAll => WorkerInv'
<1> SUFFICES ASSUME WorkerInv, ReleaseAll PROVE WorkerInv'
  OBVIOUS
<1>1. /\ ctl = "wakeDisk" /\ ctl' = "release" /\ gAllDone' = TRUE /\ toWake' = Threads
      /\ UNCHANGED <<gNumWorkingThreads, gControllerLock, workerLock, wrk, done>>
  BY DEF ReleaseAll, workVars
<1>2. ~gAllDone
  BY <1>1 DEF WorkerInv, SyncTypes
<1>3. \A t \in Threads : wrk[t] = "parked" /\ workerLock[t]
  BY <1>1, <1>2, NobodyCalled
<1>4. SyncTypes'
  BY <1>1 DEF WorkerInv, SyncTypes
<1>5. SyncInv'
  BY <1>1, <1>3 DEF SyncInv
<1> QED
  BY <1>4, <1>5 DEF WorkerInv

\* When the controller goes on, nobody is called any more.
LEMMA WorkerInvWait == WorkerInv /\ WaitForBatch => WorkerInv' /\ Called' = Called /\ Called = {}
<1> SUFFICES ASSUME WorkerInv, WaitForBatch PROVE WorkerInv' /\ Called' = Called /\ Called = {}
  OBVIOUS
<1>1. /\ ctl = "wake" /\ ctl' \in {"loop", "stop"} /\ ~gControllerLock /\ gControllerLock' = TRUE
      /\ UNCHANGED <<toWake, gNumWorkingThreads, gAllDone, workerLock, wrk, done>>
  BY DEF WaitForBatch, workVars
<1>2. ~gAllDone /\ Called = {} /\ \A t \in Threads : wrk[t] # "last"
  BY <1>1 DEF WorkerInv, SyncInv, SyncTypes
<1>3. Called' = Called
  BY <1>1 DEF Called
<1>4. SyncTypes'
  BY <1>1, <1>2 DEF WorkerInv, SyncTypes
<1>5. SyncInv'
  BY <1>1, <1>2, <1>3 DEF WorkerInv, SyncInv
<1> QED
  BY <1>2, <1>3, <1>4, <1>5 DEF WorkerInv

\* Every step keeps the handshake.
LEMMA WorkerInvKept ==
  BufferInv /\ ReaderInv /\ WorkerInv /\ [Next]_vars => WorkerInv'
<1> SUFFICES ASSUME BufferInv, ReaderInv, WorkerInv, [Next]_vars
             PROVE  WorkerInv'
  OBVIOUS
<1>0. done \in [Threads -> Nat] /\ JobsInv
  BY DEF ReaderInv, WorkerInv, SyncTypes
<1>1. CASE Controller
  <2>1. CASE FirstRead \/ WakeDiskToRead \/ TakeBuffer \/ StopDisk
    <3>1. /\ ctl \notin {"wake", "release", "done", "crashed"}
          /\ ctl' \notin {"release", "done", "crashed"}
          /\ UNCHANGED <<toWake, wrk, done, workerLock, gControllerLock, gAllDone, gNumWorkingThreads>>
      BY <2>1 DEF FirstRead, WakeDiskToRead, TakeBuffer, StopDisk, syncVars, workVars
    <3>2. ~gAllDone
      BY <3>1 DEF WorkerInv, SyncTypes
    <3> QED BY <1>0, <3>1, <3>2, WorkerInvStutters
  <2>2. CASE FillBatch
    BY <2>2, WorkerInvFill
  <2>3. CASE WakeWorker
    BY <2>3, WorkerInvWake
  <2>4. CASE WaitForBatch
    BY <2>4, WorkerInvWait
  <2>5. CASE ReleaseAll
    BY <2>5, WorkerInvRelease
  <2>6. CASE JoinAll
    <3>1. /\ ctl = "release" /\ ctl' = "done" /\ gControllerLock' = FALSE
          /\ UNCHANGED <<toWake, wrk, done, workerLock, gAllDone, gNumWorkingThreads>>
      BY <2>6 DEF JoinAll
    <3>2. gAllDone
      BY <3>1 DEF WorkerInv, SyncTypes
    <3> QED BY <3>1, <3>2 DEF WorkerInv, SyncTypes, SyncInv
  <2>7. CASE ReadFreedEntry
    <3>1. /\ ctl = "release" /\ ctl' = "crashed"
          /\ UNCHANGED <<toWake, wrk, done, workerLock, gControllerLock, gAllDone, gNumWorkingThreads>>
      BY <2>7 DEF ReadFreedEntry, syncVars, workVars
    <3> QED BY <1>0, <3>1, WorkerInvStutters
  <2> QED
    BY <1>1, <2>1, <2>2, <2>3, <2>4, <2>5, <2>6, <2>7 DEF Controller
<1>2. ASSUME NEW t \in Threads, Worker(t) PROVE WorkerInv'
  <2>1. CASE EnterBatch(t)
    BY <2>1, WorkerInvEnter
  <2>2. CASE OpMalloc(t) \/ OpFree(t) \/ OpRealloc(t)
    BY <1>0, <2>2, WorkerInvJob
  <2>3. CASE AwaitBlock(t)
    BY <1>0, <2>3, WorkerInvStutters DEF AwaitBlock, vars, ctlVars, syncVars, workVars
  <2>4. CASE FinishQueuedJobs(t)
    BY <2>4, WorkerInvFinish
  <2>5. CASE WakeController(t)
    BY <2>5, WorkerInvWakeController
  <2>6. CASE Leave(t)
    BY <2>6, WorkerInvLeave
  <2> QED
    BY <1>2, <2>1, <2>2, <2>3, <2>4, <2>5, <2>6 DEF Worker
<1>3. CASE Disk \/ Terminated \/ UNCHANGED vars
  <2>1. UNCHANGED <<ctl, toWake, wrk, done, workerLock, gControllerLock, gAllDone, gNumWorkingThreads>>
    BY <1>3 DEF Disk, DiskSleep, DiskLook, ReadFile, DiskLeave, Terminated, vars, ctlVars,
                syncVars, workVars
  <2> QED BY <1>0, <2>1, WorkerInvStutters
<1> QED
  BY <1>1, <1>2, <1>3 DEF Next

-------------------------------------------------------------------------------
(* What has been executed *)

\* The fields of an operation of the log.
LEMMA OperationFields ==
  ASSUME script \in Scripts, NEW n \in 1 .. Len(Ops)
  PROVE  /\ Ops[n] \in RecordsOf(Threads, {"small", "big"}) /\ ~IsTimestamp(Ops[n])
         /\ Owner(n) \in Threads
         /\ Allocates(Ops[n]) => /\ AllocatedSize(Ops[n]) \in {"small", "big"}
                                 /\ Ops[n].mFreeByOtherThread \in BOOLEAN
         /\ Releases(Ops[n]) => Ops[n].mAllocatedByOtherThread \in BOOLEAN
         /\ Len(Ops) \in Nat
<1>1. log \in Seq(RecordsOf(Threads, {"small", "big"}))
  BY ScriptOfReplay
<1>2. Ops \in Seq(RecordsOf(Threads, {"small", "big"})) /\ Ops[n] \in RecordsOf(Threads, {"small", "big"})
      /\ ~IsTimestamp(Ops[n])
  BY <1>1, OperationsAreOperations DEF Ops
<1>3. Len(Ops) \in Nat
  <2> HIDE DEF Ops
  <2> QED BY <1>2
<1> QED
  BY <1>2, <1>3, RecordFields DEF Owner

\* The job a worker takes: not executed yet, but all of its own before it are.
LEMMA JobOfBatch ==
  ASSUME ReaderInv, WorkerInv, NEW t \in Threads, Working(t)
  PROVE  LET n == CurrentSeqNo(t) IN
         /\ ctl = "wake" /\ ~gAllDone
         /\ n \in 1 .. Len(Ops) /\ n \in 1 .. lRecSeqNumber - 1
         /\ Job(t) = Ops[n] /\ Owner(n) = t
         /\ n \notin Executed
         /\ \A m \in 1 .. n - 1 : Owner(m) = t => m \in Executed
<1> DEFINE k == NextJob(t)
           s == gpJobs.mSequenceNo
           L == Len(gpJobs.records)
           n == s + k - 1
<1>1. t \in Called /\ ctl = "wake" /\ ~gAllDone /\ wrk[t] = "working"
  BY DEF WorkerInv, SyncInv, Called, Working
<1>2. /\ s \in Nat /\ s >= 1 /\ L \in Nat /\ lRecSeqNumber = s + L /\ s + L <= Len(Ops) + 1
      /\ \A j \in 1 .. L : gpJobs.records[j] = s + j - 1
  <2>1. JobsInv
    BY DEF ReaderInv
  <2>2. gpJobs.records = Units(s, L) /\ s \in Nat /\ L \in Nat
    BY <2>1 DEF JobsInv
  <2>3. \A j \in 1 .. L : gpJobs.records[j] = s + j - 1
    <3> HIDE DEF s, L
    <3> QED BY <2>2 DEF Units
  <2> QED BY <1>1, <2>1, <2>2, <2>3 DEF JobsInv
<1>3. k \in JobsLeft(t) /\ \A j \in JobsLeft(t) : k <= j
  BY NextJobInBatch DEF ReaderInv
<1>4. k \in 1 .. L /\ k > done[t] /\ Ops[n].mThreadID = t /\ Job(t) = Ops[n]
  BY <1>2, <1>3 DEF JobsLeft, JobsOf, Job, Ops
<1>5. done[t] \in Nat /\ CurrentSeqNo(t) = n
  BY DEF WorkerInv, SyncTypes, CurrentSeqNo
<1>6. Len(Ops) \in Nat
  BY DEF ReaderInv, JobsInv, Ops
<1> HIDE DEF k, s, L
<1>7. n \in 1 .. lRecSeqNumber - 1 /\ n \in 1 .. Len(Ops) /\ n - s + 1 = k /\ ~(n < s)
  BY <1>2, <1>4, <1>6
<1>8. n \notin Executed
  BY <1>1, <1>4, <1>5, <1>7 DEF Executed, Past, Owner, s
<1>9. ASSUME NEW m \in 1 .. n - 1, Owner(m) = t PROVE m \in Executed
  <2>1. m \in 1 .. lRecSeqNumber - 1
    BY <1>2, <1>7
  <2>2. CASE m < s
    BY <1>1, <2>1, <2>2 DEF Executed, s
  <2>3. CASE ~(m < s)
    <3>1. m - s + 1 \in 1 .. L /\ m - s + 1 < k /\ s + (m - s + 1) - 1 = m
      BY <1>2, <1>4, <1>7, <2>3
    <3>2. gpJobs.records[m - s + 1] = m
      BY <1>2, <3>1
    <3>3. m - s + 1 \in JobsOf(t)
      BY <1>9, <3>1, <3>2 DEF JobsOf, Owner, Ops, L
    <3>4. ~(m - s + 1 > done[t])
      <4> SUFFICES ASSUME m - s + 1 > done[t] PROVE FALSE
        OBVIOUS
      <4>1. m - s + 1 \in JobsLeft(t)
        BY <3>3 DEF JobsLeft
      <4> QED BY <1>2, <1>3, <1>4, <3>1, <4>1
    <3>5. m - s + 1 <= done[t]
      BY <1>2, <1>5, <3>4
    <3> QED
      BY <1>1, <1>9, <2>1, <3>5 DEF Executed, Past, s
  <2> QED BY <2>2, <2>3
<1> QED
  BY <1>1, <1>4, <1>5, <1>7, <1>8, <1>9 DEF Owner

\* A job done is one more executed.
LEMMA JobExecuted ==
  ASSUME ReaderInv, WorkerInv, NEW t \in Threads, Working(t), Called' = Called,
         done' = [done EXCEPT ![t] = NextJob(t)],
         UNCHANGED <<script, ctl, lRecSeqNumber, gpJobs, wrk>>
  PROVE  Executed' = Executed \cup {CurrentSeqNo(t)}
<1> DEFINE k == NextJob(t)
           s == gpJobs.mSequenceNo
           n == CurrentSeqNo(t)
<1>1. /\ ctl = "wake" /\ n \in 1 .. lRecSeqNumber - 1 /\ Owner(n) = t /\ n \notin Executed
      /\ \A m \in 1 .. n - 1 : Owner(m) = t => m \in Executed
      /\ lRecSeqNumber \in Nat
  BY JobOfBatch DEF ReaderInv, JobsInv
<1>2. k \in Nat /\ k > done[t] /\ s \in Nat /\ n = s + k - 1 /\ done[t] \in Nat
  <2>1. k \in JobsLeft(t) /\ k \in Nat
    BY NextJobInBatch DEF ReaderInv
  <2> QED
    BY <2>1 DEF JobsLeft, ReaderInv, JobsInv, WorkerInv, SyncTypes, CurrentSeqNo
<1>3. t \in Called /\ wrk[t] = "working"
  BY DEF Called, Working
<1>4. done'[t] = k /\ \A u \in Threads : u # t => done'[u] = done[u]
  BY DEF WorkerInv, SyncTypes
<1>5. Ops' = Ops /\ \A m : Owner(m)' = Owner(m)
  BY DEF Ops, Owner, log
<1>6. script \in Scripts /\ lRecSeqNumber <= Len(Ops) + 1 /\ Len(Ops) \in Nat
  <2>1. script \in Scripts
    BY DEF ReaderInv, FileTypes
  <2>2. lRecSeqNumber \in 1 .. Len(Ops) + 1 /\ n \in 1 .. Len(Ops)
    BY JobOfBatch DEF ReaderInv, JobsInv
  <2>3. Len(Ops) \in Nat
    BY <2>1, <2>2, OperationFields
  <2> QED BY <2>1, <2>2, <2>3
<1> HIDE DEF k, s, n
<1>7. ASSUME NEW m \in 1 .. lRecSeqNumber - 1, ~(m < s)
      PROVE  Past(m)' <=> (Past(m) \/ m = n)
  <2>1. m \in 1 .. Len(Ops)
    BY <1>1, <1>6
  <2>2. Owner(m) \in Threads
    BY <1>6, <2>1, OperationFields
  <2>3. CASE Owner(m) # t
    BY <1>1, <1>4, <1>5, <2>2, <2>3 DEF Past
  <2>4. CASE Owner(m) = t
    <3>1. Past(m)' <=> m - s + 1 <= k
      BY <1>3, <1>4, <1>5, <2>4 DEF Past, s
    <3>2. Past(m) <=> m - s + 1 <= done[t]
      BY <1>3, <2>4 DEF Past, s
    <3>3. m - s + 1 <= k <=> m \in 1 .. n - 1 \/ m = n
      BY <1>1, <1>2
    <3>4. m \in 1 .. n - 1 => Past(m)
      BY <1>1, <1>7, <2>4 DEF Executed, s
    <3>5. m - s + 1 <= done[t] => m - s + 1 <= k
      BY <1>2
    <3> QED
      BY <3>1, <3>2, <3>3, <3>4, <3>5
  <2> QED BY <2>3, <2>4
<1>8. ~(n < s)
  <2>1. k >= 1
    BY <1>2
  <2> QED BY <1>2, <2>1
<1>9. Executed = {m \in 1 .. lRecSeqNumber - 1 : m < s \/ Past(m)}
  BY <1>1 DEF Executed, s
<1>10. Executed' = {m \in 1 .. lRecSeqNumber - 1 : m < s \/ Past(m)'}
  BY <1>1 DEF Executed, s
<1>11. ASSUME NEW m \in Executed' PROVE m \in Executed \/ m = n
  BY <1>7, <1>9, <1>10
<1>12. ASSUME NEW m \in Executed PROVE m \in Executed'
  BY <1>7, <1>9, <1>10
<1>13. n \in Executed'
  BY <1>1, <1>7, <1>8, <1>10
<1> QED
  BY <1>11, <1>12, <1>13 DEF n

\* What is executed is an operation of the log.
LEMMA ExecutedOfLog ==
  ASSUME ReaderInv PROVE Executed \subseteq 1 .. Len(Ops)
<1>1. lRecSeqNumber \in 1 .. Len(Ops) + 1 /\ Executed \subseteq 1 .. lRecSeqNumber - 1
  BY DEF ReaderInv, JobsInv, Executed
<1> QED
  BY <1>1

\* The other steps of a batch execute nothing.
LEMMA ExecutedStutters ==
  ASSUME UNCHANGED <<script, ctl, lRecSeqNumber, gpJobs, wrk, done>>, Called' = Called
  PROVE  Executed' = Executed
<1>1. \A m : Owner(m)' = Owner(m)
  BY DEF Ops, Owner, log
<1>2. \A m : Past(m)' <=> Past(m)
  BY <1>1 DEF Past
<1> QED
  BY <1>2 DEF Executed

\* Nothing is executed between the batches, ...
LEMMA ExecutedOutside ==
  ASSUME UNCHANGED <<script, lRecSeqNumber>>, ctl # "wake", ctl' # "wake"
  PROVE  Executed' = Executed
BY DEF Executed

\* ... nor when a worker starts, ...
LEMMA ExecutedEnter ==
  ASSUME ReaderInv, WorkerInv, NEW t \in Threads, EnterBatch(t), ~gAllDone
  PROVE  Executed' = Executed
<1>1. Called' = Called /\ t \in Called
  BY WorkerInvEnter
<1>2. /\ wrk[t] = "parked" /\ done'[t] = 0 /\ wrk'[t] = "working"
      /\ \A u \in Threads : u # t => wrk'[u] = wrk[u] /\ done'[u] = done[u]
      /\ UNCHANGED <<script, ctl, lRecSeqNumber, gpJobs>>
  BY DEF EnterBatch, ctlVars, WorkerInv, SyncTypes
<1>3. \A m : Owner(m)' = Owner(m)
  BY <1>2 DEF Ops, Owner, log
<1>4. ctl = "wake" /\ ctl' = "wake"
  BY <1>1, <1>2 DEF WorkerInv, SyncInv
<1>5. /\ script \in Scripts /\ gpJobs.mSequenceNo \in Nat
      /\ lRecSeqNumber \in 1 .. Len(Ops) + 1
  BY DEF ReaderInv, FileTypes, JobsInv
<1>6. ASSUME NEW m \in 1 .. lRecSeqNumber - 1, ~(m < gpJobs.mSequenceNo) PROVE Past(m)' <=> Past(m)
  <2>1. m \in 1 .. Len(Ops)
    BY <1>5
  <2>2. Owner(m) \in Threads
    BY <1>5, <2>1, OperationFields
  <2>3. CASE Owner(m) # t
    BY <1>1, <1>2, <1>3, <2>2, <2>3 DEF Past
  <2>4. CASE Owner(m) = t
    <3>1. ~Past(m)
      BY <1>1, <1>2, <2>4 DEF Past
    <3>2. ~(m - gpJobs.mSequenceNo + 1 <= 0)
      BY <1>5, <1>6
    <3>3. ~Past(m)'
      BY <1>1, <1>2, <1>3, <2>4, <3>2 DEF Past
    <3> QED BY <3>1, <3>3
  <2> QED BY <2>3, <2>4
<1>7. Executed = {m \in 1 .. lRecSeqNumber - 1 : m < gpJobs.mSequenceNo \/ Past(m)}
  BY <1>4 DEF Executed
<1>8. Executed' = {m \in 1 .. lRecSeqNumber - 1 : m < gpJobs.mSequenceNo \/ Past(m)'}
  BY <1>2, <1>4 DEF Executed
<1>9. \A m \in 1 .. lRecSeqNumber - 1 :
        m < gpJobs.mSequenceNo \/ Past(m)' <=> m < gpJobs.mSequenceNo \/ Past(m)
  BY <1>6
<1> QED
  BY <1>7, <1>8, <1>9

\* A worker leaves the batch with all of its jobs done.
LEMMA ExecutedFinish ==
  ASSUME ReaderInv, WorkerInv, NEW t \in Threads, FinishQueuedJobs(t)
  PROVE  Executed' = Executed
<1> DEFINE s == gpJobs.mSequenceNo
           L == Len(gpJobs.records)
<1>1. Called' = Called \ {t} /\ t \in Called /\ ctl = "wake"
  BY WorkerInvFinish
<1>2. /\ wrk[t] = "working" /\ JobsLeft(t) = {}
      /\ \A u \in Threads : u # t => wrk'[u] = wrk[u]
      /\ UNCHANGED <<script, ctl, lRecSeqNumber, gpJobs, done>>
  BY DEF FinishQueuedJobs, ctlVars, WorkerInv, SyncTypes
<1>3. \A m : Owner(m)' = Owner(m)
  BY <1>2 DEF Ops, Owner, log
<1>4. /\ script \in Scripts /\ s \in Nat /\ L \in Nat /\ lRecSeqNumber = s + L
      /\ lRecSeqNumber \in 1 .. Len(Ops) + 1 /\ gpJobs.records = Units(s, L)
      /\ done[t] \in Nat
  BY <1>1 DEF ReaderInv, FileTypes, JobsInv, WorkerInv, SyncTypes
<1> HIDE DEF s, L
<1>5. ASSUME NEW m \in 1 .. lRecSeqNumber - 1, ~(m < s) PROVE Past(m)' <=> Past(m)
  <2>1. m \in 1 .. Len(Ops)
    BY <1>4
  <2>2. Owner(m) \in Threads
    BY <1>4, <2>1, OperationFields
  <2>3. CASE Owner(m) # t
    BY <1>1, <1>2, <1>3, <2>2, <2>3 DEF Past
  <2>4. CASE Owner(m) = t
    <3>1. m - s + 1 \in 1 .. L /\ s + (m - s + 1) - 1 = m
      BY <1>4, <1>5
    <3>2. gpJobs.records[m - s + 1] = m
      BY <1>4, <3>1 DEF Units
    <3>3. m - s + 1 \in JobsOf(t)
      BY <2>4, <3>1, <3>2 DEF JobsOf, Owner, Ops, L
    <3>4. ~(m - s + 1 > done[t])
      BY <1>2, <3>3 DEF JobsLeft
    <3>5. m - s + 1 <= done[t]
      BY <1>4, <3>4
    <3> QED BY <1>1, <1>2, <1>3, <2>4, <3>5 DEF Past, s
  <2> QED BY <2>3, <2>4
<1>6. Executed = {m \in 1 .. lRecSeqNumber - 1 : m < s \/ Past(m)}
  BY <1>1 DEF Executed, s
<1>7. Executed' = {m \in 1 .. lRecSeqNumber - 1 : m < s \/ Past(m)'}
  BY <1>1, <1>2 DEF Executed, s
<1>8. \A m \in 1 .. lRecSeqNumber - 1 : m < s \/ Past(m)' <=> m < s \/ Past(m)
  BY <1>5
<1> QED
  BY <1>6, <1>7, <1>8

\* ... nor when the controller goes on, ...
LEMMA ExecutedWait ==
  ASSUME WorkerInv, WaitForBatch PROVE Executed' = Executed
<1>1. Called = {} /\ ctl = "wake" /\ ctl' # "wake" /\ UNCHANGED <<script, lRecSeqNumber>>
  BY WorkerInvWait DEF WaitForBatch
<1>2. \A m : Past(m)
  BY <1>1 DEF Past
<1> QED
  BY <1>1, <1>2 DEF Executed

\* ... nor when it is woken, ...
LEMMA ExecutedWakeController ==
  ASSUME WorkerInv, NEW t \in Threads, WakeController(t) PROVE Executed' = Executed
<1>1. /\ Called = {} /\ Called' = {} /\ ctl = "wake" /\ ctl' = "wake"
      /\ UNCHANGED <<script, lRecSeqNumber, gpJobs>>
  BY WorkerInvWakeController DEF WakeController, ctlVars
<1>2. (\A m : Past(m)) /\ (\A m : Past(m)')
  BY <1>1 DEF Past
<1> QED
  BY <1>1, <1>2 DEF Executed

\* ... nor when a batch is made: its jobs come next.
LEMMA ExecutedFill ==
  ASSUME BufferInv, ReaderInv, WorkerInv, FillBatch
  PROVE  Executed' = Executed
<1> DEFINE b == Batch
<1>1. /\ ctl \in {"fill", "loop"} /\ toWake' = b.marked
      /\ ctl' = IF b.marked = {} THEN "loop" ELSE "wake"
      /\ gpJobs' = [mSequenceNo |-> IF b.marked = {} THEN 0 ELSE lRecSeqNumber, records |-> b.ops]
      /\ lRecSeqNumber' = lRecSeqNumber + Len(b.ops)
      /\ UNCHANGED <<script, workerLock, wrk, done>>
  BY DEF FillBatch, NextSeqNo, workVars
<1>2. NextBatch(b)
  <2>1. ~Stopped /\ ctl # "start"
    BY <1>1 DEF Stopped
  <2> QED BY <2>1, BatchIsNext
<1> HIDE DEF b
<1>3. /\ Len(b.ops) \in Nat /\ b.marked \subseteq Threads
      /\ \A n \in lRecSeqNumber .. lRecSeqNumber + Len(b.ops) - 1 : Owner(n) \in b.marked
      /\ lRecSeqNumber \in Nat
  BY <1>2 DEF NextBatch, Batches, ReaderInv, JobsInv
<1>4. \A t \in Threads : wrk[t] = "parked" /\ workerLock[t]
  <2>1. ~gAllDone
    BY <1>1 DEF WorkerInv, SyncTypes
  <2> QED BY <1>1, <2>1, NobodyCalled
<1>5. \A m : Owner(m)' = Owner(m)
  BY <1>1 DEF Ops, Owner, log
<1>6. CASE b.marked = {}
  <2>1. Len(b.ops) = 0
    <3>1. Len(b.ops) >= 1 => lRecSeqNumber \in lRecSeqNumber .. lRecSeqNumber + Len(b.ops) - 1
      BY <1>3
    <3> QED BY <1>3, <1>6, <3>1
  <2>2. lRecSeqNumber' = lRecSeqNumber
    BY <1>1, <1>3, <2>1
  <2> QED BY <1>1, <1>6, <2>2 DEF Executed
<1>7. CASE b.marked # {}
  <2>1. ASSUME NEW n \in lRecSeqNumber .. lRecSeqNumber + Len(b.ops) - 1 PROVE ~Past(n)'
    <3>1. Owner(n) \in b.marked /\ Owner(n) \in Threads
      BY <1>3
    <3>2. Owner(n)' \in Called' /\ wrk'[Owner(n)'] # "working"
      BY <1>1, <1>4, <1>5, <3>1 DEF Called
    <3> QED BY <3>2 DEF Past
  <2>2. Executed' = {n \in 1 .. (lRecSeqNumber + Len(b.ops)) - 1 : n < lRecSeqNumber \/ Past(n)'}
    BY <1>1, <1>7 DEF Executed
  <2>3. \A n \in 1 .. (lRecSeqNumber + Len(b.ops)) - 1 : n < lRecSeqNumber \/ Past(n)' <=> n < lRecSeqNumber
    BY <1>3, <2>1
  <2>4. Executed' = {n \in 1 .. (lRecSeqNumber + Len(b.ops)) - 1 : n < lRecSeqNumber}
    BY <2>2, <2>3
  <2>5. Executed = 1 .. lRecSeqNumber - 1
    BY <1>1 DEF Executed
  <2> QED BY <1>3, <2>4, <2>5
<1> QED
  BY <1>6, <1>7

-------------------------------------------------------------------------------
(* Tables, heap and nodes *)

BlocksInv == TableInv /\ HeapInv /\ NodesInv
Numbers(S) == {e.mSeqNo : e \in S}
Small(S) == {e \in S : e.mSize = "small"}

\* An entry says which operation it is of.
LEMMA EntryFields ==
  /\ \A n : EntryOf(n).mSeqNo = n /\ EntryOf(n).mSize = AllocatedSize(Ops[n])
  /\ \A e \in LogEntries : e.mSeqNo \in 1 .. Len(Ops) /\ e = EntryOf(e.mSeqNo)
<1>1. \A n : EntryOf(n).mSeqNo = n /\ EntryOf(n).mSize = AllocatedSize(Ops[n])
  BY DEF EntryOf, Entry
<1>2. ASSUME NEW e \in LogEntries PROVE e.mSeqNo \in 1 .. Len(Ops) /\ e = EntryOf(e.mSeqNo)
  <2>1. PICK n \in 1 .. Len(Ops) : e = EntryOf(n)
    BY DEF LogEntries
  <2> QED BY <1>1, <2>1
<1> QED BY <1>1, <1>2

\* An entry is in one table, the one its operation and its thread say.
LEMMA EntriesApart ==
  ASSUME TableInv
  PROVE  /\ Entries \in SUBSET LogEntries
         /\ \A t \in Threads : own[t] \subseteq Entries /\ own[t] \cap gFreeByOtherThreadHash = {}
         /\ \A t, u \in Threads : t # u => own[t] \cap own[u] = {}
         /\ gFreeByOtherThreadHash \subseteq Entries
         /\ \A e \in Entries : \/ e \in gFreeByOtherThreadHash
                               \/ Owner(e.mSeqNo) \in Threads /\ e \in own[Owner(e.mSeqNo)]
BY DEF TableInv, Entries

\* The entries are finitely many.
LEMMA EntriesFinite ==
  ASSUME script \in Scripts, NEW S \in SUBSET LogEntries
  PROVE  IsFiniteSet(S) /\ IsFiniteSet(Small(S)) /\ SmallEntries(S) = Cardinality(Small(S))
         /\ SmallEntries(S) \in Nat
<1>1. Len(Ops) \in Nat
  <2>1. Ops \in Seq(RecordsOf(Threads, {"small", "big"}))
    BY ScriptOfReplay, OperationsAreOperations DEF Ops
  <2> HIDE DEF Ops
  <2> QED BY <2>1
<1>2. IsFiniteSet(1 .. Len(Ops))
  BY <1>1, FS_Interval
<1>3. IsFiniteSet(LogEntries)
  <2>1. [n \in 1 .. Len(Ops) |-> EntryOf(n)] \in Surjection(1 .. Len(Ops), LogEntries)
    BY DEF LogEntries, Surjection
  <2> QED BY <1>2, <2>1, FS_Surjection
<1>4. IsFiniteSet(S) /\ Small(S) \in SUBSET S
  BY <1>3, FS_Subset DEF Small
<1>5. IsFiniteSet(Small(S))
  BY <1>4, FS_Subset
<1> QED
  BY <1>4, <1>5, FS_CardinalityType DEF SmallEntries, Small

\* The nodes of the small entries, with one entry less and one more.
LEMMA SmallWithout ==
  ASSUME script \in Scripts, NEW S \in SUBSET LogEntries, NEW x \in S
  PROVE  SmallEntries(S \ {x}) = SmallEntries(S) - NodesOf(x.mSize)
<1>1. S \ {x} \in SUBSET LogEntries
  OBVIOUS
<1>2. SmallEntries(S) = Cardinality(Small(S)) /\ IsFiniteSet(Small(S))
      /\ SmallEntries(S \ {x}) = Cardinality(Small(S \ {x})) /\ SmallEntries(S) \in Nat
  BY <1>1, EntriesFinite
<1>3. Small(S \ {x}) = Small(S) \ {x} /\ (x \in Small(S) <=> x.mSize = "small")
  BY DEF Small
<1>4. Cardinality(Small(S) \ {x}) = IF x \in Small(S) THEN Cardinality(Small(S)) - 1
                                    ELSE Cardinality(Small(S))
  BY <1>2, FS_RemoveElement
<1>5. NodesOf(x.mSize) = IF x.mSize = "small" THEN 1 ELSE 0
  BY DEF NodesOf
<1> QED
  <2>1. CASE x.mSize = "small"
    <3>1. Cardinality(Small(S \ {x})) = Cardinality(Small(S)) - 1
      BY <1>3, <1>4, <2>1
    <3> QED BY <1>2, <1>5, <2>1, <3>1
  <2>2. CASE x.mSize # "small"
    <3>1. Cardinality(Small(S \ {x})) = Cardinality(Small(S))
      BY <1>3, <1>4, <2>2
    <3> QED BY <1>2, <1>5, <2>2, <3>1
  <2> QED BY <2>1, <2>2

\* ... and with one entry more.
LEMMA SmallWith ==
  ASSUME script \in Scripts, NEW S \in SUBSET LogEntries, NEW x \in LogEntries, x \notin S
  PROVE  SmallEntries(S \cup {x}) = SmallEntries(S) + NodesOf(x.mSize)
<1>1. S \cup {x} \in SUBSET LogEntries
  OBVIOUS
<1>2. SmallEntries(S) = Cardinality(Small(S)) /\ IsFiniteSet(Small(S))
      /\ SmallEntries(S \cup {x}) = Cardinality(Small(S \cup {x})) /\ SmallEntries(S) \in Nat
  BY <1>1, EntriesFinite
<1>3. x.mSize = "small" => Small(S \cup {x}) = Small(S) \cup {x} /\ x \notin Small(S)
  BY DEF Small
<1>4. x.mSize # "small" => Small(S \cup {x}) = Small(S)
  BY DEF Small
<1>5. x \notin Small(S) => Cardinality(Small(S) \cup {x}) = Cardinality(Small(S)) + 1
  BY <1>2, FS_AddElement
<1>6. NodesOf(x.mSize) = IF x.mSize = "small" THEN 1 ELSE 0
  BY DEF NodesOf
<1> QED
  <2>1. CASE x.mSize = "small"
    <3>1. Cardinality(Small(S \cup {x})) = Cardinality(Small(S)) + 1
      BY <1>3, <1>5, <2>1
    <3> QED BY <1>2, <1>6, <2>1, <3>1
  <2>2. CASE x.mSize # "small"
    <3>1. Cardinality(Small(S \cup {x})) = Cardinality(Small(S))
      BY <1>4, <2>2
    <3> QED BY <1>2, <1>6, <2>2, <3>1
  <2> QED BY <2>1, <2>2

-------------------------------------------------------------------------------
\* What a job does, whatever its kind.
LEMMA JobSteps ==
  ASSUME nodes \in Nat, NEW t \in Threads, OpMalloc(t) \/ OpFree(t) \/ OpRealloc(t), Job(t) = Ops[CurrentSeqNo(t)]
  PROVE  LET n == CurrentSeqNo(t)
             j == Job(t)
             old == OldBlock(t)
         IN /\ MayProceed(t)
            /\ own' = [own EXCEPT ![t] = (own[t] \ old) \cup
                         (IF Allocates(j) /\ ~j.mFreeByOtherThread THEN {EntryOf(n)} ELSE {})]
            /\ gFreeByOtherThreadHash' = (gFreeByOtherThreadHash \ old) \cup
                         (IF Allocates(j) /\ j.mFreeByOtherThread THEN {EntryOf(n)} ELSE {})
            /\ heap' = (heap \ Numbers(old)) \cup (IF Allocates(j) THEN {n} ELSE {})
            /\ nodes' = nodes - NodesFreed(t) + (IF Allocates(j) THEN NodesOf(AllocatedSize(j)) ELSE 0)
<1> DEFINE n == CurrentSeqNo(t)
           j == Job(t)
           old == OldBlock(t)
<1>1. CASE OpMalloc(t)
  <2>1. j.mType = "malloc"
    BY <1>1 DEF OpMalloc
  <2>2. Allocates(j) /\ ~Releases(j) /\ AllocatedSize(j) = j.mSize /\ old = {}
    BY <2>1 DEF Allocates, Releases, AllocatedSize, OldBlock
  <2>3. NodesFreed(t) = 0 /\ MayProceed(t)
    BY <2>2 DEF NodesFreed, MayProceed
  <2>4. Entry(n, j.mSize) = EntryOf(n)
    BY <2>2 DEF EntryOf
  <2>5. /\ heap' = heap \cup {n} /\ nodes' = nodes + NodesOf(j.mSize)
        /\ Stash(t, own[t], gFreeByOtherThreadHash, j.mFreeByOtherThread, EntryOf(n))
    BY <1>1, <2>4 DEF OpMalloc, CustomMalloc
  <2>6. Numbers(old) = {}
    BY <2>2 DEF Numbers
  <2> HIDE DEF n, j, old
  <2>8. own' = [own EXCEPT ![t] = (own[t] \ old) \cup
                         (IF Allocates(j) /\ ~j.mFreeByOtherThread THEN {EntryOf(n)} ELSE {})]
        /\ gFreeByOtherThreadHash' = (gFreeByOtherThreadHash \ old) \cup
                         (IF Allocates(j) /\ j.mFreeByOtherThread THEN {EntryOf(n)} ELSE {})
    <3>1. own[t] \ old = own[t] /\ gFreeByOtherThreadHash \ old = gFreeByOtherThreadHash
      BY <2>2
    <3> QED BY <2>2, <2>5, <3>1 DEF Stash
  <2>9. nodes' = nodes - NodesFreed(t) + NodesOf(j.mSize)
    <3>1. NodesOf(j.mSize) \in Nat
      BY DEF NodesOf
    <3> QED BY <2>3, <2>5, <3>1
  <2> QED
    BY <2>2, <2>3, <2>5, <2>6, <2>8, <2>9 DEF n, j, old
<1>2. CASE OpFree(t)
  <2>1. j.mType = "free" /\ MayProceed(t)
    BY <1>2 DEF OpFree
  <2>2. ~Allocates(j)
    BY <2>1 DEF Allocates
  <2>3. /\ heap' = heap \ Numbers(old) /\ nodes' = nodes - NodesFreed(t)
        /\ own' = [own EXCEPT ![t] = own[t] \ old]
        /\ gFreeByOtherThreadHash' = gFreeByOtherThreadHash \ old
    BY <1>2 DEF OpFree, CustomFree, Numbers
  <2>5. nodes - NodesFreed(t) + 0 = nodes - NodesFreed(t)
    <3>1. NodesFreed(t) \in Nat
      BY DEF NodesFreed, NodesOf
    <3> QED BY <3>1
  <2> HIDE DEF n, j, old
  <2>4. (own[t] \ old) \cup {} = own[t] \ old /\ (gFreeByOtherThreadHash \ old) \cup {} = gFreeByOtherThreadHash \ old
        /\ (heap \ Numbers(old)) \cup {} = heap \ Numbers(old)
    OBVIOUS
  <2>6. own' = [own EXCEPT ![t] = (own[t] \ old) \cup
                         (IF Allocates(j) /\ ~j.mFreeByOtherThread THEN {EntryOf(n)} ELSE {})]
    BY <2>2, <2>3, <2>4
  <2>7. gFreeByOtherThreadHash' = (gFreeByOtherThreadHash \ old) \cup
                         (IF Allocates(j) /\ j.mFreeByOtherThread THEN {EntryOf(n)} ELSE {})
    BY <2>2, <2>3, <2>4
  <2>8. heap' = (heap \ Numbers(old)) \cup (IF Allocates(j) THEN {n} ELSE {})
    BY <2>2, <2>3, <2>4
  <2>9. nodes' = nodes - NodesFreed(t) + (IF Allocates(j) THEN NodesOf(AllocatedSize(j)) ELSE 0)
    BY <2>2, <2>3, <2>5
  <2> QED
    BY <2>1, <2>6, <2>7, <2>8, <2>9 DEF n, j, old
<1>3. CASE OpRealloc(t)
  <2>1. j.mType = "realloc" /\ MayProceed(t)
    BY <1>3 DEF OpRealloc
  <2>2. Allocates(j) /\ AllocatedSize(j) = j.mNewSize
    BY <2>1 DEF Allocates, AllocatedSize
  <2>4. Entry(n, j.mNewSize) = EntryOf(n)
    BY <2>2 DEF EntryOf
  <2>5. /\ heap' = IF old = {} THEN heap \cup {n} ELSE (heap \ Numbers(old)) \cup {n}
        /\ nodes' = nodes - NodesFreed(t) + NodesOf(j.mNewSize)
        /\ Stash(t, own[t] \ old, gFreeByOtherThreadHash \ old, j.mFreeByOtherThread, EntryOf(n))
    BY <1>3, <2>4 DEF OpRealloc, CustomMalloc, CustomRealloc, CustomFree, Numbers
  <2>6. old = {} => Numbers(old) = {}
    BY DEF Numbers
  <2> HIDE DEF n, j, old
  <2>7. heap' = (heap \ Numbers(old)) \cup {n}
    BY <2>5, <2>6
  <2>8. own' = [own EXCEPT ![t] = (own[t] \ old) \cup
                         (IF Allocates(j) /\ ~j.mFreeByOtherThread THEN {EntryOf(n)} ELSE {})]
        /\ gFreeByOtherThreadHash' = (gFreeByOtherThreadHash \ old) \cup
                         (IF Allocates(j) /\ j.mFreeByOtherThread THEN {EntryOf(n)} ELSE {})
    BY <2>2, <2>5 DEF Stash
  <2> QED
    BY <2>1, <2>2, <2>5, <2>7, <2>8 DEF n, j, old
<1> QED
  BY <1>1, <1>2, <1>3

\* The block a job releases: there is exactly one entry for it, in the table it looks in.
LEMMA OldBlockFound ==
  ASSUME ReaderInv, WorkerInv, BlocksInv, NEW t \in Threads, Working(t), MayProceed(t)
  PROVE  LET n == CurrentSeqNo(t)
             m == Ops[n].mMatchedMalloc
         IN /\ Releases(Ops[n]) => /\ OldBlock(t) = {EntryOf(m)}
                                   /\ m \in Executed /\ m \in 1 .. Len(Ops) /\ m # n
                                   /\ EntryOf(m) \in Entries
                                   /\ AllocatedSize(Ops[m]) = ReleasedSize(Ops[n])
                                   /\ EntryOf(m) \in own[t] \/ EntryOf(m) \in gFreeByOtherThreadHash
            /\ ~Releases(Ops[n]) => OldBlock(t) = {}
<1> DEFINE n == CurrentSeqNo(t)
           m == Ops[n].mMatchedMalloc
<1>1. /\ ~gAllDone /\ n \in 1 .. Len(Ops) /\ Job(t) = Ops[n] /\ Owner(n) = t /\ n \notin Executed
      /\ \A k \in 1 .. n - 1 : Owner(k) = t => k \in Executed
  BY JobOfBatch
<1>2. /\ script \in Scripts /\ log \in Seq(RecordsOf(Threads, {"small", "big"})) /\ Matched(log)
  BY ScriptOfReplay DEF ReaderInv, FileTypes
<1>3. CASE ~Releases(Ops[n])
  BY <1>1, <1>3 DEF OldBlock
<1>4. CASE Releases(Ops[n])
  <2>1. /\ m \in 1 .. n - 1 /\ Allocates(Ops[m])
        /\ ReleasedSize(Ops[n]) = AllocatedSize(Ops[m])
        /\ Ops[n].mAllocatedByOtherThread = (Owner(n) # Owner(m))
        /\ Ops[m].mFreeByOtherThread = Ops[n].mAllocatedByOtherThread
        /\ \A k \in 1 .. Len(Ops) : Releases(Ops[k]) /\ Ops[k].mMatchedMalloc = m => k = n
    BY <1>1, <1>2, <1>4, MatchedOperations DEF Ops, Owner
  <2>2. Executed \subseteq 1 .. Len(Ops) /\ Len(Ops) \in Nat
    BY <1>1, <1>2, ExecutedOfLog, OperationFields
  <2>3. OldBlock(t) = Found(IF Ops[n].mAllocatedByOtherThread THEN gFreeByOtherThreadHash ELSE own[t], m)
    BY <1>1, <1>4 DEF OldBlock
  <2>4. /\ heap = Unreleased(log, Executed) /\ heap = {e.mSeqNo : e \in Entries} /\ TableInv
    BY <1>1 DEF BlocksInv, HeapInv
  <2> HIDE DEF n
  <2>5. m \in 1 .. Len(Ops) /\ m # n
    BY <1>1, <2>1, <2>2
  <2>6. \A S \in SUBSET LogEntries : Found(S, m) = IF EntryOf(m) \in S THEN {EntryOf(m)} ELSE {}
    BY EntryFields DEF Found
  <2>7. own[t] \in SUBSET LogEntries /\ gFreeByOtherThreadHash \in SUBSET LogEntries
    BY <2>4 DEF TableInv
  <2>8. CASE Ops[n].mAllocatedByOtherThread
    <3>1. OldBlock(t) # {}
      BY <1>1, <1>4, <2>8 DEF MayProceed
    <3>2. OldBlock(t) = Found(gFreeByOtherThreadHash, m)
      BY <2>3, <2>8
    <3>3. EntryOf(m) \in gFreeByOtherThreadHash /\ OldBlock(t) = {EntryOf(m)}
      BY <2>6, <2>7, <3>1, <3>2
    <3>4. EntryOf(m) \in Entries
      BY <3>3 DEF Entries
    <3>5. m \in heap
      BY <2>4, <3>4, EntryFields
    <3>6. m \in Executed
      BY <2>4, <3>5 DEF Unreleased
    <3> QED BY <1>4, <2>1, <2>5, <3>3, <3>4, <3>6 DEF n
  <2>9. CASE ~Ops[n].mAllocatedByOtherThread
    <3>1. Owner(m) = t
      BY <1>1, <2>1, <2>9
    <3>2. m \in Executed
      BY <1>1, <2>1, <3>1
    <3>3. m \in heap
      BY <1>1, <2>1, <2>2, <2>4, <3>2 DEF Unreleased, Ops
    <3>4. PICK e \in Entries : e.mSeqNo = m
      BY <2>4, <3>3
    <3>5. e \in LogEntries /\ e = EntryOf(m)
      BY <2>4, <3>4, EntriesApart, EntryFields
    <3>6. e \notin gFreeByOtherThreadHash
      BY <2>1, <2>4, <2>9, <3>4 DEF TableInv
    <3>7. EntryOf(m) \in own[t]
      BY <2>4, <3>1, <3>4, <3>5, <3>6, EntriesApart
    <3>8. OldBlock(t) = {EntryOf(m)}
      BY <2>3, <2>6, <2>7, <2>9, <3>7
    <3> QED BY <1>4, <2>1, <2>5, <3>2, <3>4, <3>5, <3>7, <3>8 DEF n
  <2> QED BY <2>8, <2>9
<1> QED BY <1>3, <1>4

-------------------------------------------------------------------------------
\* One operation more: its block comes, the one it releases goes.
LEMMA UnreleasedWith ==
  ASSUME NEW l, NEW E, NEW n, n \notin E,
         \A k \in E : Releases(Operations(l)[k]) => Operations(l)[k].mMatchedMalloc \in E,
         Releases(Operations(l)[n]) => Operations(l)[n].mMatchedMalloc \in E
  PROVE  Unreleased(l, E \cup {n}) =
           (Unreleased(l, E) \ (IF Releases(Operations(l)[n]) THEN {Operations(l)[n].mMatchedMalloc} ELSE {}))
             \cup (IF Allocates(Operations(l)[n]) THEN {n} ELSE {})
<1> DEFINE ops == Operations(l)
           old == IF Releases(ops[n]) THEN {ops[n].mMatchedMalloc} ELSE {}
           new == IF Allocates(ops[n]) THEN {n} ELSE {}
<1>1. ASSUME NEW m \in Unreleased(l, E \cup {n})
      PROVE  m \in (Unreleased(l, E) \ old) \cup new
  BY DEF Unreleased
<1>2. ASSUME NEW m \in Unreleased(l, E) \ old PROVE m \in Unreleased(l, E \cup {n})
  BY DEF Unreleased
<1>3. ASSUME NEW m \in new PROVE m \in Unreleased(l, E \cup {n})
  <2>1. m = n /\ Allocates(ops[n])
    OBVIOUS
  <2>2. \A k \in E \cup {n} : Releases(ops[k]) => ops[k].mMatchedMalloc # n
    OBVIOUS
  <2> QED BY <2>1, <2>2 DEF Unreleased
<1> HIDE DEF old, new
<1>4. Unreleased(l, E \cup {n}) = (Unreleased(l, E) \ old) \cup new
  BY <1>1, <1>2, <1>3
<1> QED BY <1>4 DEF old, new

\* A job keeps the tables, the heap and the nodes as the log wants them.
LEMMA BlocksInvJob ==
  ASSUME ReaderInv, WorkerInv, BlocksInv, NEW t \in Threads, OpMalloc(t) \/ OpFree(t) \/ OpRealloc(t)
  PROVE  BlocksInv'
<1> DEFINE n == CurrentSeqNo(t)
           j == Ops[n]
           m == j.mMatchedMalloc
           old == OldBlock(t)
           mine == IF Allocates(j) /\ ~j.mFreeByOtherThread THEN {EntryOf(n)} ELSE {}
           theirs == IF Allocates(j) /\ j.mFreeByOtherThread THEN {EntryOf(n)} ELSE {}
           new == IF Allocates(j) THEN {EntryOf(n)} ELSE {}
<1>1. /\ Called' = Called /\ Working(t) /\ done' = [done EXCEPT ![t] = NextJob(t)]
      /\ UNCHANGED <<script, ctl, lRecSeqNumber, gpJobs, wrk, gAllDone>>
  BY WorkerInvJob DEF ReaderInv
<1>2. /\ ~gAllDone /\ ctl = "wake" /\ n \in 1 .. Len(Ops) /\ Job(t) = j /\ Owner(n) = t /\ n \notin Executed
      /\ Executed' = Executed \cup {n}
  BY <1>1, JobOfBatch, JobExecuted
<1>3. /\ script \in Scripts
      /\ TableInv /\ heap = Unreleased(log, Executed) /\ heap = Numbers(Entries)
      /\ \A k \in Executed : Releases(Ops[k]) => Ops[k].mMatchedMalloc \in Executed
  BY <1>2 DEF BlocksInv, HeapInv, ReaderInv, FileTypes, Numbers
<1>4. /\ \A u \in Threads : wrk[u] # "exited"
      /\ nodes = SmallEntries(Entries) /\ nodes \in Nat
  <2>1. \A u \in Threads : wrk[u] # "exited"
    BY <1>2 DEF WorkerInv, SyncInv
  <2>2. nodes = SmallEntries(Entries)
    BY <2>1 DEF BlocksInv, NodesInv
  <2> QED BY <1>3, <2>1, <2>2, EntriesApart, EntriesFinite
<1>5. /\ MayProceed(t)
      /\ own' = [own EXCEPT ![t] = (own[t] \ old) \cup mine]
      /\ gFreeByOtherThreadHash' = (gFreeByOtherThreadHash \ old) \cup theirs
      /\ heap' = (heap \ Numbers(old)) \cup (IF Allocates(j) THEN {n} ELSE {})
      /\ nodes' = nodes - NodesFreed(t) + (IF Allocates(j) THEN NodesOf(AllocatedSize(j)) ELSE 0)
  BY <1>2, <1>4, JobSteps
<1>6. /\ Releases(j) => /\ old = {EntryOf(m)} /\ m \in Executed /\ m \in 1 .. Len(Ops) /\ m # n
                        /\ EntryOf(m) \in Entries /\ AllocatedSize(Ops[m]) = ReleasedSize(j)
                        /\ EntryOf(m) \in own[t] \/ EntryOf(m) \in gFreeByOtherThreadHash
      /\ ~Releases(j) => old = {}
  BY <1>1, <1>5, OldBlockFound
<1>7. NodesFreed(t) = IF Releases(j) THEN NodesOf(ReleasedSize(j)) ELSE 0
  BY <1>2, <1>6 DEF NodesFreed
<1>8. Numbers(old) = IF Releases(j) THEN {m} ELSE {}
  BY <1>6, EntryFields DEF Numbers
<1>9. EntryOf(n) \in LogEntries /\ EntryOf(n) \notin Entries /\ EntryOf(n).mSeqNo = n
      /\ EntryOf(n).mSize = AllocatedSize(j)
  <2>1. n \notin heap
    BY <1>2, <1>3 DEF Unreleased
  <2> QED BY <1>2, <1>3, <2>1, EntryFields DEF LogEntries, Numbers
<1>10. UNCHANGED <<Ops, log>> /\ LogEntries' = LogEntries /\ \A k : EntryOf(k)' = EntryOf(k) /\ Owner(k)' = Owner(k)
  BY <1>1 DEF Ops, log, LogEntries, EntryOf, Entry, Owner
<1> HIDE DEF n, j, m, old
<1>11. own'[t] = (own[t] \ old) \cup mine /\ \A u \in Threads : u # t => own'[u] = own[u]
  BY <1>3, <1>5 DEF TableInv
<1>12. TableInv'
  <2>1. mine \subseteq LogEntries /\ theirs \subseteq LogEntries
    BY <1>9
  <2>2. own' \in [Threads -> SUBSET LogEntries] /\ gFreeByOtherThreadHash' \in SUBSET LogEntries
    BY <1>3, <1>5, <2>1 DEF TableInv
  <2>3. ASSUME NEW u \in Threads, NEW e \in own'[u]
        PROVE  Allocates(Ops[e.mSeqNo]) /\ Owner(e.mSeqNo) = u /\ ~Ops[e.mSeqNo].mFreeByOtherThread
    <3>1. CASE u # t \/ e \notin mine
      BY <1>3, <1>11, <3>1 DEF TableInv
    <3>2. CASE u = t /\ e \in mine
      <4>1. e.mSeqNo = n /\ Allocates(j) /\ ~j.mFreeByOtherThread
        BY <1>9, <3>2
      <4> QED BY <1>2, <3>2, <4>1 DEF j
    <3> QED BY <3>1, <3>2
  <2>4. ASSUME NEW e \in gFreeByOtherThreadHash'
        PROVE  Allocates(Ops[e.mSeqNo]) /\ Ops[e.mSeqNo].mFreeByOtherThread
    <3>1. CASE e \notin theirs
      BY <1>3, <1>5, <3>1 DEF TableInv
    <3>2. CASE e \in theirs
      <4>1. e.mSeqNo = n /\ Allocates(j) /\ j.mFreeByOtherThread
        BY <1>9, <3>2
      <4> QED BY <4>1 DEF j
    <3> QED BY <3>1, <3>2
  <2> HIDE DEF mine, theirs
  <2>5. ~\E u \in Threads : wrk'[u] = "exited"
    BY <1>1, <1>4
  <2> QED BY <1>10, <2>2, <2>3, <2>4, <2>5 DEF TableInv
<1>13. Entries' = (Entries \ old) \cup new
  <2>1. \A u \in Threads : u # t => own[u] \cap old = {}
    <3>1. CASE ~Releases(j)
      BY <1>6, <3>1
    <3>2. CASE Releases(j)
      BY <1>3, <1>6, <3>2, EntriesApart
    <3> QED BY <3>1, <3>2
  <2>2. new = mine \cup theirs
    BY <1>9, EntriesApart
  <2> HIDE DEF mine, theirs, new
  <2>3. Entries' = (UNION {own'[u] : u \in Threads}) \cup gFreeByOtherThreadHash'
    BY DEF Entries
  <2>4. ASSUME NEW e PROVE e \in Entries' <=> e \in (Entries \ old) \cup new
    BY <1>5, <1>11, <2>1, <2>2, <2>3 DEF Entries
  <2> QED BY <2>4
<1>14. HeapInv'
  <2>1. /\ \A k \in Executed : Releases(Operations(log)[k]) => Operations(log)[k].mMatchedMalloc \in Executed
        /\ Releases(Operations(log)[n]) => Operations(log)[n].mMatchedMalloc \in Executed
    BY <1>3, <1>6 DEF Ops, j, m
  <2>2. Unreleased(log, Executed \cup {n}) =
          (heap \ (IF Releases(j) THEN {m} ELSE {})) \cup (IF Allocates(j) THEN {n} ELSE {})
    <3>1. Unreleased(log, Executed \cup {n}) =
            (Unreleased(log, Executed) \ (IF Releases(Operations(log)[n])
                                          THEN {Operations(log)[n].mMatchedMalloc} ELSE {}))
              \cup (IF Allocates(Operations(log)[n]) THEN {n} ELSE {})
      BY <1>2, <2>1, UnreleasedWith
    <3>2. Operations(log)[n] = j /\ Operations(log)[n].mMatchedMalloc = m
      BY DEF Ops, j, m
    <3> QED BY <1>3, <3>1, <3>2
  <2>3. heap' = Unreleased(log, Executed)'
    BY <1>2, <1>5, <1>8, <1>10, <2>2 DEF Unreleased
  <2>4. heap' = Numbers(Entries')
    <3>1. Entries \in SUBSET LogEntries
      BY <1>3, EntriesApart
    <3>2. Numbers(Entries \ old) = Numbers(Entries) \ Numbers(old)
      <4>1. \A e \in Entries : e.mSeqNo \in Numbers(old) => e \in old
        <5>1. CASE ~Releases(j)
          BY <1>8, <5>1
        <5>2. CASE Releases(j)
          BY <1>6, <1>8, <3>1, <5>2, EntryFields
        <5> QED BY <5>1, <5>2
      <4> QED BY <4>1 DEF Numbers
    <3>3. Numbers(new) = IF Allocates(j) THEN {n} ELSE {}
      BY <1>9 DEF Numbers
    <3> HIDE DEF new
    <3>4. Numbers((Entries \ old) \cup new) = Numbers(Entries \ old) \cup Numbers(new)
      BY DEF Numbers
    <3> QED BY <1>3, <1>5, <1>13, <3>2, <3>3, <3>4
  <2>5. \A k \in Executed \cup {n} : Releases(Ops[k]) => Ops[k].mMatchedMalloc \in Executed \cup {n}
    BY <2>1 DEF Ops
  <2> QED BY <1>1, <1>2, <1>10, <2>3, <2>4, <2>5 DEF HeapInv, Numbers
<1>15. NodesInv'
  <2>1. Entries \in SUBSET LogEntries /\ Entries \ old \in SUBSET LogEntries
    BY <1>3, EntriesApart
  <2>2. SmallEntries(Entries \ old) = nodes - NodesFreed(t)
    <3>1. CASE ~Releases(j)
      <4>1. Entries \ old = Entries
        BY <1>6, <3>1
      <4>2. NodesFreed(t) = 0
        BY <1>7, <3>1
      <4>3. SmallEntries(Entries \ old) = SmallEntries(Entries)
        BY <4>1, Zenon
      <4> HIDE DEF new
      <4> QED BY <1>4, <4>2, <4>3
    <3>2. CASE Releases(j)
      <4>1. EntryOf(m) \in Entries /\ old = {EntryOf(m)} /\ EntryOf(m).mSize = ReleasedSize(j)
        BY <1>6, <3>2, EntryFields
      <4>2. SmallEntries(Entries \ {EntryOf(m)}) = SmallEntries(Entries) - NodesOf(ReleasedSize(j))
        BY <1>3, <2>1, <4>1, SmallWithout
      <4> QED BY <1>4, <1>7, <3>2, <4>1, <4>2
    <3> QED BY <3>1, <3>2
  <2>3. SmallEntries((Entries \ old) \cup new) = nodes'
    <3>1. CASE ~Allocates(j)
      <4>1. (Entries \ old) \cup new = Entries \ old
        BY <3>1
      <4>2. nodes' = nodes - NodesFreed(t)
        <5>1. nodes' = nodes - NodesFreed(t) + 0
          BY <1>5, <3>1
        <5>2. NodesFreed(t) \in Nat
          BY DEF NodesFreed, NodesOf
        <5> QED BY <1>4, <5>1, <5>2
      <4> QED BY <2>2, <4>1, <4>2
    <3>2. CASE Allocates(j)
      <4>1. new = {EntryOf(n)} /\ EntryOf(n) \notin Entries \ old
        BY <1>9, <3>2
      <4>2. SmallEntries((Entries \ old) \cup {EntryOf(n)}) = SmallEntries(Entries \ old) + NodesOf(AllocatedSize(j))
        BY <1>3, <1>9, <2>1, <4>1, SmallWith
      <4> QED BY <1>5, <2>2, <3>2, <4>1, <4>2
    <3> QED BY <3>1, <3>2
  <2> QED BY <1>13, <2>3 DEF NodesInv, SmallEntries
<1> QED
  BY <1>12, <1>14, <1>15 DEF BlocksInv

-------------------------------------------------------------------------------
\* The blocks: there are none at first.
LEMMA BlocksInvInit == Init => BlocksInv
<1> SUFFICES ASSUME Init PROVE BlocksInv
  OBVIOUS
<1>1. /\ ctl = "start" /\ lRecSeqNumber = 1 /\ gAllDone = FALSE /\ heap = {} /\ nodes = 0
      /\ own = [t \in Threads |-> {}] /\ gFreeByOtherThreadHash = {}
      /\ wrk = [t \in Threads |-> "parked"]
  BY DEF Init
<1>2. TableInv
  BY <1>1 DEF TableInv
<1>3. Entries = {}
  BY <1>1 DEF Entries
<1>4. Executed = {}
  BY <1>1 DEF Executed
<1>5. Unreleased(log, Executed) = {}
  BY <1>4 DEF Unreleased
<1>6. HeapInv
  BY <1>1, <1>3, <1>4, <1>5 DEF HeapInv
<1>7. SmallEntries(Entries) = 0
  <2>1. {e \in Entries : e.mSize = "small"} = {}
    BY <1>3
  <2> QED BY <2>1, FS_EmptySet DEF SmallEntries
<1> QED
  BY <1>1, <1>2, <1>6, <1>7 DEF BlocksInv, NodesInv

\* A step that touches neither tables nor heap, and executes nothing.
LEMMA BlocksInvStutters ==
  ASSUME BlocksInv, UNCHANGED <<script, own, gFreeByOtherThreadHash, heap, nodes>>,
         ~gAllDone' => ~gAllDone /\ Executed' = Executed,
         ctl' = "done" => ctl = "done",
         \A t \in Threads : wrk'[t] = "exited" <=> wrk[t] = "exited"
  PROVE  BlocksInv'
<1>1. /\ UNCHANGED <<Ops, log>> /\ LogEntries' = LogEntries
      /\ (\A k : Owner(k)' = Owner(k)) /\ Entries' = Entries
  BY DEF Ops, log, LogEntries, EntryOf, Entry, Owner, Entries
<1>2. TableInv'
  BY <1>1 DEF BlocksInv, TableInv
<1>3. ~gAllDone' => Unreleased(log, Executed)' = Unreleased(log, Executed)
  BY <1>1 DEF Unreleased
<1>4. HeapInv'
  <2> HIDE DEF Executed, Entries, log
  <2> QED BY <1>1, <1>3 DEF BlocksInv, HeapInv
<1>5. NodesInv'
  BY <1>1 DEF BlocksInv, NodesInv, SmallEntries
<1> QED
  BY <1>2, <1>4, <1>5 DEF BlocksInv

\* A worker that leaves takes its table along.
LEMMA BlocksInvLeave ==
  ASSUME ReaderInv, WorkerInv, BlocksInv, NEW t \in Threads, Leave(t)
  PROVE  BlocksInv'
<1>1. /\ wrk[t] = "leaving" /\ wrk' = [wrk EXCEPT ![t] = "exited"]
      /\ own' = [own EXCEPT ![t] = {}] /\ heap' = heap \ FreedAtEnd(own[t])
      /\ nodes' = IF script.gFreeAllAtEnd
                  THEN nodes - Cardinality({e \in own[t] : NodesOf(e.mSize) = 1}) ELSE nodes
      /\ UNCHANGED <<script, ctl, gAllDone, gFreeByOtherThreadHash>>
  BY DEF Leave, ctlVars, syncVars
<1>2. gAllDone /\ script \in Scripts /\ TableInv /\ wrk'[t] = "exited" /\ own'[t] = {}
      /\ \A u \in Threads : u # t => own'[u] = own[u] /\ wrk'[u] = wrk[u]
  BY <1>1, WorkerInvLeave DEF ReaderInv, FileTypes, BlocksInv, TableInv, WorkerInv, SyncTypes
<1>3. /\ UNCHANGED <<Ops, log>> /\ LogEntries' = LogEntries /\ (\A k : Owner(k)' = Owner(k))
  BY <1>1 DEF Ops, log, LogEntries, EntryOf, Entry, Owner
<1>4. Entries' = Entries \ own[t] /\ Entries \in SUBSET LogEntries /\ own[t] \subseteq Entries
  <2>1. \A u \in Threads : u # t => own[u] \cap own[t] = {}
    BY <1>2, EntriesApart
  <2>2. own[t] \cap gFreeByOtherThreadHash = {} /\ own[t] \subseteq Entries /\ Entries \in SUBSET LogEntries
    BY <1>2, EntriesApart
  <2>3. ASSUME NEW e PROVE e \in Entries' <=> e \in Entries \ own[t]
    BY <1>1, <1>2, <2>1, <2>2 DEF Entries
  <2> QED BY <2>2, <2>3
<1>5. TableInv'
  BY <1>1, <1>2, <1>3 DEF TableInv
<1>6. HeapInv'
  <2>1. ASSUME script.gFreeAllAtEnd PROVE heap' = Numbers(Entries')
    <3>1. heap = Numbers(Entries) /\ FreedAtEnd(own[t]) = Numbers(own[t])
      BY <2>1 DEF BlocksInv, HeapInv, Numbers, FreedAtEnd
    <3>2. Numbers(Entries \ own[t]) = Numbers(Entries) \ Numbers(own[t])
      <4>1. \A e \in Entries : e.mSeqNo \in Numbers(own[t]) => e \in own[t]
        <5>1. \A e, f \in LogEntries : e.mSeqNo = f.mSeqNo => e = f
          BY EntryFields
        <5> QED BY <1>4, <5>1 DEF Numbers
      <4> QED BY <4>1 DEF Numbers
    <3> QED BY <1>1, <1>4, <3>1, <3>2
  <2>2. ctl' = "done" => gFreeByOtherThreadHash' = {} /\ \A u \in Threads : own'[u] = {}
    BY <1>1, <1>2 DEF BlocksInv, HeapInv
  <2> QED BY <1>1, <1>2, <2>1, <2>2 DEF HeapInv, Numbers
<1>7. NodesInv'
  <2>1. ASSUME script.gFreeAllAtEnd PROVE nodes' = SmallEntries(Entries')
    <3>1. nodes = SmallEntries(Entries)
      BY <2>1 DEF BlocksInv, NodesInv
    <3>2. {e \in own[t] : NodesOf(e.mSize) = 1} = Small(own[t])
      BY DEF NodesOf, Small
    <3>3. IsFiniteSet(Small(Entries)) /\ SmallEntries(Entries) = Cardinality(Small(Entries))
          /\ SmallEntries(Entries \ own[t]) = Cardinality(Small(Entries \ own[t]))
          /\ SmallEntries(Entries) \in Nat
      BY <1>2, <1>4, EntriesFinite
    <3>4. Small(Entries \ own[t]) = Small(Entries) \ Small(own[t])
          /\ Small(Entries) \cap Small(own[t]) = Small(own[t])
      BY <1>4 DEF Small
    <3>5. Cardinality(Small(Entries) \ Small(own[t])) =
            Cardinality(Small(Entries)) - Cardinality(Small(Entries) \cap Small(own[t]))
      BY <3>3, FS_Difference
    <3>6. nodes' = nodes - Cardinality(Small(own[t]))
      BY <1>1, <2>1, <3>2
    <3>7. SmallEntries(Entries') = Cardinality(Small(Entries) \ Small(own[t]))
      BY <1>4, <3>3, <3>4
    <3> QED BY <3>1, <3>3, <3>4, <3>5, <3>6, <3>7
  <2> QED BY <1>1, <1>2, <2>1 DEF NodesInv, SmallEntries
<1> QED
  BY <1>5, <1>6, <1>7 DEF BlocksInv

\* When all threads are gone, the shared table is left.
LEMMA BlocksInvJoin ==
  ASSUME ReaderInv, WorkerInv, BlocksInv, JoinAll
  PROVE  BlocksInv'
<1>1. /\ ctl = "release" /\ ctl' = "done"
      /\ \A t \in Threads : wrk[t] = "exited"
      /\ heap' = heap \ FreedAtEnd(gFreeByOtherThreadHash)
      /\ nodes' = IF script.gFreeAllAtEnd THEN 0 ELSE nodes
      /\ gFreeByOtherThreadHash' = {} /\ UNCHANGED <<script, gAllDone, wrk, own>>
  BY DEF JoinAll
<1>2. gAllDone /\ script \in Scripts /\ TableInv /\ \A t \in Threads : own[t] = {}
  BY <1>1 DEF ReaderInv, FileTypes, BlocksInv, TableInv, WorkerInv, SyncTypes
<1>3. /\ UNCHANGED <<Ops, log>> /\ LogEntries' = LogEntries /\ (\A k : Owner(k)' = Owner(k))
  BY <1>1 DEF Ops, log, LogEntries, EntryOf, Entry, Owner
<1>4. Entries = gFreeByOtherThreadHash /\ Entries' = {}
  BY <1>1, <1>2 DEF Entries
<1>5. SmallEntries(Entries') = 0
  <2>1. {e \in {} : e.mSize = "small"} = {}
    OBVIOUS
  <2> QED BY <1>4, <2>1, FS_EmptySet DEF SmallEntries
<1>6. TableInv'
  BY <1>1, <1>2, <1>3 DEF TableInv
<1>7. HeapInv'
  BY <1>1, <1>2, <1>4 DEF BlocksInv, HeapInv, FreedAtEnd
<1>8. NodesInv'
  <2>1. CASE script.gFreeAllAtEnd
    BY <1>1, <1>5, <2>1 DEF NodesInv, SmallEntries
  <2>2. CASE ~script.gFreeAllAtEnd
    <3>1. CASE Threads = {}
      <4>1. gFreeByOtherThreadHash \in SUBSET LogEntries
        BY <1>2 DEF TableInv
      <4>2. \A n \in 1 .. Len(Ops) : Owner(n) \in Threads
        BY <1>2, OperationFields
      <4>3. Entries = {}
        BY <1>4, <3>1, <4>1, <4>2 DEF LogEntries
      <4>4. nodes = SmallEntries(Entries)
        BY <3>1 DEF BlocksInv, NodesInv
      <4>5. SmallEntries(Entries)' = SmallEntries(Entries)
        BY <1>4, <4>3 DEF SmallEntries
      <4> QED BY <1>1, <2>2, <4>4, <4>5 DEF NodesInv
    <3>2. CASE Threads # {}
      BY <1>1, <2>2, <3>2 DEF NodesInv
    <3> QED BY <3>1, <3>2
  <2> QED BY <2>1, <2>2
<1> QED
  BY <1>6, <1>7, <1>8 DEF BlocksInv

\* Every step keeps tables, heap and nodes as the log wants them.
LEMMA BlocksInvKept ==
  BufferInv /\ ReaderInv /\ WorkerInv /\ BlocksInv /\ [Next]_vars => BlocksInv'
<1> SUFFICES ASSUME BufferInv, ReaderInv, WorkerInv, BlocksInv, [Next]_vars
             PROVE  BlocksInv'
  OBVIOUS
<1>1. CASE Controller
  <2>1. CASE FirstRead \/ WakeDiskToRead \/ TakeBuffer \/ StopDisk
    <3>1. /\ ctl # "wake" /\ ctl' # "wake" /\ ctl' # "done"
          /\ UNCHANGED <<script, lRecSeqNumber, own, gFreeByOtherThreadHash, heap, nodes, gAllDone, wrk>>
      BY <2>1 DEF FirstRead, WakeDiskToRead, TakeBuffer, StopDisk, syncVars, workVars
    <3> QED BY <3>1, ExecutedOutside, BlocksInvStutters
  <2>2. CASE FillBatch
    <3>1. /\ ctl' # "done"
          /\ UNCHANGED <<script, own, gFreeByOtherThreadHash, heap, nodes, gAllDone, wrk>>
      BY <2>2 DEF FillBatch, workVars
    <3> QED BY <2>2, <3>1, ExecutedFill, BlocksInvStutters
  <2>3. CASE WakeWorker
    <3>1. UNCHANGED <<script, ctl, lRecSeqNumber, gpJobs, wrk, done, own, gFreeByOtherThreadHash,
                      heap, nodes, gAllDone>>
      BY <2>3 DEF WakeWorker, workVars
    <3>2. Executed' = Executed
      BY <2>3, <3>1, WorkerInvWake, ExecutedStutters
    <3> QED BY <3>1, <3>2, BlocksInvStutters
  <2>4. CASE WaitForBatch
    <3>1. /\ ctl' # "done"
          /\ UNCHANGED <<script, own, gFreeByOtherThreadHash, heap, nodes, gAllDone, wrk>>
      BY <2>4 DEF WaitForBatch, workVars
    <3> QED BY <2>4, <3>1, ExecutedWait, BlocksInvStutters
  <2>5. CASE ReleaseAll
    <3>1. /\ gAllDone' /\ ctl' # "done"
          /\ UNCHANGED <<script, own, gFreeByOtherThreadHash, heap, nodes, wrk>>
      BY <2>5 DEF ReleaseAll, workVars
    <3> QED BY <3>1, BlocksInvStutters
  <2>6. CASE JoinAll
    BY <2>6, BlocksInvJoin
  <2>7. CASE ReadFreedEntry
    <3>1. /\ ctl = "release" /\ ctl' = "crashed"
          /\ UNCHANGED <<script, own, gFreeByOtherThreadHash, heap, nodes, wrk, gAllDone>>
      BY <2>7 DEF ReadFreedEntry, syncVars, workVars
    <3>2. gAllDone
      BY <3>1 DEF WorkerInv, SyncTypes
    <3> QED BY <3>1, <3>2, BlocksInvStutters
  <2> QED BY <1>1, <2>1, <2>2, <2>3, <2>4, <2>5, <2>6, <2>7 DEF Controller
<1>2. CASE Disk
  <2>1. UNCHANGED <<script, ctlVars, syncVars, workVars>>
    BY <1>2 DEF Disk, DiskSleep, DiskLook, ReadFile, DiskLeave
  <2>2. Called' = Called
    BY <2>1 DEF Called, ctlVars, syncVars, workVars
  <2>3. Executed' = Executed
    BY <2>1, <2>2, ExecutedStutters DEF ctlVars, workVars
  <2> QED BY <2>1, <2>3, BlocksInvStutters DEF ctlVars, syncVars, workVars
<1>3. ASSUME NEW t \in Threads, Worker(t) PROVE BlocksInv'
  <2>1. CASE EnterBatch(t)
    <3>1. /\ wrk[t] = "parked" /\ UNCHANGED <<script, ctl, own, gFreeByOtherThreadHash, heap, nodes, gAllDone>>
          /\ \A u \in Threads : wrk'[u] = "exited" <=> wrk[u] = "exited"
      BY <2>1 DEF EnterBatch, ctlVars, WorkerInv, SyncTypes
    <3>2. ~gAllDone => Executed' = Executed
      BY <2>1, ExecutedEnter
    <3> QED BY <3>1, <3>2, BlocksInvStutters
  <2>2. CASE OpMalloc(t) \/ OpFree(t) \/ OpRealloc(t)
    BY <2>2, BlocksInvJob
  <2>3. CASE FinishQueuedJobs(t)
    <3>1. /\ UNCHANGED <<script, ctl, own, gFreeByOtherThreadHash, heap, nodes, gAllDone>>
          /\ \A u \in Threads : wrk'[u] = "exited" <=> wrk[u] = "exited"
      BY <2>3 DEF FinishQueuedJobs, ctlVars, WorkerInv, SyncTypes
    <3> QED BY <2>3, <3>1, ExecutedFinish, BlocksInvStutters
  <2>4. CASE WakeController(t)
    <3>1. /\ UNCHANGED <<script, ctl, own, gFreeByOtherThreadHash, heap, nodes, gAllDone>>
          /\ \A u \in Threads : wrk'[u] = "exited" <=> wrk[u] = "exited"
      BY <2>4 DEF WakeController, ctlVars, WorkerInv, SyncTypes
    <3> QED BY <2>4, <3>1, ExecutedWakeController, BlocksInvStutters
  <2>5. CASE Leave(t)
    BY <2>5, BlocksInvLeave
  <2>6. CASE UNCHANGED vars
    <3>1. Called' = Called
      BY <2>6 DEF Called, vars, ctlVars, syncVars, workVars
    <3>2. Executed' = Executed
      BY <2>6, <3>1, ExecutedStutters DEF vars, ctlVars, workVars
    <3> QED BY <2>6, <3>2, BlocksInvStutters DEF vars, ctlVars, syncVars, workVars
  <2> QED BY <1>3, <2>1, <2>2, <2>3, <2>4, <2>5, <2>6 DEF Worker, AwaitBlock
<1>4. CASE Terminated \/ UNCHANGED vars
  <2>1. UNCHANGED vars
    BY <1>4 DEF Terminated
  <2>2. Called' = Called
    BY <2>1 DEF Called, vars, ctlVars, syncVars, workVars
  <2>3. Executed' = Executed
    BY <2>1, <2>2, ExecutedStutters DEF vars, ctlVars, workVars
  <2> QED BY <2>1, <2>3, BlocksInvStutters DEF vars, ctlVars, syncVars, workVars
<1> QED
  BY <1>1, <1>2, <1>3, <1>4 DEF Next

-------------------------------------------------------------------------------
(* The theorems *)

\* The inductive invariant of the replay as a whole.  A buffer taken again makes the
\* controller lose its place; before that everything is as the log says.
InOrder == ReaderInv /\ WorkerInv /\ BlocksInv
ReplayInvariant ==
  /\ BufferInv
  /\ ~again => InOrder
  /\ LastBatchFits(script) => ~again

\* The invariant holds at first ...
LEMMA ReplayInvInit == Init => ReplayInvariant
<1> SUFFICES ASSUME Init PROVE ReplayInvariant
  OBVIOUS
<1>1. ~again
  BY DEF Init
<1> QED
  BY <1>1, BufferInvInit, ReaderInvInit, WorkerInvInit, BlocksInvInit DEF ReplayInvariant, InOrder

\* The log and the options are read once, and only TakeBuffer can lose the place.
LEMMA ScriptKept ==
  [Next]_vars => script' = script /\ (~TakeBuffer => again' = again) /\ (~again' => ~again)
<1> SUFFICES ASSUME [Next]_vars
             PROVE  script' = script /\ (~TakeBuffer => again' = again) /\ (~again' => ~again)
  OBVIOUS
<1>1. CASE Controller
  BY <1>1 DEF Controller, FirstRead, WakeDiskToRead, TakeBuffer, FillBatch, WakeWorker,
              WaitForBatch, StopDisk, ReleaseAll, JoinAll, ReadFreedEntry
<1>2. CASE Disk
  BY <1>2 DEF Disk, DiskSleep, DiskLook, ReadFile, DiskLeave, ctlVars
<1>3. ASSUME NEW t \in Threads, Worker(t) PROVE script' = script /\ again' = again
  BY <1>3 DEF Worker, EnterBatch, OpMalloc, OpFree, OpRealloc, AwaitBlock, FinishQueuedJobs,
              WakeController, Leave, vars, ctlVars
<1>4. CASE Terminated \/ UNCHANGED vars
  BY <1>4 DEF Terminated, vars, ctlVars
<1> QED
  BY <1>1, <1>2, <1>3, <1>4 DEF Next

\* Without a small last batch the buffer taken over is always a new one: when the file is
\* read to its end, what is left to be batched is nothing, or more than a record.
LEMMA BufferIsNew ==
  ASSUME LastBatchFits(script), BufferInv, ReaderInv, TakeBuffer PROVE ~again'
<1>1. /\ ctl = "loop" /\ MoreToDo /\ NeedsBuffer /\ mStatus # "read"
      /\ again' = (mpBuffer = inUse)
  BY DEF TakeBuffer
<1>2. ~Stopped /\ script \in Scripts
  BY <1>1 DEF Stopped, ReaderInv, FileTypes
<1>3. /\ filePos \in Nat /\ lTotalReadSize \in Nat /\ active \in Seq(Nat)
      /\ FileSize(log) \in Nat /\ Reserved = 4 /\ Len(active) \in Nat
  BY <1>2, ScriptOfReplay, FileSizeValue DEF ReaderInv, FileTypes
<1>4. /\ lTotalReadSize = filePos
      /\ inUse = mpBuffer => lTotalReadSize = FileSize(log)
  BY <1>1, <1>2, <1>3 DEF ReaderInv, FileInv
<1>5. PICK i \in 1 .. Len(log) + 1 : AtRecord(i)
  BY <1>2 DEF ReaderInv, PositionInv
<1> SUFFICES ASSUME inUse = mpBuffer PROVE FALSE
  BY <1>1
<1>6. ~lbRefillBuffer /\ (active = <<>> \/ Len(active) >= Reserved)
  BY <1>1 DEF ReaderInv, NotAgain
<1>7. active = <<>>
  BY <1>1, <1>3, <1>6 DEF NeedsBuffer
<1>8. lTotalReadSize = FileSize(log) /\ ActiveEnd = FileSize(log) /\ ActiveStart = FileSize(log)
  BY <1>3, <1>4, <1>7 DEF ActiveEnd, ActiveStart, Filled
<1>9. lRecSeqNumber = Len(Operations(log)) + 1
  BY <1>2, <1>5, <1>8, EndOfFile DEF AtRecord
<1>10. Len(Operations(log)) \in Nat
  BY <1>2, <1>5, OperationsCounted
<1> QED
  BY <1>1, <1>3, <1>7, <1>8, <1>9, <1>10 DEF MoreToDo

\* ... and every step keeps it.
LEMMA ReplayInvKept == ReplayInvariant /\ [Next]_vars => ReplayInvariant'
<1> SUFFICES ASSUME ReplayInvariant, [Next]_vars PROVE ReplayInvariant'
  OBVIOUS
<1>1. BufferInv'
  BY BufferInvKept DEF ReplayInvariant
<1>2. ASSUME ~again' PROVE InOrder'
  <2>1. InOrder
    BY <1>2, ScriptKept DEF ReplayInvariant
  <2> QED
    BY <1>2, <2>1, ReaderInvKept, WorkerInvKept, BlocksInvKept DEF ReplayInvariant, InOrder
<1>3. ASSUME LastBatchFits(script)' PROVE ~again'
  <2>1. LastBatchFits(script)
    BY <1>3, ScriptKept DEF LastBatchFits
  <2>2. ~again /\ InOrder
    BY <2>1 DEF ReplayInvariant
  <2>3. CASE TakeBuffer
    BY <2>1, <2>2, <2>3, BufferIsNew DEF ReplayInvariant, InOrder
  <2> QED
    BY <2>2, <2>3, ScriptKept
<1> QED
  BY <1>1, <1>2, <1>3 DEF ReplayInvariant

\* What the invariant says of the blocks between two batches and at the end.
LEMMA HeapAsLoggedHolds == ReplayInvariant => HeapAsLogged
<1> SUFFICES ASSUME ReplayInvariant, ~again PROVE HeapAsLogged
  BY DEF HeapAsLogged
<1>0. ReaderInv /\ WorkerInv /\ BlocksInv
  BY DEF ReplayInvariant, InOrder
<1>1. ASSUME ctl = "loop" PROVE heap = Outstanding(log)[lRecSeqNumber - 1]
  <2>1. ~gAllDone
    BY <1>0, <1>1 DEF WorkerInv, SyncTypes
  <2>2. heap = Unreleased(log, 1 .. lRecSeqNumber - 1)
    BY <1>0, <1>1, <2>1 DEF BlocksInv, HeapInv, Executed
  <2>3. script \in Scripts /\ lRecSeqNumber \in 1 .. Len(Ops) + 1
    BY <1>0 DEF ReaderInv, FileTypes, JobsInv
  <2>4. log \in Seq(RecordsOf(Threads, {"small", "big"})) /\ Matched(log)
    BY <2>3, ScriptOfReplay
  <2>5. Len(Ops) \in Nat
    <3>1. Ops \in Seq(RecordsOf(Threads, {"small", "big"}))
      BY <2>4, OperationsAreOperations DEF Ops
    <3> HIDE DEF Ops
    <3> QED BY <3>1
  <2>6. lRecSeqNumber - 1 \in 0 .. Len(Operations(log))
    <3>1. lRecSeqNumber - 1 \in 0 .. Len(Ops)
      BY <2>3, <2>5
    <3> QED BY <3>1 DEF Ops
  <2> QED BY <2>2, <2>4, <2>6, OutstandingUnreleased
<1>2. ASSUME ctl = "done", script.gFreeAllAtEnd PROVE heap = {} /\ nodes = 0
  <2>1. Entries = {} /\ heap = {e.mSeqNo : e \in Entries} /\ nodes = SmallEntries(Entries)
    BY <1>0, <1>2 DEF BlocksInv, HeapInv, NodesInv, Entries
  <2>2. {e \in Entries : e.mSize = "small"} = {}
    BY <2>1
  <2> QED BY <2>1, <2>2, FS_EmptySet DEF SmallEntries
<1> QED BY <1>1, <1>2 DEF HeapAsLogged

\* The jobs of a batch are the operations with the numbers the workers count.
LEMMA BatchInLogHolds == ReplayInvariant => BatchInLog
<1> SUFFICES ASSUME ReplayInvariant, ~again, NEW k \in 1 .. Len(gpJobs.records)
             PROVE  gpJobs.records[k] = gpJobs.mSequenceNo + k - 1
  BY DEF BatchInLog
<1> DEFINE L == Len(gpJobs.records)
<1>1. gpJobs.records = Units(gpJobs.mSequenceNo, L)
  BY DEF ReplayInvariant, InOrder, ReaderInv, JobsInv
<1> HIDE DEF L
<1> QED BY <1>1 DEF Units, L

\* The nodes are those of the small entries, as long as no worker has left.
LEMMA NodesExactHolds == ReplayInvariant => NodesExact
BY DEF ReplayInvariant, InOrder, BlocksInv, NodesInv, NodesExact, Entries, SmallEntries

\* The controller's number stays within the log's.
LEMMA EachRecordOnceHolds == ReplayInvariant /\ LastBatchFits(script) => EachRecordOnce
<1> SUFFICES ASSUME ReplayInvariant, LastBatchFits(script) PROVE EachRecordOnce
  OBVIOUS
<1>1. ReaderInv
  BY DEF ReplayInvariant, InOrder
<1>2. lRecSeqNumber \in 1 .. Len(Ops) + 1 /\ script \in Scripts
  BY <1>1 DEF ReaderInv, JobsInv, FileTypes
<1>3. Len(Ops) \in Nat
  <2>1. Len(log) + 1 \in 1 .. Len(log) + 1
    BY <1>2, ScriptOfReplay
  <2> QED BY <1>2, <2>1, OperationsCounted DEF Ops
<1> QED
  BY <1>2, <1>3 DEF EachRecordOnce, Ops

\* Until the controller takes the last buffer again, every job of a batch is the operation
\* that has the number the workers count for it.
THEOREM ReplayedJobs == Spec => []BatchInLog
BY ReplayInvInit, ReplayInvKept, BatchInLogHolds, PTL DEF Spec

\* Until then, between two batches the heap is the one the logged program had at this
\* operation; and when the tool is done and has freed all, nothing is left.
THEOREM ReplayedHeap == Spec => []HeapAsLogged
BY ReplayInvInit, ReplayInvKept, HeapAsLoggedHolds, PTL DEF Spec

\* Until then, the nodes in use are those of the small entries in the tables.
THEOREM ReplayedNodes == Spec => []NodesExact
BY ReplayInvInit, ReplayInvKept, NodesExactHolds, PTL DEF Spec

\* A log behind whose timestamps there is more than the buffer keeps in reserve, or one
\* whose timestamps are ignored, is replayed once: the last buffer is not taken again, and
\* no more records are processed than the log has (lines 1522 and 1778).
THEOREM ReplayedOnce == Spec /\ LastBatchFits(script) => [](~again /\ EachRecordOnce)
<1>1. Init /\ LastBatchFits(script) => ReplayInvariant /\ LastBatchFits(script)
  BY ReplayInvInit
<1>2. ReplayInvariant /\ LastBatchFits(script) /\ [Next]_vars
        => (ReplayInvariant /\ LastBatchFits(script))'
  BY ReplayInvKept, ScriptKept DEF LastBatchFits
<1>3. ReplayInvariant /\ LastBatchFits(script) => ~again /\ EachRecordOnce
  BY EachRecordOnceHolds DEF ReplayInvariant
<1> QED
  BY <1>1, <1>2, <1>3, PTL DEF Spec

\* In the tool as a whole too: the other two modes leave the replay's state alone.
THEOREM ToolReplays == ToolSpec => [](BatchInLog /\ HeapAsLogged /\ NodesExact)
<1>1. ToolInit => ReplayInvariant
  BY ReplayInvInit DEF ToolInit
<1>2. ReplayInvariant /\ [ToolNext]_toolVars => ReplayInvariant'
  <2>1. [ToolNext]_toolVars => [Next]_vars
    BY DEF ToolNext, ReplayAll, Replaying, RunTiming, RunPrint, Exit, toolVars
  <2> QED BY <2>1, ReplayInvKept
<1>3. ReplayInvariant => BatchInLog /\ HeapAsLogged /\ NodesExact
  BY BatchInLogHolds, HeapAsLoggedHolds, NodesExactHolds
<1> QED
  BY <1>1, <1>2, <1>3, PTL DEF ToolSpec

\* What -t and -p rely on: the log, the internal buffer, and what was read so far.
ToolInv ==
  /\ script \in Scripts
  /\ Good(pool)
  /\ mode = "timing" => TimingInv(log)
  /\ mode = "print" => PrintInv(log)

\* The analysis and the listing report what the log says after every record, and the
\* analysis never has two entries in one place: for any log of matched operations, wherever
\* it is told to end.
THEOREM ToolAnalyses == ToolSpec => [](AnalysisExact /\ BlocksApart)
<1>1. ASSUME script \in Scripts PROVE log \in LogsOf(Threads)
  BY <1>1, ScriptOfReplay DEF LogsOf
<1>2. ToolInit => ToolInv
  <2> SUFFICES ASSUME ToolInit PROVE ToolInv
    OBVIOUS
  <2>1. script \in Scripts /\ AnalysisInit
    BY DEF ToolInit, Init
  <2>2. Good(pool)
    BY <2>1, EmptyPoolGood DEF AnalysisInit, PoolInit
  <2>3. TimingInv(log) /\ PrintInv(log)
    BY <1>1, <2>1, TimingInvInit, PrintInvInit
  <2> QED BY <2>1, <2>2, <2>3 DEF ToolInv
<1>3. ToolInv /\ [ToolNext]_toolVars => ToolInv'
  <2> SUFFICES ASSUME ToolInv, [ToolNext]_toolVars PROVE ToolInv'
    OBVIOUS
  <2>1. script' = script /\ log' = log /\ mode' = mode
    <3>1. [Next]_vars /\ mode' = mode
      BY DEF ToolNext, ReplayAll, Replaying, RunTiming, RunPrint, Exit, toolVars
    <3> QED BY <3>1, ScriptKept DEF log
  <2>2. script \in Scripts /\ log \in LogsOf(Threads) /\ Good(pool)
    BY <1>1 DEF ToolInv
  <2> DEFINE l == log
  <2>3. CASE RunTiming
    <3>1. mode = "timing" /\ AnalyzeTiming(l) /\ cursor # Len(l) /\ TimingInv(l)
      BY <2>3 DEF RunTiming, ModeDone, TimingFinished, ToolInv
    <3>2. PICK k : k = l
      OBVIOUS
    <3>3. TimingInv(k)'
      <4>1. k \in LogsOf(Threads) /\ AnalyzeTiming(k) /\ cursor # Len(k) /\ TimingInv(k)
        BY <2>2, <3>1, <3>2
      <4> HIDE DEF l
      <4> QED BY <4>1, TimingInvKept
    <3>4. TimingInv(log)' /\ Good(pool)'
      <4>1. log' = k
        BY <2>1, <3>2
      <4> QED BY <3>3, <4>1 DEF TimingInv
    <3> QED BY <2>1, <2>2, <3>1, <3>4 DEF ToolInv
  <2>4. CASE RunPrint
    <3>1. mode = "print" /\ PrintAll(l) /\ cursor # Len(l) /\ PrintInv(l) /\ pool' = pool
      BY <2>4 DEF RunPrint, ModeDone, PrintFinished, ToolInv, PrintAll
    <3>2. PICK k : k = l
      OBVIOUS
    <3>3. PrintInv(k)'
      <4>1. k \in LogsOf(Threads) /\ PrintAll(k) /\ cursor # Len(k) /\ PrintInv(k)
        BY <2>2, <3>1, <3>2
      <4> HIDE DEF l
      <4> QED BY <4>1, PrintInvKept
    <3>4. PrintInv(log)'
      <4>1. log' = k
        BY <2>1, <3>2
      <4> QED BY <3>3, <4>1 DEF PrintInv
    <3> QED BY <2>1, <2>2, <3>1, <3>4 DEF ToolInv
  <2>5. CASE ReplayAll \/ Exit \/ UNCHANGED toolVars
    <3>1. UNCHANGED analysisVars
      BY <2>5 DEF ReplayAll, Replaying, Exit, toolVars
    <3>2. /\ cursor' = cursor /\ recSeqNo' = recSeqNo /\ gHashTable' = gHashTable
          /\ outstanding' = outstanding /\ peaks' = peaks /\ opCounts' = opCounts /\ pool' = pool
      BY <3>1 DEF analysisVars, timingVars
    <3>3. TimingInv(log)' <=> TimingInv(log)
      BY <2>1, <3>2 DEF TimingInv, Position
    <3>4. PrintInv(log)' <=> PrintInv(log)
      BY <2>1, <3>2 DEF PrintInv, Position
    <3> QED BY <2>1, <3>2, <3>3, <3>4 DEF ToolInv
  <2> QED BY <2>3, <2>4, <2>5 DEF ToolNext
<1>4. ToolInv => AnalysisExact /\ BlocksApart
  <2> SUFFICES ASSUME ToolInv PROVE AnalysisExact /\ BlocksApart
    OBVIOUS
  <2>1. log \in LogsOf(Threads) /\ Good(pool)
    BY <1>1 DEF ToolInv
  <2>2. mode = "timing" => TimingExact(log)
    BY <2>1, TimingInvExact DEF ToolInv
  <2>3. mode = "print" => PrintExact(log)
    BY <2>1, PrintInvExact DEF ToolInv
  <2> QED BY <2>1, <2>2, <2>3 DEF AnalysisExact, BlocksApart, Good
<1> QED BY <1>2, <1>3, <1>4, PTL DEF ToolSpec
===============================================================================
