------------------------------- MODULE MCReplay -------------------------------
(* Model checking instance of Replay.  The logs are those of two threads with a
   few operations, with the flags and the timestamps the consolidator gives them. *)
EXTENDS MallocReplay, TLC

CONSTANT NumOps  \* bound: operations in a log

\* What the logged program did, step by step: who allocates, or releases which block.
\* The first thread makes the first block.  Blocks of odd number are small.
Steps(n) ==
  [kind : {"malloc"}, by : Threads, of : {0}]
    \cup [kind : {"free"}, by : Threads, of : 0 .. n - 1]
    \cup [kind : {"realloc"}, by : Threads, of : 1 .. n - 1]
Programs ==
  {p \in [1 .. NumOps -> Steps(NumOps)] :
     /\ p[1].kind = "malloc" /\ p[1].by = 1
     /\ \A n \in 1 .. NumOps : p[n].of # 0 => p[n].of < n /\ p[p[n].of].kind # "free"
     /\ \A m, n \in 1 .. NumOps : m # n /\ p[m].of # 0 => p[m].of # p[n].of}

SizeOf(n) == IF n % 2 = 1 THEN "small" ELSE "big"
Crosses(p, n) == p[n].of # 0 /\ p[p[n].of].by # p[n].by
ByOther(p, m) == \E n \in DOMAIN p : p[n].of = m /\ Crosses(p, n)
RecordOf(p, n) ==
  CASE p[n].kind = "malloc"  -> Malloc(p[n].by, SizeOf(n), ByOther(p, n))
    [] p[n].kind = "free"    -> Free(p[n].by, SizeOf(p[n].of), p[n].of, Crosses(p, n))
    [] p[n].kind = "realloc" ->
         Realloc(p[n].by, SizeOf(n), SizeOf(p[n].of), p[n].of, Crosses(p, n), ByOther(p, n))

\* The timestamps in front of each operation and at the end.  There is one before the first
\* operation, and elsewhere where the clock ticked or a release needs one.  A call of
\* free(NULL) leaves a timestamp without an operation: one more, in one place.
Regular == {s \in [1 .. NumOps + 1 -> 0 .. 1] : s[1] = 1 /\ s[NumOps + 1] = 0}
OneMore(s) == {[s EXCEPT ![n] = @ + 1] : n \in {m \in DOMAIN s : s[m] = 1} \cup {NumOps + 1}}

Records(p, stamps) ==
  LET upTo[n \in 0 .. NumOps] ==
        IF n = 0 THEN <<>>
        ELSE upTo[n - 1] \o [k \in 1 .. stamps[n] |-> Timestamp] \o <<RecordOf(p, n)>>
  IN upTo[NumOps] \o [k \in 1 .. stamps[NumOps + 1] |-> Timestamp]

LogsWith(stamps) == {l \in {Records(p, s) : p \in Programs, s \in stamps} : CrossSeparated(l)}

\* Buffers that cut records off, one batch for all (with waits among the workers), an
\* early end, and blocks left alone at the end.
Script(l, ignore, last, free, units) ==
  [log |-> l, gIgnoreTimeStamp |-> ignore, gEndRecNo |-> last, gFreeAllAtEnd |-> free,
   gJobQueueBufferSz |-> units]

MCScripts ==
  UNION {{Script(l, FALSE, 99, TRUE, 10), Script(l, TRUE, 99, FALSE, 12),
          Script(l, FALSE, 1, TRUE, 12)} : l \in LogsWith(Regular)}
    \cup {Script(l, FALSE, 99, TRUE, 10) : l \in LogsWith(UNION {OneMore(s) : s \in Regular})}

\* One log each for what goes wrong: an end smaller than a record, and an early end while the
\* disk thread reads.
ShortEnd ==
  {Script(<<Timestamp, Malloc(1, "big", FALSE), Malloc(1, "big", FALSE), Timestamp,
            Free(1, "big", 1, FALSE)>>, FALSE, 99, TRUE, 18)}
EarlyEnd ==
  {Script(<<Timestamp, Malloc(1, "big", FALSE), Timestamp, Malloc(1, "big", FALSE),
            Realloc(1, "big", "big", 1, FALSE, FALSE)>>, FALSE, 1, FALSE, 10)}
WrongEnds == ShortEnd \cup EarlyEnd

\* What the sizes stand for in the analysis, on either side of the bucket boundary.
MCSizeInBytes == [s \in {"small", "big"} |-> IF s = "small" THEN 1 ELSE 3]
MCBoundary == <<2>>
================================================================================
