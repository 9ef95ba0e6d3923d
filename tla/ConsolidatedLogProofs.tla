------------------------- MODULE ConsolidatedLogProofs -------------------------
(***************************************************************************)
(* What the operators of ConsolidatedLog compute, for every log: where the *)
(* records start, which operation a sequence number names, and which       *)
(* blocks are outstanding after an operation.                              *)
(*                                                                         *)
(* The operators are recursive functions.  That they are defined, and what *)
(* holds of them by induction, follows from the pigeonhole principle for   *)
(* finite sets, with a set in the place of the property to be proved: its  *)
(* instances need no operator for a parameter.                             *)
(***************************************************************************)
EXTENDS ConsolidatedLog, FiniteSetTheorems, TLAPS

-------------------------------------------------------------------------------
\* No set of positive numbers goes down from each of its elements: with a set for what is
\* to be proved, this is induction.
LEMMA NoDescent ==
  ASSUME NEW B \in SUBSET (Nat \ {0}), \A k \in B : k - 1 \in B
  PROVE  B = {}
<1> SUFFICES ASSUME NEW m \in B PROVE FALSE
  OBVIOUS
<1> DEFINE C == {k \in B : k <= m}
<1>1. /\ IsFiniteSet(C) /\ Cardinality(C) \in Nat
      /\ IsFiniteSet(C \ {m}) /\ Cardinality(C \ {m}) = Cardinality(C) - 1
  <2>1. IsFiniteSet(1 .. m) /\ C \in SUBSET (1 .. m) /\ m \in C
    <3>1. m \in Nat /\ 1 <= m
      OBVIOUS
    <3>2. IsFiniteSet(1 .. m)
      BY <3>1, FS_Interval
    <3>3. \A k \in C : k \in Nat /\ 1 <= k /\ k <= m
      OBVIOUS
    <3>4. C \subseteq 1 .. m
      <4> HIDE DEF C
      <4> QED BY <3>1, <3>3
    <3> QED
      BY <3>1, <3>2, <3>4
  <2>2. IsFiniteSet(C)
    BY <2>1, FS_Subset
  <2> QED
    BY <2>1, <2>2, FS_RemoveElement, FS_CardinalityType
<1>2. PICK g \in [C -> C \ {m}] : \A k \in C : g[k] = k - 1
  <2> DEFINE h == [k \in C |-> k - 1]
  <2>1. \A k \in C : k \in Nat /\ k <= m /\ k - 1 \in B
    OBVIOUS
  <2>2. \A k \in C : k - 1 \in C \ {m}
    BY <2>1
  <2>3. h \in [C -> C \ {m}] /\ \A k \in C : h[k] = k - 1
    BY <2>2
  <2> QED BY <2>3
<1>3. PICK x, y \in C : x # y /\ g[x] = g[y]
  <2> HIDE DEF C
  <2>1. Cardinality(C \ {m}) < Cardinality(C)
    BY <1>1
  <2> QED
    BY <1>1, <2>1, FS_PigeonHole
<1> QED
  BY <1>2, <1>3

\* With a set for what is to be proved: from 0 up to every number ...
LEMMA Induction ==
  ASSUME NEW P, 0 \in P, \A n \in Nat : n \in P => n + 1 \in P
  PROVE  Nat \subseteq P
<1> DEFINE B == Nat \ P
<1>1. \A k \in B : k # 0 /\ k - 1 \in B
  OBVIOUS
<1>2. B \in SUBSET (Nat \ {0})
  BY <1>1
<1> QED
  BY <1>1, <1>2, NoDescent

\* ... from the lower end of an interval up to its upper end ...
LEMMA IntervalInduction ==
  ASSUME NEW a \in Int, NEW b \in Int, NEW P,
         a \in P, \A k \in a .. b - 1 : k \in P => k + 1 \in P
  PROVE  a .. b \subseteq P
<1> DEFINE Q == {k \in Nat : a + k <= b => a + k \in P}
<1>1. 0 \in Q
  OBVIOUS
<1>2. ASSUME NEW k \in Nat, k \in Q PROVE k + 1 \in Q
  <2>1. SUFFICES ASSUME a + (k + 1) <= b PROVE a + (k + 1) \in P
    OBVIOUS
  <2>2. a + k \in a .. b - 1 /\ a + k \in P /\ (a + k) + 1 = a + (k + 1)
    BY <1>2, <2>1
  <2> QED
    BY <2>2
<1>3. Nat \subseteq Q
  <2> HIDE DEF Q
  <2> QED BY <1>1, <1>2, Induction
<1> SUFFICES ASSUME NEW i \in a .. b PROVE i \in P
  OBVIOUS
<1>4. i - a \in Nat /\ a + (i - a) = i /\ i <= b
  OBVIOUS
<1>5. i - a \in Q
  BY <1>3, <1>4
<1> QED
  BY <1>4, <1>5

\* ... and from its upper end down.
LEMMA DownwardInduction ==
  ASSUME NEW a \in Int, NEW b \in Int, NEW P,
         b \in P, \A k \in a + 1 .. b : k \in P => k - 1 \in P
  PROVE  a .. b \subseteq P
<1> DEFINE Q == {k \in Nat : a <= b - k => b - k \in P}
<1>1. 0 \in Q
  OBVIOUS
<1>2. ASSUME NEW k \in Nat, k \in Q PROVE k + 1 \in Q
  <2>1. SUFFICES ASSUME a <= b - (k + 1) PROVE b - (k + 1) \in P
    OBVIOUS
  <2>2. b - k \in a + 1 .. b /\ b - k \in P /\ (b - k) - 1 = b - (k + 1)
    BY <1>2, <2>1
  <2> QED
    BY <2>2
<1>3. Nat \subseteq Q
  <2> HIDE DEF Q
  <2> QED BY <1>1, <1>2, Induction
<1> SUFFICES ASSUME NEW i \in a .. b PROVE i \in P
  OBVIOUS
<1>4. b - i \in Nat /\ b - (b - i) = i /\ a <= i
  OBVIOUS
<1>5. b - i \in Q
  BY <1>3, <1>4
<1> QED
  BY <1>4, <1>5

\* A set of natural numbers has a least one.
LEMMA LeastNumber ==
  ASSUME NEW S \in SUBSET Nat, S # {}
  PROVE  \E x \in S : \A y \in S : x <= y
<1> DEFINE Q == {k \in Nat : \A y \in S : k <= y}
<1> SUFFICES ASSUME \A x \in S : \E y \in S : y < x PROVE FALSE
  OBVIOUS
<1>1. 0 \in Q
  OBVIOUS
<1>2. ASSUME NEW k \in Nat, k \in Q PROVE k + 1 \in Q
  <2>1. k \notin S
    BY <1>2
  <2>2. ASSUME NEW y \in S PROVE k + 1 <= y
    BY <1>2, <2>1
  <2> QED
    BY <2>2
<1>3. Nat \subseteq Q
  <2> HIDE DEF Q
  <2> QED BY <1>1, <1>2, Induction
<1>4. PICK x \in S : TRUE
  OBVIOUS
<1>5. x + 1 \in Nat /\ x + 1 \in Q
  BY <1>3
<1> QED
  BY <1>5

\* A function given by its first value and a step, from each value to the next.
Unfolds(f, n, T, c, step) ==
  f \in [0 .. n -> T] /\ f[0] = c /\ \A i \in 1 .. n : f[i] = step[i][f[i - 1]]

\* There is one.
LEMMA PrimitiveRecursion ==
  ASSUME NEW n \in Nat, NEW T, NEW c \in T, NEW step \in [1 .. n -> [T -> T]]
  PROVE  \E f : Unfolds(f, n, T, c, step)
<1> DEFINE Good(k, f) == f[0] = c /\ \A i \in 1 .. k : f[i] = step[i][f[i - 1]]
           P == {k \in Nat : k <= n => \E f \in [0 .. k -> T] : Good(k, f)}
<1>1. 0 \in P
  <2>1. [i \in 0 .. 0 |-> c] \in [0 .. 0 -> T] /\ Good(0, [i \in 0 .. 0 |-> c])
    OBVIOUS
  <2> QED
    BY <2>1
<1>2. ASSUME NEW k \in Nat, k \in P, k + 1 <= n
      PROVE  \E f \in [0 .. k + 1 -> T] : Good(k + 1, f)
  <2>1. PICK f \in [0 .. k -> T] : Good(k, f)
    BY <1>2
  <2> DEFINE g == [i \in 0 .. k + 1 |-> IF i = k + 1 THEN step[k + 1][f[k]] ELSE f[i]]
  <2>2. step[k + 1][f[k]] \in T
    BY <1>2
  <2>3. g \in [0 .. k + 1 -> T]
    BY <2>2
  <2>4. g[0] = c
    BY <2>1
  <2>5. ASSUME NEW i \in 1 .. k + 1 PROVE g[i] = step[i][g[i - 1]]
    BY <2>1, <1>2
  <2> QED
    BY <2>3, <2>4, <2>5
<1>3. ASSUME NEW k \in Nat, k \in P PROVE k + 1 \in P
  <2>1. k + 1 \in Nat
    OBVIOUS
  <2>2. CASE k + 1 <= n
    BY <1>2, <1>3, <2>1, <2>2
  <2>3. CASE ~(k + 1 <= n)
    BY <2>1, <2>3
  <2> QED BY <2>2, <2>3
<1>4. Nat \subseteq P
  <2> HIDE DEF P
  <2> QED BY <1>1, <1>3, Induction
<1>5. PICK f \in [0 .. n -> T] : Good(n, f)
  BY <1>4
<1> QED
  BY <1>5 DEF Unfolds

-------------------------------------------------------------------------------
(* The records of a log, and where they are in its file. *)

\* What the kind of a record says of its fields.
LEMMA RecordFields ==
  ASSUME NEW Th, NEW Sz, NEW r \in RecordsOf(Th, Sz)
  PROVE  /\ r.mType \in {"timestamp", "malloc", "free", "realloc"}
         /\ ~IsTimestamp(r) => r.mThreadID \in Th
         /\ Allocates(r) => /\ AllocatedSize(r) \in Sz /\ r.mFreeByOtherThread \in BOOLEAN
                            /\ ~IsTimestamp(r)
         /\ Releases(r) => /\ ReleasedSize(r) \in Sz /\ r.mAllocatedByOtherThread \in BOOLEAN
                           /\ r.mMatchedMalloc \in Nat \ {0}
                           /\ ~IsTimestamp(r)
         /\ ~IsTimestamp(r) => Allocates(r) \/ r.mType = "free"
BY DEF RecordsOf, IsTimestamp, Allocates, Releases, AllocatedSize, ReleasedSize

\* No record is shorter than two units or longer than four.
LEMMA RecordSizes ==
  ASSUME NEW Th, NEW Sz, NEW r \in RecordsOf(Th, Sz)
  PROVE  RecordSize[r.mType] \in 2 .. 4
BY RecordFields DEF RecordSize

\* Every record starts where the one before it ends.
LEMMA RecordStartValues ==
  ASSUME NEW Th, NEW Sz, NEW l \in Seq(RecordsOf(Th, Sz))
  PROVE  /\ RecordStart(l) \in [1 .. Len(l) + 1 -> Nat]
         /\ RecordStart(l)[1] = 0
         /\ \A i \in 1 .. Len(l) :
              RecordStart(l)[i + 1] = RecordStart(l)[i] + RecordSize[l[i].mType]
<1> DEFINE N == Len(l)
           step == [i \in 1 .. N |-> [x \in Nat |-> x + RecordSize[l[i].mType]]]
<1>1. N \in Nat /\ \A i \in 1 .. N : l[i] \in RecordsOf(Th, Sz)
  OBVIOUS
<1>2. \A i \in 1 .. N : RecordSize[l[i].mType] \in Nat
  BY <1>1, RecordSizes
<1>3. step \in [1 .. N -> [Nat -> Nat]]
  BY <1>2
<1>4. \A i \in 1 .. N, x \in Nat : step[i][x] = x + RecordSize[l[i].mType]
  OBVIOUS
<1>5. PICK f \in [0 .. N -> Nat] : f[0] = 0 /\ \A i \in 1 .. N : f[i] = step[i][f[i - 1]]
  <2>1. 0 \in Nat
    OBVIOUS
  <2>2. PICK f : Unfolds(f, N, Nat, 0, step)
    <3> HIDE DEF step, N
    <3> QED BY <1>1, <1>3, <2>1, PrimitiveRecursion
  <2> QED
    BY <2>2 DEF Unfolds
<1> DEFINE g == [i \in 1 .. N + 1 |-> f[i - 1]]
<1>6. g = [i \in 1 .. N + 1 |-> IF i = 1 THEN 0 ELSE g[i - 1] + RecordSize[l[i - 1].mType]]
  <2>1. ASSUME NEW i \in 1 .. N + 1, i # 1 PROVE g[i] = g[i - 1] + RecordSize[l[i - 1].mType]
    <3>0. i \in Int /\ i - 1 \in 1 .. N /\ i - 1 \in 1 .. N + 1 /\ i - 2 \in 0 .. N
          /\ i - 1 - 1 = i - 2
      <4> HIDE DEF g, step
      <4> QED BY <1>1, <2>1
    <3>1. i - 1 \in 1 .. N /\ f[i - 2] \in Nat /\ g[i] = f[i - 1] /\ g[i - 1] = f[i - 2]
      BY <3>0
    <3>2. f[i - 1] = step[i - 1][f[i - 1 - 1]]
      BY <3>1, <1>5
    <3> QED
      BY <3>1, <3>2, <1>4
  <2>2. g[1] = 0
    BY <1>1, <1>5
  <2> QED
    BY <1>1, <2>1, <2>2
<1>7. RecordStart(l) = [i \in 1 .. N + 1 |->
                        IF i = 1 THEN 0 ELSE RecordStart(l)[i - 1] + RecordSize[l[i - 1].mType]]
  <2> HIDE DEF g
  <2> QED BY <1>6 DEF RecordStart
<1> QED
  OBVIOUS

\* A later record starts behind an earlier one.
LEMMA RecordsInOrder ==
  ASSUME NEW Th, NEW Sz, NEW l \in Seq(RecordsOf(Th, Sz)),
         NEW i \in 1 .. Len(l) + 1, NEW j \in i .. Len(l) + 1
  PROVE  RecordStart(l)[i] + 2 * (j - i) <= RecordStart(l)[j]
<1> DEFINE RS == RecordStart(l)
           P == {k \in i .. Len(l) + 1 : RS[i] + 2 * (k - i) <= RS[k]}
<1>0. Len(l) \in Nat /\ \A k \in 1 .. Len(l) : l[k] \in RecordsOf(Th, Sz)
  OBVIOUS
<1>1. /\ RS \in [1 .. Len(l) + 1 -> Nat]
      /\ \A k \in 1 .. Len(l) : RS[k + 1] = RS[k] + RecordSize[l[k].mType]
  BY RecordStartValues
<1>2. i \in P
  BY <1>0, <1>1
<1>3. ASSUME NEW k \in i .. (Len(l) + 1) - 1, k \in P PROVE k + 1 \in P
  <2>1. k \in 1 .. Len(l) /\ k + 1 \in i .. Len(l) + 1
    BY <1>0
  <2>2. RecordSize[l[k].mType] \in 2 .. 4
    BY <2>1, <1>0, RecordSizes
  <2>3. RS[k + 1] = RS[k] + RecordSize[l[k].mType] /\ RS[k] \in Nat /\ RS[i] \in Nat
    BY <2>1, <1>1
  <2>4. RS[i] + 2 * (k - i) <= RS[k]
    BY <1>3
  <2> HIDE DEF RS
  <2>5. RS[i] + 2 * ((k + 1) - i) <= RS[k + 1]
    BY <1>0, <2>1, <2>2, <2>3, <2>4
  <2> QED
    BY <2>1, <2>5
<1>4. i .. Len(l) + 1 \subseteq P
  <2>1. i \in Int /\ Len(l) + 1 \in Int
    BY <1>0
  <2> HIDE DEF P
  <2> QED BY <2>1, <1>2, <1>3, IntervalInduction
<1> QED
  BY <1>4

\* Every unit of the file lies in a record.
LEMMA RecordsCoverFile ==
  ASSUME NEW Th, NEW Sz, NEW l \in Seq(RecordsOf(Th, Sz)),
         NEW u \in Nat, u < FileSize(l)
  PROVE  \E i \in 1 .. Len(l) : RecordStart(l)[i] <= u /\ u < RecordStart(l)[i + 1]
<1> DEFINE RS == RecordStart(l)
           P == {k \in 1 .. Len(l) + 1 : RS[k] <= u}
<1>0. Len(l) \in Nat
  OBVIOUS
<1>1. RS \in [1 .. Len(l) + 1 -> Nat] /\ RS[1] = 0
  BY RecordStartValues
<1> SUFFICES ASSUME \A i \in 1 .. Len(l) : RS[i] <= u => RS[i + 1] <= u PROVE FALSE
  <2> HIDE DEF P
  <2> QED BY <1>0, <1>1
<1>2. 1 \in P
  BY <1>0, <1>1
<1>3. ASSUME NEW k \in 1 .. (Len(l) + 1) - 1, k \in P PROVE k + 1 \in P
  BY <1>0, <1>3
<1>4. 1 .. Len(l) + 1 \subseteq P
  <2>1. 1 \in Int /\ Len(l) + 1 \in Int
    BY <1>0
  <2> HIDE DEF P
  <2> QED BY <2>1, <1>2, <1>3, IntervalInduction
<1>5. RS[Len(l) + 1] <= u
  BY <1>0, <1>4
<1> QED
  BY <1>0, <1>1, <1>5 DEF FileSize

-------------------------------------------------------------------------------
(* The operations of a log. *)

\* A record of the log is one operation more, unless it is a timestamp.
LEMMA OperationsUpToValues ==
  ASSUME NEW Th, NEW Sz, NEW l \in Seq(RecordsOf(Th, Sz))
  PROVE  /\ OperationsUpTo(l) \in [0 .. Len(l) -> Seq(RecordsOf(Th, Sz))]
         /\ OperationsUpTo(l)[0] = <<>>
         /\ \A i \in 1 .. Len(l) : OperationsUpTo(l)[i] =
              IF IsTimestamp(l[i]) THEN OperationsUpTo(l)[i - 1]
              ELSE Append(OperationsUpTo(l)[i - 1], l[i])
<1> DEFINE N == Len(l)
           R == RecordsOf(Th, Sz)
           T == Seq(R)
           step == [i \in 1 .. N |-> [x \in T |-> IF IsTimestamp(l[i]) THEN x ELSE Append(x, l[i])]]
<1>1. N \in Nat /\ \A i \in 1 .. N : l[i] \in R
  OBVIOUS
<1>2. ASSUME NEW i \in 1 .. N, NEW x \in T
      PROVE  (IF IsTimestamp(l[i]) THEN x ELSE Append(x, l[i])) \in T
  <2> HIDE DEF R
  <2> QED BY <1>1
<1>3. step \in [1 .. N -> [T -> T]]
  <2> HIDE DEF N, T
  <2> QED BY <1>2
<1>4. \A i \in 1 .. N, x \in T : step[i][x] = IF IsTimestamp(l[i]) THEN x ELSE Append(x, l[i])
  OBVIOUS
<1>5. PICK f \in [0 .. N -> T] : f[0] = <<>> /\ \A i \in 1 .. N : f[i] = step[i][f[i - 1]]
  <2>1. <<>> \in T
    OBVIOUS
  <2>2. PICK f : Unfolds(f, N, T, <<>>, step)
    <3> HIDE DEF step, N, T
    <3> QED BY <1>1, <1>3, <2>1, PrimitiveRecursion
  <2> QED
    BY <2>2 DEF Unfolds
<1>6. f = [i \in 0 .. N |-> IF i = 0 THEN <<>>
                             ELSE IF IsTimestamp(l[i]) THEN f[i - 1] ELSE Append(f[i - 1], l[i])]
  <2>1. ASSUME NEW i \in 0 .. N, i # 0
        PROVE  f[i] = IF IsTimestamp(l[i]) THEN f[i - 1] ELSE Append(f[i - 1], l[i])
    <3>1. i \in 1 .. N /\ i - 1 \in 0 .. N
      BY <1>1, <2>1
    <3> HIDE DEF N, T, step
    <3> QED
      BY <3>1, <1>4, <1>5
  <2> HIDE DEF N, T, step
  <2> QED
    BY <1>5, <2>1
<1>7. OperationsUpTo(l) =
        [i \in 0 .. N |-> IF i = 0 THEN <<>>
                          ELSE IF IsTimestamp(l[i]) THEN OperationsUpTo(l)[i - 1]
                          ELSE Append(OperationsUpTo(l)[i - 1], l[i])]
  BY <1>6 DEF OperationsUpTo
<1> DEFINE O == OperationsUpTo(l)
           P == {i \in 0 .. N : O[i] \in T}
<1>8. O = [i \in 0 .. N |-> IF i = 0 THEN <<>>
                             ELSE IF IsTimestamp(l[i]) THEN O[i - 1] ELSE Append(O[i - 1], l[i])]
  BY <1>7
<1>9. O[0] = <<>> /\ DOMAIN O = 0 .. N /\ 0 \in 0 .. N /\ O = [i \in 0 .. N |-> O[i]]
  <2>1. 0 \in 0 .. N
    BY <1>1
  <2> HIDE DEF N, O, T, R
  <2>2. O[0] = <<>> /\ DOMAIN O = 0 .. N
    BY <1>8, <2>1
  <2> QED
    BY <1>8, <2>1, <2>2
<1>10. ASSUME NEW i \in 1 .. N
       PROVE  O[i] = IF IsTimestamp(l[i]) THEN O[i - 1] ELSE Append(O[i - 1], l[i])
  <2>1. i \in 0 .. N /\ i # 0
    BY <1>1
  <2> HIDE DEF N, O, T, R
  <2> QED
    BY <1>8, <2>1
<1>11. 0 \in P
  <2>1. <<>> \in T
    OBVIOUS
  <2> HIDE DEF N, T, R, O
  <2> QED BY <1>9, <2>1
<1>12. ASSUME NEW i \in 0 .. N - 1, i \in P PROVE i + 1 \in P
  <2>1. i + 1 \in 1 .. N /\ (i + 1) - 1 = i /\ i + 1 \in 0 .. N
    BY <1>1
  <2> HIDE DEF N, T, O
  <2> QED BY <1>10, <1>12, <2>1, <1>2
<1>13. 0 .. N \subseteq P
  <2>1. 0 \in Int /\ N \in Int
    BY <1>1
  <2> HIDE DEF P, N, O
  <2> QED BY <2>1, <1>11, <1>12, IntervalInduction
<1>14. O \in [0 .. N -> T]
  <2> HIDE DEF N, T, O, R
  <2>1. \A i \in 0 .. N : O[i] \in T
    BY <1>13
  <2> QED
    BY <1>9, <2>1
<1>15. O[0] = <<>>
  BY <1>9
<1>16. \A i \in 1 .. N : O[i] = IF IsTimestamp(l[i]) THEN O[i - 1] ELSE Append(O[i - 1], l[i])
  BY <1>10
<1> QED
  BY <1>14, <1>15, <1>16

\* A longer part of the log continues the operations of a shorter one.
Continues(s, t) == Len(t) <= Len(s) /\ \A n \in 1 .. Len(t) : s[n] = t[n]

\* The operations of a longer part of the log continue those of a shorter.
LEMMA OperationsGrow ==
  ASSUME NEW Th, NEW Sz, NEW l \in Seq(RecordsOf(Th, Sz)),
         NEW i \in 0 .. Len(l), NEW j \in i .. Len(l)
  PROVE  Continues(OperationsUpTo(l)[j], OperationsUpTo(l)[i])
<1> DEFINE O == OperationsUpTo(l)
           P == {k \in i .. Len(l) : /\ Len(O[i]) <= Len(O[k])
                                     /\ \A n \in 1 .. Len(O[i]) : O[k][n] = O[i][n]}
<1>0. /\ Len(l) \in Nat /\ i \in Int /\ Len(l) \in Int
      /\ \A k \in 0 .. Len(l) : O[k] \in Seq(RecordsOf(Th, Sz))
      /\ \A k \in 1 .. Len(l) : l[k] \in RecordsOf(Th, Sz)
      /\ \A k \in 1 .. Len(l) :
           O[k] = IF IsTimestamp(l[k]) THEN O[k - 1] ELSE Append(O[k - 1], l[k])
  <2>1. Len(l) \in Nat /\ i \in Int /\ Len(l) \in Int
    OBVIOUS
  <2>2. \A k \in 1 .. Len(l) : l[k] \in RecordsOf(Th, Sz)
    OBVIOUS
  <2>3. \A k \in 1 .. Len(l) :
           O[k] = IF IsTimestamp(l[k]) THEN O[k - 1] ELSE Append(O[k - 1], l[k])
    BY OperationsUpToValues
  <2>4. \A k \in 0 .. Len(l) : O[k] \in Seq(RecordsOf(Th, Sz))
    <3>1. O \in [0 .. Len(l) -> Seq(RecordsOf(Th, Sz))]
      BY OperationsUpToValues
    <3> HIDE DEF O
    <3> QED BY <3>1
  <2> QED
    BY <2>1, <2>2, <2>3, <2>4
<1>1. i \in P
  <2> HIDE DEF O
  <2> QED BY <1>0
<1>2. ASSUME NEW k \in i .. Len(l) - 1, k \in P PROVE k + 1 \in P
  <2>1. k + 1 \in 1 .. Len(l) /\ (k + 1) - 1 = k /\ k \in 0 .. Len(l) /\ k + 1 \in i .. Len(l)
    BY <1>0
  <2> HIDE DEF O
  <2>2. /\ O[k + 1] = IF IsTimestamp(l[k + 1]) THEN O[k] ELSE Append(O[k], l[k + 1])
        /\ O[k] \in Seq(RecordsOf(Th, Sz)) /\ O[i] \in Seq(RecordsOf(Th, Sz))
        /\ l[k + 1] \in RecordsOf(Th, Sz)
    BY <1>0, <2>1
  <2>3. CASE IsTimestamp(l[k + 1])
    BY <1>2, <2>1, <2>2, <2>3
  <2>4. CASE ~IsTimestamp(l[k + 1])
    <3> DEFINE x == O[k]
               y == O[i]
               r == l[k + 1]
    <3>1. x \in Seq(RecordsOf(Th, Sz)) /\ y \in Seq(RecordsOf(Th, Sz)) /\ r \in RecordsOf(Th, Sz)
          /\ Len(y) <= Len(x) /\ (\A n \in 1 .. Len(y) : x[n] = y[n])
      BY <1>2, <2>2
    <3> HIDE DEF x, y, r
    <3>2. Len(y) <= Len(Append(x, r)) /\ (\A n \in 1 .. Len(y) : Append(x, r)[n] = y[n])
      BY <3>1
    <3> QED
      BY <2>1, <2>2, <2>4, <3>2 DEF x, y, r
  <2> QED
    BY <2>3, <2>4
<1>3. i .. Len(l) \subseteq P
  <2> HIDE DEF P
  <2> QED BY <1>0, <1>1, <1>2, IntervalInduction
<1> QED
  BY <1>3 DEF Continues

\* The record with sequence number n is the n-th operation.
LEMMA OperationOfRecord ==
  ASSUME NEW Th, NEW Sz, NEW l \in Seq(RecordsOf(Th, Sz)),
         NEW i \in 1 .. Len(l), ~IsTimestamp(l[i])
  PROVE  /\ SeqNo(l, i) = Len(OperationsUpTo(l)[i - 1]) + 1
         /\ SeqNo(l, i) \in 1 .. Len(Operations(l))
         /\ Operations(l)[SeqNo(l, i)] = l[i]
<1> DEFINE O == OperationsUpTo(l)
           x == O[i - 1]
           y == O[Len(l)]
<1>1. /\ x \in Seq(RecordsOf(Th, Sz)) /\ y \in Seq(RecordsOf(Th, Sz))
      /\ O[i] = Append(x, l[i]) /\ l[i] \in RecordsOf(Th, Sz)
  <2>1. O \in [0 .. Len(l) -> Seq(RecordsOf(Th, Sz))] /\ O[i] = Append(O[i - 1], l[i])
    BY OperationsUpToValues
  <2>2. i - 1 \in 0 .. Len(l) /\ Len(l) \in 0 .. Len(l) /\ l[i] \in RecordsOf(Th, Sz)
    OBVIOUS
  <2> HIDE DEF O
  <2> QED BY <2>1, <2>2
<1>2. Continues(y, O[i])
  <2>1. i \in 0 .. Len(l) /\ Len(l) \in i .. Len(l)
    OBVIOUS
  <2> QED
    BY <2>1, OperationsGrow
<1> DEFINE r == l[i]
<1> HIDE DEF x, y, r
<1>3. Len(Append(x, r)) = Len(x) + 1 /\ Append(x, r)[Len(x) + 1] = r /\ Len(x) \in Nat
  BY <1>1 DEF r
<1>4. Len(x) + 1 <= Len(y) /\ y[Len(x) + 1] = r /\ Len(y) \in Nat
  BY <1>1, <1>2, <1>3 DEF r, Continues
<1>5. SeqNo(l, i) = Len(x) + 1
  BY <1>1, <1>3 DEF SeqNo, r
<1>6. Operations(l) = y
  BY DEF Operations, y
<1> QED
  BY <1>3, <1>4, <1>5, <1>6 DEF r, x

\* There are no timestamps among the operations.
LEMMA OperationsAreOperations ==
  ASSUME NEW Th, NEW Sz, NEW l \in Seq(RecordsOf(Th, Sz))
  PROVE  /\ Operations(l) \in Seq(RecordsOf(Th, Sz))
         /\ \A n \in 1 .. Len(Operations(l)) : /\ Operations(l)[n] \in RecordsOf(Th, Sz)
                                              /\ ~IsTimestamp(Operations(l)[n])
<1> DEFINE O == OperationsUpTo(l)
           N == Len(l)
           P == {k \in 0 .. N : \A n \in 1 .. Len(O[k]) : ~IsTimestamp(O[k][n])}
<1>0. N \in Nat /\ 0 \in Int /\ N \in Int /\ \A k \in 1 .. N : l[k] \in RecordsOf(Th, Sz)
  OBVIOUS
<1>1. O[0] = <<>> /\ \A k \in 0 .. N : O[k] \in Seq(RecordsOf(Th, Sz))
  <2>1. O \in [0 .. N -> Seq(RecordsOf(Th, Sz))] /\ O[0] = <<>>
    BY OperationsUpToValues
  <2> HIDE DEF O
  <2> QED BY <2>1
<1>2. \A k \in 1 .. N : O[k] = IF IsTimestamp(l[k]) THEN O[k - 1] ELSE Append(O[k - 1], l[k])
  BY OperationsUpToValues
<1>3. 0 \in P
  <2> HIDE DEF O, N
  <2>1. 0 \in 0 .. N /\ 1 .. Len(O[0]) = {}
    BY <1>0, <1>1
  <2> QED
    BY <2>1
<1>4. ASSUME NEW k \in 0 .. N - 1, k \in P PROVE k + 1 \in P
  <2>1. k + 1 \in 1 .. N /\ (k + 1) - 1 = k /\ k \in 0 .. N /\ k + 1 \in 0 .. N
    BY <1>0
  <2> DEFINE x == O[k]
             r == l[k + 1]
  <2>2. /\ O[k + 1] = IF IsTimestamp(r) THEN x ELSE Append(x, r)
        /\ x \in Seq(RecordsOf(Th, Sz)) /\ r \in RecordsOf(Th, Sz)
        /\ \A n \in 1 .. Len(x) : ~IsTimestamp(x[n])
    <3> HIDE DEF O, N
    <3> QED BY <1>0, <1>1, <1>2, <1>4, <2>1
  <2> HIDE DEF x, r, N, O
  <2>3. ASSUME ~IsTimestamp(r), NEW n \in 1 .. Len(Append(x, r))
        PROVE  ~IsTimestamp(Append(x, r)[n])
    <3>1. Append(x, r)[n] = IF n = Len(x) + 1 THEN r ELSE x[n]
      BY <2>2, <2>3
    <3>2. n \in 1 .. Len(x) \/ n = Len(x) + 1
      BY <2>2, <2>3
    <3> QED
      BY <2>2, <2>3, <3>1, <3>2
  <2>4. \A n \in 1 .. Len(O[k + 1]) : ~IsTimestamp(O[k + 1][n])
    BY <2>2, <2>3
  <2> QED
    BY <2>1, <2>4
<1>5. 0 .. N \subseteq P
  <2> HIDE DEF P, N
  <2> QED BY <1>0, <1>3, <1>4, IntervalInduction
<1>6. N \in P /\ O[N] \in Seq(RecordsOf(Th, Sz))
  <2>1. N \in 0 .. N
    BY <1>0
  <2> HIDE DEF P, O, N
  <2> QED BY <2>1, <1>5, <1>1
<1> DEFINE y == O[N]
<1>7. y \in Seq(RecordsOf(Th, Sz)) /\ \A n \in 1 .. Len(y) : ~IsTimestamp(y[n])
  BY <1>6
<1>8. Operations(l) = y
  BY DEF Operations
<1> HIDE DEF y
<1> QED
  BY <1>7, <1>8

\* An operation takes the block it releases off the outstanding ones and adds its own.
LEMMA OutstandingValues ==
  ASSUME NEW Th, NEW Sz, NEW l \in Seq(RecordsOf(Th, Sz))
  PROVE  LET ops == Operations(l) IN
         /\ Outstanding(l)[0] = {}
         /\ \A n \in 1 .. Len(ops) : Outstanding(l)[n] =
              (Outstanding(l)[n - 1] \ (IF Releases(ops[n]) THEN {ops[n].mMatchedMalloc} ELSE {}))
                \cup (IF Allocates(ops[n]) THEN {n} ELSE {})
<1> DEFINE ops == Operations(l)
           N == Len(ops)
           T == SUBSET Int
           gone(n) == IF Releases(ops[n]) THEN {ops[n].mMatchedMalloc} ELSE {}
           new(n) == IF Allocates(ops[n]) THEN {n} ELSE {}
           step == [n \in 1 .. N |-> [x \in T |-> (x \ gone(n)) \cup new(n)]]
<1>1. N \in Nat
  <2>1. ops \in Seq(RecordsOf(Th, Sz))
    BY OperationsAreOperations
  <2> HIDE DEF ops
  <2> QED BY <2>1
<1> HIDE DEF ops, N
<1>2. \A n \in 1 .. N : new(n) \subseteq Int
  BY <1>1
<1> HIDE DEF gone, new
<1>3. step \in [1 .. N -> [T -> T]]
  BY <1>2
<1>4. \A n \in 1 .. N, x \in T : step[n][x] = (x \ gone(n)) \cup new(n)
  OBVIOUS
<1>5. PICK f \in [0 .. N -> T] : f[0] = {} /\ \A i \in 1 .. N : f[i] = step[i][f[i - 1]]
  <2>1. {} \in T
    OBVIOUS
  <2>2. PICK f : Unfolds(f, N, T, {}, step)
    <3> HIDE DEF step, T
    <3> QED BY <1>1, <1>3, <2>1, PrimitiveRecursion
  <2> QED
    BY <2>2 DEF Unfolds
<1>6. f = [n \in 0 .. N |-> IF n = 0 THEN {} ELSE (f[n - 1] \ gone(n)) \cup new(n)]
  <2>1. ASSUME NEW n \in 0 .. N, n # 0 PROVE f[n] = (f[n - 1] \ gone(n)) \cup new(n)
    <3>1. n \in 1 .. N /\ n - 1 \in 0 .. N
      BY <1>1, <2>1
    <3> HIDE DEF T, step
    <3> QED
      BY <3>1, <1>4, <1>5
  <2> HIDE DEF T, step
  <2> QED
    BY <1>5, <2>1
<1> DEFINE A == Outstanding(l)
<1>7. A = [n \in 0 .. N |-> IF n = 0 THEN {} ELSE (A[n - 1] \ gone(n)) \cup new(n)]
  BY <1>6 DEF Outstanding, gone, new, ops, N
<1>8. A[0] = {}
  <2>1. 0 \in 0 .. N
    BY <1>1
  <2> HIDE DEF A
  <2> QED BY <1>7, <2>1
<1>9. ASSUME NEW n \in 1 .. N PROVE A[n] = (A[n - 1] \ gone(n)) \cup new(n)
  <2>1. n \in 0 .. N /\ n # 0
    BY <1>1
  <2> HIDE DEF A
  <2> QED BY <1>7, <2>1
<1> QED
  BY <1>8, <1>9 DEF gone, new, ops, N

\* In a log whose operations are matched: the blocks outstanding after n operations are
\* those allocated by one of them and not released by one of them.
Unreleased(l, E) ==
  {m \in E : /\ Allocates(Operations(l)[m])
             /\ \A k \in E : Releases(Operations(l)[k]) => Operations(l)[k].mMatchedMalloc # m}

\* The outstanding blocks are those allocated and not released so far.
LEMMA OutstandingUnreleased ==
  ASSUME NEW Th, NEW Sz, NEW l \in Seq(RecordsOf(Th, Sz)), Matched(l),
         NEW n \in 0 .. Len(Operations(l))
  PROVE  Outstanding(l)[n] = Unreleased(l, 1 .. n)
<1> DEFINE ops == Operations(l)
           N == Len(ops)
           A == Outstanding(l)
           old(k) == ops[k].mMatchedMalloc
           U(k) == {m \in 1 .. k : /\ Allocates(ops[m])
                                   /\ \A j \in 1 .. k : Releases(ops[j]) => old(j) # m}
           P == {k \in 0 .. N : A[k] = U(k) /\ \A j \in 1 .. k : Releases(ops[j]) => old(j) \in 1 .. j - 1}
<1>0. N \in Nat /\ 0 \in Int /\ N \in Int
  <2>1. ops \in Seq(RecordsOf(Th, Sz))
    BY OperationsAreOperations
  <2> HIDE DEF ops
  <2> QED BY <2>1
<1>1. A[0] = {} /\ \A k \in 1 .. N : A[k] = (A[k - 1] \ (IF Releases(ops[k]) THEN {old(k)} ELSE {}))
                                          \cup (IF Allocates(ops[k]) THEN {k} ELSE {})
  BY OutstandingValues
<1>2. \A k \in 1 .. N : Releases(ops[k]) => old(k) \in A[k - 1]
  BY DEF Matched
<1> HIDE DEF ops, N, A, old
<1>3. 0 \in P
  BY <1>0, <1>1
<1>4. ASSUME NEW k \in 0 .. N - 1, k \in P PROVE k + 1 \in P
  <2>1. k + 1 \in 1 .. N /\ (k + 1) - 1 = k /\ k \in 0 .. N /\ k + 1 \in 0 .. N
    BY <1>0
  <2>2. /\ A[k + 1] = (A[k] \ (IF Releases(ops[k + 1]) THEN {old(k + 1)} ELSE {}))
                       \cup (IF Allocates(ops[k + 1]) THEN {k + 1} ELSE {})
        /\ Releases(ops[k + 1]) => old(k + 1) \in A[k]
    BY <1>1, <1>2, <2>1
  <2>3. A[k] = U(k)
    BY <1>4
  <2>4. Releases(ops[k + 1]) => old(k + 1) \in 1 .. k
    BY <2>2, <2>3
  <2>5. \A j \in 1 .. k + 1 : j \in 1 .. k \/ j = k + 1
    BY <2>1
  <2>6. \A j \in 1 .. k + 1 : Releases(ops[j]) => old(j) \in 1 .. j - 1
    BY <1>4, <2>1, <2>4, <2>5
  <2>7. \A j \in 1 .. k + 1 : Releases(ops[j]) => old(j) \in Int /\ old(j) < k + 1
    BY <2>6
  <2>8. ASSUME NEW m \in A[k + 1] PROVE m \in U(k + 1)
    <3>1. CASE m = k + 1 /\ Allocates(ops[k + 1])
      BY <2>1, <2>7, <3>1
    <3>2. CASE m \in A[k] /\ (Releases(ops[k + 1]) => old(k + 1) # m)
      <4>1. m \in U(k)
        BY <2>3, <3>2
      <4> QED
        BY <2>1, <2>5, <3>2, <4>1
    <3> QED
      BY <2>2, <3>1, <3>2
  <2>9. ASSUME NEW m \in U(k + 1) PROVE m \in A[k + 1]
    <3>1. m \in 1 .. k => m \in U(k)
      BY <2>1
    <3>2. m \in A[k] \/ m = k + 1
      BY <2>3, <2>5, <3>1
    <3>3. k + 1 \in 1 .. k + 1
      BY <2>1
    <3> QED
      BY <2>2, <3>2, <3>3
  <2>10. A[k + 1] = U(k + 1)
    <3> HIDE DEF U
    <3> QED BY <2>8, <2>9
  <2> QED
    BY <2>1, <2>6, <2>10
<1>5. 0 .. N \subseteq P
  <2> HIDE DEF P, N
  <2> QED BY <1>0, <1>3, <1>4, IntervalInduction
<1>6. n \in P
  BY <1>5 DEF N, ops
<1> QED
  BY <1>6 DEF Unreleased, ops, A, old

\* An operation that releases a block releases one made before, of the size and by the
\* thread it says, and is the only one that does.
LEMMA MatchedOperations ==
  ASSUME NEW Th, NEW Sz, NEW l \in Seq(RecordsOf(Th, Sz)), Matched(l),
         NEW n \in 1 .. Len(Operations(l)), Releases(Operations(l)[n])
  PROVE  LET ops == Operations(l)
             m == ops[n].mMatchedMalloc
         IN  /\ m \in 1 .. n - 1
             /\ Allocates(ops[m])
             /\ ReleasedSize(ops[n]) = AllocatedSize(ops[m])
             /\ ops[n].mAllocatedByOtherThread = (ops[n].mThreadID # ops[m].mThreadID)
             /\ ops[m].mFreeByOtherThread = ops[n].mAllocatedByOtherThread
             /\ \A k \in 1 .. Len(ops) :
                  Releases(ops[k]) /\ ops[k].mMatchedMalloc = m => k = n
<1> DEFINE ops == Operations(l)
           N == Len(ops)
           A == Outstanding(l)
           old(k) == ops[k].mMatchedMalloc
           U(k) == {j \in 1 .. k : /\ Allocates(ops[j])
                                   /\ \A i \in 1 .. k : Releases(ops[i]) => old(i) # j}
<1>0. N \in Nat /\ \A k \in 1 .. N : ops[k] \in RecordsOf(Th, Sz)
  <2>1. ops \in Seq(RecordsOf(Th, Sz))
    BY OperationsAreOperations
  <2> HIDE DEF ops
  <2> QED BY <2>1
<1>1. \A k \in 0 .. N : A[k] = U(k)
  BY OutstandingUnreleased DEF Unreleased
<1>2. \A k \in 1 .. N : Releases(ops[k]) =>
        /\ old(k) \in A[k - 1]
        /\ ReleasedSize(ops[k]) = AllocatedSize(ops[old(k)])
        /\ ops[k].mAllocatedByOtherThread = (ops[k].mThreadID # ops[old(k)].mThreadID)
  BY DEF Matched
<1>3. \A m \in 1 .. N : Allocates(ops[m]) =>
       (ops[m].mFreeByOtherThread <=>
          \E k \in 1 .. N : /\ Releases(ops[k]) /\ old(k) = m
                            /\ ops[k].mThreadID # ops[m].mThreadID)
  BY DEF Matched
<1>4. n \in 1 .. N /\ Releases(ops[n])
  OBVIOUS
<1>5. ops[n].mAllocatedByOtherThread \in BOOLEAN
      /\ \A m \in 1 .. N : Allocates(ops[m]) => ops[m].mFreeByOtherThread \in BOOLEAN
  <2> HIDE DEF ops, N
  <2> QED BY <1>0, <1>4, RecordFields
<1> HIDE DEF ops, N, A, old
<1>6. ASSUME NEW k \in 1 .. N, Releases(ops[k])
      PROVE  old(k) \in 1 .. k - 1 /\ Allocates(ops[old(k)])
             /\ \A i \in 1 .. k - 1 : Releases(ops[i]) => old(i) # old(k)
  <2>1. k - 1 \in 0 .. N /\ old(k) \in A[k - 1]
    BY <1>0, <1>2, <1>6
  <2>2. old(k) \in U(k - 1)
    BY <1>1, <2>1
  <2> QED
    BY <2>2
<1>7. old(n) \in 1 .. n - 1 /\ old(n) \in 1 .. N /\ Allocates(ops[old(n)])
  BY <1>0, <1>4, <1>6
<1>8. ASSUME NEW k \in 1 .. N, Releases(ops[k]), old(k) = old(n) PROVE k = n
  <2>1. CASE k < n
    <3>1. k \in 1 .. n - 1
      BY <1>0, <1>4, <2>1
    <3> QED BY <3>1, <1>4, <1>6, <1>8
  <2>2. CASE n < k
    <3>1. n \in 1 .. k - 1
      BY <1>0, <1>4, <2>2
    <3> QED BY <3>1, <1>4, <1>6, <1>8
  <2> QED
    BY <1>0, <1>4, <2>1, <2>2
<1>9. ops[old(n)].mFreeByOtherThread = ops[n].mAllocatedByOtherThread
  <2>1. ops[n].mAllocatedByOtherThread <=> ops[n].mThreadID # ops[old(n)].mThreadID
    BY <1>2, <1>4
  <2>2. ops[old(n)].mFreeByOtherThread <=>
          \E k \in 1 .. N : /\ Releases(ops[k]) /\ old(k) = old(n)
                            /\ ops[k].mThreadID # ops[old(n)].mThreadID
    BY <1>3, <1>7
  <2>3. ops[old(n)].mFreeByOtherThread <=> ops[n].mAllocatedByOtherThread
    BY <2>1, <2>2, <1>4, <1>8
  <2> QED
    BY <2>3, <1>5, <1>7
<1> QED
  BY <1>2, <1>4, <1>7, <1>8, <1>9 DEF ops, N, old

\* The values of OperationsUpTo, as sequences.
LEMMA OperationsUpToTypes ==
  ASSUME NEW Th, NEW Sz, NEW l \in Seq(RecordsOf(Th, Sz)), NEW i \in 0 .. Len(l)
  PROVE  /\ OperationsUpTo(l)[i] \in Seq(RecordsOf(Th, Sz))
         /\ Len(OperationsUpTo(l)[i]) \in Nat
<1> DEFINE O == OperationsUpTo(l)
           x == O[i]
<1>1. O \in [0 .. Len(l) -> Seq(RecordsOf(Th, Sz))]
  BY OperationsUpToValues
<1>2. x \in Seq(RecordsOf(Th, Sz))
  <2> HIDE DEF O
  <2> QED BY <1>1
<1> HIDE DEF x
<1>3. Len(x) \in Nat
  BY <1>2
<1> QED
  BY <1>2, <1>3 DEF x

\* How many operations there are up to a record.
LEMMA OperationCounts ==
  ASSUME NEW Th, NEW Sz, NEW l \in Seq(RecordsOf(Th, Sz))
  PROVE  /\ Len(OperationsUpTo(l)[0]) = 0
         /\ \A i \in 1 .. Len(l) : Len(OperationsUpTo(l)[i]) =
              IF IsTimestamp(l[i]) THEN Len(OperationsUpTo(l)[i - 1])
              ELSE Len(OperationsUpTo(l)[i - 1]) + 1
<1>1. Len(OperationsUpTo(l)[0]) = 0
  BY OperationsUpToValues
<1>2. ASSUME NEW i \in 1 .. Len(l)
      PROVE  Len(OperationsUpTo(l)[i]) =
               IF IsTimestamp(l[i]) THEN Len(OperationsUpTo(l)[i - 1])
               ELSE Len(OperationsUpTo(l)[i - 1]) + 1
  <2> DEFINE x == OperationsUpTo(l)[i - 1]
             y == OperationsUpTo(l)[i]
             r == l[i]
  <2>1. i - 1 \in 0 .. Len(l) /\ r \in RecordsOf(Th, Sz)
    OBVIOUS
  <2>2. x \in Seq(RecordsOf(Th, Sz)) /\ y = IF IsTimestamp(r) THEN x ELSE Append(x, r)
    BY <2>1, OperationsUpToTypes, OperationsUpToValues
  <2> HIDE DEF x, y, r
  <2>3. Len(y) = IF IsTimestamp(r) THEN Len(x) ELSE Len(x) + 1
    BY <2>1, <2>2
  <2> QED
    BY <2>3 DEF x, y, r
<1> QED
  BY <1>1, <1>2

\* The sequence numbers do not decrease along the log, and increase at an operation.
LEMMA SeqNoGrows ==
  ASSUME NEW Th, NEW Sz, NEW l \in Seq(RecordsOf(Th, Sz)),
         NEW i \in 1 .. Len(l), NEW j \in 1 .. Len(l), i < j
  PROVE  /\ SeqNo(l, i) <= SeqNo(l, j)
         /\ ~IsTimestamp(l[j]) => SeqNo(l, i) < SeqNo(l, j)
<1> DEFINE c(k) == Len(OperationsUpTo(l)[k])
<1>1. c(i) <= c(j - 1) /\ c(j - 1) <= c(j)
  <2>1. i \in 0 .. Len(l) /\ j - 1 \in i .. Len(l) /\ j - 1 \in 0 .. Len(l) /\ j \in j - 1 .. Len(l)
    OBVIOUS
  <2>2. Continues(OperationsUpTo(l)[j - 1], OperationsUpTo(l)[i])
    BY <2>1, OperationsGrow
  <2>3. Continues(OperationsUpTo(l)[j], OperationsUpTo(l)[j - 1])
    BY <2>1, OperationsGrow
  <2> QED
    BY <2>2, <2>3 DEF Continues
<1>2. c(i) \in Nat /\ c(j - 1) \in Nat /\ c(j) \in Nat
  <2>1. i \in 0 .. Len(l) /\ j - 1 \in 0 .. Len(l) /\ j \in 0 .. Len(l)
    OBVIOUS
  <2> QED
    BY <2>1, OperationsUpToTypes
<1>3. ~IsTimestamp(l[j]) => c(j) = c(j - 1) + 1
  BY OperationCounts
<1>4. SeqNo(l, i) = c(i) /\ SeqNo(l, j) = c(j)
  BY DEF SeqNo
<1> HIDE DEF c
<1> QED
  BY <1>1, <1>2, <1>3, <1>4

\* No two operations have the same sequence number.
LEMMA SeqNoTells ==
  ASSUME NEW Th, NEW Sz, NEW l \in Seq(RecordsOf(Th, Sz)),
         NEW i \in 1 .. Len(l), NEW j \in 1 .. Len(l),
         ~IsTimestamp(l[i]), ~IsTimestamp(l[j]), SeqNo(l, i) = SeqNo(l, j)
  PROVE  i = j
<1>1. SeqNo(l, i) \in Int
  BY OperationOfRecord
<1>2. CASE i < j
  BY <1>1, <1>2, SeqNoGrows
<1>3. CASE j < i
  BY <1>1, <1>3, SeqNoGrows
<1> QED
  BY <1>2, <1>3

\* Every operation is a record of the log.
LEMMA RecordOfOperation ==
  ASSUME NEW Th, NEW Sz, NEW l \in Seq(RecordsOf(Th, Sz)), NEW n \in 1 .. Len(Operations(l))
  PROVE  \E i \in 1 .. Len(l) : ~IsTimestamp(l[i]) /\ SeqNo(l, i) = n
<1> DEFINE c(k) == Len(OperationsUpTo(l)[k])
           N == Len(l)
           P == {k \in 0 .. N : n <= c(k) => \E i \in 1 .. k : ~IsTimestamp(l[i]) /\ c(i) = n}
<1>0. N \in Nat /\ 0 \in Int /\ N \in Int /\ n \in Nat /\ 1 <= n
  <2>1. Len(Operations(l)) \in Nat
    BY OperationsUpToTypes DEF Operations
  <2> HIDE DEF c, P
  <2> QED BY <2>1
<1>1. /\ c(0) = 0
      /\ \A k \in 0 .. N : c(k) \in Nat
      /\ \A k \in 1 .. N : c(k) = IF IsTimestamp(l[k]) THEN c(k - 1) ELSE c(k - 1) + 1
  BY OperationCounts, OperationsUpToTypes
<1>2. c(N) = Len(Operations(l)) /\ \A i : SeqNo(l, i) = c(i)
  BY DEF Operations, SeqNo
<1> HIDE DEF c, N
<1>3. 0 \in P
  BY <1>0, <1>1
<1>4. ASSUME NEW k \in 0 .. N - 1, k \in P PROVE k + 1 \in P
  <2>1. k + 1 \in 1 .. N /\ (k + 1) - 1 = k /\ k \in 0 .. N /\ k + 1 \in 0 .. N
    BY <1>0
  <2>2. c(k + 1) = (IF IsTimestamp(l[k + 1]) THEN c(k) ELSE c(k) + 1) /\ c(k) \in Nat
    BY <1>1, <2>1
  <2> SUFFICES ASSUME n <= c(k + 1)
               PROVE  \E i \in 1 .. k + 1 : ~IsTimestamp(l[i]) /\ c(i) = n
    BY <2>1
  <2>3. CASE n <= c(k)
    BY <1>4, <2>1, <2>3
  <2>4. CASE ~(n <= c(k))
    <3>1. ~IsTimestamp(l[k + 1]) /\ c(k + 1) = n
      BY <1>0, <2>2, <2>4
    <3> QED
      BY <2>1, <3>1
  <2> QED
    BY <2>3, <2>4
<1>5. 0 .. N \subseteq P
  <2> HIDE DEF P
  <2> QED BY <1>0, <1>3, <1>4, IntervalInduction
<1>6. N \in P
  BY <1>0, <1>5
<1> QED
  BY <1>2, <1>6 DEF N

\* What is written behind a log does not change what is in it.
LEMMA AppendedLog ==
  ASSUME NEW Th, NEW Sz, NEW l \in Seq(RecordsOf(Th, Sz)), NEW r \in RecordsOf(Th, Sz)
  PROVE  /\ Append(l, r) \in Seq(RecordsOf(Th, Sz))
         /\ \A i \in 0 .. Len(l) : OperationsUpTo(Append(l, r))[i] = OperationsUpTo(l)[i]
         /\ Operations(Append(l, r)) = IF IsTimestamp(r) THEN Operations(l)
                                       ELSE Append(Operations(l), r)
<1> DEFINE R == RecordsOf(Th, Sz)
           m == Append(l, r)
           N == Len(l)
           O == OperationsUpTo(l)
           Q == OperationsUpTo(m)
           P == {k \in 0 .. N : Q[k] = O[k]}
<1> HIDE DEF R
<1>0. /\ N \in Nat /\ 0 \in Int /\ N \in Int
      /\ m \in Seq(R) /\ Len(m) = N + 1 /\ m[N + 1] = r /\ \A k \in 1 .. N : m[k] = l[k]
  BY DEF R
<1>1. /\ O[0] = <<>>
      /\ \A k \in 1 .. N : O[k] = IF IsTimestamp(l[k]) THEN O[k - 1] ELSE Append(O[k - 1], l[k])
  BY OperationsUpToValues DEF R
<1>2. /\ Q[0] = <<>>
      /\ \A k \in 1 .. N + 1 : Q[k] = IF IsTimestamp(m[k]) THEN Q[k - 1] ELSE Append(Q[k - 1], m[k])
  <2> HIDE DEF m
  <2> QED BY <1>0, OperationsUpToValues DEF R
<1>3. Operations(l) = O[N] /\ Operations(m) = Q[N + 1]
  <2> HIDE DEF m
  <2> QED BY <1>0 DEF Operations
<1> HIDE DEF m, N, O, Q
<1>4. 0 \in P
  BY <1>0, <1>1, <1>2
<1>5. ASSUME NEW k \in 0 .. N - 1, k \in P PROVE k + 1 \in P
  <2>1. k + 1 \in 1 .. N /\ (k + 1) - 1 = k /\ k + 1 \in 1 .. N + 1 /\ k + 1 \in 0 .. N
    BY <1>0
  <2>2. m[k + 1] = l[k + 1] /\ Q[k] = O[k]
    BY <1>0, <1>5, <2>1
  <2> QED
    BY <1>1, <1>2, <2>1, <2>2
<1>6. 0 .. N \subseteq P
  <2> HIDE DEF P
  <2> QED BY <1>0, <1>4, <1>5, IntervalInduction
<1>7. Q[N + 1] = IF IsTimestamp(r) THEN O[N] ELSE Append(O[N], r)
  <2>1. N + 1 \in 1 .. N + 1 /\ (N + 1) - 1 = N /\ N \in P
    BY <1>0, <1>6
  <2> QED
    BY <1>0, <1>2, <2>1
<1>8. m \in Seq(R) /\ (\A i \in 0 .. N : Q[i] = O[i])
      /\ Operations(m) = IF IsTimestamp(r) THEN Operations(l) ELSE Append(Operations(l), r)
  BY <1>0, <1>3, <1>6, <1>7
<1> QED
  BY <1>8 DEF R, m, N, O, Q

\* Two operations that make and release the same block.
SameBlocks(x, y) ==
  /\ Allocates(x) <=> Allocates(y)
  /\ Releases(x) <=> Releases(y)
  /\ Releases(x) => x.mMatchedMalloc = y.mMatchedMalloc

\* What is outstanding depends on the blocks the operations make and release, only.
LEMMA OutstandingAgrees ==
  ASSUME NEW Th, NEW Sz, NEW l \in Seq(RecordsOf(Th, Sz)), NEW m \in Seq(RecordsOf(Th, Sz)),
         NEW n \in Nat, n <= Len(Operations(l)), n <= Len(Operations(m)),
         \A k \in 1 .. n : SameBlocks(Operations(l)[k], Operations(m)[k])
  PROVE  \A k \in 0 .. n : Outstanding(l)[k] = Outstanding(m)[k]
<1> DEFINE x == Operations(l)
           y == Operations(m)
           A == Outstanding(l)
           B == Outstanding(m)
           P == {k \in 0 .. n : A[k] = B[k]}
           gone(o) == IF Releases(o) THEN {o.mMatchedMalloc} ELSE {}
           made(o, k) == IF Allocates(o) THEN {k} ELSE {}
<1>0. /\ Len(x) \in Nat /\ Len(y) \in Nat /\ 0 \in Int /\ n \in Int
      /\ n <= Len(x) /\ n <= Len(y)
  BY OperationsUpToTypes DEF Operations
<1>1. A[0] = {} /\ \A k \in 1 .. Len(x) : A[k] = (A[k - 1] \ gone(x[k])) \cup made(x[k], k)
  BY OutstandingValues
<1>2. B[0] = {} /\ \A k \in 1 .. Len(y) : B[k] = (B[k - 1] \ gone(y[k])) \cup made(y[k], k)
  BY OutstandingValues
<1>3. \A k \in 1 .. n : gone(x[k]) = gone(y[k]) /\ made(x[k], k) = made(y[k], k)
  BY DEF SameBlocks
<1> HIDE DEF x, y, A, B, gone, made
<1>4. 0 \in P
  <2>1. A[0] = B[0] /\ 0 \in 0 .. n
    BY <1>0, <1>1, <1>2
  <2> QED
    BY <2>1
<1>5. ASSUME NEW k \in 0 .. n - 1, k \in P PROVE k + 1 \in P
  <2>1. /\ k + 1 \in 1 .. n /\ (k + 1) - 1 = k /\ k + 1 \in 1 .. Len(x) /\ k + 1 \in 1 .. Len(y)
        /\ k + 1 \in 0 .. n /\ A[k] = B[k]
    BY <1>0, <1>5
  <2> QED
    BY <1>1, <1>2, <1>3, <2>1
<1>6. 0 .. n \subseteq P
  <2> HIDE DEF P
  <2> QED BY <1>0, <1>4, <1>5, IntervalInduction
<1> QED
  BY <1>6 DEF A, B

\* Two logs with time stamps in the same places number their operations alike.
LEMMA SameNumbers ==
  ASSUME NEW Th, NEW Sz, NEW l \in Seq(RecordsOf(Th, Sz)), NEW m \in Seq(RecordsOf(Th, Sz)),
         Len(m) = Len(l), \A k \in 1 .. Len(l) : IsTimestamp(m[k]) <=> IsTimestamp(l[k])
  PROVE  /\ \A k \in 1 .. Len(l) : SeqNo(m, k) = SeqNo(l, k)
         /\ Len(Operations(m)) = Len(Operations(l))
<1> DEFINE N == Len(l)
           c(k) == Len(OperationsUpTo(l)[k])
           d(k) == Len(OperationsUpTo(m)[k])
           P == {k \in 0 .. N : d(k) = c(k)}
<1>0. N \in Nat /\ 0 \in Int /\ N \in Int
  OBVIOUS
<1>1. c(0) = 0 /\ \A k \in 1 .. N : c(k) = IF IsTimestamp(l[k]) THEN c(k - 1) ELSE c(k - 1) + 1
  BY OperationCounts
<1>2. d(0) = 0 /\ \A k \in 1 .. N : d(k) = IF IsTimestamp(m[k]) THEN d(k - 1) ELSE d(k - 1) + 1
  BY OperationCounts
<1>3. \A k \in 1 .. N : IsTimestamp(m[k]) <=> IsTimestamp(l[k])
  OBVIOUS
<1>7. /\ \A k : SeqNo(l, k) = c(k) /\ SeqNo(m, k) = d(k)
      /\ Len(Operations(l)) = c(N) /\ Len(Operations(m)) = d(N)
  BY DEF SeqNo, Operations
<1> HIDE DEF N, c, d
<1>4. 0 \in P
  BY <1>0, <1>1, <1>2
<1>5. ASSUME NEW k \in 0 .. N - 1, k \in P PROVE k + 1 \in P
  <2>1. k + 1 \in 1 .. N /\ (k + 1) - 1 = k /\ k + 1 \in 0 .. N /\ d(k) = c(k)
    BY <1>0, <1>5
  <2> QED
    BY <1>1, <1>2, <1>3, <2>1
<1>6. 0 .. N \subseteq P
  <2> HIDE DEF P
  <2> QED BY <1>0, <1>4, <1>5, IntervalInduction
<1>8. \A k \in 0 .. N : d(k) = c(k)
  BY <1>6
<1> QED
  BY <1>0, <1>7, <1>8 DEF N

\* The operations in a part of the log.
LEMMA PartOfLog ==
  ASSUME NEW Th, NEW Sz, NEW l \in Seq(RecordsOf(Th, Sz)),
         NEW a \in 1 .. Len(l), NEW b \in a - 1 .. Len(l)
  PROVE  Len(Operations(SubSeq(l, a, b))) =
           Len(OperationsUpTo(l)[b]) - Len(OperationsUpTo(l)[a - 1])
<1> DEFINE R == RecordsOf(Th, Sz)
           m == SubSeq(l, a, b)
           N == b - (a - 1)
           c(k) == Len(OperationsUpTo(l)[k])
           d(k) == Len(OperationsUpTo(m)[k])
           P == {k \in 0 .. N : d(k) = c(a - 1 + k) - c(a - 1)}
<1>0. /\ N \in Nat /\ 0 \in Int /\ N \in Int /\ a \in Int /\ b \in Int /\ 1 <= a
      /\ \A k \in 0 .. N : a - 1 + k \in 0 .. Len(l)
      /\ \A k \in 1 .. N : a - 1 + k \in 1 .. Len(l)
  OBVIOUS
<1>1. m \in Seq(R) /\ Len(m) = N /\ \A k \in 1 .. N : m[k] = l[a - 1 + k]
  <2> HIDE DEF R
  <2>1. l \in Seq(R)
    BY DEF R
  <2>2. Len(m) = N /\ (\A k \in 1 .. N : m[k] = l[a - 1 + k])
    <3>1. \A k \in 1 .. N : m[k] = l[k + a - 1] /\ k + a - 1 = a - 1 + k
      BY <2>1
    <3> QED
      BY <2>1, <3>1
  <2>3. \A k \in 1 .. N : l[a - 1 + k] \in R
    BY <1>0, <2>1
  <2>4. m = [k \in 1 .. N |-> l[a - 1 + k]]
    BY <2>1, <2>2
  <2> HIDE DEF m, N
  <2> QED
    BY <1>0, <2>2, <2>3, <2>4
<1>2. /\ \A k \in 0 .. Len(l) : c(k) \in Nat
      /\ \A k \in 1 .. Len(l) : c(k) = IF IsTimestamp(l[k]) THEN c(k - 1) ELSE c(k - 1) + 1
  BY OperationCounts, OperationsUpToTypes
<1> HIDE DEF m
<1>3. d(0) = 0 /\ \A k \in 1 .. N : d(k) = IF IsTimestamp(m[k]) THEN d(k - 1) ELSE d(k - 1) + 1
  BY <1>1, OperationCounts
<1>4. Len(Operations(m)) = d(N) /\ (\A k \in 1 .. N : m[k] = l[a - 1 + k])
  BY <1>1 DEF Operations
<1>9. a - 1 + N = b
  BY <1>0
<1> HIDE DEF c, d, N
<1>5. 0 \in P
  <2>1. a - 1 + 0 = a - 1 /\ c(a - 1) \in Nat /\ 0 \in 0 .. N
    BY <1>0, <1>2
  <2> QED
    BY <1>3, <2>1
<1>6. ASSUME NEW k \in 0 .. N - 1, k \in P PROVE k + 1 \in P
  <2> DEFINE p == a - 1 + k
             q == a - 1 + (k + 1)
  <2>1. /\ k + 1 \in 1 .. N /\ (k + 1) - 1 = k /\ k \in 0 .. N /\ k + 1 \in 0 .. N
        /\ q - 1 = p /\ p \in 0 .. Len(l) /\ q \in 1 .. Len(l) /\ a - 1 \in 0 .. Len(l)
    BY <1>0
  <2>2. m[k + 1] = l[q] /\ d(k) = c(p) - c(a - 1)
    BY <1>4, <1>6, <2>1
  <2>3. d(k + 1) = IF IsTimestamp(l[q]) THEN d(k) ELSE d(k) + 1
    BY <1>3, <2>1, <2>2
  <2> HIDE DEF p, q
  <2>4. c(q) = IF IsTimestamp(l[q]) THEN c(p) ELSE c(p) + 1
    BY <1>2, <2>1
  <2>5. c(p) \in Nat /\ c(a - 1) \in Nat
    BY <1>2, <2>1
  <2>6. d(k + 1) = c(q) - c(a - 1)
    BY <2>2, <2>3, <2>4, <2>5
  <2> QED
    BY <2>1, <2>6 DEF q
<1>7. 0 .. N \subseteq P
  <2> HIDE DEF P
  <2> QED BY <1>0, <1>5, <1>6, IntervalInduction
<1>8. N \in P
  BY <1>0, <1>7
<1> QED
  BY <1>4, <1>8, <1>9 DEF m, c

\* What is outstanding has been made by one of the operations.
LEMMA OutstandingMade ==
  ASSUME NEW Th, NEW Sz, NEW l \in Seq(RecordsOf(Th, Sz))
  PROVE  \A n \in 0 .. Len(Operations(l)) : Outstanding(l)[n] \subseteq 1 .. n
<1> DEFINE x == Operations(l)
           N == Len(x)
           A == Outstanding(l)
           P == {k \in 0 .. N : A[k] \subseteq 1 .. k}
<1>0. N \in Nat /\ 0 \in Int /\ N \in Int
  BY OperationsUpToTypes DEF Operations
<1>1. /\ A[0] = {}
      /\ \A k \in 1 .. N : \A m \in A[k] : m \in A[k - 1] \/ m = k
  BY OutstandingValues
<1> HIDE DEF x, N, A
<1>2. 0 \in P
  BY <1>0, <1>1
<1>3. ASSUME NEW k \in 0 .. N - 1, k \in P PROVE k + 1 \in P
  <2>1. k + 1 \in 1 .. N /\ (k + 1) - 1 = k /\ k + 1 \in 0 .. N /\ k \in Int
    BY <1>0
  <2>2. \A m \in A[k + 1] : m \in 1 .. k \/ m = k + 1
    BY <1>1, <1>3, <2>1
  <2>3. A[k + 1] \subseteq 1 .. k + 1
    BY <2>1, <2>2
  <2> QED
    BY <2>1, <2>3
<1>4. 0 .. N \subseteq P
  <2> HIDE DEF P
  <2> QED BY <1>0, <1>2, <1>3, IntervalInduction
<1> QED
  BY <1>4 DEF N, A, x

\* An allocation with the mark that another thread releases it.
Marked(r) == [r EXCEPT !.mFreeByOtherThread = TRUE]

\* The mark leaves the rest of the record alone.
LEMMA MarkedRecord ==
  ASSUME NEW Th, NEW Sz, NEW r \in RecordsOf(Th, Sz), Allocates(r)
  PROVE  /\ Marked(r) \in RecordsOf(Th, Sz)
         /\ SameBlocks(r, Marked(r)) /\ SameBlocks(Marked(r), r)
         /\ Marked(r).mFreeByOtherThread = TRUE
         /\ Marked(r).mThreadID = r.mThreadID
         /\ AllocatedSize(Marked(r)) = AllocatedSize(r)
         /\ ~IsTimestamp(r) /\ ~IsTimestamp(Marked(r))
         /\ Releases(r) => /\ ReleasedSize(Marked(r)) = ReleasedSize(r)
                           /\ Marked(r).mAllocatedByOtherThread = r.mAllocatedByOtherThread
                           /\ Marked(r).mMatchedMalloc = r.mMatchedMalloc
BY DEF RecordsOf, Marked, SameBlocks, IsTimestamp, Allocates, Releases, AllocatedSize, ReleasedSize

WithMark(l, c) == [l EXCEPT ![c].mFreeByOtherThread = TRUE]

\* Marking an allocation changes that operation, only.
LEMMA MarkedLog ==
  ASSUME NEW Th, NEW Sz, NEW l \in Seq(RecordsOf(Th, Sz)), NEW c \in 1 .. Len(l), Allocates(l[c])
  PROVE  LET m == WithMark(l, c) IN
         /\ m \in Seq(RecordsOf(Th, Sz))
         /\ Len(m) = Len(l)
         /\ m[c] = Marked(l[c]) /\ \A k \in 1 .. Len(l) : k # c => m[k] = l[k]
         /\ \A k \in 1 .. Len(l) : SeqNo(m, k) = SeqNo(l, k)
         /\ Len(Operations(m)) = Len(Operations(l))
         /\ \A n \in 1 .. Len(Operations(l)) :
              Operations(m)[n] = IF n = SeqNo(l, c) THEN Marked(Operations(l)[n])
                                 ELSE Operations(l)[n]
<1> DEFINE R == RecordsOf(Th, Sz)
           m == WithMark(l, c)
<1>0. \A k \in 1 .. Len(l) : l[k] \in R
  OBVIOUS
<1>1. Marked(l[c]) \in R /\ ~IsTimestamp(Marked(l[c])) /\ ~IsTimestamp(l[c])
  BY <1>0, MarkedRecord
<1>2. m = [l EXCEPT ![c] = Marked(l[c])]
  BY DEF Marked, WithMark
<1> HIDE DEF m, R
<1>3. /\ m \in Seq(R) /\ Len(m) = Len(l) /\ m[c] = Marked(l[c])
      /\ \A k \in 1 .. Len(l) : k # c => m[k] = l[k]
  <2> DEFINE r == Marked(l[c])
  <2>1. r \in R /\ l \in Seq(R) /\ m = [l EXCEPT ![c] = r]
    BY <1>1, <1>2 DEF R
  <2> HIDE DEF r
  <2>2. m \in Seq(R) /\ Len(m) = Len(l) /\ m[c] = r /\ (\A k \in 1 .. Len(l) : k # c => m[k] = l[k])
    BY <2>1
  <2> QED
    BY <2>2 DEF r
<1>4. \A k \in 1 .. Len(l) : IsTimestamp(m[k]) <=> IsTimestamp(l[k])
  BY <1>1, <1>3
<1>5. /\ \A k \in 1 .. Len(l) : SeqNo(m, k) = SeqNo(l, k)
      /\ Len(Operations(m)) = Len(Operations(l))
  BY <1>3, <1>4, SameNumbers DEF R
<1>6. ASSUME NEW n \in 1 .. Len(Operations(l))
      PROVE  Operations(m)[n] = IF n = SeqNo(l, c) THEN Marked(Operations(l)[n])
                                ELSE Operations(l)[n]
  <2>1. PICK i \in 1 .. Len(l) : ~IsTimestamp(l[i]) /\ SeqNo(l, i) = n
    BY RecordOfOperation
  <2>2. Operations(l)[n] = l[i]
    BY <2>1, OperationOfRecord
  <2>3. Operations(m)[n] = m[i]
    <3>1. i \in 1 .. Len(m) /\ ~IsTimestamp(m[i]) /\ SeqNo(m, i) = n
      BY <1>3, <1>4, <1>5, <2>1
    <3> QED
      BY <1>3, <3>1, OperationOfRecord DEF R
  <2>4. CASE i = c
    BY <1>3, <2>1, <2>2, <2>3, <2>4
  <2>5. CASE i # c
    <3>1. n # SeqNo(l, c)
      BY <1>1, <2>1, <2>5, SeqNoTells
    <3> QED
      BY <1>3, <2>2, <2>3, <2>5, <3>1
  <2> QED
    BY <2>4, <2>5
<1>7. /\ m \in Seq(RecordsOf(Th, Sz))
      /\ Len(m) = Len(l)
      /\ m[c] = Marked(l[c]) /\ \A k \in 1 .. Len(l) : k # c => m[k] = l[k]
      /\ \A k \in 1 .. Len(l) : SeqNo(m, k) = SeqNo(l, k)
      /\ Len(Operations(m)) = Len(Operations(l))
      /\ \A n \in 1 .. Len(Operations(l)) :
           Operations(m)[n] = IF n = SeqNo(l, c) THEN Marked(Operations(l)[n])
                              ELSE Operations(l)[n]
  BY <1>3, <1>5, <1>6 DEF R
<1> QED
  BY <1>7 DEF m
================================================================================
