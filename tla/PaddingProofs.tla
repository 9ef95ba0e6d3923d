---------------------------- MODULE PaddingProofs ----------------------------
(***************************************************************************)
(* Theorems about the padding routines, for every set of threads, raw      *)
(* blocks and request sizes and every limit of the deferral.               *)
(***************************************************************************)
EXTENDS Padding, TLAPS, WellFoundedInduction, SequenceTheorems

-------------------------------------------------------------------------------
(* Numbers *)

\* A set of natural numbers has a least one.
LEMMA LeastNumber ==
  ASSUME NEW T, T \subseteq Nat, T # {}
  PROVE  \E j \in T : \A i \in T : j <= i
<1>1. PICK j \in T : \A i \in T : ~(<<i, j>> \in OpToRel(<, Nat))
  BY NatLessThanWellFounded, WFMin
<1>2. \A i \in T : ~(i < j)
  BY <1>1 DEF OpToRel
<1> QED
  BY <1>2

\* Induction, with a set for what is to be proved.
LEMMA Induction ==
  ASSUME NEW P, 0 \in P, \A n \in Nat : n \in P => n + 1 \in P
  PROVE  Nat \subseteq P
<1> SUFFICES ASSUME Nat \ P # {} PROVE FALSE
  OBVIOUS
<1>1. PICK j \in Nat \ P : \A i \in Nat \ P : j <= i
  BY LeastNumber
<1>2. j # 0 /\ j - 1 \in Nat /\ ~(j <= j - 1) /\ (j - 1) + 1 = j
  BY <1>1
<1> QED
  BY <1>1, <1>2

\* What a remainder differs from its number by.
LEMMA Remainder ==
  ASSUME NEW x \in Int, NEW m \in Nat \ {0}
  PROVE  /\ x % m \in 0 .. (m - 1)
         /\ \E k \in Int : x % m = x + k * m
<1>1. x % m \in 0 .. (m - 1) /\ x \div m \in Int /\ x = m * (x \div m) + (x % m)
  OBVIOUS
<1>2. x % m = x + (-(x \div m)) * m /\ -(x \div m) \in Int
  BY <1>1
<1> QED
  BY <1>1, <1>2

-------------------------------------------------------------------------------
(* The two lists *)

\* The members of a list, by position.
LEMMA MembersOfList ==
  ASSUME NEW S, NEW s \in Seq(S)
  PROVE  /\ Len(s) \in Nat /\ DOMAIN s = 1 .. Len(s)
         /\ Members(s) \subseteq S
         /\ \A i \in 1 .. Len(s) : s[i] \in Members(s)
         /\ \A x \in Members(s) : \E i \in 1 .. Len(s) : s[i] = x
<1>1. Len(s) \in Nat /\ DOMAIN s = 1 .. Len(s) /\ \A i \in 1 .. Len(s) : s[i] \in S
  BY LenProperties, ElementOfSeq
<1> QED
  BY <1>1 DEF Members

\* A block that is linked comes to the members.
LEMMA Linked ==
  ASSUME NEW S, NEW s \in Seq(S), NEW e \in S, IsInjective(s), e \notin Members(s)
  PROVE  /\ <<e>> \o s \in Seq(S)
         /\ IsInjective(<<e>> \o s)
         /\ Members(<<e>> \o s) = Members(s) \cup {e}
<1> DEFINE r == <<e>> \o s
<1>1. /\ r \in Seq(S) /\ Len(r) = Len(s) + 1
      /\ r[1] = e
      /\ \A i \in 1 .. Len(s) : r[i + 1] = s[i]
  OBVIOUS
<1> HIDE DEF r
<1>2. /\ Len(s) \in Nat /\ DOMAIN s = 1 .. Len(s) /\ DOMAIN r = 1 .. Len(r)
      /\ \A i \in 1 .. Len(s) : s[i] # e
  BY <1>1, MembersOfList
<1>3. \A i \in 1 .. Len(r) : i = 1 \/ (i - 1 \in 1 .. Len(s) /\ r[i] = s[i - 1])
  <2> SUFFICES ASSUME NEW i \in 1 .. Len(r), i # 1 PROVE i - 1 \in 1 .. Len(s) /\ r[i] = s[i - 1]
    OBVIOUS
  <2>1. i - 1 \in 1 .. Len(s) /\ (i - 1) + 1 = i
    BY <1>1, <1>2
  <2> QED
    BY <2>1, <1>1
<1>4. IsInjective(r)
  <2> SUFFICES ASSUME NEW i \in 1 .. Len(r), NEW j \in 1 .. Len(r), r[i] = r[j] PROVE i = j
    BY <1>2 DEF IsInjective
  <2>1. CASE i = 1 \/ j = 1
    BY <2>1, <1>1, <1>2, <1>3
  <2>2. CASE i # 1 /\ j # 1
    <3>1. /\ i - 1 \in DOMAIN s /\ j - 1 \in DOMAIN s
          /\ s[i - 1] = s[j - 1]
      BY <2>2, <1>2, <1>3
    <3>2. i - 1 = j - 1
      BY <3>1 DEF IsInjective
    <3> QED
      BY <3>2, <1>2
  <2> QED
    BY <2>1, <2>2
<1>5. Members(r) = Members(s) \cup {e}
  <2>1. ASSUME NEW x \in Members(r) PROVE x \in Members(s) \cup {e}
    <3>1. PICK i \in 1 .. Len(r) : r[i] = x
      BY <1>2 DEF Members
    <3> QED
      BY <3>1, <1>1, <1>2, <1>3 DEF Members
  <2>2. ASSUME NEW x \in Members(s) PROVE x \in Members(r)
    <3>1. PICK i \in 1 .. Len(s) : s[i] = x
      BY <1>2 DEF Members
    <3>2. i + 1 \in DOMAIN r /\ r[i + 1] = x
      BY <3>1, <1>1, <1>2
    <3> QED
      BY <3>2 DEF Members
  <2>3. e \in Members(r)
    <3>1. 1 \in DOMAIN r
      BY <1>1, <1>2
    <3> QED
      BY <3>1, <1>1 DEF Members
  <2> QED
    BY <2>1, <2>2, <2>3
<1> QED
  BY <1>1, <1>4, <1>5 DEF r

\* RemoveFirst, by positions.
LEMMA RemoveFirstAt ==
  ASSUME NEW S, NEW s \in Seq(S), NEW i \in 1 .. Len(s), IsInjective(s)
  PROVE  LET r == RemoveFirst(s, s[i])
         IN  /\ r \in Seq(S) /\ Len(r) = Len(s) - 1
             /\ \A j \in 1 .. Len(s) - 1 : r[j] = IF j < i THEN s[j] ELSE s[j + 1]
<1>0. Len(s) \in Nat /\ DOMAIN s = 1 .. Len(s) /\ \A j \in 1 .. Len(s) : s[j] \in S
  BY LenProperties, ElementOfSeq
<1>1. {j \in 1 .. Len(s) : s[j] = s[i]} = {i}
  BY <1>0 DEF IsInjective
<1>2. Min({i}) = i
  BY <1>0 DEF Min
<1>3. SelectInSeq(s, LAMBDA v : v = s[i]) = i
  BY <1>1, <1>2 DEF SelectInSeq
<1> DEFINE u == SubSeq(s, 1, i - 1)
           v == SubSeq(s, i + 1, Len(s))
<1>4. RemoveFirst(s, s[i]) = u \o v
  <2>1. \E j \in 1 .. Len(s) : s[j] = s[i]
    OBVIOUS
  <2> QED
    BY <2>1, <1>3 DEF RemoveFirst, RemoveAt
<1>5. u \in Seq(S) /\ Len(u) = i - 1 /\ \A j \in 1 .. i - 1 : u[j] = s[j]
  BY <1>0
<1>6. /\ v \in Seq(S) /\ Len(v) = Len(s) - i
      /\ \A j \in 1 .. Len(s) - (i + 1) + 1 : v[j] = s[(i + 1) + j - 1]
  <2>1. /\ i + 1 \in Int /\ Len(s) \in Int
        /\ \A j \in i + 1 .. Len(s) : s[j] \in S
    BY <1>0
  <2>2. /\ v \in Seq(S)
        /\ Len(v) = IF i + 1 <= Len(s) THEN Len(s) - (i + 1) + 1 ELSE 0
        /\ \A j \in 1 .. Len(s) - (i + 1) + 1 : v[j] = s[(i + 1) + j - 1]
    BY <2>1, SubSeqProperties
  <2> HIDE DEF v
  <2>3. ASSUME NEW l, NEW n \in Nat, i \in 1 .. n,
               l = IF i + 1 <= n THEN n - (i + 1) + 1 ELSE 0
        PROVE  l = n - i
    BY <2>3
  <2>4. Len(v) = Len(s) - i
    BY <1>0, <2>2, <2>3
  <2> QED
    BY <2>2, <2>4
<1> HIDE DEF u, v
<1>7. /\ u \o v \in Seq(S) /\ Len(u \o v) = Len(u) + Len(v)
      /\ \A j \in 1 .. Len(u) + Len(v) : (u \o v)[j] = IF j <= Len(u) THEN u[j] ELSE v[j - Len(u)]
  BY <1>5, <1>6, ConcatProperties
<1>8. ASSUME NEW j \in 1 .. Len(s) - 1 PROVE (u \o v)[j] = IF j < i THEN s[j] ELSE s[j + 1]
  <2>0. j \in 1 .. Len(u) + Len(v)
    BY <1>0, <1>5, <1>6
  <2>1. CASE j < i
    <3>1. (u \o v)[j] = u[j] /\ j \in 1 .. i - 1
      BY <2>0, <2>1, <1>0, <1>5, <1>7
    <3> QED
      BY <3>1, <2>1, <1>5
  <2>2. CASE ~(j < i)
    <3>1. ~(j <= Len(u)) /\ j - Len(u) = j - i + 1 /\ j - i + 1 \in 1 .. Len(s) - (i + 1) + 1
          /\ (i + 1) + (j - i + 1) - 1 = j + 1
      BY <2>2, <1>0, <1>5
    <3>2. (u \o v)[j] = v[j - i + 1]
      BY <2>0, <3>1, <1>7
    <3> QED
      BY <3>1, <3>2, <2>2, <1>6
  <2> QED
    BY <2>1, <2>2
<1> QED
  BY <1>0, <1>4, <1>5, <1>6, <1>7, <1>8

\* A block that is unlinked leaves the members.
LEMMA Unlinked ==
  ASSUME NEW S, NEW s \in Seq(S), NEW e, IsInjective(s), e \in Members(s)
  PROVE  /\ RemoveFirst(s, e) \in Seq(S)
         /\ IsInjective(RemoveFirst(s, e))
         /\ Members(RemoveFirst(s, e)) = Members(s) \ {e}
<1>1. PICK i \in 1 .. Len(s) : s[i] = e
  BY MembersOfList
<1> DEFINE r == RemoveFirst(s, e)
<1>2. /\ r \in Seq(S) /\ Len(r) = Len(s) - 1
      /\ \A j \in 1 .. Len(s) - 1 : r[j] = IF j < i THEN s[j] ELSE s[j + 1]
  BY <1>1, RemoveFirstAt
<1> HIDE DEF r
<1>3. /\ Len(s) \in Nat /\ DOMAIN s = 1 .. Len(s) /\ DOMAIN r = 1 .. Len(r)
  BY <1>2, MembersOfList
\* What position j of r holds was at position From(j) of s.
<1> DEFINE From(j) == IF j < i THEN j ELSE j + 1
<1>4. \A j \in 1 .. Len(r) : From(j) \in 1 .. Len(s) /\ From(j) # i /\ r[j] = s[From(j)]
  BY <1>2, <1>3
<1>5. IsInjective(r)
  <2> SUFFICES ASSUME NEW j \in 1 .. Len(r), NEW k \in 1 .. Len(r), r[j] = r[k] PROVE j = k
    BY <1>3 DEF IsInjective
  <2>1. From(j) = From(k)
    <3> HIDE DEF From
    <3> QED
      BY <1>3, <1>4 DEF IsInjective
  <2> QED
    BY <2>1, <1>3
<1>6. \A x \in Members(r) : x \in Members(s) \ {e}
  <2> SUFFICES ASSUME NEW j \in 1 .. Len(r) PROVE r[j] \in Members(s) \ {e}
    BY <1>3 DEF Members
  <2> HIDE DEF From
  <2> QED
    BY <1>1, <1>3, <1>4 DEF Members, IsInjective
<1>7. \A x \in Members(s) \ {e} : x \in Members(r)
  <2> SUFFICES ASSUME NEW j \in 1 .. Len(s), s[j] # e PROVE s[j] \in Members(r)
    BY <1>3 DEF Members
  <2>1. CASE j < i
    <3>1. j \in 1 .. Len(r) /\ From(j) = j
      BY <2>1, <1>2, <1>3
    <3> QED
      BY <3>1, <1>3, <1>4 DEF Members
  <2>2. CASE j > i
    <3>1. j - 1 \in 1 .. Len(r) /\ From(j - 1) = j
      BY <2>2, <1>2, <1>3
    <3> QED
      BY <3>1, <1>3, <1>4 DEF Members
  <2> QED
    BY <2>1, <2>2, <1>1
<1> QED
  BY <1>2, <1>5, <1>6, <1>7 DEF r

\* What is left of a list when its first k members went.
LEMMA Suffix ==
  ASSUME NEW q, NEW r, NEW n \in Nat, NEW k \in 0 .. n,
         DOMAIN q = 1 .. n, IsInjective(q),
         DOMAIN r = 1 .. n - k, \A i \in 1 .. n - k : r[i] = q[k + i]
  PROVE  /\ IsInjective(r)
         /\ \A x : x \in Members(r) <=> x \in Members(q) /\ \A i \in 1 .. k : x # q[i]
<1>1. IsInjective(r)
  <2>1. \A i \in 1 .. n - k : k + i \in 1 .. n
    OBVIOUS
  <2>2. \A i, j \in 1 .. n - k : k + i = k + j => i = j
    OBVIOUS
  <2> QED
    BY <2>1, <2>2 DEF IsInjective
<1>2. ASSUME NEW x \in Members(r) PROVE x \in Members(q) /\ \A i \in 1 .. k : x # q[i]
  <2>1. PICK i \in 1 .. n - k : x = r[i]
    BY DEF Members
  <2>2. k + i \in 1 .. n /\ x = q[k + i] /\ \A j \in 1 .. k : j \in 1 .. n /\ j # k + i
    BY <2>1
  <2> QED
    BY <2>2 DEF Members, IsInjective
<1>3. ASSUME NEW x \in Members(q), \A i \in 1 .. k : x # q[i] PROVE x \in Members(r)
  <2>1. PICK j \in 1 .. n : x = q[j]
    BY DEF Members
  <2>2. j - k \in 1 .. n - k /\ k + (j - k) = j
    BY <2>1, <1>3
  <2>3. r[j - k] = x
    BY <2>1, <2>2
  <2> QED
    BY <2>2, <2>3 DEF Members
<1> QED
  BY <1>1, <1>2, <1>3

\* A block that is queued comes to the members.
LEMMA Appended ==
  ASSUME NEW S, NEW s \in Seq(S), NEW e \in S, IsInjective(s), e \notin Members(s)
  PROVE  /\ Append(s, e) \in Seq(S) /\ Len(Append(s, e)) = Len(s) + 1
         /\ \A i \in 1 .. Len(s) : Append(s, e)[i] = s[i]
         /\ IsInjective(Append(s, e))
         /\ Members(Append(s, e)) = Members(s) \cup {e}
<1> DEFINE q == Append(s, e)
<1>1. /\ q \in Seq(S) /\ Len(q) = Len(s) + 1 /\ q[Len(s) + 1] = e
      /\ \A i \in 1 .. Len(s) : q[i] = s[i]
  BY AppendProperties
<1> HIDE DEF q
<1>2. /\ Len(s) \in Nat /\ DOMAIN s = 1 .. Len(s) /\ DOMAIN q = 1 .. Len(q)
      /\ \A i \in 1 .. Len(s) : s[i] # e
  BY <1>1, MembersOfList
<1>3. \A i \in 1 .. Len(q) : i \in 1 .. Len(s) \/ i = Len(s) + 1
  BY <1>1, <1>2
<1>4. IsInjective(q)
  BY <1>1, <1>2, <1>3 DEF IsInjective
<1>5. Members(q) = Members(s) \cup {e}
  <2>1. \A i \in 1 .. Len(s) : i \in 1 .. Len(q)
    BY <1>1, <1>2
  <2>2. Len(s) + 1 \in 1 .. Len(q)
    BY <1>1, <1>2
  <2> QED
    BY <2>1, <2>2, <1>1, <1>2, <1>3 DEF Members
<1> QED
  BY <1>1, <1>4, <1>5 DEF q

\* The same for SubSeq.
LEMMA SubSeqIsSuffix ==
  ASSUME NEW S, NEW q \in Seq(S), IsInjective(q), NEW k \in Nat, k < Len(q)
  PROVE  LET r == SubSeq(q, k + 1, Len(q))
         IN  /\ r \in Seq(S) /\ IsInjective(r)
             /\ \A x : x \in Members(r) <=> x \in Members(q) /\ \A i \in 1 .. k : x # q[i]
<1> DEFINE r == SubSeq(q, k + 1, Len(q))
<1>1. /\ Len(q) \in Nat /\ DOMAIN q = 1 .. Len(q) /\ k \in 0 .. Len(q)
      /\ k + 1 \in Int /\ k + 1 <= Len(q) /\ Len(q) - (k + 1) + 1 = Len(q) - k
      /\ \A i \in k + 1 .. Len(q) : q[i] \in S
  BY LenProperties, ElementOfSeq
<1>2. /\ r \in Seq(S)
      /\ Len(r) = IF k + 1 <= Len(q) THEN Len(q) - (k + 1) + 1 ELSE 0
      /\ \A i \in 1 .. Len(q) - (k + 1) + 1 : r[i] = q[(k + 1) + i - 1]
  BY <1>1, SubSeqProperties
<1> HIDE DEF r
<1>3. DOMAIN r = 1 .. Len(q) - k
  BY <1>1, <1>2, LenProperties
<1>4. \A i \in 1 .. Len(q) - k : r[i] = q[k + i]
  <2>1. \A i \in 1 .. Len(q) - k : (k + 1) + i - 1 = k + i
    BY <1>1
  <2> QED
    BY <2>1, <1>1, <1>2
<1>5. /\ IsInjective(r)
      /\ \A x : x \in Members(r) <=> x \in Members(q) /\ \A i \in 1 .. k : x # q[i]
  BY <1>1, <1>3, <1>4, Suffix
<1> QED
  BY <1>2, <1>5 DEF r

\* The k oldest blocks of a list.
Oldest(q, k) == {q[i] : i \in 1 .. k}

\* When a block is queued and the k oldest are evicted, the others stay.
LEMMA Queued ==
  ASSUME NEW S, NEW s \in Seq(S), NEW e \in S, IsInjective(s), e \notin Members(s),
         NEW k \in 0 .. Len(s)
  PROVE  LET q == Append(s, e)
             r == SubSeq(q, k + 1, Len(q))
         IN  /\ r \in Seq(S) /\ IsInjective(r)
             /\ Members(r) = (Members(s) \cup {e}) \ Oldest(q, k)
             /\ Oldest(q, k) \subseteq Members(s)
<1> DEFINE q == Append(s, e)
           r == SubSeq(q, k + 1, Len(q))
<1>1. /\ q \in Seq(S) /\ Len(q) = Len(s) + 1 /\ IsInjective(q)
      /\ \A i \in 1 .. Len(s) : q[i] = s[i]
      /\ Members(q) = Members(s) \cup {e}
  BY Appended
<1>2. /\ Len(s) \in Nat /\ DOMAIN s = 1 .. Len(s) /\ k \in Nat /\ k < Len(q)
  BY <1>1, LenProperties
<1>3. Oldest(q, k) \subseteq Members(s)
  <2>1. \A i \in 1 .. k : i \in DOMAIN s /\ q[i] = s[i]
    BY <1>1, <1>2
  <2> QED
    BY <2>1 DEF Members, Oldest
<1> HIDE DEF q
<1>4. /\ r \in Seq(S) /\ IsInjective(r)
      /\ \A x : x \in Members(r) <=> x \in Members(q) /\ \A i \in 1 .. k : x # q[i]
  BY <1>1, <1>2, SubSeqIsSuffix
<1> HIDE DEF r
<1>5. Members(r) = Members(q) \ Oldest(q, k)
  BY <1>4 DEF Oldest
<1> QED
  BY <1>1, <1>3, <1>4, <1>5 DEF q, r

\* The loop of LinkDeferredBlock ends before it takes the last block, and not while the
\* counter is over the limit and there is another.
LEMMA PoppedInRange ==
  ASSUME NEW q, NEW n, NEW last \in Nat, Len(q) - 1 = last
  PROVE  /\ Popped(q, n) \in 0 .. last
         /\ Popped(q, n) = last \/ ~OverLimit(q, n, Popped(q, n))
<1> DEFINE Stop(j) == j = last \/ ~OverLimit(q, n, j)
           T == {j \in 0 .. last : Stop(j)}
<1>1. last \in T /\ T \subseteq Nat
  OBVIOUS
<1> HIDE DEF T
<1>2. PICK j \in T : \A i \in T : j <= i
  BY <1>1, LeastNumber
<1>3. j \in 0 .. last /\ Stop(j) /\ \A i \in 0 .. (j - 1) : ~Stop(i)
  <2>1. j \in 0 .. last /\ Stop(j)
    BY DEF T
  <2>2. \A i \in 0 .. (j - 1) : i \in 0 .. last /\ ~(j <= i)
    BY <2>1
  <2> QED
    BY <2>1, <2>2, <1>2 DEF T
<1>4. /\ j \in 0 .. last
      /\ j = last \/ ~OverLimit(q, n, j)
      /\ \A i \in 0 .. (j - 1) : OverLimit(q, n, i)
  BY <1>3
<1> QED
  BY <1>4 DEF Popped

-------------------------------------------------------------------------------
(* The bytes on a list *)

\* s[j] is the sum of the first j of the n numbers w.
Sums(s, n, w) == s \in [0 .. n -> Nat] /\ s[0] = 0 /\ \A j \in 1 .. n : s[j] = s[j - 1] + w[j]

LEMMA SumsExist ==
  ASSUME NEW n \in Nat, NEW w \in [1 .. n -> Nat]
  PROVE  \E s : Sums(s, n, w)
<1> DEFINE Q == {k \in Nat : k <= n => \E s : Sums(s, k, w)}
<1>1. 0 \in Q
  <2>1. Sums([j \in 0 .. 0 |-> 0], 0, w)
    BY DEF Sums
  <2> QED
    BY <2>1
<1>2. ASSUME NEW k \in Nat, k \in Q PROVE k + 1 \in Q
  <2> SUFFICES ASSUME k + 1 <= n PROVE \E s : Sums(s, k + 1, w)
    OBVIOUS
  <2>1. PICK s : Sums(s, k, w)
    BY <1>2
  <2> DEFINE r == [j \in 0 .. k + 1 |-> IF j = k + 1 THEN s[k] + w[k + 1] ELSE s[j]]
  <2>2. s[k] \in Nat /\ w[k + 1] \in Nat /\ s[0] = 0
    BY <2>1 DEF Sums
  <2>3. r \in [0 .. k + 1 -> Nat] /\ r[0] = 0
    BY <2>1, <2>2 DEF Sums
  <2>4. ASSUME NEW j \in 1 .. k + 1 PROVE r[j] = r[j - 1] + w[j]
    <3>1. CASE j = k + 1
      <4>1. k \in 0 .. k + 1 /\ k # k + 1 /\ k + 1 \in 0 .. k + 1 /\ j - 1 = k
        BY <3>1
      <4> QED
        BY <3>1, <4>1
    <3>2. CASE j # k + 1
      <4>1. j \in 1 .. k /\ j \in 0 .. k + 1 /\ j - 1 \in 0 .. k + 1 /\ j - 1 # k + 1
        BY <3>2
      <4>2. r[j] = s[j] /\ r[j - 1] = s[j - 1]
        BY <3>2, <4>1
      <4> HIDE DEF r
      <4> QED
        BY <4>1, <4>2, <2>1 DEF Sums
    <3> QED
      BY <3>1, <3>2
  <2> HIDE DEF r
  <2>5. Sums(r, k + 1, w)
    BY <2>3, <2>4 DEF Sums
  <2> QED
    BY <2>5
<1>3. Nat \subseteq Q
  <2> HIDE DEF Q
  <2> QED
    BY <1>1, <1>2, Induction
<1> QED
  BY <1>3

\* s has the sums over the n numbers w, and r those over the m of them behind the first k.
SumsOver(n, w, s, k, m, r) ==
  /\ n \in Nat /\ w \in [1 .. n -> Nat] /\ Sums(s, n, w)
  /\ k \in Nat /\ m \in Nat /\ k + m <= n
  /\ \E v : Sums(r, m, v) /\ \A j \in 1 .. m : v[j] = w[k + j]

\* The sums over a part of the numbers are differences of the sums over all.
LEMMA SumsOfPart ==
  ASSUME NEW n, NEW w, NEW s, NEW k, NEW m, NEW r, SumsOver(n, w, s, k, m, r)
  PROVE  s[k + m] = s[k] + r[m]
<1>a. /\ n \in Nat /\ w \in [1 .. n -> Nat] /\ Sums(s, n, w)
      /\ k \in Nat /\ m \in Nat /\ k + m <= n
  BY DEF SumsOver
<1>b. PICK v : Sums(r, m, v) /\ \A j \in 1 .. m : v[j] = w[k + j]
  BY DEF SumsOver
<1> DEFINE Q == {j \in Nat : j <= m => s[k + j] = s[k] + r[j]}
<1>1. 0 \in Q
  <2>1. k \in 0 .. n
    BY <1>a
  <2>2. s[k] \in Nat /\ r[0] = 0 /\ k + 0 = k
    BY <1>a, <1>b, <2>1 DEF Sums
  <2> QED
    BY <2>2
<1>2. ASSUME NEW j \in Nat, j \in Q PROVE j + 1 \in Q
  <2> SUFFICES ASSUME j + 1 <= m PROVE s[k + (j + 1)] = s[k] + r[j + 1]
    OBVIOUS
  <2>1. s[k + j] = s[k] + r[j]
    BY <1>a, <1>2
  <2>2. j + 1 \in 1 .. m /\ k + (j + 1) \in 1 .. n /\ (k + (j + 1)) - 1 = k + j /\ (j + 1) - 1 = j
        /\ k \in 0 .. n /\ j \in 0 .. m
    BY <1>a
  <2>3. s[k + (j + 1)] = s[k + j] + w[k + (j + 1)] /\ r[j + 1] = r[j] + v[j + 1]
    BY <1>a, <1>b, <2>2 DEF Sums
  <2>4. v[j + 1] = w[k + (j + 1)] /\ w[k + (j + 1)] \in Nat
    BY <1>a, <1>b, <2>2
  <2>5. s[k] \in Nat /\ r[j] \in Nat
    BY <1>a, <1>b, <2>2 DEF Sums
  <2> QED
    BY <2>1, <2>3, <2>4, <2>5
<1>3. Nat \subseteq Q
  <2> HIDE DEF Q
  <2> QED
    BY <1>1, <1>2, Induction
<1> QED
  BY <1>3, <1>a

\* Bytes, of any headers.
BytesOf(h, q) ==
  LET upTo[j \in 0 .. Len(q)] == IF j = 0 THEN 0 ELSE upTo[j - 1] + h[q[j]].usize
  IN  upTo[Len(q)]

\* The sizes of the blocks on a list, by position.
UserSizes(h, q) == [j \in 1 .. Len(q) |-> h[q[j]].usize]

\* s has the sums over the list, up to its bytes.
AddUp(s, h, q) == Sums(s, Len(q), UserSizes(h, q)) /\ BytesOf(h, q) = s[Len(q)]

\* The headers h of the blocks B have sizes.
Sized(h, B) == \A b \in B : h[b].usize \in Nat

LEMMA BytesAreSums ==
  ASSUME NEW B, NEW h, NEW q \in Seq(B), Sized(h, B)
  PROVE  /\ UserSizes(h, q) \in [1 .. Len(q) -> Nat]
         /\ \E s : AddUp(s, h, q)
         /\ BytesOf(h, q) \in Nat
<1> DEFINE n == Len(q)
           w == UserSizes(h, q)
<1>1. n \in Nat /\ \A j \in 1 .. n : q[j] \in B
  BY LenProperties, ElementOfSeq
<1>2. w \in [1 .. n -> Nat] /\ \A j \in 1 .. n : w[j] = h[q[j]].usize
  BY <1>1 DEF UserSizes, Sized
<1> DEFINE U(f) == f = [j \in 0 .. n |-> IF j = 0 THEN 0 ELSE f[j - 1] + h[q[j]].usize]
           f0 == CHOOSE f : U(f)
<1>3. \E f : U(f)
  <2>1. PICK s : Sums(s, n, w)
    <3> HIDE DEF w, n
    <3> QED
      BY <1>1, <1>2, SumsExist
  <2>2. ASSUME NEW j \in 0 .. n, j # 0 PROVE s[j] = s[j - 1] + h[q[j]].usize
    <3>1. j \in 1 .. n
      BY <1>1, <2>2
    <3> HIDE DEF n, w
    <3> QED
      BY <3>1, <1>2, <2>1 DEF Sums
  <2>3. s = [j \in 0 .. n |-> s[j]] /\ s[0] = 0
    BY <2>1 DEF Sums
  <2>4. [j \in 0 .. n |-> s[j]] =
          [j \in 0 .. n |-> IF j = 0 THEN 0 ELSE s[j - 1] + h[q[j]].usize]
    BY <2>2, <2>3
  <2>5. U(s)
    BY <2>3, <2>4
  <2> HIDE DEF U
  <2> QED
    BY <2>5
<1>4. U(f0)
  <2> HIDE DEF U
  <2> QED
    BY <1>3
<1>5. BytesOf(h, q) = f0[n]
  BY DEF BytesOf
<1> HIDE DEF f0, n, w
<1>6. f0[0] = 0 /\ \A j \in 1 .. n : f0[j] = f0[j - 1] + h[q[j]].usize
  <2>1. \A j \in 1 .. n : j \in 0 .. n /\ j # 0
    BY <1>1
  <2>2. 0 \in 0 .. n
    BY <1>1
  <2> QED
    BY <1>4, <2>1, <2>2
<1> DEFINE Q == {j \in Nat : j <= n => f0[j] \in Nat}
<1>7. 0 \in Q
  BY <1>6
<1>8. ASSUME NEW j \in Nat, j \in Q PROVE j + 1 \in Q
  <2> SUFFICES ASSUME j + 1 <= n PROVE f0[j + 1] \in Nat
    OBVIOUS
  <2>0. j <= n
    BY <1>1 DEF n
  <2>1. j + 1 \in 1 .. n /\ (j + 1) - 1 = j /\ f0[j] \in Nat
    BY <1>1, <1>8, <2>0 DEF n
  <2>2. f0[j + 1] = f0[j] + w[j + 1] /\ w[j + 1] \in Nat
    BY <2>1, <1>2, <1>6
  <2> QED
    BY <2>1, <2>2
<1>9. Nat \subseteq Q
  <2> HIDE DEF Q
  <2> QED
    BY <1>7, <1>8, Induction
<1>10. \A j \in 0 .. n : f0[j] \in Nat
  BY <1>1, <1>9
<1>11. f0 \in [0 .. n -> Nat]
  BY <1>4, <1>10
<1>12. Sums(f0, n, w)
  BY <1>11, <1>6, <1>2 DEF Sums
<1>13. n \in 0 .. n
  BY <1>1
<1>14. AddUp(f0, h, q)
  BY <1>5, <1>12 DEF AddUp, n, w
<1> QED
  BY <1>2, <1>5, <1>10, <1>14, <1>13 DEF n, w

\* q is p followed by r, as far as the headers g of its blocks say what those of h say.
Parts(B, h, q, p, g, r) ==
  /\ q \in Seq(B) /\ p \in Seq(B) /\ r \in Seq(B)
  /\ Sized(h, B) /\ Sized(g, B)
  /\ Len(q) = Len(p) + Len(r)
  /\ \A j \in 1 .. Len(p) : p[j] = q[j]
  /\ \A j \in 1 .. Len(r) : g[r[j]].usize = h[q[Len(p) + j]].usize

\* What the parts have is what the list has.
LEMMA BytesOfParts ==
  ASSUME NEW B, NEW h, NEW q, NEW p, NEW g, NEW r, Parts(B, h, q, p, g, r)
  PROVE  BytesOf(h, q) = BytesOf(h, p) + BytesOf(g, r)
<1>a. /\ q \in Seq(B) /\ p \in Seq(B) /\ r \in Seq(B)
      /\ Sized(h, B) /\ Sized(g, B)
  BY DEF Parts
<1> DEFINE n == Len(q)
           m == Len(r)
           k == Len(p)
           w == UserSizes(h, q)
           v == UserSizes(g, r)
           u == UserSizes(h, p)
<1>1. n \in Nat /\ m \in Nat /\ k \in Nat /\ n = k + m
  BY <1>a, LenProperties DEF Parts
<1>2. w \in [1 .. n -> Nat] /\ u \in [1 .. k -> Nat]
  BY <1>a, BytesAreSums
<1>3. PICK s : AddUp(s, h, q)
  BY <1>a, BytesAreSums
<1>4. PICK t : AddUp(t, g, r)
  BY <1>a, BytesAreSums
<1>5. PICK x : AddUp(x, h, p)
  BY <1>a, BytesAreSums
<1>6. \A j \in 1 .. m : v[j] = w[k + j]
  <2>1. \A j \in 1 .. m : k + j \in 1 .. n
    BY <1>1
  <2> QED
    BY <2>1 DEF UserSizes, Parts
<1>7. \A j \in 1 .. k : u[j] = w[0 + j]
  <2>1. \A j \in 1 .. k : 0 + j = j /\ j \in 1 .. n
    BY <1>1
  <2> QED
    BY <2>1 DEF UserSizes, Parts
<1> HIDE DEF n, m, k, u, v, w
<1>8. k + m = n /\ 0 + k <= n /\ k + m <= n /\ 0 \in Nat
  BY <1>1
<1>9. /\ Sums(s, n, w) /\ BytesOf(h, q) = s[n]
      /\ Sums(t, m, v) /\ BytesOf(g, r) = t[m]
      /\ Sums(x, k, u) /\ BytesOf(h, p) = x[k]
  BY <1>3, <1>4, <1>5 DEF AddUp, n, m, k, w, v, u
<1>10. SumsOver(n, w, s, k, m, t)
  BY <1>1, <1>2, <1>6, <1>8, <1>9 DEF SumsOver
<1>11. SumsOver(n, w, s, 0, k, x)
  BY <1>1, <1>2, <1>7, <1>8, <1>9 DEF SumsOver
<1>12. s[0] = 0 /\ x[k] \in Nat /\ 0 + k = k
  BY <1>1, <1>9 DEF Sums
<1>13. s[k + m] = s[k] + t[m] /\ s[0 + k] = s[0] + x[k]
  BY <1>10, <1>11, SumsOfPart
<1> QED
  BY <1>8, <1>9, <1>12, <1>13

\* No block, no bytes.
LEMMA BytesOfNone ==
  ASSUME NEW B, NEW h, Sized(h, B)
  PROVE  BytesOf(h, <<>>) = 0
<1> DEFINE none == <<>>
<1>1. none \in Seq(B) /\ Len(none) = 0
  OBVIOUS
<1> HIDE DEF none
<1>2. PICK s : AddUp(s, h, none)
  BY <1>1, BytesAreSums
<1>3. BytesOf(h, none) = 0
  BY <1>1, <1>2 DEF AddUp, Sums
<1> QED
  BY <1>3 DEF none

\* One block has the bytes its header says.
LEMMA BytesOfOne ==
  ASSUME NEW B, NEW h, NEW b \in B, Sized(h, B)
  PROVE  BytesOf(h, <<b>>) = h[b].usize
<1> DEFINE one == <<b>>
<1>1. one \in Seq(B) /\ Len(one) = 1 /\ one[1] = b
  OBVIOUS
<1> HIDE DEF one
<1>2. PICK s : AddUp(s, h, one)
  BY <1>1, BytesAreSums
<1>3. UserSizes(h, one)[1] = h[b].usize /\ h[b].usize \in Nat
  BY <1>1 DEF UserSizes, Sized
<1>4. s[1] = s[0] + h[b].usize /\ s[0] = 0 /\ BytesOf(h, one) = s[1]
  BY <1>1, <1>2, <1>3 DEF AddUp, Sums
<1> QED
  BY <1>3, <1>4 DEF one

\* A queued block adds its bytes.
LEMMA BytesOfQueued ==
  ASSUME NEW B, NEW h, NEW q \in Seq(B), NEW b \in B, Sized(h, B)
  PROVE  BytesOf(h, Append(q, b)) = BytesOf(h, q) + h[b].usize
<1> DEFINE r == Append(q, b)
           one == <<b>>
<1>1. /\ r \in Seq(B) /\ Len(r) = Len(q) + 1 /\ r[Len(q) + 1] = b
      /\ \A j \in 1 .. Len(q) : r[j] = q[j]
  BY AppendProperties
<1>2. one \in Seq(B) /\ Len(one) = 1 /\ one[1] = b
  OBVIOUS
<1>3. BytesOf(h, one) = h[b].usize
  BY BytesOfOne
<1> HIDE DEF r, one
<1>4. Parts(B, h, r, q, h, one)
  BY <1>1, <1>2 DEF Parts
<1>5. BytesOf(h, r) = BytesOf(h, q) + BytesOf(h, one)
  BY <1>4, BytesOfParts
<1> QED
  BY <1>3, <1>5 DEF r

\* The bytes are the same when the sizes are.
LEMMA BytesUnchanged ==
  ASSUME NEW B, NEW h, NEW g, NEW q \in Seq(B), Sized(h, B), Sized(g, B),
         \A b \in Members(q) : g[b].usize = h[b].usize
  PROVE  BytesOf(g, q) = BytesOf(h, q)
<1> DEFINE none == <<>>
<1>1. none \in Seq(B) /\ Len(none) = 0 /\ BytesOf(h, none) = 0
  BY BytesOfNone
<1> HIDE DEF none
<1>2. Len(q) \in Nat /\ 0 \in Nat /\ 0 + Len(q) = Len(q) /\ \A j \in 1 .. Len(q) : 0 + j = j
  BY LenProperties
<1>3. /\ \A j \in 1 .. Len(q) : g[q[j]].usize = h[q[0 + j]].usize
      /\ \A j \in 1 .. 0 : none[j] = q[j]
  BY <1>2, MembersOfList
<1>4. Parts(B, h, q, none, g, q)
  BY <1>1, <1>2, <1>3 DEF Parts
<1>5. BytesOf(g, q) \in Nat
  BY BytesAreSums
<1>6. BytesOf(h, q) = BytesOf(h, none) + BytesOf(g, q)
  BY <1>4, BytesOfParts
<1> QED
  BY <1>1, <1>5, <1>6

-------------------------------------------------------------------------------
(* The inductive invariant *)

Sigs == {"accutrak", "DEFERBLK", "FREEBLK!", "other"}
Headers == [sig : Sigs, usize : Sizes \cup {0}, tail : BOOLEAN]

\* At these steps a routine has a block that nobody else has; at those of Listed the block is
\* still on the in-use list.
Working == {"link", "unlink", "defer", "free", "runlink", "realloc"}
Listed == {"unlink", "runlink"}
Labels == Working \cup {"app", "malloc", "default", "size", "misrouted"}

Has(t) == pc[t] \in Working

TypeInv ==
  /\ faults \in FaultSets
  /\ hdr \in [Blocks -> Headers]
  /\ heap \subseteq Blocks
  /\ gBlockHeaderAnchor \in Seq(Blocks)
  /\ gDeferredFreeBlocks \in Seq(Blocks)
  /\ pc \in [Threads -> Labels]
  /\ blk \in [Threads -> Blocks \cup {Null}]
  /\ req \in [Threads -> Sizes \cup {0}]

\* Where the raw blocks are.
PlaceInv ==
  LET deferred == Members(gDeferredFreeBlocks)
  IN  /\ plain \subseteq live
      /\ live \subseteq heap /\ deferred \subseteq heap /\ live \cap deferred = {}
      /\ IsInjective(gDeferredFreeBlocks)
      /\ \A t \in Threads : Has(t) => blk[t] \in heap \ (live \cup deferred)
      /\ \A t, u \in Threads : Has(t) /\ Has(u) /\ blk[t] = blk[u] => t = u
      /\ \A b \in heap \ (live \cup deferred) : \E t \in Threads : Has(t) /\ blk[t] = b

\* The in-use list holds the application's blocks, and those about to be unlinked.
ListInv ==
  LET inUse == Members(gBlockHeaderAnchor)
  IN  /\ IsInjective(gBlockHeaderAnchor)
      /\ \A b \in live \ plain : hdr[b].sig # "FREEBLK!" => b \in inUse
      /\ \A t \in Threads : pc[t] \in Listed => blk[t] \in inUse
      /\ \A b \in inUse : \/ b \in live \ plain /\ hdr[b].sig # "FREEBLK!"
                          \/ \E t \in Threads : pc[t] \in Listed /\ blk[t] = b

\* What the headers say of the blocks in each place.
SignInv ==
  /\ \A b \in plain : hdr[b].sig = "other"
  /\ \A b \in live \ plain :
       \/ hdr[b].sig = "accutrak"
       \/ "underrun" \in faults /\ hdr[b].sig = "other"
       \/ "realloc" \in faults /\ hdr[b].sig = "FREEBLK!"
  /\ \A b \in Members(gDeferredFreeBlocks) : hdr[b].sig = "DEFERBLK"
  /\ \A t \in Threads : pc[t] \in {"link", "unlink", "runlink"} => hdr[blk[t]].sig = "accutrak"
  /\ \A t \in Threads : pc[t] = "realloc" => hdr[blk[t]].sig = "FREEBLK!"

\* Without overruns the magic bytes are in place.
TailInv ==
  "overrun" \notin faults =>
    /\ \A b \in live \ plain : hdr[b].tail
    /\ \A t \in Threads : pc[t] \in {"link", "unlink", "runlink", "realloc"} => hdr[blk[t]].tail

\* How the process ends.
EndInv ==
  /\ process = "running" => \A t \in Threads : pc[t] # "misrouted"
  /\ NoFalseAlarm
  /\ OwnBlocksRecognisedUnlessFailed

PadInv == TypeInv /\ PlaceInv /\ ListInv /\ SignInv /\ TailInv /\ EndInv

-------------------------------------------------------------------------------
(* What single steps do to the headers, the lists and the threads *)

\* A header keeps its type and its magic bytes when it is signed.
LEMMA Signed ==
  ASSUME NEW h \in [Blocks -> Headers], NEW b \in Blocks, NEW sig \in Sigs
  PROVE  LET g == [h EXCEPT ![b].sig = sig]
         IN  /\ g \in [Blocks -> Headers]
             /\ g[b].sig = sig /\ g[b].tail = h[b].tail
             /\ \A c \in Blocks \ {b} : g[c] = h[c]
<1>1. h[b] \in Headers
  OBVIOUS
<1>2. /\ [h[b] EXCEPT !.sig = sig] \in Headers
      /\ [h[b] EXCEPT !.sig = sig].sig = sig /\ [h[b] EXCEPT !.sig = sig].tail = h[b].tail
  BY <1>1 DEF Headers
<1> QED
  BY <1>2

\* An overrun takes the magic bytes and leaves the signature.
LEMMA TailGone ==
  ASSUME NEW h \in [Blocks -> Headers], NEW b \in Blocks
  PROVE  LET g == [h EXCEPT ![b].tail = FALSE]
         IN  /\ g \in [Blocks -> Headers]
             /\ g[b].sig = h[b].sig
             /\ \A c \in Blocks \ {b} : g[c] = h[c]
<1>1. h[b] \in Headers
  OBVIOUS
<1>2. /\ [h[b] EXCEPT !.tail = FALSE] \in Headers
      /\ [h[b] EXCEPT !.tail = FALSE].sig = h[b].sig
  BY <1>1 DEF Headers
<1> QED
  BY <1>2

\* LinkDeferredBlock puts the thread's block on the deferred list and evicts some others,
\* however many they are.
LEMMA Deferred ==
  ASSUME TypeInv, PlaceInv, NEW t \in Threads, LinkDeferred(t)
  PROVE  \E evicted \in SUBSET Members(gDeferredFreeBlocks) :
           /\ hdr' = Resigned(blk[t], evicted)
           /\ heap' = heap \ evicted
           /\ gDeferredFreeBlocks' \in Seq(Blocks) /\ IsInjective(gDeferredFreeBlocks')
           /\ Members(gDeferredFreeBlocks') =
                (Members(gDeferredFreeBlocks) \cup {blk[t]}) \ evicted
<1>1. /\ blk[t] \in Blocks /\ blk[t] \notin Members(gDeferredFreeBlocks)
      /\ gDeferredFreeBlocks \in Seq(Blocks) /\ IsInjective(gDeferredFreeBlocks)
  BY DEF LinkDeferred, TypeInv, PlaceInv, Has, Working
<1>2. CASE gDeferredFreeBlocks = <<>>
  <2>1. hdr' = Resigned(blk[t], {}) /\ heap' = heap /\ gDeferredFreeBlocks' = <<blk[t]>>
    BY <1>2 DEF LinkDeferred
  <2>2. /\ IsInjective(<<blk[t]>>) /\ Members(<<blk[t]>>) = {blk[t]} /\ <<blk[t]>> \in Seq(Blocks)
        /\ Members(gDeferredFreeBlocks) = {}
    BY <1>1, <1>2 DEF IsInjective, Members
  <2> QED
    BY <2>1, <2>2
<1>3. CASE gDeferredFreeBlocks # <<>>
  <2> DEFINE q == Append(gDeferredFreeBlocks, blk[t])
             n == (gTotalDeferred + hdr[blk[t]].usize) % WordSize
             k == Popped(q, n)
             evicted == Oldest(q, k)
  <2>1. /\ hdr' = Resigned(blk[t], evicted)
        /\ heap' = heap \ evicted
        /\ gDeferredFreeBlocks' = SubSeq(q, k + 1, Len(q))
    BY <1>3 DEF LinkDeferred, Oldest
  <2>2. k \in 0 .. Len(gDeferredFreeBlocks)
    <3>1. Len(gDeferredFreeBlocks) \in Nat /\ Len(q) - 1 = Len(gDeferredFreeBlocks)
      BY <1>1
    <3> HIDE DEF q, n
    <3> QED
      BY <3>1, PoppedInRange
  <2>3. \A j \in 0 .. Len(gDeferredFreeBlocks) :
          /\ SubSeq(q, j + 1, Len(q)) \in Seq(Blocks) /\ IsInjective(SubSeq(q, j + 1, Len(q)))
          /\ Members(SubSeq(q, j + 1, Len(q))) =
               (Members(gDeferredFreeBlocks) \cup {blk[t]}) \ Oldest(q, j)
          /\ Oldest(q, j) \subseteq Members(gDeferredFreeBlocks)
    <3> HIDE DEF k, n
    <3> QED
      BY <1>1, Queued
  <2> HIDE DEF q, k, n
  <2>4. /\ gDeferredFreeBlocks' \in Seq(Blocks) /\ IsInjective(gDeferredFreeBlocks')
        /\ Members(gDeferredFreeBlocks') = (Members(gDeferredFreeBlocks) \cup {blk[t]}) \ evicted
        /\ evicted \subseteq Members(gDeferredFreeBlocks)
    BY <2>1, <2>2, <2>3
  <2> QED
    BY <2>1, <2>4
<1> QED
  BY <1>2, <1>3

\* LinkDeferredBlock changes the signatures of the block it queues and of those it evicts only.
LEMMA ResignedHeaders ==
  ASSUME NEW b \in Blocks, NEW evicted \in SUBSET Blocks, b \notin evicted,
         hdr \in [Blocks -> Headers]
  PROVE  LET h == Resigned(b, evicted)
         IN  /\ h \in [Blocks -> Headers]
             /\ h[b].sig = "DEFERBLK"
             /\ \A c \in Blocks : h[c].tail = hdr[c].tail
             /\ \A c \in Blocks \ (evicted \cup {b}) : h[c] = hdr[c]
<1> DEFINE h == Resigned(b, evicted)
<1>1. ASSUME NEW c \in Blocks, NEW sig \in {"FREEBLK!", "DEFERBLK"}
      PROVE  /\ [hdr[c] EXCEPT !.sig = sig] \in Headers
             /\ [hdr[c] EXCEPT !.sig = sig].sig = sig
             /\ [hdr[c] EXCEPT !.sig = sig].tail = hdr[c].tail
  BY DEF Headers, Sigs
<1>2. ASSUME NEW c \in Blocks
      PROVE  h[c] = IF c \in evicted THEN [hdr[c] EXCEPT !.sig = "FREEBLK!"]
                    ELSE IF c = b THEN [hdr[c] EXCEPT !.sig = "DEFERBLK"] ELSE hdr[c]
  BY DEF Resigned
<1>3. h = [c \in Blocks |-> h[c]]
  BY DEF Resigned
<1> HIDE DEF h
<1>4. \A c \in Blocks : h[c] \in Headers
  BY <1>1, <1>2
<1>5. h \in [Blocks -> Headers]
  BY <1>3, <1>4
<1> QED
  BY <1>1, <1>2, <1>5 DEF h

\* ReallocBlockWithPadding and FreeBlockWithPadding work on a block of ours.
LEMMA OursIsNotPlain ==
  ASSUME SignInv, NEW b, hdr[b].sig = "accutrak"
  PROVE  b \notin plain
BY DEF SignInv

\* The application frees blocks it has, or that nobody has.
LEMMA FreeableBlocks ==
  ASSUME TypeInv, PlaceInv, NEW b \in Freeable
  PROVE  /\ b \in Blocks
         /\ hdr[b].sig \in {"accutrak", "other"} => b \in live
BY DEF Freeable, Stale, TypeInv, PlaceInv

-------------------------------------------------------------------------------
(* Every part of the invariant is kept *)

Quiet(t) ==
  \/ CheckAll(t) \/ AllocationFails(t) \/ ReadSize(t)
  \/ \E n \in Sizes : Malloc(t, n) \/ ReallocNull(t, n)
  \/ \E b \in Freeable : FreeDeferred(t, b)

\* A thread of a quiet step has no block before and after it, and moves none.
LEMMA QuietSteps ==
  ASSUME TypeInv, NEW t \in Threads, Quiet(t)
  PROVE  /\ UNCHANGED <<heap, hdr, gBlockHeaderAnchor, gDeferredFreeBlocks, live, plain>>
         /\ \A u \in Threads : pc[u] \in Working \/ pc'[u] \in Working =>
                             pc'[u] = pc[u] /\ blk'[u] = blk[u]
<1>1. UNCHANGED <<heap, hdr, gBlockHeaderAnchor, gDeferredFreeBlocks, live, plain>>
  BY DEF Quiet, CheckAll, AllocationFails, ReadSize, Malloc, ReallocNull, FreeDeferred, listVars
<1>2. \/ UNCHANGED <<pc, blk>>
      \/ /\ pc[t] \in {"app", "default", "malloc", "size"}
         /\ \E l \in {"app", "malloc", "default"} : pc' = [pc EXCEPT ![t] = l]
         /\ blk' = blk \/ blk' = [blk EXCEPT ![t] = Null]
  BY DEF Quiet, CheckAll, AllocationFails, ReadSize, Malloc, ReallocNull, FreeDeferred, Goto,
         Return, localVars
<1> QED
  BY <1>1, <1>2 DEF TypeInv, Working

\* No step leaves the types.
LEMMA StepTypeInv ==
  ASSUME PadInv, [Next]_vars PROVE TypeInv'
<1> USE DEF TypeInv, Labels, Working, Goto, GoOn, Return, listVars, localVars
<1>l. Members(gBlockHeaderAnchor) \subseteq Blocks
  BY MembersOfList DEF PadInv
<1> DEFINE Kept == UNCHANGED <<faults, mMaxDeferFreeBytes>>
<1>0. CASE UNCHANGED vars
  BY <1>0 DEF PadInv, vars
<1>1. ASSUME NEW t \in Threads, Quiet(t), Kept PROVE TypeInv'
  BY <1>1 DEF PadInv, Quiet, CheckAll, AllocationFails, ReadSize, Malloc, ReallocNull, FreeDeferred
<1>2. ASSUME NEW t \in Threads, NEW b \in Freeable, FreeMine(t, b), Kept PROVE TypeInv'
  <2>1. b \in Blocks
    BY FreeableBlocks DEF PadInv
  <2>2. /\ pc' = pc \/ pc' = [pc EXCEPT ![t] = "unlink"]
        /\ blk' = blk \/ blk' = [blk EXCEPT ![t] = b]
        /\ UNCHANGED <<heap, hdr, gBlockHeaderAnchor, gDeferredFreeBlocks, req>>
    BY <1>2 DEF FreeMine
  <2> QED
    BY <1>2, <2>1, <2>2 DEF PadInv
<1>3. ASSUME NEW t \in Threads, NEW b \in Freeable, FreeDefault(t, b), Kept PROVE TypeInv'
  <2>1. b \in Blocks
    BY FreeableBlocks DEF PadInv
  <2>2. /\ heap' \subseteq heap
        /\ pc' = pc \/ pc' = [pc EXCEPT ![t] = "misrouted"]
        /\ blk' = blk \/ blk' = [blk EXCEPT ![t] = b]
        /\ UNCHANGED <<hdr, gBlockHeaderAnchor, gDeferredFreeBlocks, req>>
    BY <1>3 DEF FreeDefault
  <2> QED
    BY <1>3, <2>1, <2>2 DEF PadInv
<1>4. ASSUME NEW t \in Threads, NEW b \in live, NEW n \in Sizes, ReallocMine(t, b, n), Kept
      PROVE  TypeInv'
  <2>1. b \in Blocks
    BY DEF PadInv, PlaceInv
  <2> QED
    BY <1>4, <2>1 DEF PadInv, ReallocMine
<1>5. ASSUME NEW t \in Threads, NEW b \in live, NEW n \in Sizes, ReallocDefault(t, b, n), Kept
      PROVE  TypeInv'
  <2>1. b \in Blocks
    BY DEF PadInv, PlaceInv
  <2>2. CASE b \notin plain
    BY <1>5, <2>1, <2>2 DEF PadInv, ReallocDefault
  <2>3. CASE b \in plain
    <3>1. PICK kept \in SUBSET Blocks :
            /\ heap' = (heap \ {b}) \cup kept
            /\ hdr' = [c \in Blocks |-> IF c \in kept THEN [hdr[c] EXCEPT !.sig = "other"]
                                                      ELSE hdr[c]]
      BY <1>5, <2>3 DEF ReallocDefault
    <3>2. hdr' \in [Blocks -> Headers]
      <4>1. \A c \in Blocks : [hdr[c] EXCEPT !.sig = "other"] \in Headers
        BY DEF PadInv, Headers, Sigs
      <4> QED
        BY <3>1, <4>1 DEF PadInv
    <3> QED
      BY <1>5, <2>3, <3>1, <3>2 DEF PadInv, ReallocDefault
  <2> QED
    BY <2>2, <2>3
<1>6. ASSUME NEW t \in Threads, PaddedBlock(t) \/ Reallocated(t), Kept PROVE TypeInv'
  <2>1. PICK b \in Blocks : /\ hdr' = [hdr EXCEPT ![b] = Header("accutrak", req[t], TRUE)]
                            /\ heap' \subseteq heap \cup {b}
                            /\ pc' = [pc EXCEPT ![t] = "link"]
                            /\ blk' = [blk EXCEPT ![t] = b]
    BY <1>6 DEF PadInv, PlaceInv, Has, PaddedBlock, Reallocated
  <2>2. Header("accutrak", req[t], TRUE) \in Headers
    BY DEF PadInv, Header, Headers, Sigs
  <2> QED
    BY <1>6, <2>1, <2>2 DEF PadInv, PaddedBlock, Reallocated
<1>7. ASSUME NEW t \in Threads, DefaultBlock(t), Kept PROVE TypeInv'
  <2>1. PICK b \in Blocks : heap' = heap \cup {b} /\ hdr' = [hdr EXCEPT ![b].sig = "other"]
    BY <1>7 DEF DefaultBlock, Sign
  <2>2. hdr' \in [Blocks -> Headers]
    BY <2>1, Signed DEF PadInv, Sigs
  <2> QED
    BY <1>7, <2>1, <2>2 DEF PadInv, DefaultBlock
<1>8. ASSUME NEW t \in Threads, Link(t), Kept PROVE TypeInv'
  BY <1>8 DEF PadInv, PlaceInv, Has, Link
<1>9. ASSUME NEW t \in Threads, UnlinkFreed(t), Kept PROVE TypeInv'
  <2>1. RemoveFirst(gBlockHeaderAnchor, blk[t]) \in Seq(Blocks)
    BY <1>9, Unlinked DEF PadInv, ListInv, Listed, UnlinkFreed
  <2> QED
    BY <1>9, <2>1 DEF PadInv, UnlinkFreed
<1>10. ASSUME NEW t \in Threads, UnlinkReallocated(t), Kept PROVE TypeInv'
  <2>1. RemoveFirst(gBlockHeaderAnchor, blk[t]) \in Seq(Blocks)
    BY <1>10, Unlinked DEF PadInv, ListInv, Listed, UnlinkReallocated
  <2>2. blk[t] \in Blocks
    BY <1>10 DEF PadInv, PlaceInv, Has, UnlinkReallocated
  <2>3. hdr' \in [Blocks -> Headers]
    <3>1. hdr' = [hdr EXCEPT ![blk[t]].sig = "FREEBLK!"] /\ "FREEBLK!" \in Sigs
      BY <1>10 DEF UnlinkReallocated, Sign, Sigs
    <3> QED
      BY <2>2, <3>1, Signed DEF PadInv
  <2> QED
    BY <1>10, <2>1, <2>3 DEF PadInv, UnlinkReallocated
<1>11. ASSUME NEW t \in Threads, Free(t), Kept PROVE TypeInv'
  <2>1. blk[t] \in Blocks
    BY <1>11 DEF PadInv, PlaceInv, Has, Free
  <2>2. hdr' \in [Blocks -> Headers]
    <3>1. hdr' = [hdr EXCEPT ![blk[t]].sig = "FREEBLK!"] /\ "FREEBLK!" \in Sigs
      BY <1>11 DEF Free, Sign, Sigs
    <3> QED
      BY <2>1, <3>1, Signed DEF PadInv
  <2> QED
    BY <1>11, <2>2 DEF PadInv, Free
<1>12. ASSUME NEW t \in Threads, LinkDeferred(t), Kept PROVE TypeInv'
  <2>1. blk[t] \in Blocks \ Members(gDeferredFreeBlocks)
    BY <1>12 DEF PadInv, PlaceInv, Has, LinkDeferred
  <2>2. PICK evicted \in SUBSET Members(gDeferredFreeBlocks) :
           /\ hdr' = Resigned(blk[t], evicted) /\ heap' = heap \ evicted
           /\ gDeferredFreeBlocks' \in Seq(Blocks)
    BY <1>12, Deferred DEF PadInv
  <2>3. evicted \in SUBSET Blocks
    BY MembersOfList DEF PadInv
  <2>4. hdr' \in [Blocks -> Headers]
    BY <2>1, <2>2, <2>3, ResignedHeaders DEF PadInv
  <2> QED
    BY <1>12, <2>2, <2>4 DEF PadInv, LinkDeferred
<1>13. ASSUME NEW t \in Threads, ReallocFails(t), Kept PROVE TypeInv'
  BY <1>13 DEF PadInv, ReallocFails
<1>14. ASSUME NEW b \in live \ plain, Overrun(b) \/ Underrun(b), Kept PROVE TypeInv'
  <2>1. b \in Blocks
    BY DEF PadInv, PlaceInv
  <2>2. hdr' \in [Blocks -> Headers]
    <3>1. CASE Overrun(b)
      <4>1. hdr' = [hdr EXCEPT ![b].tail = FALSE]
        BY <3>1 DEF Overrun
      <4> QED
        BY <2>1, <4>1, TailGone DEF PadInv
    <3>2. CASE Underrun(b)
      <4>1. hdr' = [hdr EXCEPT ![b].sig = "other"] /\ "other" \in Sigs
        BY <3>2 DEF Underrun, Sign, Sigs
      <4> QED
        BY <2>1, <4>1, Signed DEF PadInv
    <3> QED
      BY <1>14, <3>1, <3>2
  <2> QED
    BY <1>14, <2>2 DEF PadInv, Overrun, Underrun
<1> QED
  BY <1>0, <1>1, <1>2, <1>3, <1>4, <1>5, <1>6, <1>7, <1>8, <1>9, <1>10, <1>11, <1>12, <1>13, <1>14
  DEF Next, AppStep, EntryStep, MallocStep, FreeStep, ReallocStep, Ended, Quiet

\* A block has one place, and one routine at work on it, after every step.
LEMMA StepPlaceInv ==
  ASSUME PadInv, [Next]_vars PROVE PlaceInv'
<1>i. TypeInv /\ PlaceInv /\ SignInv
  BY DEF PadInv
<1> USE DEF Labels, Working, Has, Goto, GoOn, Return, listVars, localVars
<1>0. CASE UNCHANGED vars
  BY <1>i, <1>0 DEF PlaceInv, vars
<1>1. ASSUME NEW t \in Threads, Quiet(t) PROVE PlaceInv'
  <2>1. /\ UNCHANGED <<heap, gDeferredFreeBlocks, live, plain>>
        /\ \A u \in Threads : (Has(u))' <=> Has(u)
        /\ \A u \in Threads : Has(u) => blk'[u] = blk[u]
    BY <1>i, <1>1, QuietSteps
  <2> HIDE DEF Has
  <2> QED
    BY <1>i, <2>1 DEF PlaceInv
\* A routine takes a block of ours from the application.
<1>m. ASSUME NEW t \in Threads, NEW b \in live \ plain, NEW l \in Working, pc[t] = "app",
             pc' = [pc EXCEPT ![t] = l], blk' = [blk EXCEPT ![t] = b], live' = live \ {b},
             UNCHANGED <<heap, gDeferredFreeBlocks, plain>>
      PROVE  PlaceInv'
  <2>1. /\ (Has(t))' /\ blk'[t] = b /\ ~Has(t)
        /\ \A u \in Threads \ {t} : ((Has(u))' <=> Has(u)) /\ blk'[u] = blk[u]
    BY <1>i, <1>m DEF TypeInv
  <2>2. UNCHANGED <<heap, gDeferredFreeBlocks, plain>> /\ live' = live \ {b} /\ b \in live \ plain
    BY <1>m
  <2> HIDE DEF Has
  <2> QED
    BY <1>i, <2>1, <2>2 DEF PlaceInv
\* Or it has none, before and after its step.
<1>n. ASSUME NEW t \in Threads, NEW b, pc[t] = "app",
             \/ UNCHANGED <<pc, blk>>
             \/ pc' = [pc EXCEPT ![t] = "misrouted"] /\ blk' = [blk EXCEPT ![t] = b]
      PROVE  \A u \in Threads : ((Has(u))' <=> Has(u)) /\ (Has(u) => blk'[u] = blk[u])
  BY <1>i, <1>n DEF TypeInv
<1>2. ASSUME NEW t \in Threads, NEW b \in Freeable, FreeMine(t, b) PROVE PlaceInv'
  <2>1. b \in live /\ b \notin plain
    BY <1>i, <1>2, FreeableBlocks, OursIsNotPlain DEF FreeMine
  <2>2. CASE hdr[b].tail
    <3>1. /\ pc' = [pc EXCEPT ![t] = "unlink"] /\ blk' = [blk EXCEPT ![t] = b]
          /\ live' = live \ {b} /\ UNCHANGED <<heap, gDeferredFreeBlocks, plain>>
          /\ pc[t] = "app"
      BY <1>2, <2>2 DEF FreeMine
    <3> QED
      BY <1>m, <2>1, <3>1
  <2>3. CASE ~hdr[b].tail
    <3>1. UNCHANGED <<heap, gDeferredFreeBlocks, live, plain, pc, blk>>
      BY <1>2, <2>3 DEF FreeMine
    <3> QED
      BY <1>i, <3>1 DEF PlaceInv
  <2> QED
    BY <2>2, <2>3
<1>3. ASSUME NEW t \in Threads, NEW b \in Freeable, FreeDefault(t, b) PROVE PlaceInv'
  <2>1. /\ pc[t] = "app"
        /\ \/ UNCHANGED <<pc, blk>>
           \/ pc' = [pc EXCEPT ![t] = "misrouted"] /\ blk' = [blk EXCEPT ![t] = b]
        /\ UNCHANGED gDeferredFreeBlocks
    BY <1>3 DEF FreeDefault
  <2>2. \A u \in Threads : ((Has(u))' <=> Has(u)) /\ (Has(u) => blk'[u] = blk[u])
    BY <1>n, <2>1
  <2>3. \/ UNCHANGED <<heap, live, plain>>
        \/ /\ b \in plain
           /\ heap' = heap \ {b} /\ live' = live \ {b} /\ plain' = plain \ {b}
    BY <1>3 DEF FreeDefault
  <2> HIDE DEF Has
  <2> QED
    BY <1>i, <2>1, <2>2, <2>3 DEF PlaceInv
<1>4. ASSUME NEW t \in Threads, NEW b \in live, NEW n \in Sizes, ReallocMine(t, b, n)
      PROVE  PlaceInv'
  <2>1. b \notin plain
    BY <1>i, <1>4, OursIsNotPlain DEF ReallocMine
  <2>2. CASE hdr[b].tail
    <3>1. /\ pc' = [pc EXCEPT ![t] = "runlink"] /\ blk' = [blk EXCEPT ![t] = b]
          /\ live' = live \ {b} /\ UNCHANGED <<heap, gDeferredFreeBlocks, plain>>
          /\ pc[t] = "app"
      BY <1>4, <2>2 DEF ReallocMine
    <3> QED
      BY <1>m, <2>1, <3>1
  <2>3. CASE ~hdr[b].tail
    <3>1. UNCHANGED <<heap, gDeferredFreeBlocks, live, plain, pc, blk>>
      BY <1>4, <2>3 DEF ReallocMine
    <3> QED
      BY <1>i, <3>1 DEF PlaceInv
  <2> QED
    BY <2>2, <2>3
<1>5. ASSUME NEW t \in Threads, NEW b \in live, NEW n \in Sizes, ReallocDefault(t, b, n)
      PROVE  PlaceInv'
  <2>1. CASE b \notin plain
    <3>1. /\ pc[t] = "app" /\ pc' = [pc EXCEPT ![t] = "misrouted"] /\ blk' = [blk EXCEPT ![t] = b]
          /\ UNCHANGED <<heap, gDeferredFreeBlocks, live, plain>>
      BY <1>5, <2>1 DEF ReallocDefault
    <3>2. \A u \in Threads : ((Has(u))' <=> Has(u)) /\ (Has(u) => blk'[u] = blk[u])
      BY <1>n, <3>1
    <3> HIDE DEF Has
    <3> QED
      BY <1>i, <3>1, <3>2 DEF PlaceInv
  <2>2. CASE b \in plain
    <3>1. PICK kept : /\ kept \in SUBSET (Blocks \ heap)
                      /\ heap' = (heap \ {b}) \cup kept
                      /\ live' = (live \ {b}) \cup kept
                      /\ plain' = (plain \ {b}) \cup kept
                      /\ UNCHANGED <<pc, blk, gDeferredFreeBlocks>>
      BY <1>5, <2>2 DEF ReallocDefault
    <3> QED
      BY <1>i, <2>2, <3>1 DEF TypeInv, PlaceInv
  <2> QED
    BY <2>1, <2>2
<1>6. ASSUME NEW t \in Threads, PaddedBlock(t) PROVE PlaceInv'
  <2>1. PICK b \in Blocks \ heap :
          heap' = heap \cup {b} /\ pc' = [pc EXCEPT ![t] = "link"] /\ blk' = [blk EXCEPT ![t] = b]
    BY <1>6 DEF PaddedBlock
  <2>2. UNCHANGED <<live, plain, gDeferredFreeBlocks>> /\ pc[t] = "malloc"
    BY <1>6 DEF PaddedBlock
  <2> QED
    BY <1>i, <2>1, <2>2 DEF TypeInv, PlaceInv
<1>6r. ASSUME NEW t \in Threads, Reallocated(t) PROVE PlaceInv'
  <2>1. PICK b \in (Blocks \ heap) \cup {blk[t]} :
          /\ heap' = (heap \ {blk[t]}) \cup {b}
          /\ pc' = [pc EXCEPT ![t] = "link"] /\ blk' = [blk EXCEPT ![t] = b]
    BY <1>6r DEF Reallocated
  <2>2. UNCHANGED <<live, plain, gDeferredFreeBlocks>> /\ pc[t] = "realloc"
    BY <1>6r DEF Reallocated
  <2> QED
    BY <1>i, <2>1, <2>2 DEF TypeInv, PlaceInv
<1>7. ASSUME NEW t \in Threads, DefaultBlock(t) PROVE PlaceInv'
  <2>1. PICK b \in Blocks \ heap :
          heap' = heap \cup {b} /\ live' = live \cup {b} /\ plain' = plain \cup {b}
    BY <1>7 DEF DefaultBlock
  <2> QED
    BY <1>i, <1>7, <2>1 DEF TypeInv, PlaceInv, DefaultBlock
<1>8. ASSUME NEW t \in Threads, Link(t) \/ ReallocFails(t) PROVE PlaceInv'
  <2>1. /\ pc[t] \in Working /\ pc' = [pc EXCEPT ![t] = "app"] /\ blk' = [blk EXCEPT ![t] = Null]
        /\ live' = live \cup {blk[t]} /\ UNCHANGED <<heap, gDeferredFreeBlocks, plain>>
    BY <1>8 DEF Link, ReallocFails
  <2>2. \A u \in Threads : ((Has(u))' <=> Has(u) /\ u # t) /\ (u # t => blk'[u] = blk[u])
    BY <1>i, <2>1 DEF TypeInv
  <2>3. Has(t)
    BY <2>1
  <2> HIDE DEF Has
  <2> QED
    BY <1>i, <2>1, <2>2, <2>3 DEF PlaceInv
<1>9. ASSUME NEW t \in Threads, UnlinkFreed(t) \/ UnlinkReallocated(t) PROVE PlaceInv'
  BY <1>i, <1>9 DEF TypeInv, PlaceInv, UnlinkFreed, UnlinkReallocated
<1>11. ASSUME NEW t \in Threads, Free(t) PROVE PlaceInv'
  BY <1>i, <1>11 DEF TypeInv, PlaceInv, Free
<1>12. ASSUME NEW t \in Threads, LinkDeferred(t) PROVE PlaceInv'
  <2>1. PICK evicted \in SUBSET Members(gDeferredFreeBlocks) :
           /\ heap' = heap \ evicted
           /\ IsInjective(gDeferredFreeBlocks')
           /\ Members(gDeferredFreeBlocks') =
                (Members(gDeferredFreeBlocks) \cup {blk[t]}) \ evicted
    BY <1>i, <1>12, Deferred
  <2>2. /\ pc[t] = "defer" /\ pc' = [pc EXCEPT ![t] = "size"]
        /\ UNCHANGED <<live, plain, blk>>
    BY <1>12 DEF LinkDeferred
  <2> QED
    BY <1>i, <2>1, <2>2 DEF TypeInv, PlaceInv
<1>14. ASSUME NEW b \in live \ plain, Overrun(b) \/ Underrun(b) PROVE PlaceInv'
  BY <1>i, <1>14 DEF PlaceInv, Overrun, Underrun
<1> QED
  BY <1>0, <1>1, <1>2, <1>3, <1>4, <1>5, <1>6, <1>6r, <1>7, <1>8, <1>9, <1>11, <1>12, <1>14
  DEF Next, AppStep, EntryStep, MallocStep, FreeStep, ReallocStep, Ended, Quiet

\* Every step keeps the in-use list in line with what the application has.
LEMMA StepListInv ==
  ASSUME PadInv, [Next]_vars PROVE ListInv'
<1>i. TypeInv /\ PlaceInv /\ ListInv /\ SignInv
  BY DEF PadInv
<1> USE DEF Listed, Goto, GoOn, Return, listVars, localVars
<1>0. CASE UNCHANGED vars
  BY <1>i, <1>0 DEF ListInv, vars
<1>1. ASSUME NEW t \in Threads, Quiet(t) PROVE ListInv'
  <2>1. /\ UNCHANGED <<hdr, gBlockHeaderAnchor, live, plain>>
        /\ \A u \in Threads : pc[u] \in Listed \/ pc'[u] \in Listed =>
                            pc'[u] = pc[u] /\ blk'[u] = blk[u]
    BY <1>i, <1>1, QuietSteps DEF Working
  <2> QED
    BY <1>i, <2>1 DEF ListInv
\* A block of ours goes from the application to a routine that is about to unlink it.
<1>m. ASSUME NEW t \in Threads, NEW b \in live \ plain, NEW l \in Listed,
             hdr[b].sig = "accutrak", pc[t] = "app",
             pc' = [pc EXCEPT ![t] = l], blk' = [blk EXCEPT ![t] = b], live' = live \ {b},
             UNCHANGED <<hdr, gBlockHeaderAnchor, plain>>
      PROVE  ListInv'
  <2>1. /\ pc'[t] \in Listed /\ blk'[t] = b /\ pc[t] \notin Listed
        /\ \A u \in Threads \ {t} : pc'[u] = pc[u] /\ blk'[u] = blk[u]
    BY <1>i, <1>m DEF TypeInv
  <2>2. UNCHANGED <<hdr, gBlockHeaderAnchor>> /\ live' \ plain' = (live \ plain) \ {b}
    BY <1>m
  <2> HIDE DEF Listed
  <2>3. b \in Members(gBlockHeaderAnchor)
    BY <1>i, <1>m DEF ListInv
  <2> QED
    BY <1>i, <2>1, <2>2, <2>3 DEF ListInv
\* A block the library does not know: the lists stay.
<1>n. ASSUME NEW t \in Threads, NEW b, pc[t] = "app",
             pc' = [pc EXCEPT ![t] = "misrouted"], blk' = [blk EXCEPT ![t] = b],
             UNCHANGED <<hdr, gBlockHeaderAnchor, live, plain>>
      PROVE  ListInv'
  <2>1. \A u \in Threads : pc[u] \in Listed \/ pc'[u] \in Listed =>
                            pc'[u] = pc[u] /\ blk'[u] = blk[u]
    BY <1>i, <1>n DEF TypeInv
  <2>2. UNCHANGED <<hdr, gBlockHeaderAnchor, live, plain>>
    BY <1>n
  <2> QED
    BY <1>i, <2>1, <2>2 DEF ListInv
<1>2. ASSUME NEW t \in Threads, NEW b \in Freeable, FreeMine(t, b) PROVE ListInv'
  <2>1. b \in live \ plain
    BY <1>i, <1>2, FreeableBlocks, OursIsNotPlain DEF FreeMine
  <2>2. CASE hdr[b].tail
    <3>1. /\ pc' = [pc EXCEPT ![t] = "unlink"] /\ blk' = [blk EXCEPT ![t] = b]
          /\ live' = live \ {b} /\ UNCHANGED <<hdr, gBlockHeaderAnchor, plain>>
          /\ pc[t] = "app" /\ hdr[b].sig = "accutrak"
      BY <1>2, <2>2 DEF FreeMine
    <3> QED
      BY <1>i, <2>1, <3>1, <1>m
  <2>3. CASE ~hdr[b].tail
    <3>1. UNCHANGED <<hdr, gBlockHeaderAnchor, live, plain, pc, blk>>
      BY <1>2, <2>3 DEF FreeMine
    <3> QED
      BY <1>i, <3>1 DEF ListInv
  <2> QED
    BY <2>2, <2>3
<1>3. ASSUME NEW t \in Threads, NEW b \in Freeable, FreeDefault(t, b) PROVE ListInv'
  <2>1. CASE b \notin plain
    BY <1>3, <2>1, <1>n DEF FreeDefault
  <2>2. CASE b \in plain
    <3>1. /\ live' \ plain' = live \ plain
          /\ UNCHANGED <<hdr, gBlockHeaderAnchor, pc, blk>>
      BY <1>i, <1>3, <2>2 DEF FreeDefault, PlaceInv
    <3> QED
      BY <1>i, <3>1 DEF ListInv
  <2> QED
    BY <2>1, <2>2
<1>4. ASSUME NEW t \in Threads, NEW b \in live, NEW n \in Sizes, ReallocMine(t, b, n)
      PROVE  ListInv'
  <2>1. b \notin plain
    BY <1>i, <1>4, OursIsNotPlain DEF ReallocMine
  <2>2. CASE hdr[b].tail
    <3>1. /\ pc' = [pc EXCEPT ![t] = "runlink"] /\ blk' = [blk EXCEPT ![t] = b]
          /\ live' = live \ {b} /\ UNCHANGED <<hdr, gBlockHeaderAnchor, plain>>
          /\ pc[t] = "app" /\ hdr[b].sig = "accutrak"
      BY <1>4, <2>2 DEF ReallocMine
    <3> QED
      BY <1>i, <2>1, <3>1, <1>m
  <2>3. CASE ~hdr[b].tail
    <3>1. UNCHANGED <<hdr, gBlockHeaderAnchor, live, plain, pc, blk>>
      BY <1>4, <2>3 DEF ReallocMine
    <3> QED
      BY <1>i, <3>1 DEF ListInv
  <2> QED
    BY <2>2, <2>3
<1>5. ASSUME NEW t \in Threads, NEW b \in live, NEW n \in Sizes, ReallocDefault(t, b, n)
      PROVE  ListInv'
  <2>1. CASE b \notin plain
    BY <1>5, <2>1, <1>n DEF ReallocDefault
  <2>2. CASE b \in plain
    <3>1. PICK kept : /\ kept \in SUBSET (Blocks \ heap)
                      /\ live' = (live \ {b}) \cup kept
                      /\ plain' = (plain \ {b}) \cup kept
                      /\ hdr' = [c \in Blocks |-> IF c \in kept THEN [hdr[c] EXCEPT !.sig = "other"]
                                                           ELSE hdr[c]]
                      /\ UNCHANGED <<pc, blk, gBlockHeaderAnchor>>
      BY <1>5, <2>2 DEF ReallocDefault
    <3>2. live' \ plain' = live \ plain
      BY <1>i, <2>2, <3>1 DEF PlaceInv
    <3>3. \A c \in live \ plain : hdr'[c] = hdr[c]
      BY <1>i, <3>1 DEF PlaceInv, TypeInv
    <3> QED
      BY <1>i, <3>1, <3>2, <3>3 DEF ListInv
  <2> QED
    BY <2>1, <2>2
<1>6. ASSUME NEW t \in Threads, PaddedBlock(t) PROVE ListInv'
  <2>1. PICK b \in Blocks \ heap :
          /\ hdr' = [hdr EXCEPT ![b] = Header("accutrak", req[t], TRUE)]
          /\ pc' = [pc EXCEPT ![t] = "link"] /\ blk' = [blk EXCEPT ![t] = b]
    BY <1>6 DEF PaddedBlock
  <2>2. UNCHANGED <<live, plain, gBlockHeaderAnchor>> /\ pc[t] = "malloc"
    BY <1>6 DEF PaddedBlock
  <2>3. \A c \in live \ plain : hdr'[c] = hdr[c]
    <3>1. live \subseteq Blocks \ {b}
      BY <1>i DEF PlaceInv, TypeInv
    <3> QED
      BY <1>i, <2>1, <3>1 DEF TypeInv
  <2> QED
    BY <1>i, <2>1, <2>2, <2>3 DEF TypeInv, ListInv
<1>6r. ASSUME NEW t \in Threads, Reallocated(t) PROVE ListInv'
  <2>1. PICK b \in (Blocks \ heap) \cup {blk[t]} :
          /\ hdr' = [hdr EXCEPT ![b] = Header("accutrak", req[t], TRUE)]
          /\ pc' = [pc EXCEPT ![t] = "link"] /\ blk' = [blk EXCEPT ![t] = b]
    BY <1>6r DEF Reallocated
  <2>2. UNCHANGED <<live, plain, gBlockHeaderAnchor>> /\ pc[t] = "realloc"
    BY <1>6r DEF Reallocated
  <2>3. \A c \in live \ plain : hdr'[c] = hdr[c]
    <3>1. live \subseteq Blocks \ {b}
      BY <1>i, <2>2 DEF PlaceInv, TypeInv, Has, Working
    <3> QED
      BY <1>i, <2>1, <3>1 DEF TypeInv
  <2> QED
    BY <1>i, <2>1, <2>2, <2>3 DEF TypeInv, ListInv
<1>7. ASSUME NEW t \in Threads, DefaultBlock(t) PROVE ListInv'
  <2>1. PICK b \in Blocks \ heap :
          /\ live' = live \cup {b} /\ plain' = plain \cup {b}
          /\ hdr' = [hdr EXCEPT ![b].sig = "other"]
    BY <1>7 DEF DefaultBlock, Sign
  <2>2. /\ live' \ plain' = live \ plain
        /\ \A c \in live \ plain : hdr'[c] = hdr[c]
    BY <1>i, <2>1 DEF PlaceInv, TypeInv
  <2>3. /\ pc[t] = "default" /\ pc' = [pc EXCEPT ![t] = "app"] /\ blk' = [blk EXCEPT ![t] = Null]
        /\ UNCHANGED gBlockHeaderAnchor
    BY <1>7 DEF DefaultBlock
  <2> QED
    BY <1>i, <2>2, <2>3 DEF TypeInv, ListInv
<1>8. ASSUME NEW t \in Threads, Link(t) PROVE ListInv'
  <2>1. /\ pc[t] = "link" /\ pc' = [pc EXCEPT ![t] = "app"] /\ blk' = [blk EXCEPT ![t] = Null]
        /\ live' = live \cup {blk[t]} /\ UNCHANGED <<hdr, plain>>
        /\ gBlockHeaderAnchor' = <<blk[t]>> \o gBlockHeaderAnchor
    BY <1>8 DEF Link
  <2>2. /\ blk[t] \in Blocks /\ blk[t] \notin live /\ blk[t] \notin plain
        /\ hdr[blk[t]].sig = "accutrak"
        /\ \A u \in Threads \ {t} : pc[u] \in Listed => blk[u] # blk[t]
    BY <1>i, <2>1 DEF TypeInv, PlaceInv, SignInv, Has, Working
  <2>3. blk[t] \notin Members(gBlockHeaderAnchor)
    BY <1>i, <2>1, <2>2 DEF ListInv
  <2>4. /\ IsInjective(gBlockHeaderAnchor')
        /\ Members(gBlockHeaderAnchor') = Members(gBlockHeaderAnchor) \cup {blk[t]}
    <3>1. gBlockHeaderAnchor \in Seq(Blocks) /\ IsInjective(gBlockHeaderAnchor)
      BY <1>i DEF TypeInv, ListInv
    <3> QED
      BY <2>1, <2>2, <2>3, <3>1, Linked
  <2>5. /\ \A u \in Threads : pc'[u] \in Listed <=> pc[u] \in Listed
        /\ \A u \in Threads : pc[u] \in Listed => blk'[u] = blk[u]
    BY <1>i, <2>1 DEF TypeInv
  <2>6. live' \ plain' = (live \ plain) \cup {blk[t]}
    BY <2>1, <2>2
  <2>7. UNCHANGED hdr
    BY <2>1
  <2> QED
    BY <1>i, <2>2, <2>4, <2>5, <2>6, <2>7 DEF ListInv
<1>9. ASSUME NEW t \in Threads, UnlinkFreed(t) \/ UnlinkReallocated(t) PROVE ListInv'
  <2>1. /\ pc[t] \in Listed /\ pc' \in {[pc EXCEPT ![t] = l] : l \in {"defer", "free", "realloc"}}
        /\ UNCHANGED <<live, plain, blk>>
        /\ gBlockHeaderAnchor' = RemoveFirst(gBlockHeaderAnchor, blk[t])
    BY <1>9 DEF UnlinkFreed, UnlinkReallocated
  <2>2. /\ blk[t] \in Blocks /\ blk[t] \notin live
        /\ \A u \in Threads \ {t} : pc[u] \in Listed => blk[u] # blk[t]
    BY <1>i, <2>1 DEF TypeInv, PlaceInv, Has, Working
  <2>3. /\ IsInjective(gBlockHeaderAnchor')
        /\ Members(gBlockHeaderAnchor') = Members(gBlockHeaderAnchor) \ {blk[t]}
    <3>1. /\ gBlockHeaderAnchor \in Seq(Blocks) /\ IsInjective(gBlockHeaderAnchor)
          /\ blk[t] \in Members(gBlockHeaderAnchor)
      BY <1>i, <2>1 DEF TypeInv, ListInv
    <3> QED
      BY <2>1, <3>1, Unlinked
  <2>4. \A c \in live \ plain : hdr'[c] = hdr[c]
    BY <1>i, <1>9, <2>2 DEF UnlinkFreed, UnlinkReallocated, Sign, TypeInv, PlaceInv
  <2>5. \A u \in Threads : pc'[u] \in Listed <=> pc[u] \in Listed /\ u # t
    BY <1>i, <2>1 DEF TypeInv
  <2>6. UNCHANGED <<live, plain, blk>>
    BY <2>1
  <2> QED
    BY <1>i, <2>2, <2>3, <2>4, <2>5, <2>6 DEF ListInv
<1>10. ASSUME NEW t \in Threads, ReallocFails(t) PROVE ListInv'
  <2>1. /\ pc[t] = "realloc" /\ pc' = [pc EXCEPT ![t] = "app"] /\ blk' = [blk EXCEPT ![t] = Null]
        /\ live' = live \cup {blk[t]} /\ UNCHANGED <<hdr, plain, gBlockHeaderAnchor>>
    BY <1>10 DEF ReallocFails
  <2>2. hdr[blk[t]].sig = "FREEBLK!"
    BY <1>i, <2>1 DEF SignInv
  <2> QED
    BY <1>i, <2>1, <2>2 DEF ListInv, TypeInv
<1>11. ASSUME NEW t \in Threads, Free(t) \/ LinkDeferred(t) PROVE ListInv'
  <2>1. /\ pc[t] \notin Listed /\ pc' \in {[pc EXCEPT ![t] = l] : l \in {"app", "size"}}
        /\ blk' = blk \/ blk' = [blk EXCEPT ![t] = Null]
        /\ UNCHANGED <<live, plain, gBlockHeaderAnchor>>
    BY <1>11 DEF Free, LinkDeferred
  <2>2. \A c \in live \ plain : hdr'[c] = hdr[c]
    <3>1. blk[t] \in Blocks \ live
      BY <1>i, <1>11 DEF PlaceInv, TypeInv, Has, Working, Free, LinkDeferred
    <3>2. CASE Free(t)
      BY <1>i, <3>1, <3>2 DEF Free, Sign, TypeInv, PlaceInv
    <3>3. CASE LinkDeferred(t)
      <4>1. PICK evicted \in SUBSET Members(gDeferredFreeBlocks) : hdr' = Resigned(blk[t], evicted)
        BY <1>i, <3>3, Deferred
      <4> QED
        BY <1>i, <3>1, <4>1 DEF Resigned, PlaceInv, TypeInv
    <3> QED
      BY <1>11, <3>2, <3>3
  <2>3. /\ \A u \in Threads : pc'[u] \in Listed <=> pc[u] \in Listed
        /\ \A u \in Threads : pc[u] \in Listed => blk'[u] = blk[u]
    BY <1>i, <2>1 DEF TypeInv
  <2>4. UNCHANGED <<live, plain, gBlockHeaderAnchor>>
    BY <2>1
  <2> QED
    BY <1>i, <2>2, <2>3, <2>4 DEF ListInv
<1>14. ASSUME NEW b \in live \ plain, Overrun(b) \/ Underrun(b) PROVE ListInv'
  <2>1. \A c \in live \ plain : hdr'[c].sig = "FREEBLK!" <=> hdr[c].sig = "FREEBLK!"
    <3>1. b \in Blocks
      BY <1>i DEF PlaceInv, TypeInv
    <3>2. CASE Overrun(b)
      <4>1. hdr' = [hdr EXCEPT ![b].tail = FALSE]
        BY <3>2 DEF Overrun
      <4> QED
        BY <1>i, <3>1, <4>1, TailGone DEF TypeInv, PlaceInv
    <3>3. CASE Underrun(b)
      <4>1. hdr' = [hdr EXCEPT ![b].sig = "other"] /\ "other" \in Sigs
        BY <3>3 DEF Underrun, Sign, Sigs
      <4>2. hdr[b].sig # "FREEBLK!"
        BY <1>i, <3>3, PaddingAssumption DEF Underrun, SignInv, TypeInv
      <4> QED
        BY <1>i, <3>1, <4>1, <4>2, Signed DEF TypeInv, PlaceInv
    <3> QED
      BY <1>14, <3>2, <3>3
  <2>2. UNCHANGED <<live, plain, gBlockHeaderAnchor, pc, blk>>
    BY <1>14 DEF Overrun, Underrun
  <2> QED
    BY <1>i, <2>1, <2>2 DEF ListInv
<1> QED
  BY <1>0, <1>1, <1>2, <1>3, <1>4, <1>5, <1>6, <1>6r, <1>7, <1>8, <1>9, <1>10, <1>11, <1>14
  DEF Next, AppStep, EntryStep, MallocStep, FreeStep, ReallocStep, Ended, Quiet

\* Every step leaves the signature of a block in line with its place.
LEMMA StepSignInv ==
  ASSUME PadInv, [Next]_vars PROVE SignInv'
<1>i. TypeInv /\ PlaceInv /\ SignInv
  BY DEF PadInv
<1> USE DEF Goto, GoOn, Return, listVars, localVars
<1> DEFINE Kept == UNCHANGED faults
           deferred == Members(gDeferredFreeBlocks)
<1>0. CASE UNCHANGED vars
  BY <1>i, <1>0 DEF SignInv, vars
<1>1. ASSUME NEW t \in Threads, Quiet(t), Kept PROVE SignInv'
  <2>1. /\ UNCHANGED <<faults, hdr, gDeferredFreeBlocks, live, plain>>
        /\ \A u \in Threads : pc[u] \in Working \/ pc'[u] \in Working =>
                            pc'[u] = pc[u] /\ blk'[u] = blk[u]
    BY <1>i, <1>1, QuietSteps
  <2> QED
    BY <1>i, <2>1 DEF SignInv, Working
\* The blocks whose headers a step may change are neither the application's nor deferred nor
\* another thread's.
<1>k. ASSUME NEW t \in Threads, pc[t] \in Working, NEW u \in Threads, pc[u] \in Working, t # u
      PROVE  blk[u] \in Blocks \ {blk[t]}
  BY <1>i, <1>k DEF TypeInv, PlaceInv, Has
<1>h. ASSUME NEW t \in Threads, pc[t] \in Working
      PROVE  blk[t] \in Blocks /\ blk[t] \in heap /\ blk[t] \notin live /\ blk[t] \notin deferred
             /\ blk[t] \notin plain
  BY <1>i, <1>h DEF TypeInv, PlaceInv, Has
<1>p. /\ plain \subseteq live /\ live \subseteq heap
      /\ deferred \subseteq heap /\ heap \subseteq Blocks
  BY <1>i DEF TypeInv, PlaceInv
<1>2. ASSUME NEW t \in Threads, NEW b, FreeMine(t, b) \/ \E n \in Sizes : ReallocMine(t, b, n),
             Kept
      PROVE  SignInv'
  <2>1. hdr[b].sig = "accutrak" /\ UNCHANGED <<faults, hdr, gDeferredFreeBlocks, plain>>
    BY <1>2 DEF FreeMine, ReallocMine
  <2>2. \/ UNCHANGED <<live, pc, blk>>
        \/ /\ live' = live \ {b} /\ blk' = [blk EXCEPT ![t] = b]
           /\ \E l \in {"unlink", "runlink"} : pc' = [pc EXCEPT ![t] = l]
    BY <1>2 DEF FreeMine, ReallocMine
  <2> QED
    BY <1>i, <2>1, <2>2 DEF TypeInv, SignInv
<1>3. ASSUME NEW t \in Threads, NEW b, FreeDefault(t, b), Kept PROVE SignInv'
  <2>1. CASE b \in plain
    <3>1. /\ live' \ plain' = live \ plain /\ plain' \subseteq plain
          /\ UNCHANGED <<faults, hdr, gDeferredFreeBlocks, pc, blk>>
      BY <1>p, <1>3, <2>1 DEF FreeDefault
    <3> QED
      BY <1>i, <3>1 DEF SignInv
  <2>2. CASE b \notin plain
    <3>1. /\ pc' = [pc EXCEPT ![t] = "misrouted"] /\ blk' = [blk EXCEPT ![t] = b]
          /\ UNCHANGED <<faults, hdr, gDeferredFreeBlocks, live, plain>>
      BY <1>3, <2>2 DEF FreeDefault
    <3> QED
      BY <1>i, <3>1 DEF TypeInv, SignInv
  <2> QED
    BY <2>1, <2>2
<1>5. ASSUME NEW t \in Threads, NEW b \in live, NEW n \in Sizes, ReallocDefault(t, b, n), Kept
      PROVE  SignInv'
  <2>1. CASE b \notin plain
    <3>1. /\ pc' = [pc EXCEPT ![t] = "misrouted"] /\ blk' = [blk EXCEPT ![t] = b]
          /\ UNCHANGED <<faults, hdr, gDeferredFreeBlocks, live, plain>>
      BY <1>5, <2>1 DEF ReallocDefault
    <3> QED
      BY <1>i, <3>1 DEF TypeInv, SignInv
  <2>2. CASE b \in plain
    <3>1. PICK kept : /\ kept \in SUBSET (Blocks \ heap)
                      /\ live' = (live \ {b}) \cup kept
                      /\ plain' = (plain \ {b}) \cup kept
                      /\ hdr' = [c \in Blocks |-> IF c \in kept THEN [hdr[c] EXCEPT !.sig = "other"]
                                                           ELSE hdr[c]]
      BY <1>5, <2>2 DEF ReallocDefault
    <3>2. UNCHANGED <<faults, pc, blk, gDeferredFreeBlocks>>
      BY <1>5, <2>2 DEF ReallocDefault
    <3>3. live' \ plain' = live \ plain
      BY <1>p, <2>2, <3>1
    <3>4. \A c \in heap : hdr'[c] = hdr[c]
      BY <1>i, <1>p, <3>1 DEF TypeInv
    <3>5. \A c \in plain' : hdr'[c].sig = "other"
      <4>1. ASSUME NEW c \in kept PROVE hdr'[c].sig = "other"
        <5>1. hdr[c] \in Headers /\ hdr'[c] = [hdr[c] EXCEPT !.sig = "other"]
          BY <1>i, <3>1 DEF TypeInv
        <5> QED
          BY <5>1 DEF Headers
      <4>2. ASSUME NEW c \in plain PROVE hdr'[c].sig = "other"
        BY <1>i, <1>p, <3>4 DEF SignInv
      <4> QED
        BY <3>1, <4>1, <4>2
    <3> QED
      BY <1>i, <1>h, <1>p, <3>2, <3>3, <3>4, <3>5 DEF SignInv, Working
  <2> QED
    BY <2>1, <2>2
<1>6. ASSUME NEW t \in Threads, PaddedBlock(t) \/ Reallocated(t), Kept PROVE SignInv'
  <2>1. PICK b \in Blocks :
          /\ b \notin heap \/ (pc[t] \in Working /\ b = blk[t])
          /\ hdr' = [hdr EXCEPT ![b] = Header("accutrak", req[t], TRUE)]
          /\ pc' = [pc EXCEPT ![t] = "link"] /\ blk' = [blk EXCEPT ![t] = b]
    BY <1>6, <1>h DEF PaddedBlock, Reallocated, Working
  <2>2. UNCHANGED <<faults, live, plain, gDeferredFreeBlocks>>
    BY <1>6 DEF PaddedBlock, Reallocated
  <2>3. /\ \A c \in Blocks \ {b} : hdr'[c] = hdr[c]
        /\ hdr'[b].sig = "accutrak"
    BY <1>i, <2>1 DEF TypeInv, Header
  <2>4. \A c \in live \cup deferred : c \in Blocks \ {b}
    BY <1>p, <1>h, <2>1
  <2>5. \A u \in Threads \ {t} : pc[u] \in Working => blk[u] \in Blocks \ {b}
    BY <1>h, <1>k, <2>1
  <2>6. /\ pc'[t] = "link" /\ blk'[t] = b
        /\ \A u \in Threads \ {t} : pc'[u] = pc[u] /\ blk'[u] = blk[u]
    BY <1>i, <2>1 DEF TypeInv
  <2> QED
    BY <1>i, <1>p, <2>2, <2>3, <2>4, <2>5, <2>6 DEF SignInv, Working
<1>7. ASSUME NEW t \in Threads, DefaultBlock(t), Kept PROVE SignInv'
  <2>1. PICK b \in Blocks \ heap :
          /\ live' = live \cup {b} /\ plain' = plain \cup {b}
          /\ hdr' = [hdr EXCEPT ![b].sig = "other"]
    BY <1>7 DEF DefaultBlock, Sign
  <2>2. live' \ plain' = live \ plain
    BY <1>p, <2>1
  <2>3. hdr'[b].sig = "other" /\ \A c \in heap : hdr'[c] = hdr[c]
    <3>1. "other" \in Sigs
      BY DEF Sigs
    <3> QED
      BY <1>i, <1>p, <2>1, <3>1, Signed DEF TypeInv
  <2>4. /\ pc' = [pc EXCEPT ![t] = "app"] /\ blk' = [blk EXCEPT ![t] = Null]
        /\ UNCHANGED <<faults, gDeferredFreeBlocks>>
    BY <1>7 DEF DefaultBlock
  <2>5. \A u \in Threads : pc'[u] \in Working =>
                            pc[u] \in Working /\ pc'[u] = pc[u] /\ blk'[u] = blk[u]
    BY <1>i, <2>4 DEF TypeInv, Working
  <2> QED
    BY <1>i, <1>h, <1>p, <2>1, <2>2, <2>3, <2>4, <2>5 DEF SignInv, Working
<1>8. ASSUME NEW t \in Threads, Link(t) \/ ReallocFails(t), Kept PROVE SignInv'
  <2>1. /\ pc' = [pc EXCEPT ![t] = "app"] /\ blk' = [blk EXCEPT ![t] = Null]
        /\ live' = live \cup {blk[t]} /\ UNCHANGED <<faults, hdr, gDeferredFreeBlocks, plain>>
        /\ pc[t] = "link" \/ (pc[t] = "realloc" /\ "realloc" \in faults)
    BY <1>8 DEF Link, ReallocFails
  <2>2. \A u \in Threads : pc'[u] \in Working =>
                            pc[u] \in Working /\ pc'[u] = pc[u] /\ blk'[u] = blk[u]
    BY <1>i, <2>1 DEF TypeInv, Working
  <2> QED
    BY <1>i, <2>1, <2>2 DEF SignInv, Working
<1>9. ASSUME NEW t \in Threads, UnlinkFreed(t), Kept PROVE SignInv'
  BY <1>i, <1>9 DEF UnlinkFreed, SignInv, TypeInv
<1>10. ASSUME NEW t \in Threads, UnlinkReallocated(t) \/ Free(t), Kept PROVE SignInv'
  <2>1. /\ pc[t] \in Working
        /\ hdr' = [hdr EXCEPT ![blk[t]].sig = "FREEBLK!"]
        /\ UNCHANGED <<faults, gDeferredFreeBlocks, live, plain>>
    BY <1>10 DEF UnlinkReallocated, Free, Sign, Working
  <2>2. /\ \E l \in {"realloc", "app"} : pc' = [pc EXCEPT ![t] = l]
        /\ blk' = blk \/ (pc' = [pc EXCEPT ![t] = "app"] /\ blk' = [blk EXCEPT ![t] = Null])
    BY <1>10 DEF UnlinkReallocated, Free
  <2>3. /\ hdr'[blk[t]].sig = "FREEBLK!"
        /\ \A c \in Blocks \ {blk[t]} : hdr'[c] = hdr[c]
    <3>1. "FREEBLK!" \in Sigs
      BY DEF Sigs
    <3> QED
      BY <1>i, <1>h, <2>1, <3>1, Signed DEF TypeInv
  <2>4. \A c \in live \cup deferred : c \in Blocks \ {blk[t]}
    BY <1>p, <1>h, <2>1
  <2>5. \A u \in Threads \ {t} : pc[u] \in Working => blk[u] \in Blocks \ {blk[t]}
    BY <1>k, <2>1
  <2>6. /\ pc'[t] = "app" \/ (pc'[t] = "realloc" /\ blk'[t] = blk[t])
        /\ \A u \in Threads \ {t} : pc'[u] = pc[u] /\ blk'[u] = blk[u]
    BY <1>i, <2>2 DEF TypeInv
  <2> QED
    BY <1>i, <1>p, <2>1, <2>3, <2>4, <2>5, <2>6 DEF SignInv, Working
<1>12. ASSUME NEW t \in Threads, LinkDeferred(t), Kept PROVE SignInv'
  <2>1. PICK evicted \in SUBSET deferred :
           /\ hdr' = Resigned(blk[t], evicted)
           /\ Members(gDeferredFreeBlocks') = (deferred \cup {blk[t]}) \ evicted
    BY <1>i, <1>12, Deferred
  <2>2. /\ pc[t] \in Working /\ pc' = [pc EXCEPT ![t] = "size"]
        /\ UNCHANGED <<faults, live, plain, blk>>
    BY <1>12 DEF LinkDeferred, Working
  <2>3. /\ hdr'[blk[t]].sig = "DEFERBLK"
        /\ \A c \in Blocks \ (evicted \cup {blk[t]}) : hdr'[c] = hdr[c]
    <3>1. evicted \in SUBSET Blocks /\ blk[t] \in Blocks \ evicted
      BY <1>h, <1>p, <2>1, <2>2
    <3> QED
      BY <1>i, <2>1, <3>1, ResignedHeaders DEF TypeInv
  <2>4. \A c \in live \cup (deferred \ evicted) : c \in Blocks \ (evicted \cup {blk[t]})
    BY <1>i, <1>p, <1>h, <2>1, <2>2 DEF PlaceInv
  <2>5. \A u \in Threads \ {t} : pc[u] \in Working => blk[u] \in Blocks \ (evicted \cup {blk[t]})
    BY <1>h, <1>k, <2>1, <2>2
  <2>6. /\ pc'[t] = "size"
        /\ \A u \in Threads \ {t} : pc'[u] = pc[u] /\ blk'[u] = blk[u]
    BY <1>i, <2>2 DEF TypeInv
  <2>7. Members(gDeferredFreeBlocks)' = (deferred \cup {blk[t]}) \ evicted
    BY <2>1 DEF Members
  <2> HIDE DEF deferred
  <2>8. \A c \in (deferred \cup {blk[t]}) \ evicted : hdr'[c].sig = "DEFERBLK"
    BY <1>i, <2>3, <2>4 DEF SignInv, deferred
  <2>9. /\ \A c \in plain' : hdr'[c] = hdr[c]
        /\ \A c \in live' \ plain' : hdr'[c] = hdr[c]
    BY <1>p, <2>2, <2>3, <2>4
  <2>10. \A u \in Threads : pc'[u] \in Working =>
                             /\ pc'[u] = pc[u] /\ blk'[u] = blk[u]
                             /\ hdr'[blk[u]] = hdr[blk[u]]
    BY <2>3, <2>5, <2>6 DEF Working
  <2> QED
    BY <1>i, <2>2, <2>7, <2>8, <2>9, <2>10 DEF SignInv, Working
<1>14. ASSUME NEW b \in live \ plain, Overrun(b), Kept PROVE SignInv'
  <2>1. b \in Blocks /\ hdr' = [hdr EXCEPT ![b].tail = FALSE]
    BY <1>p, <1>14 DEF Overrun
  <2>2. \A c \in Blocks : hdr'[c].sig = hdr[c].sig
    BY <1>i, <2>1, TailGone DEF TypeInv
  <2>3. UNCHANGED <<faults, gDeferredFreeBlocks, live, plain, pc, blk>>
    BY <1>14 DEF Overrun
  <2> QED
    BY <1>i, <1>h, <1>p, <2>2, <2>3 DEF SignInv, Working
<1>15. ASSUME NEW b \in live \ plain, Underrun(b), Kept PROVE SignInv'
  <2>1. b \in Blocks /\ hdr' = [hdr EXCEPT ![b].sig = "other"] /\ "other" \in Sigs
    BY <1>p, <1>15 DEF Underrun, Sign, Sigs
  <2>2. hdr'[b].sig = "other" /\ \A c \in Blocks \ {b} : hdr'[c] = hdr[c]
    BY <1>i, <2>1, Signed DEF TypeInv
  <2>3. "underrun" \in faults /\ UNCHANGED <<faults, gDeferredFreeBlocks, live, plain, pc, blk>>
    BY <1>15 DEF Underrun
  <2>4. b \notin deferred
    BY <1>i DEF PlaceInv
  <2> QED
    BY <1>i, <1>h, <1>p, <2>2, <2>3, <2>4 DEF SignInv, Working
<1> QED
  BY <1>0, <1>1, <1>2, <1>3, <1>5, <1>6, <1>7, <1>8, <1>9, <1>10, <1>12, <1>14, <1>15
  DEF Next, AppStep, EntryStep, MallocStep, FreeStep, ReallocStep, Ended, Quiet

\* Only an overrun takes magic bytes away.
LEMMA StepTailInv ==
  ASSUME PadInv, [Next]_vars PROVE TailInv'
<1>i. TypeInv /\ PlaceInv /\ SignInv /\ TailInv
  BY DEF PadInv
<1> USE DEF Goto, GoOn, Return, listVars, localVars
<1> DEFINE Kept == UNCHANGED faults
           Marked == {"link", "unlink", "runlink", "realloc"}
<1>0. CASE UNCHANGED vars
  BY <1>i, <1>0 DEF TailInv, vars
<1> SUFFICES ASSUME "overrun" \notin faults PROVE TailInv'
  <2>1. UNCHANGED faults
    BY DEF Next, Ended, vars
  <2> QED
    BY <2>1 DEF TailInv
<1>t. /\ \A b \in live \ plain : hdr[b].tail
      /\ \A t \in Threads : pc[t] \in Marked => hdr[blk[t]].tail
  BY <1>i DEF TailInv
<1>k. ASSUME NEW t \in Threads, pc[t] \in Working, NEW u \in Threads, pc[u] \in Working, t # u
      PROVE  blk[u] \in Blocks \ {blk[t]}
  BY <1>i, <1>k DEF TypeInv, PlaceInv, Has
<1>h. ASSUME NEW t \in Threads, pc[t] \in Working
      PROVE  blk[t] \in Blocks /\ blk[t] \in heap /\ blk[t] \notin live
  BY <1>i, <1>h DEF TypeInv, PlaceInv, Has
<1>p. plain \subseteq live /\ live \subseteq heap /\ heap \subseteq Blocks
      /\ Members(gDeferredFreeBlocks) \subseteq heap
  BY <1>i DEF TypeInv, PlaceInv
<1>m. Marked \subseteq Working
  BY DEF Working
\* Where the headers keep their magic bytes, the blocks at hand must have them already.
<1>s. ASSUME \A c \in heap : hdr'[c].tail = hdr[c].tail,
             \A c \in live' \ plain' : c \in heap /\ hdr[c].tail,
             \A u \in Threads : pc'[u] \in Marked => blk'[u] \in heap /\ hdr[blk'[u]].tail
      PROVE  TailInv'
  BY <1>s DEF TailInv
<1> HIDE DEF Marked
<1>1. ASSUME NEW t \in Threads, Quiet(t) PROVE TailInv'
  <2>1. /\ UNCHANGED <<hdr, live, plain>>
        /\ \A u \in Threads : pc[u] \in Working \/ pc'[u] \in Working =>
                            pc'[u] = pc[u] /\ blk'[u] = blk[u]
    BY <1>i, <1>1, QuietSteps
  <2> QED
    BY <1>t, <1>h, <1>p, <1>m, <1>s, <2>1
<1>2. ASSUME NEW t \in Threads, NEW b \in Freeable \cup live,
             FreeMine(t, b) \/ \E n \in Sizes : ReallocMine(t, b, n)
      PROVE  TailInv'
  <2>1. b \in live /\ b \in heap /\ UNCHANGED <<hdr, plain>>
    BY <1>i, <1>p, <1>2, FreeableBlocks DEF FreeMine, ReallocMine
  <2>2. \/ UNCHANGED <<live, pc, blk>>
        \/ /\ live' = live \ {b} /\ blk' = [blk EXCEPT ![t] = b] /\ hdr[b].tail
           /\ \E l \in {"unlink", "runlink"} : pc' = [pc EXCEPT ![t] = l]
    BY <1>2 DEF FreeMine, ReallocMine
  <2>3. /\ live' \subseteq live
        /\ \A u \in Threads : \/ pc'[u] = pc[u] /\ blk'[u] = blk[u]
                              \/ blk'[u] = b /\ hdr[b].tail
    BY <1>i, <2>2 DEF TypeInv
  <2> QED
    BY <1>t, <1>h, <1>p, <1>m, <1>s, <2>1, <2>3
<1>3. ASSUME NEW t \in Threads, NEW b, FreeDefault(t, b) PROVE TailInv'
  <2>1. live' \ plain' \subseteq live \ plain /\ UNCHANGED hdr
    BY <1>3 DEF FreeDefault
  <2>2. \/ UNCHANGED <<pc, blk>>
        \/ pc' = [pc EXCEPT ![t] = "misrouted"] /\ blk' = [blk EXCEPT ![t] = b]
    BY <1>3 DEF FreeDefault
  <2>3. \A u \in Threads : pc'[u] \in Marked => pc[u] \in Marked /\ blk'[u] = blk[u]
    BY <1>i, <2>2 DEF TypeInv, Marked
  <2> QED
    BY <1>t, <1>h, <1>p, <1>m, <1>s, <2>1, <2>3
<1>5. ASSUME NEW t \in Threads, NEW b \in live, NEW n \in Sizes, ReallocDefault(t, b, n)
      PROVE  TailInv'
  <2>1. CASE b \notin plain
    <3>1. /\ pc' = [pc EXCEPT ![t] = "misrouted"] /\ blk' = [blk EXCEPT ![t] = b]
          /\ UNCHANGED <<hdr, live, plain>>
      BY <1>5, <2>1 DEF ReallocDefault
    <3>2. \A u \in Threads : pc'[u] \in Marked => pc[u] \in Marked /\ blk'[u] = blk[u]
      BY <1>i, <3>1 DEF TypeInv, Marked
    <3> QED
      BY <1>t, <1>h, <1>p, <1>m, <1>s, <3>1, <3>2
  <2>2. CASE b \in plain
    <3>1. PICK kept : /\ kept \in SUBSET (Blocks \ heap)
                      /\ live' = (live \ {b}) \cup kept
                      /\ plain' = (plain \ {b}) \cup kept
                      /\ hdr' = [c \in Blocks |-> IF c \in kept THEN [hdr[c] EXCEPT !.sig = "other"]
                                                           ELSE hdr[c]]
      BY <1>5, <2>2 DEF ReallocDefault
    <3>2. UNCHANGED <<pc, blk>>
      BY <1>5, <2>2 DEF ReallocDefault
    <3>3. live' \ plain' = live \ plain
      BY <1>p, <2>2, <3>1
    <3>4. \A c \in heap : hdr'[c] = hdr[c]
      BY <1>i, <1>p, <3>1 DEF TypeInv
    <3> QED
      BY <1>t, <1>h, <1>p, <1>m, <1>s, <3>2, <3>3, <3>4
  <2> QED
    BY <2>1, <2>2
<1>6. ASSUME NEW t \in Threads, PaddedBlock(t) \/ Reallocated(t) PROVE TailInv'
  <2>1. PICK b \in Blocks :
          /\ b \notin heap \/ (pc[t] \in Working /\ b = blk[t])
          /\ hdr' = [hdr EXCEPT ![b] = Header("accutrak", req[t], TRUE)]
          /\ pc' = [pc EXCEPT ![t] = "link"] /\ blk' = [blk EXCEPT ![t] = b]
    BY <1>6, <1>h DEF PaddedBlock, Reallocated, Working
  <2>2. UNCHANGED <<live, plain>>
    BY <1>6 DEF PaddedBlock, Reallocated
  <2>3. hdr'[b].tail /\ \A c \in Blocks \ {b} : hdr'[c] = hdr[c]
    BY <1>i, <2>1 DEF TypeInv, Header
  <2>4. \A c \in live : c \in Blocks \ {b}
    BY <1>p, <1>h, <2>1
  <2>5. \A u \in Threads \ {t} : pc[u] \in Working => blk[u] \in Blocks \ {b}
    BY <1>h, <1>k, <2>1
  <2>6. /\ pc'[t] = "link" /\ blk'[t] = b
        /\ \A u \in Threads \ {t} : pc'[u] = pc[u] /\ blk'[u] = blk[u]
    BY <1>i, <2>1 DEF TypeInv
  <2>7. \A c \in live' \ plain' : hdr'[c].tail
    BY <1>t, <2>2, <2>3, <2>4
  <2>8. \A u \in Threads : pc'[u] \in Marked => hdr'[blk'[u]].tail
    BY <1>t, <1>m, <2>3, <2>5, <2>6
  <2> QED
    BY <2>7, <2>8 DEF TailInv, Marked
<1>7. ASSUME NEW t \in Threads, DefaultBlock(t) PROVE TailInv'
  <2>1. PICK b \in Blocks \ heap :
          /\ live' = live \cup {b} /\ plain' = plain \cup {b}
          /\ hdr' = [hdr EXCEPT ![b].sig = "other"]
    BY <1>7 DEF DefaultBlock, Sign
  <2>2. live' \ plain' = live \ plain
    BY <1>p, <2>1
  <2>3. \A c \in heap : hdr'[c] = hdr[c]
    <3>1. "other" \in Sigs
      BY DEF Sigs
    <3> QED
      BY <1>i, <1>p, <2>1, <3>1, Signed DEF TypeInv
  <2>4. pc' = [pc EXCEPT ![t] = "app"] /\ blk' = [blk EXCEPT ![t] = Null]
    BY <1>7 DEF DefaultBlock
  <2>5. \A u \in Threads : pc'[u] \in Marked => pc[u] \in Marked /\ blk'[u] = blk[u]
    BY <1>i, <2>4 DEF TypeInv, Marked
  <2> QED
    BY <1>t, <1>h, <1>p, <1>m, <1>s, <2>2, <2>3, <2>5
<1>8. ASSUME NEW t \in Threads, Link(t) \/ ReallocFails(t) PROVE TailInv'
  <2>1. /\ pc' = [pc EXCEPT ![t] = "app"] /\ blk' = [blk EXCEPT ![t] = Null]
        /\ live' = live \cup {blk[t]} /\ UNCHANGED <<hdr, plain>>
        /\ pc[t] \in Marked
    BY <1>8 DEF Link, ReallocFails, Marked
  <2>2. \A u \in Threads : pc'[u] \in Marked => pc[u] \in Marked /\ blk'[u] = blk[u]
    BY <1>i, <2>1 DEF TypeInv, Marked
  <2> QED
    BY <1>t, <1>h, <1>p, <1>m, <1>s, <2>1, <2>2
<1>9. ASSUME NEW t \in Threads, UnlinkFreed(t) PROVE TailInv'
  <2>1. /\ \E l \in {"defer", "free"} : pc' = [pc EXCEPT ![t] = l]
        /\ UNCHANGED <<hdr, live, plain, blk>>
    BY <1>9 DEF UnlinkFreed
  <2>2. \A u \in Threads : pc'[u] \in Marked => pc[u] \in Marked
    BY <1>i, <2>1 DEF TypeInv, Marked
  <2> QED
    BY <1>t, <1>h, <1>p, <1>m, <1>s, <2>1, <2>2
<1>10. ASSUME NEW t \in Threads, UnlinkReallocated(t) \/ Free(t) PROVE TailInv'
  <2>1. /\ pc[t] \in Working
        /\ hdr' = [hdr EXCEPT ![blk[t]].sig = "FREEBLK!"]
        /\ UNCHANGED <<live, plain>>
    BY <1>10 DEF UnlinkReallocated, Free, Sign, Working
  <2>2. \/ /\ pc[t] = "runlink" /\ pc' = [pc EXCEPT ![t] = "realloc"] /\ blk' = blk
        \/ /\ pc' = [pc EXCEPT ![t] = "app"] /\ blk' = [blk EXCEPT ![t] = Null]
    BY <1>10 DEF UnlinkReallocated, Free
  <2>3. \A c \in Blocks : hdr'[c].tail = hdr[c].tail
    <3>1. "FREEBLK!" \in Sigs
      BY DEF Sigs
    <3> QED
      BY <1>i, <1>h, <2>1, <3>1, Signed DEF TypeInv
  <2>4. \A u \in Threads : pc'[u] \in Marked => pc[u] \in Marked /\ blk'[u] = blk[u]
    BY <1>i, <2>2 DEF TypeInv, Marked
  <2> QED
    BY <1>t, <1>h, <1>p, <1>m, <1>s, <2>1, <2>3, <2>4
<1>12. ASSUME NEW t \in Threads, LinkDeferred(t) PROVE TailInv'
  <2>1. PICK evicted \in SUBSET Members(gDeferredFreeBlocks) : hdr' = Resigned(blk[t], evicted)
    BY <1>i, <1>12, Deferred
  <2>2. /\ pc[t] \in Working /\ pc' = [pc EXCEPT ![t] = "size"]
        /\ UNCHANGED <<live, plain, blk>>
    BY <1>12 DEF LinkDeferred, Working
  <2>3. \A c \in Blocks : hdr'[c].tail = hdr[c].tail
    <3>1. evicted \in SUBSET Blocks /\ blk[t] \in Blocks \ evicted
      BY <1>i, <1>h, <1>p, <2>1, <2>2 DEF PlaceInv, Has
    <3> QED
      BY <1>i, <2>1, <3>1, ResignedHeaders DEF TypeInv
  <2>4. \A u \in Threads : pc'[u] \in Marked => pc[u] \in Marked
    BY <1>i, <2>2 DEF TypeInv, Marked
  <2> QED
    BY <1>t, <1>h, <1>p, <1>m, <1>s, <2>2, <2>3, <2>4
<1>14. ASSUME NEW b \in live \ plain, Overrun(b) PROVE TailInv'
  BY <1>14 DEF Overrun
<1>15. ASSUME NEW b \in live \ plain, Underrun(b) PROVE TailInv'
  <2>1. b \in Blocks /\ hdr' = [hdr EXCEPT ![b].sig = "other"] /\ "other" \in Sigs
    BY <1>p, <1>15 DEF Underrun, Sign, Sigs
  <2>2. \A c \in Blocks : hdr'[c].tail = hdr[c].tail
    BY <1>i, <2>1, Signed DEF TypeInv
  <2>3. UNCHANGED <<live, plain, pc, blk>>
    BY <1>15 DEF Underrun
  <2> QED
    BY <1>t, <1>h, <1>p, <1>m, <1>s, <2>2, <2>3
<1> QED
  BY <1>0, <1>1, <1>2, <1>3, <1>5, <1>6, <1>7, <1>8, <1>9, <1>10, <1>12, <1>14, <1>15
  DEF Next, AppStep, EntryStep, MallocStep, FreeStep, ReallocStep, Ended, Quiet

\* A block on the in-use list is damaged, or one of ours that comes to free or realloc is,
\* only if the application wrote where it must not.
LEMMA Undamaged ==
  ASSUME PadInv, faults \subseteq {"realloc"}
  PROVE  /\ \A b \in Members(gBlockHeaderAnchor) : ~Damaged(b)
         /\ \A b \in live \ plain : hdr[b].tail
         /\ \A b \in Freeable : b \in live /\ hdr[b].sig # "DEFERBLK"
<1>1. "overrun" \notin faults /\ "underrun" \notin faults /\ "double" \notin faults
  OBVIOUS
<1>2. \A b \in Members(gBlockHeaderAnchor) : hdr[b].sig = "accutrak"
  BY <1>1 DEF PadInv, ListInv, SignInv, Listed
<1>3. \A b \in Members(gBlockHeaderAnchor) : hdr[b].tail
  BY <1>1 DEF PadInv, ListInv, TailInv, Listed
<1>4. \A b \in live : hdr[b].sig # "DEFERBLK"
  BY DEF PadInv, SignInv
<1> QED
  BY <1>1, <1>2, <1>3, <1>4 DEF Damaged, Freeable, PadInv, TailInv

\* What is not recognised as ours when it is freed or reallocated.
LEMMA Unrecognised ==
  ASSUME PadInv, "realloc" \notin faults, NEW b \in Freeable \ plain,
         hdr[b].sig \notin {"accutrak", "DEFERBLK"}
  PROVE  b \notin heap \/ hdr[b].sig = "other"
<1>1. CASE b \in live
  BY <1>1 DEF PadInv, SignInv
<1>2. CASE b \notin live
  <2>1. Stale(b)
    BY <1>2 DEF Freeable
  <2>2. b \notin Members(gDeferredFreeBlocks)
    BY DEF PadInv, SignInv
  <2> QED
    BY <1>2, <2>1, <2>2 DEF Stale, PadInv, PlaceInv
<1> QED
  BY <1>1, <1>2

\* No step accuses the innocent, or misroutes a block that can be recognised.
LEMMA StepEndInv ==
  ASSUME PadInv, [Next]_vars PROVE EndInv'
<1>i. TypeInv /\ EndInv
  BY DEF PadInv
<1> USE DEF Goto, GoOn, Return, listVars, localVars
<1> DEFINE Kept == UNCHANGED faults /\ process = "running"
<1>0. CASE UNCHANGED vars
  BY <1>i, <1>0 DEF EndInv, NoFalseAlarm, OwnBlocksRecognisedUnlessFailed, OwnBlocksRecognised, vars
\* A step that misroutes nothing, and aborts only if it must.
<1>a. ASSUME Kept, NEW t \in Threads, NEW l \in Labels, l # "misrouted",
             pc' = pc \/ pc' = [pc EXCEPT ![t] = l],
             process' # "aborted" \/ ~(faults \subseteq {"realloc"})
      PROVE  EndInv'
  <2>1. \A u \in Threads : pc'[u] # "misrouted"
    BY <1>i, <1>a DEF EndInv, TypeInv
  <2> QED
    BY <1>a, <2>1 DEF EndInv, NoFalseAlarm, OwnBlocksRecognisedUnlessFailed, OwnBlocksRecognised
\* A step that hands a block to the C library.
<1>b. ASSUME Kept, NEW t \in Threads, NEW b \in Freeable \ plain,
             hdr[b].sig \notin {"accutrak", "DEFERBLK"},
             pc' = [pc EXCEPT ![t] = "misrouted"], blk' = [blk EXCEPT ![t] = b],
             process' = "undefined", UNCHANGED <<heap, hdr>>
      PROVE  EndInv'
  <2>1. \A u \in Threads : pc'[u] = "misrouted" => blk'[u] = b
    BY <1>i, <1>b DEF EndInv, TypeInv
  <2>2. "realloc" \notin faults => b \notin heap \/ hdr[b].sig = "other"
    BY <1>b, Unrecognised
  <2> QED
    BY <1>b, <2>1, <2>2
    DEF EndInv, NoFalseAlarm, OwnBlocksRecognisedUnlessFailed, OwnBlocksRecognised
<1>1. ASSUME NEW t \in Threads, CheckAll(t), Kept PROVE EndInv'
  <2>1. PICK b \in Blocks : Contains(gBlockHeaderAnchor, b) /\ Damaged(b)
    BY <1>1 DEF CheckAll
  <2>2. b \in Members(gBlockHeaderAnchor)
    BY <2>1 DEF Contains, Members
  <2>3. ~(faults \subseteq {"realloc"})
    BY <2>1, <2>2, Undamaged
  <2>4. pc' = pc /\ "app" \in Labels
    BY <1>1 DEF CheckAll, Labels
  <2> QED
    BY <1>1, <2>3, <2>4, <1>a
<1>2. ASSUME NEW t \in Threads, NEW b \in Freeable, FreeMine(t, b), Kept PROVE EndInv'
  <2>1. b \in live \ plain
    BY <1>2, FreeableBlocks, OursIsNotPlain DEF FreeMine, PadInv
  <2>2. hdr[b].tail \/ ~(faults \subseteq {"realloc"})
    BY <2>1, Undamaged
  <2>3. pc' = pc \/ pc' = [pc EXCEPT ![t] = "unlink"]
    BY <1>2 DEF FreeMine
  <2>4. hdr[b].tail => process' # "aborted"
    BY <1>2 DEF FreeMine
  <2>5. "unlink" \in Labels
    BY DEF Labels, Working
  <2> QED
    BY <1>2, <2>2, <2>3, <2>4, <2>5, <1>a
<1>3. ASSUME NEW t \in Threads, NEW b \in live, NEW n \in Sizes, ReallocMine(t, b, n), Kept
      PROVE  EndInv'
  <2>1. b \in live \ plain
    BY <1>3, OursIsNotPlain DEF ReallocMine, PadInv
  <2>2. hdr[b].tail \/ ~(faults \subseteq {"realloc"})
    BY <2>1, Undamaged
  <2>3. pc' = pc \/ pc' = [pc EXCEPT ![t] = "runlink"]
    BY <1>3 DEF ReallocMine
  <2>4. hdr[b].tail => process' # "aborted"
    BY <1>3 DEF ReallocMine
  <2>5. "runlink" \in Labels
    BY DEF Labels, Working
  <2> QED
    BY <1>3, <2>2, <2>3, <2>4, <2>5, <1>a
<1>4. ASSUME NEW t \in Threads, NEW b \in Freeable, FreeDeferred(t, b), Kept PROVE EndInv'
  <2>1. ~(faults \subseteq {"realloc"})
    BY <1>4, Undamaged DEF FreeDeferred
  <2>2. pc' = pc /\ "app" \in Labels
    BY <1>4 DEF FreeDeferred, Labels
  <2> QED
    BY <1>4, <2>1, <2>2, <1>a
<1>5. ASSUME NEW t \in Threads, NEW b \in Freeable, FreeDefault(t, b), Kept PROVE EndInv'
  <2>1. CASE b \in plain
    <3>1. pc' = pc /\ process' = process /\ "app" \in Labels
      BY <1>5, <2>1 DEF FreeDefault, Labels
    <3> QED
      BY <1>5, <3>1, <1>a
  <2>2. CASE b \notin plain
    BY <1>5, <2>2, <1>b DEF FreeDefault
  <2> QED
    BY <2>1, <2>2
<1>6. ASSUME NEW t \in Threads, NEW b \in live, NEW n \in Sizes, ReallocDefault(t, b, n), Kept
      PROVE  EndInv'
  <2>1. CASE b \in plain
    <3>1. pc' = pc /\ process' = process /\ "app" \in Labels
      BY <1>6, <2>1 DEF ReallocDefault, Labels
    <3> QED
      BY <1>6, <3>1, <1>a
  <2>2. CASE b \notin plain
    <3>1. b \in Freeable /\ hdr[b].sig \notin {"accutrak", "DEFERBLK"}
      BY <1>6, <2>2 DEF ReallocDefault, Freeable, PadInv, SignInv
    <3> QED
      BY <1>6, <2>2, <3>1, <1>b DEF ReallocDefault
  <2> QED
    BY <2>1, <2>2
<1>7. ASSUME NEW t \in Threads,
             \/ \E n \in Sizes : Malloc(t, n) \/ ReallocNull(t, n)
             \/ MallocStep(t) \/ FreeStep(t) \/ ReallocStep(t),
             Kept
      PROVE  EndInv'
  <2>1. /\ \E l \in Labels \ {"misrouted"} : pc' = [pc EXCEPT ![t] = l]
        /\ process' = process
    BY <1>7 DEF Malloc, ReallocNull, MallocStep, FreeStep, ReallocStep, PaddedBlock, DefaultBlock,
                AllocationFails, Link, UnlinkFreed, Free, LinkDeferred, ReadSize,
                UnlinkReallocated, Reallocated, ReallocFails, Labels, Working
  <2> QED
    BY <1>7, <2>1, <1>a
<1>8. ASSUME AppStep, Kept PROVE EndInv'
  <2>1. pc' = pc /\ process' = process
    BY <1>8 DEF AppStep, Overrun, Underrun
  <2>2. \A u \in Threads : pc'[u] # "misrouted"
    BY <1>i, <1>8, <2>1 DEF EndInv
  <2> QED
    BY <1>8, <2>1, <2>2
    DEF EndInv, NoFalseAlarm, OwnBlocksRecognisedUnlessFailed, OwnBlocksRecognised
<1> QED
  BY <1>0, <1>1, <1>2, <1>3, <1>4, <1>5, <1>6, <1>7, <1>8 DEF Next, EntryStep, Ended

\* The invariant holds at the start, when there are no blocks.
LEMMA InitPadInv ==
  ASSUME Init PROVE PadInv
<1>1. gBlockHeaderAnchor = <<>> /\ gDeferredFreeBlocks = <<>>
  BY DEF Init
<1>2. Members(gBlockHeaderAnchor) = {} /\ Members(gDeferredFreeBlocks) = {}
  BY <1>1 DEF Members
<1>3. IsInjective(gBlockHeaderAnchor) /\ IsInjective(gDeferredFreeBlocks)
  BY <1>1 DEF IsInjective
<1>4. TypeInv
  BY DEF Init, TypeInv, Header, Headers, Sigs, Labels
<1>5. PlaceInv /\ ListInv
  BY <1>2, <1>3 DEF Init, PlaceInv, ListInv, Has, Working, Listed
<1>6. SignInv /\ TailInv /\ EndInv
  BY <1>2 DEF Init, SignInv, TailInv, EndInv, NoFalseAlarm, OwnBlocksRecognisedUnlessFailed,
              OwnBlocksRecognised
<1> QED
  BY <1>4, <1>5, <1>6 DEF PadInv

\* All parts together are inductive.
LEMMA StepPadInv ==
  ASSUME PadInv, [Next]_vars PROVE PadInv'
BY StepTypeInv, StepPlaceInv, StepListInv, StepSignInv, StepTailInv, StepEndInv DEF PadInv

\* The invariant holds in every state the padding routines reach.
THEOREM PaddingInvariant == Spec => []PadInv
<1>1. Init => PadInv
  BY InitPadInv
<1>2. PadInv /\ [Next]_vars => PadInv'
  BY StepPadInv
<1> QED
  BY <1>1, <1>2, PTL DEF Spec

-------------------------------------------------------------------------------
(* The counter of the deferred bytes *)

\* c is n less u, as far as a word can tell.
Counts(c, n, u) == \E k \in Int : c = n - u + k * WordSize

\* The counter lacks the bytes of the first block that was ever deferred, and is within the
\* limit unless a single block is left.  It may have wrapped around: when the blocks on the
\* list are smaller than that first one, it is close to WordSize.
CountInv ==
  /\ mMaxDeferFreeBytes \in 0 .. (WordSize - 1)
  /\ gTotalDeferred \in 0 .. (WordSize - 1)
  /\ gDeferredFreeBlocks = <<>> => gTotalDeferred = 0
  /\ gDeferredFreeBlocks # <<>> =>
       \E u \in Sizes \cup {0} : Counts(gTotalDeferred, Bytes(gDeferredFreeBlocks), u)
  /\ Len(gDeferredFreeBlocks) > 1 => gTotalDeferred <= mMaxDeferFreeBytes

LEMMA SizesOfHeaders ==
  ASSUME NEW h \in [Blocks -> Headers] PROVE Sized(h, Blocks)
<1>1. Sizes \cup {0} \subseteq Nat
  BY PaddingAssumption
<1>2. ASSUME NEW b \in Blocks PROVE h[b].usize \in Sizes \cup {0}
  <2>1. h[b] \in Headers
    OBVIOUS
  <2> QED
    BY <2>1 DEF Headers
<1> QED
  BY <1>1, <1>2 DEF Sized

LEMMA BytesOfHeaders ==
  /\ \A q : Bytes(q) = BytesOf(hdr, q)
  /\ Bytes(gDeferredFreeBlocks)' = BytesOf(hdr', gDeferredFreeBlocks')
BY DEF Bytes, BytesOf

\* A header keeps its size when it is signed and when its magic bytes go.
LEMMA SizeKept ==
  ASSUME NEW h \in [Blocks -> Headers], NEW b \in Blocks, NEW c \in Blocks, NEW sig
  PROVE  /\ [h EXCEPT ![b].sig = sig][c].usize = h[c].usize
         /\ [h EXCEPT ![b].tail = FALSE][c].usize = h[c].usize
<1>1. h[c] \in Headers
  OBVIOUS
<1>2. /\ [h[c] EXCEPT !.sig = sig].usize = h[c].usize
      /\ [h[c] EXCEPT !.tail = FALSE].usize = h[c].usize
  BY <1>1 DEF Headers
<1> QED
  BY <1>2

\* No step changes the size of a deferred block.
LEMMA DeferredSizesKept ==
  ASSUME PadInv, [Next]_vars, NEW b \in Members(gDeferredFreeBlocks)
  PROVE  hdr'[b].usize = hdr[b].usize
<1>i. TypeInv /\ PlaceInv
  BY DEF PadInv
<1>b. b \in Blocks /\ b \in heap /\ hdr \in [Blocks -> Headers] /\ hdr[b] \in Headers
  BY <1>i DEF TypeInv, PlaceInv
<1>h. ASSUME NEW t \in Threads, pc[t] \in Working
      PROVE  blk[t] \in Blocks /\ blk[t] # b
  BY <1>i, <1>h DEF TypeInv, PlaceInv, Has
\* The headers after the step.
<1> DEFINE Kept == hdr' = hdr
           Signs == \E c \in Blocks : \E sig : hdr' = [hdr EXCEPT ![c].sig = sig]
           Overwrites == \E c \in Blocks : \E x : c # b /\ hdr' = [hdr EXCEPT ![c] = x]
           Spoils == \E c \in Blocks : hdr' = [hdr EXCEPT ![c].tail = FALSE]
           Defers == \E c \in Blocks : \E S : hdr' = Resigned(c, S)
           Renews == \E S : hdr' = [c \in Blocks |-> IF c \in S THEN [hdr[c] EXCEPT !.sig = "other"]
                                                         ELSE hdr[c]]
<1>k. CASE Kept \/ Overwrites
  BY <1>b, <1>k
<1>s. CASE Signs \/ Spoils
  <2>1. CASE Signs
    <3>0. PICK c \in Blocks : \E sig : hdr' = [hdr EXCEPT ![c].sig = sig]
      BY <2>1
    <3>1. PICK sig : hdr' = [hdr EXCEPT ![c].sig = sig]
      BY <3>0
    <3>2. [hdr EXCEPT ![c].sig = sig][b].usize = hdr[b].usize
      BY <1>b, SizeKept
    <3> QED
      BY <3>1, <3>2
  <2>2. CASE Spoils
    <3>1. PICK c \in Blocks : hdr' = [hdr EXCEPT ![c].tail = FALSE]
      BY <2>2
    <3>2. [hdr EXCEPT ![c].tail = FALSE][b].usize = hdr[b].usize
      BY <1>b, SizeKept
    <3> QED
      BY <3>1, <3>2
  <2> QED
    BY <1>s, <2>1, <2>2
<1>d. CASE Defers \/ Renews
  <2>1. \E sig : hdr'[b] = hdr[b] \/ hdr'[b] = [hdr[b] EXCEPT !.sig = sig]
    BY <1>b, <1>d DEF Resigned
  <2>2. \A sig : [hdr[b] EXCEPT !.sig = sig].usize = hdr[b].usize
    BY <1>b DEF Headers
  <2> QED
    BY <2>1, <2>2
<1>0. CASE UNCHANGED vars
  BY <1>0 DEF vars
<1>1. CASE AppStep
  <2>1. live \subseteq Blocks
    BY <1>i DEF TypeInv, PlaceInv
  <2>2. Signs \/ Spoils
    BY <1>1, <2>1 DEF AppStep, Overrun, Underrun, Sign
  <2> QED
    BY <1>s, <2>2
<1>2. ASSUME NEW t \in Threads, EntryStep(t) PROVE hdr'[b].usize = hdr[b].usize
  <2>1. Kept \/ Renews
    BY <1>2 DEF EntryStep, CheckAll, Malloc, ReallocNull, FreeMine, FreeDeferred, FreeDefault,
                ReallocMine, ReallocDefault
  <2> HIDE DEF Kept, Renews
  <2> QED
    BY <1>k, <1>d, <2>1
<1>3. ASSUME NEW t \in Threads, MallocStep(t) PROVE hdr'[b].usize = hdr[b].usize
  <2>1. CASE DefaultBlock(t)
    <3>1. Signs
      BY <2>1 DEF DefaultBlock, Sign
    <3> QED
      BY <1>s, <3>1
  <2>2. CASE PaddedBlock(t)
    <3>1. Overwrites
      BY <1>b, <2>2 DEF PaddedBlock
    <3> QED
      BY <1>k, <3>1
  <2>3. CASE AllocationFails(t) \/ Link(t)
    BY <2>3 DEF AllocationFails, Link
  <2> QED
    BY <1>3, <2>1, <2>2, <2>3 DEF MallocStep
<1>4. ASSUME NEW t \in Threads, FreeStep(t) PROVE hdr'[b].usize = hdr[b].usize
  <2>1. CASE Free(t)
    <3>1. blk[t] \in Blocks
      BY <1>h, <2>1 DEF Free, Working
    <3>2. Signs
      BY <2>1, <3>1 DEF Free, Sign
    <3> QED
      BY <1>s, <3>2
  <2>2. CASE LinkDeferred(t)
    <3>1. blk[t] \in Blocks
      BY <1>h, <2>2 DEF LinkDeferred, Working
    <3>2. Defers
      BY <2>2, <3>1 DEF LinkDeferred
    <3> QED
      BY <1>d, <3>2
  <2>3. CASE UnlinkFreed(t) \/ ReadSize(t)
    BY <2>3 DEF UnlinkFreed, ReadSize
  <2> QED
    BY <1>4, <2>1, <2>2, <2>3 DEF FreeStep
<1>5. ASSUME NEW t \in Threads, ReallocStep(t) PROVE hdr'[b].usize = hdr[b].usize
  <2>1. CASE UnlinkReallocated(t)
    <3>1. blk[t] \in Blocks
      BY <1>h, <2>1 DEF UnlinkReallocated, Working
    <3>2. Signs
      BY <2>1, <3>1 DEF UnlinkReallocated, Sign
    <3> QED
      BY <1>s, <3>2
  <2>2. CASE Reallocated(t)
    <3>1. blk[t] \in Blocks /\ blk[t] # b
      BY <1>h, <2>2 DEF Reallocated, Working
    <3>2. Overwrites
      BY <1>b, <2>2, <3>1 DEF Reallocated
    <3> QED
      BY <1>k, <3>2
  <2>3. CASE ReallocFails(t)
    BY <2>3 DEF ReallocFails
  <2> QED
    BY <1>5, <2>1, <2>2, <2>3 DEF ReallocStep
<1> QED
  BY <1>0, <1>1, <1>2, <1>3, <1>4, <1>5 DEF Next, Ended

\* Only LinkDeferredBlock changes the deferred list and its counter, and nothing the limit.
LEMMA DeferredListKept ==
  ASSUME [Next]_vars
  PROVE  /\ mMaxDeferFreeBytes' = mMaxDeferFreeBytes
         /\ \/ UNCHANGED <<gDeferredFreeBlocks, gTotalDeferred>>
            \/ \E t \in Threads : LinkDeferred(t)
<1> DEFINE Same == UNCHANGED <<gDeferredFreeBlocks, gTotalDeferred>>
<1> USE DEF listVars
<1>0. CASE UNCHANGED vars
  BY <1>0 DEF vars
<1>1. ASSUME AppStep PROVE Same
  BY <1>1 DEF AppStep, Overrun, Underrun
<1>2. ASSUME NEW t \in Threads, EntryStep(t) PROVE Same
  BY <1>2 DEF EntryStep, CheckAll, Malloc, ReallocNull, FreeMine, FreeDeferred, FreeDefault,
              ReallocMine, ReallocDefault
<1>3. ASSUME NEW t \in Threads, MallocStep(t) PROVE Same
  BY <1>3 DEF MallocStep, DefaultBlock, PaddedBlock, AllocationFails, Link
<1>4. ASSUME NEW t \in Threads, FreeStep(t) PROVE Same \/ LinkDeferred(t)
  BY <1>4 DEF FreeStep, Free, UnlinkFreed, ReadSize
<1>5. ASSUME NEW t \in Threads, ReallocStep(t) PROVE Same
  BY <1>5 DEF ReallocStep, UnlinkReallocated, Reallocated, ReallocFails
<1>6. mMaxDeferFreeBytes' = mMaxDeferFreeBytes
  BY <1>0 DEF Next, Ended
<1> HIDE DEF Same
<1>7. Same \/ \E t \in Threads : LinkDeferred(t)
  <2>1. CASE UNCHANGED vars
    BY <2>1 DEF vars, Same
  <2> QED
    BY <1>1, <1>2, <1>3, <1>4, <1>5, <2>1 DEF Next, Ended, Same
<1>8. Same => UNCHANGED <<gDeferredFreeBlocks, gTotalDeferred>>
  BY DEF Same
<1> QED
  BY <1>6, <1>7, <1>8

\* A sum is counted when its parts are, in whatever order and by however many remainders.
LEMMA CountsAdd ==
  ASSUME NEW c \in Int, NEW n \in Int, NEW u \in Int, Counts(c, n, u), NEW x \in Int,
         WordSize \in Nat \ {0}
  PROVE  Counts((c + x) % WordSize, n + x, u)
<1>1. PICK k \in Int : c = n - u + k * WordSize
  BY DEF Counts
<1>2. PICK l \in Int : (c + x) % WordSize = (c + x) + l * WordSize
  <2> DEFINE y == c + x
  <2>1. y \in Int
    OBVIOUS
  <2> HIDE DEF y
  <2>2. \E l \in Int : y % WordSize = y + l * WordSize
    BY <2>1, Remainder
  <2> QED
    BY <2>2 DEF y
<1>3. (k + l) * WordSize = k * WordSize + l * WordSize
  OBVIOUS
<1>4. k * WordSize \in Int /\ l * WordSize \in Int
  OBVIOUS
<1>5. (c + x) % WordSize = (n + x) - u + (k + l) * WordSize
  BY <1>1, <1>2, <1>3, <1>4
<1> QED
  BY <1>5 DEF Counts

\* A deferred block is counted and the oldest may go, until the counter is within the limit or
\* no other block is left.
LEMMA DeferredIsCounted ==
  ASSUME PadInv, CountInv, [Next]_vars, NEW t \in Threads, LinkDeferred(t)
  PROVE  CountInv'
<1>a. WordSize \in Nat \ {0}
  BY PaddingAssumption DEF CountInv
<1>b. /\ blk[t] \in Blocks /\ blk[t] \notin Members(gDeferredFreeBlocks)
      /\ hdr \in [Blocks -> Headers] /\ hdr' \in [Blocks -> Headers]
      /\ gDeferredFreeBlocks \in Seq(Blocks) /\ IsInjective(gDeferredFreeBlocks)
  BY StepTypeInv DEF LinkDeferred, PadInv, TypeInv, PlaceInv, Has, Working
<1>c. Sized(hdr, Blocks) /\ Sized(hdr', Blocks)
  BY <1>b, SizesOfHeaders
<1>d. hdr[blk[t]].usize \in Sizes \cup {0} /\ hdr[blk[t]].usize \in Nat
  <2>1. hdr[blk[t]] \in Headers
    BY <1>b
  <2> QED
    BY <1>b, <1>c, <2>1 DEF Headers, Sized
<1>e. mMaxDeferFreeBytes' = mMaxDeferFreeBytes
  BY DeferredListKept
\* The sizes in the headers after the step.
<1>f. ASSUME NEW b \in Blocks PROVE hdr'[b].usize = hdr[b].usize
  <2>1. PICK c \in Blocks : \E S : hdr' = Resigned(c, S)
    BY <1>b DEF LinkDeferred
  <2>2. \/ hdr'[b] = hdr[b]
        \/ hdr'[b] = [hdr[b] EXCEPT !.sig = "FREEBLK!"]
        \/ hdr'[b] = [hdr[b] EXCEPT !.sig = "DEFERBLK"]
    BY <2>1 DEF Resigned
  <2>3. hdr[b] \in Headers
    BY <1>b
  <2>4. /\ [hdr[b] EXCEPT !.sig = "FREEBLK!"].usize = hdr[b].usize
        /\ [hdr[b] EXCEPT !.sig = "DEFERBLK"].usize = hdr[b].usize
    BY <2>3 DEF Headers
  <2> QED
    BY <2>2, <2>4
<1>1. CASE gDeferredFreeBlocks = <<>>
  <2> DEFINE one == <<blk[t]>>
             u == hdr[blk[t]].usize
  <2>1. /\ gDeferredFreeBlocks' = one /\ gTotalDeferred' = 0
        /\ 0 \in 0 .. (WordSize - 1)
    BY <1>a, <1>1 DEF LinkDeferred, CountInv
  <2>2. one \in Seq(Blocks) /\ one # <<>> /\ ~(Len(one) > 1)
    BY <1>b
  <2>3. BytesOf(hdr', one) = u
    BY <1>b, <1>c, <1>f, BytesOfOne
  <2>4. Counts(0, u, u)
    <3>1. 0 = u - u + 0 * WordSize /\ 0 \in Int
      BY <1>a, <1>d
    <3> QED
      BY <3>1 DEF Counts
  <2>5. Bytes(gDeferredFreeBlocks)' = u
    BY <2>1, <2>3, BytesOfHeaders
  <2> HIDE DEF one, u
  <2>6. u \in Sizes \cup {0}
    BY <1>d DEF u
  <2> QED
    BY <1>e, <2>1, <2>2, <2>4, <2>5, <2>6 DEF CountInv, Counts
<1>2. CASE gDeferredFreeBlocks # <<>>
  <2> DEFINE s == gDeferredFreeBlocks
             last == Len(s)
             q == Append(s, blk[t])
             n == (gTotalDeferred + hdr[blk[t]].usize) % WordSize
             k == Popped(q, n)
             p == SubSeq(q, 1, k)
             r == SubSeq(q, k + 1, Len(q))
  <2>1. gDeferredFreeBlocks' = r /\ gTotalDeferred' = CounterAfter(q, n, k)
    BY <1>2 DEF LinkDeferred
  <2>2. /\ last \in Nat /\ q \in Seq(Blocks) /\ Len(q) - 1 = last /\ Len(q) = last + 1
        /\ \A i \in 1 .. Len(q) : q[i] \in Blocks
    <3>1. last \in Nat
      BY <1>b, LenProperties
    <3>2. q \in Seq(Blocks) /\ Len(q) = last + 1
      BY <1>b, AppendProperties
    <3> HIDE DEF q, last
    <3> QED
      BY <3>1, <3>2, ElementOfSeq
  <2>3. k \in 0 .. last /\ (k = last \/ ~OverLimit(q, n, k))
    <3> HIDE DEF q, n, last
    <3> QED
      BY <2>2, PoppedInRange
  <2> HIDE DEF last, q, n, k
  <2>4. /\ p \in Seq(Blocks) /\ Len(p) = k /\ \A i \in 1 .. k : p[i] = q[i]
    <3>1. 1 \in Int /\ k \in Int /\ \A i \in 1 .. k : i \in 1 .. Len(q)
      BY <2>2, <2>3
    <3>2. /\ p \in Seq(Blocks) /\ Len(p) = IF 1 <= k THEN k - 1 + 1 ELSE 0
          /\ \A i \in 1 .. k - 1 + 1 : p[i] = q[1 + i - 1]
      BY <2>2, <3>1, SubSeqProperties
    <3> HIDE DEF p
    <3> QED
      BY <2>3, <3>2
  <2>5. /\ r \in Seq(Blocks) /\ Len(r) = last + 1 - k
        /\ \A i \in 1 .. last + 1 - k : r[i] = q[k + i] /\ q[k + i] \in Blocks
    <3>1. /\ k + 1 \in Int /\ Len(q) \in Int /\ \A i \in k + 1 .. Len(q) : i \in 1 .. Len(q)
      BY <2>2, <2>3
    <3>2. /\ r \in Seq(Blocks)
          /\ Len(r) = IF k + 1 <= Len(q) THEN Len(q) - (k + 1) + 1 ELSE 0
          /\ \A i \in 1 .. Len(q) - (k + 1) + 1 : r[i] = q[(k + 1) + i - 1]
      BY <2>2, <3>1, SubSeqProperties
    <3> HIDE DEF r
    <3>3. Len(r) = last + 1 - k /\ Len(q) - (k + 1) + 1 = last + 1 - k
      BY <2>2, <2>3, <3>2
    <3>4. ASSUME NEW i \in 1 .. last + 1 - k PROVE r[i] = q[k + i] /\ q[k + i] \in Blocks
      <4>1. (k + 1) + i - 1 = k + i /\ k + i \in 1 .. Len(q)
        BY <2>2, <2>3
      <4> QED
        BY <2>2, <3>2, <3>3, <4>1
    <3> QED
      BY <3>2, <3>3, <3>4
  <2> HIDE DEF p, r
  <2>6. Parts(Blocks, hdr, q, p, hdr', r)
    <3>1. Len(q) = Len(p) + Len(r)
      BY <2>2, <2>3, <2>4, <2>5
    <3>2. \A i \in 1 .. Len(r) : hdr'[r[i]].usize = hdr[q[Len(p) + i]].usize
      BY <2>4, <2>5, <1>f
    <3> QED
      BY <1>c, <2>2, <2>4, <2>5, <3>1, <3>2 DEF Parts
  <2>7. BytesOf(hdr, q) = BytesOf(hdr, p) + BytesOf(hdr', r)
    BY <2>6, BytesOfParts
  <2>8. BytesOf(hdr, q) = BytesOf(hdr, s) + hdr[blk[t]].usize
    BY <1>b, <1>c, BytesOfQueued DEF q
  <2>9. BytesOf(hdr, q) \in Nat /\ BytesOf(hdr, p) \in Nat /\ BytesOf(hdr', r) \in Nat
        /\ BytesOf(hdr, s) \in Nat
    BY <1>b, <1>c, <2>2, <2>4, <2>5, BytesAreSums
  <2>10. PICK u \in Sizes \cup {0} : Counts(gTotalDeferred, BytesOf(hdr, s), u)
    BY <1>2, BytesOfHeaders DEF CountInv
  <2>11. u \in Int /\ gTotalDeferred \in Int
    BY PaddingAssumption DEF CountInv
  <2>12. Counts(n, BytesOf(hdr, q), u) /\ n \in 0 .. (WordSize - 1)
    <3>1. Counts(n, BytesOf(hdr, s) + hdr[blk[t]].usize, u)
      BY <1>a, <1>d, <2>9, <2>10, <2>11, CountsAdd DEF n
    <3>2. gTotalDeferred + hdr[blk[t]].usize \in Int
      BY <1>d, <2>11
    <3> QED
      BY <1>a, <2>8, <3>1, <3>2, Remainder DEF n
  <2>13. CounterAfter(q, n, k) = (n - BytesOf(hdr, p)) % WordSize
    BY BytesOfHeaders DEF CounterAfter, p
  <2>14. Counts(CounterAfter(q, n, k), BytesOf(hdr', r), u)
    <3> DEFINE x == 0 - BytesOf(hdr, p)
    <3>1. /\ x \in Int /\ n \in Int /\ BytesOf(hdr, q) \in Int
          /\ n + x = n - BytesOf(hdr, p) /\ BytesOf(hdr, q) + x = BytesOf(hdr', r)
      BY <2>7, <2>9, <2>12
    <3> HIDE DEF x
    <3>2. Counts((n + x) % WordSize, BytesOf(hdr, q) + x, u)
      BY <1>a, <2>11, <2>12, <3>1, CountsAdd
    <3> QED
      BY <2>13, <3>1, <3>2
  <2>15. CounterAfter(q, n, k) \in 0 .. (WordSize - 1)
    <3>1. n - BytesOf(hdr, p) \in Int
      BY <2>9, <2>12
    <3> QED
      BY <1>a, <2>13, <3>1, Remainder
  <2>16. Len(r) > 1 => CounterAfter(q, n, k) <= mMaxDeferFreeBytes
    BY <2>2, <2>3, <2>5, <2>15 DEF OverLimit, CountInv
  <2>17. r # <<>>
    BY <2>2, <2>3, <2>5
  <2>18. Bytes(gDeferredFreeBlocks)' = BytesOf(hdr', r)
    BY <2>1, BytesOfHeaders
  <2> QED
    BY <1>e, <2>1, <2>14, <2>15, <2>16, <2>17, <2>18 DEF CountInv, Counts
<1> QED
  BY <1>1, <1>2

\* The counter is right after every step.
LEMMA StepCountInv ==
  ASSUME PadInv, CountInv, [Next]_vars PROVE CountInv'
<1>1. ASSUME NEW t \in Threads, LinkDeferred(t) PROVE CountInv'
  BY <1>1, DeferredIsCounted
<1>2. CASE UNCHANGED <<gDeferredFreeBlocks, gTotalDeferred>>
  <2>1. /\ hdr \in [Blocks -> Headers] /\ hdr' \in [Blocks -> Headers]
        /\ gDeferredFreeBlocks \in Seq(Blocks)
    BY StepTypeInv DEF PadInv, TypeInv
  <2>2. Sized(hdr, Blocks) /\ Sized(hdr', Blocks)
    BY <2>1, SizesOfHeaders
  <2>3. \A b \in Members(gDeferredFreeBlocks) : hdr'[b].usize = hdr[b].usize
    BY DeferredSizesKept
  <2>4. BytesOf(hdr', gDeferredFreeBlocks) = BytesOf(hdr, gDeferredFreeBlocks)
    BY <2>1, <2>2, <2>3, BytesUnchanged
  <2>5. Bytes(gDeferredFreeBlocks)' = Bytes(gDeferredFreeBlocks)
    BY <1>2, <2>4, BytesOfHeaders
  <2> QED
    BY <1>2, <2>5, DeferredListKept DEF CountInv, Counts
<1> QED
  BY <1>1, <1>2, DeferredListKept

\* Whatever the limit, and however often the counter wrapped around: blocks that do not overlap
\* have fewer bytes than a word can count, and so the counter tells how many there are.
LEMMA CountBounds ==
  ASSUME PadInv, CountInv, Bytes(gDeferredFreeBlocks) < WordSize
  PROVE  DeferredBounded
<1> DEFINE n == Bytes(gDeferredFreeBlocks)
<1>1. gDeferredFreeBlocks \in Seq(Blocks) /\ Len(gDeferredFreeBlocks) \in Nat
  BY LenProperties DEF PadInv, TypeInv
<1>2. n \in Nat
  <2>1. Sized(hdr, Blocks)
    BY SizesOfHeaders DEF PadInv, TypeInv
  <2> QED
    BY <1>1, <2>1, BytesAreSums, BytesOfHeaders
<1>3. SUFFICES ASSUME Len(gDeferredFreeBlocks) > 1
               PROVE  \E m \in Sizes : n <= mMaxDeferFreeBytes + m
  BY <1>1 DEF DeferredBounded
<1>4. gDeferredFreeBlocks # <<>>
  BY <1>3
<1>5. PICK u \in Sizes \cup {0}, k \in Int : gTotalDeferred = n - u + k * WordSize
  BY <1>4 DEF CountInv, Counts
<1>6. /\ WordSize \in Nat /\ n < WordSize /\ u \in Nat /\ k * WordSize \in Int
      /\ gTotalDeferred \in Nat /\ gTotalDeferred < WordSize
      /\ mMaxDeferFreeBytes \in Nat /\ gTotalDeferred <= mMaxDeferFreeBytes
  BY <1>3, PaddingAssumption DEF CountInv
<1> HIDE DEF n
<1>7. n <= mMaxDeferFreeBytes + u
  <2>1. CASE k < 0
    <3>1. k * WordSize <= 0 - WordSize
      BY <1>6, <2>1
    <3> QED
      BY <1>2, <1>5, <1>6, <3>1
  <2>2. CASE k = 0
    BY <1>2, <1>5, <1>6, <2>2
  <2>3. CASE k > 0
    <3>1. k * WordSize >= WordSize
      BY <1>6, <2>3
    <3> QED
      BY <1>2, <1>5, <1>6, <3>1
  <2> QED
    BY <2>1, <2>2, <2>3
<1>8. PICK m \in Sizes : TRUE
  BY PaddingAssumption
<1>9. m \in Nat /\ (u = 0 \/ u \in Sizes)
  BY PaddingAssumption
<1> QED
  BY <1>2, <1>6, <1>7, <1>8, <1>9

-------------------------------------------------------------------------------
(* The theorems *)

\* The list of blocks in use is what ListInv says, as a set.
LEMMA PadInvList ==
  ASSUME PadInv PROVE InUseListExact
<1>1. \A b : b \in InProgress(Listed) <=> \E t \in Threads : pc[t] \in Listed /\ blk[t] = b
  BY DEF InProgress
<1>2. ASSUME NEW b \in Members(gBlockHeaderAnchor)
      PROVE  b \in {c \in live \ plain : hdr[c].sig # "FREEBLK!"} \cup InProgress(Listed)
  BY <1>1 DEF PadInv, ListInv
<1>3. ASSUME NEW b \in {c \in live \ plain : hdr[c].sig # "FREEBLK!"} \cup InProgress(Listed)
      PROVE  b \in Members(gBlockHeaderAnchor)
  BY <1>1, <1>3 DEF PadInv, ListInv
<1> QED
  BY <1>2, <1>3 DEF InUseListExact, PadInv, ListInv, Listed

\* The heap is what PlaceInv says, as a set.
LEMMA PadInvHeap ==
  ASSUME PadInv PROVE HeapAccounted
<1>1. \A b : b \in InProgress(Working) <=> \E t \in Threads : Has(t) /\ blk[t] = b
  BY DEF InProgress, Has
<1>2. ASSUME NEW b \in heap
      PROVE  b \in live \cup Members(gDeferredFreeBlocks) \cup InProgress(Working)
  BY <1>1 DEF PadInv, PlaceInv
<1>3. ASSUME NEW b \in live \cup Members(gDeferredFreeBlocks) \cup InProgress(Working)
      PROVE  b \in heap
  BY <1>1, <1>3 DEF PadInv, PlaceInv
<1> QED
  BY <1>2, <1>3 DEF HeapAccounted, PadInv, PlaceInv, Working

\* The list leaks are reported from is exact, whatever malloc, free and realloc of other
\* threads are at and whatever the application overwrote.
THEOREM ListIsExact == Spec => []InUseListExact
BY PaddingInvariant, PadInvList, PTL

\* No raw block is lost or in two places.
THEOREM HeapIsAccounted == Spec => []HeapAccounted
BY PaddingInvariant, PadInvHeap, PTL

\* An application that keeps to its blocks is never aborted.
THEOREM NoAbortWithoutFault == Spec => []NoFalseAlarm
<1>1. PadInv => NoFalseAlarm
  BY DEF PadInv, EndInv
<1> QED
  BY <1>1, PaddingInvariant, PTL

\* Blocks of ours never go to the C library by their user address while ::realloc does not
\* fail.
THEOREM BlocksAreRecognised == Spec => []OwnBlocksRecognisedUnlessFailed
<1>1. PadInv => OwnBlocksRecognisedUnlessFailed
  BY DEF PadInv, EndInv
<1> QED
  BY <1>1, PaddingInvariant, PTL

\* The steps that take a block of ours back from the application look at its magic bytes first.
LEMMA StepOverrunCaught ==
  ASSUME PadInv, [Next]_vars, NEW b \in live \ (live' \cup plain)
  PROVE  hdr[b].tail
<1> USE DEF listVars, localVars
<1>0. live' # live
  OBVIOUS
<1>1. CASE AppStep
  BY <1>0, <1>1 DEF AppStep, Overrun, Underrun
<1>2. ASSUME NEW t \in Threads, MallocStep(t) \/ FreeStep(t) \/ ReallocStep(t) PROVE FALSE
  BY <1>2 DEF MallocStep, FreeStep, ReallocStep, PaddedBlock, DefaultBlock, AllocationFails, Link,
              UnlinkFreed, Free, LinkDeferred, ReadSize, UnlinkReallocated, Reallocated, ReallocFails
<1>3. ASSUME NEW t \in Threads, EntryStep(t) PROVE hdr[b].tail
  <2>1. ASSUME \/ CheckAll(t) \/ \E n \in Sizes : Malloc(t, n) \/ ReallocNull(t, n)
               \/ \E c \in Freeable : FreeDeferred(t, c)
        PROVE  FALSE
    BY <1>0, <2>1 DEF CheckAll, Malloc, ReallocNull, FreeDeferred
  <2>2. ASSUME NEW c, FreeMine(t, c) \/ \E n \in Sizes : ReallocMine(t, c, n)
        PROVE  hdr[b].tail
    BY <1>0, <2>2 DEF FreeMine, ReallocMine
  <2>3. ASSUME NEW c, FreeDefault(t, c) \/ \E n \in Sizes : ReallocDefault(t, c, n)
        PROVE  FALSE
    BY <1>0, <2>3 DEF FreeDefault, ReallocDefault
  <2> QED
    BY <1>3, <2>1, <2>2, <2>3 DEF EntryStep
<1> QED
  BY <1>0, <1>1, <1>2, <1>3 DEF Next, Ended, vars

\* A block whose magic bytes are gone is never taken back from the application.
THEOREM OverrunsAreCaught == Spec => OverrunCaught
<1>1. PadInv /\ [Next]_vars => [\A b \in live \ (live' \cup plain) : hdr[b].tail]_vars
  BY StepOverrunCaught
<1> QED
  BY <1>1, PaddingInvariant, PTL DEF Spec, OverrunCaught

\* The deferred blocks are within the limit but for the first one ever deferred, for every
\* limit a word can hold.  The blocks on the list are apart in memory: they have fewer bytes
\* than size_t can count.
THEOREM DeferralIsBounded ==
  Spec => [](Bytes(gDeferredFreeBlocks) < WordSize => DeferredBounded)
<1>1. Init => CountInv
  <2>1. CASE Init
    <3>1. /\ mMaxDeferFreeBytes \in 0 .. (WordSize - 1) /\ WordSize \in Nat
          /\ gTotalDeferred = 0 /\ gDeferredFreeBlocks = <<>>
      BY <2>1, PaddingAssumption DEF Init
    <3>2. ~(Len(gDeferredFreeBlocks) > 1) /\ 0 \in 0 .. (WordSize - 1)
      BY <3>1
    <3> QED
      BY <3>1, <3>2 DEF CountInv
  <2> QED
    BY <2>1
<1>2. PadInv /\ CountInv /\ [Next]_vars => CountInv'
  BY StepCountInv
<1>3. PadInv /\ CountInv => (Bytes(gDeferredFreeBlocks) < WordSize => DeferredBounded)
  BY CountBounds
<1> QED
  BY <1>1, <1>2, <1>3, PaddingInvariant, PTL DEF Spec
===============================================================================
