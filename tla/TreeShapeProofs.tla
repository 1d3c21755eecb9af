--------------------------- MODULE TreeShapeProofs ---------------------------
(***************************************************************************)
(* What it is for a heap of nodes to be a B+ tree, and how the repairs of  *)
(* main.c preserve it: hanging a node into its parent and taking it out,   *)
(* dividing a node in two and joining two into one, growing and shrinking  *)
(* at the root.  Every split, merge and redistribution is made of these.   *)
(*                                                                         *)
(* A node stands for a range of values, the root for all of them, a child  *)
(* for the part that a descent sends to its pointer; and it has a height   *)
(* above the leaves.  While a split node waits to be hung into its parent, *)
(* or is taken out to be joined, its left neighbour's pointer covers the   *)
(* ranges of both: the tree is then a forest.                              *)
(***************************************************************************)
EXTENDS BPlusTree, SequenceTheorems, FiniteSetTheorems, TLAPS

(* Induction over the natural numbers, for sets and functions instead of   *)
(* for operators: the library's theorems take an operator.                 *)

(* Every set of natural numbers has a least one, as the intervals from 0   *)
(* are well-founded by inclusion.                                          *)
LEMMA LeastNatural ==
  ASSUME NEW T \in SUBSET Nat, T # {}
  PROVE  \E x \in T : \A y \in T : x <= y
<1> DEFINE below == {0..x : x \in T}
<1>1. below \subseteq FiniteSubsetsOf(Nat) /\ below # {}
  <2>1. \A x \in T : 0..x \in SUBSET Nat /\ IsFiniteSet(0..x)
    BY FS_Interval
  <2> QED
    BY <2>1 DEF FiniteSubsetsOf
<1>2. PICK b \in below : \A c \in below : <<c, b>> \notin StrictSubsetOrdering(Nat)
  <2> HIDE DEF below
  <2> QED BY <1>1, WFMin, FS_StrictSubsetOrderingWellFounded
<1>3. PICK x \in T : b = 0..x
  BY <1>2
<1>4. ASSUME NEW y \in T, y < x
      PROVE  FALSE
  <2>1. /\ <<0..y, 0..x>> \in (SUBSET Nat) \X (SUBSET Nat)
        /\ 0..y \subseteq 0..x
        /\ x \in 0..x /\ x \notin 0..y
    BY <1>4
  <2>2. <<0..y, 0..x>> \in StrictSubsetOrdering(Nat)
    BY <2>1, Zenon DEF StrictSubsetOrdering
  <2> QED
    BY <1>2, <1>3, <2>2
<1> QED
  BY <1>4

(* A set that has 0 and, with any number, the next one has all numbers.    *)
LEMMA SetInduction ==
  ASSUME NEW T, 0 \in T, \A n \in Nat : n \in T => n + 1 \in T
  PROVE  \A n \in Nat : n \in T
<1> SUFFICES ASSUME NEW n \in Nat, n \notin T
             PROVE  FALSE
  OBVIOUS
<1> DEFINE missing == Nat \ T
<1>1. PICK m \in missing : \A k \in missing : m <= k
  <2>1. missing \in SUBSET Nat /\ missing # {}
    OBVIOUS
  <2> HIDE DEF missing
  <2> QED
    BY <2>1, LeastNatural
<1>2. m - 1 \in Nat /\ m - 1 \notin missing /\ (m - 1) + 1 = m
  BY <1>1
<1> QED
  BY <1>1, <1>2

(* The same up to a limit. *)
LEMMA IntervalInduction ==
  ASSUME NEW m \in Int, NEW n \in Int, NEW T, m \in T,
         \A k \in m..(n - 1) : k \in T => k + 1 \in T
  PROVE  \A k \in m..n : k \in T
<1> DEFINE U == {d \in Nat : m + d <= n => m + d \in T}
<1>1. 0 \in U
  OBVIOUS
<1>2. ASSUME NEW d \in Nat, d \in U
      PROVE  d + 1 \in U
  <2> SUFFICES ASSUME m + (d + 1) <= n
               PROVE  m + (d + 1) \in T
    OBVIOUS
  <2>1. m + d \in m..(n - 1) /\ (m + d) + 1 = m + (d + 1)
    OBVIOUS
  <2> QED
    BY <1>2, <2>1
<1>3. \A d \in Nat : d \in U
  <2> HIDE DEF U
  <2> QED
    BY <1>1, <1>2, SetInduction
<1> SUFFICES ASSUME NEW k \in m..n
             PROVE  k \in T
  OBVIOUS
<1>4. k - m \in Nat /\ m + (k - m) = k
  OBVIOUS
<1> QED
  BY <1>3, <1>4

(* f[n] is what n applications of g make of origin.                         *)
Iterates(f, S, origin, g) ==
  /\ f \in [Nat -> S]
  /\ f[0] = origin
  /\ \A n \in Nat : f[n + 1] = g[f[n]]

(* Iterating a function on a set is a function on the natural numbers.     *)
LEMMA Iteration ==
  ASSUME NEW S, NEW origin, NEW g, origin \in S, g \in [S -> S]
  PROVE  \E f : Iterates(f, S, origin, g)
<1> DEFINE Upto(f, n) ==
             /\ f \in [0..n -> S]
             /\ f[0] = origin
             /\ \A k \in 0..(n - 1) : f[k + 1] = g[f[k]]
           T == {n \in Nat : \E f : Upto(f, n)}
<1>1. \A n \in Nat : n \in T
  <2>1. 0 \in T
    <3>1. Upto([k \in 0..0 |-> origin], 0)
      OBVIOUS
    <3> QED
      BY <3>1
  <2>2. ASSUME NEW n \in Nat, n \in T
        PROVE  n + 1 \in T
    <3>1. PICK f : Upto(f, n)
      BY <2>2
    <3> DEFINE h == [k \in 0..(n + 1) |-> IF k = n + 1 THEN g[f[n]] ELSE f[k]]
    <3>2. Upto(h, n + 1)
      <4>1. h \in [0..(n + 1) -> S]
        BY <3>1
      <4>2. h[0] = origin
        BY <3>1
      <4>3. ASSUME NEW k \in 0..((n + 1) - 1)
            PROVE  h[k + 1] = g[h[k]]
        <5>1. CASE k = n
          BY <5>1
        <5>2. CASE k # n
          <6>1. k \in 0..(n - 1) /\ k + 1 # n + 1 /\ k # n + 1
            BY <5>2
          <6> QED
            BY <3>1, <6>1
        <5> QED
          BY <5>1, <5>2
      <4> QED
        BY <4>1, <4>2, <4>3
    <3> HIDE DEF Upto, h
    <3> QED
      BY <3>2
  <2> HIDE DEF T
  <2> QED
    BY <2>1, <2>2, SetInduction
<1>2. ASSUME NEW n \in Nat, NEW m \in Nat, NEW e, NEW f, Upto(e, n), Upto(f, m), n <= m
      PROVE  \A k \in 0..n : e[k] = f[k]
  <2> DEFINE U == {k \in 0..n : e[k] = f[k]}
  <2>1. 0 \in U
    BY <1>2
  <2>2. ASSUME NEW k \in 0..(n - 1), k \in U
        PROVE  k + 1 \in U
    BY <1>2, <2>2
  <2>3. \A k \in 0..n : k \in U
    <3> HIDE DEF U
    <3> QED
      BY <2>1, <2>2, IntervalInduction
  <2> QED
    BY <2>3
<1> DEFINE upto(n) == CHOOSE f : Upto(f, n)
           all == [n \in Nat |-> upto(n)[n]]
<1>3. \A n \in Nat : Upto(upto(n), n)
  <2> SUFFICES ASSUME NEW n \in Nat
               PROVE  Upto(upto(n), n)
    OBVIOUS
  <2>1. \E f : Upto(f, n)
    BY <1>1
  <2> HIDE DEF Upto
  <2> QED
    BY <2>1
<1> HIDE DEF upto
<1>4. all \in [Nat -> S]
  BY <1>3
<1>5. all[0] = origin
  BY <1>3
<1>6. ASSUME NEW n \in Nat
      PROVE  all[n + 1] = g[all[n]]
  <2>1. upto(n + 1)[n + 1] = g[upto(n + 1)[n]]
    BY <1>3
  <2>2. upto(n + 1)[n] = upto(n)[n]
    <3>1. n + 1 \in Nat /\ n <= n + 1 /\ n \in 0..n
      OBVIOUS
    <3>2. Upto(upto(n), n) /\ Upto(upto(n + 1), n + 1)
      BY <1>3
    <3> HIDE DEF Upto
    <3>3. \A k \in 0..n : upto(n)[k] = upto(n + 1)[k]
      <4>1. \A e, f : Upto(e, n) /\ Upto(f, n + 1) => \A k \in 0..n : e[k] = f[k]
        BY <1>2, <3>1
      <4> QED
        BY <3>2, <4>1
    <3> QED
      BY <3>1, <3>3
  <2> QED
    BY <2>1, <2>2
<1>7. Iterates(all, S, origin, g)
  BY <1>4, <1>5, <1>6 DEF Iterates
<1> HIDE DEF all
<1> QED
  BY <1>7

(* The arithmetic of one node, and what the operators on its arrays yield. *)
(* getSplitPoint is half of its argument, rounded up. *)
LEMMA SplitPointIsHalf ==
  ASSUME NEW length \in Nat
  PROVE  /\ getSplitPoint(length) \in Nat
         /\ length <= 2 * getSplitPoint(length)
         /\ 2 * getSplitPoint(length) <= length + 1
  BY DEF getSplitPoint

(* splitAndInsertIntoLeaves leaves both halves between the minimum of      *)
(* deleteEntry and the capacity of a node, whatever the node size.         *)
THEOREM LeafSplitKeepsOccupancy ==
  ASSUME NEW size \in Nat \ {0}
  PROVE  /\ leftLeafKeys(size) \in minLeafKeys(size)..size
         /\ rightLeafKeys(size) \in minLeafKeys(size)..size
<1>1. size <= 2 * getSplitPoint(size) /\ 2 * getSplitPoint(size) <= size + 1
  BY SplitPointIsHalf
<1>2. getSplitPoint(size) \in Nat
  BY SplitPointIsHalf
<1> QED
  BY <1>1, <1>2 DEF leftLeafKeys, rightLeafKeys, minLeafKeys

(* splitAndInsertIntoInnerNode does so for odd node sizes ...              *)
THEOREM InnerSplitOfOddNodes ==
  ASSUME NEW size \in Nat, size % 2 = 1
  PROVE  /\ leftInnerKeys(size) \in minInnerKeys(size)..size
         /\ rightInnerKeys(size) \in minInnerKeys(size)..size
  BY DEF leftInnerKeys, rightInnerKeys, minInnerKeys, getSplitPoint

(* ... and for even ones, as the program's 20, leaves its right half one   *)
(* key short of the minimum.                                               *)
THEOREM InnerSplitOfEvenNodes ==
  ASSUME NEW size \in Nat \ {0}, size % 2 = 0
  PROVE  /\ leftInnerKeys(size) \in minInnerKeys(size)..size
         /\ rightInnerKeys(size) = minInnerKeys(size) - 1
  BY DEF leftInnerKeys, rightInnerKeys, minInnerKeys, getSplitPoint

-----------------------------------------------------------------------------
(* The elements of an array after an insertion, a removal, a division, a   *)
(* concatenation.                                                          *)
LEMMA InsertAtElements ==
  ASSUME NEW S, NEW s \in Seq(S), NEW i \in 1..(Len(s) + 1), NEW e \in S
  PROVE  /\ InsertAt(s, i, e) \in Seq(S)
         /\ Len(InsertAt(s, i, e)) = Len(s) + 1
         /\ \A j \in 1..(Len(s) + 1) :
              InsertAt(s, i, e)[j] = IF j < i THEN s[j] ELSE IF j = i THEN e ELSE s[j - 1]
<1> DEFINE a == SubSeq(s, 1, i - 1)
           b == SubSeq(s, i, Len(s))
<1>1. /\ a \in Seq(S) /\ Len(a) = i - 1
      /\ \A j \in 1..(i - 1) : a[j] = s[j]
  <2>1. \A j \in 1..(i - 1) : s[j] \in S
    OBVIOUS
  <2>2. /\ SubSeq(s, 1, i - 1) \in Seq(S)
        /\ Len(SubSeq(s, 1, i - 1)) = IF 1 <= i - 1 THEN (i - 1) - 1 + 1 ELSE 0
        /\ \A j \in 1..((i - 1) - 1 + 1) : SubSeq(s, 1, i - 1)[j] = s[1 + j - 1]
    BY <2>1, SubSeqProperties
  <2> QED
    BY <2>2
<1>2. /\ b \in Seq(S) /\ Len(b) = Len(s) - i + 1
      /\ \A j \in 1..(Len(s) - i + 1) : b[j] = s[i + j - 1]
  <2>1. \A j \in i..Len(s) : s[j] \in S
    OBVIOUS
  <2>2. /\ SubSeq(s, i, Len(s)) \in Seq(S)
        /\ Len(SubSeq(s, i, Len(s))) = IF i <= Len(s) THEN Len(s) - i + 1 ELSE 0
        /\ \A j \in 1..(Len(s) - i + 1) : SubSeq(s, i, Len(s))[j] = s[i + j - 1]
    BY <2>1, SubSeqProperties
  <2> QED
    BY <2>2
<1> HIDE DEF a, b
<1>3. <<e>> \in Seq(S) /\ Len(<<e>>) = 1 /\ <<e>>[1] = e
  OBVIOUS
<1>4. /\ a \o <<e>> \in Seq(S) /\ Len(a \o <<e>>) = i
      /\ \A j \in 1..i : (a \o <<e>>)[j] = IF j < i THEN s[j] ELSE e
  BY <1>1, <1>3, ConcatProperties
<1> DEFINE c == a \o <<e>>
<1> HIDE DEF c
<1>5. c \in Seq(S) /\ Len(c) = i /\ \A j \in 1..i : c[j] = IF j < i THEN s[j] ELSE e
  BY <1>4 DEF c
<1>6. /\ c \o b \in Seq(S) /\ Len(c \o b) = Len(c) + Len(b)
      /\ \A j \in 1..Len(c) + Len(b) :
           (c \o b)[j] = IF j <= Len(c) THEN c[j] ELSE b[j - Len(c)]
  BY <1>2, <1>5, ConcatProperties
<1> DEFINE d == c \o b
<1>7. InsertAt(s, i, e) = d
  BY DEF InsertAt, a, b, c
<1>8. /\ d \in Seq(S) /\ Len(d) = Len(s) + 1
      /\ \A j \in 1..(Len(s) + 1) : d[j] = IF j <= i THEN c[j] ELSE b[j - i]
  <2> HIDE DEF d
  <2>1. Len(c) + Len(b) = Len(s) + 1 /\ Len(c) = i
    BY <1>2, <1>5
  <2> QED
    BY <1>6, <2>1 DEF d
<1> HIDE DEF d
<1>9. \A j \in 1..(Len(s) + 1) : d[j] = IF j < i THEN s[j] ELSE IF j = i THEN e ELSE s[j - 1]
  <2> TAKE j \in 1..(Len(s) + 1)
  <2>1. CASE j <= i
    BY <1>5, <1>8, <2>1
  <2>2. CASE j > i
    <3>1. j - i \in 1..(Len(s) - i + 1) /\ i + (j - i) - 1 = j - 1
      BY <2>2
    <3>2. d[j] = s[j - 1]
      BY <1>2, <1>8, <2>2, <3>1
    <3> QED
      BY <2>2, <3>2
  <2> QED
    BY <2>1, <2>2
<1> QED
  BY <1>7, <1>8, <1>9

LEMMA SubSeqElements ==
  ASSUME NEW S, NEW s \in Seq(S), NEW m \in 1..(Len(s) + 1), NEW n \in (m - 1)..Len(s)
  PROVE  /\ SubSeq(s, m, n) \in Seq(S)
         /\ Len(SubSeq(s, m, n)) = n - m + 1
         /\ \A j \in 1..(n - m + 1) : SubSeq(s, m, n)[j] = s[m + j - 1]
<1>1. \A j \in m..n : s[j] \in S
  OBVIOUS
<1> QED
  BY <1>1, SubSeqProperties

LEMMA RemoveAtElements ==
  ASSUME NEW S, NEW s \in Seq(S), NEW i \in 1..Len(s)
  PROVE  /\ RemoveAt(s, i) \in Seq(S)
         /\ Len(RemoveAt(s, i)) = Len(s) - 1
         /\ \A j \in 1..(Len(s) - 1) : RemoveAt(s, i)[j] = IF j < i THEN s[j] ELSE s[j + 1]
<1> DEFINE a == SubSeq(s, 1, i - 1)
           b == SubSeq(s, i + 1, Len(s))
<1>1. /\ a \in Seq(S) /\ Len(a) = i - 1
      /\ \A j \in 1..(i - 1) : a[j] = s[j]
  <2>1. 1 \in 1..(Len(s) + 1) /\ i - 1 \in (1 - 1)..Len(s)
    OBVIOUS
  <2>2. /\ SubSeq(s, 1, i - 1) \in Seq(S)
        /\ Len(SubSeq(s, 1, i - 1)) = (i - 1) - 1 + 1
        /\ \A j \in 1..((i - 1) - 1 + 1) : SubSeq(s, 1, i - 1)[j] = s[1 + j - 1]
    BY <2>1, SubSeqElements
  <2> QED
    BY <2>2
<1>2. /\ b \in Seq(S) /\ Len(b) = Len(s) - i
      /\ \A j \in 1..(Len(s) - i) : b[j] = s[i + j]
  <2>1. i + 1 \in 1..(Len(s) + 1) /\ Len(s) \in ((i + 1) - 1)..Len(s)
    OBVIOUS
  <2>2. /\ SubSeq(s, i + 1, Len(s)) \in Seq(S)
        /\ Len(SubSeq(s, i + 1, Len(s))) = Len(s) - (i + 1) + 1
        /\ \A j \in 1..(Len(s) - (i + 1) + 1) : SubSeq(s, i + 1, Len(s))[j] = s[i + 1 + j - 1]
    BY <2>1, SubSeqElements
  <2> QED
    BY <2>2
<1> HIDE DEF a, b
<1>3. /\ a \o b \in Seq(S) /\ Len(a \o b) = Len(a) + Len(b)
      /\ \A j \in 1..Len(a) + Len(b) :
           (a \o b)[j] = IF j <= Len(a) THEN a[j] ELSE b[j - Len(a)]
  BY <1>1, <1>2, ConcatProperties
<1> DEFINE d == a \o b
<1>4. RemoveAt(s, i) = d
  BY DEF RemoveAt, a, b
<1>5. /\ d \in Seq(S) /\ Len(d) = Len(s) - 1
      /\ \A j \in 1..(Len(s) - 1) : d[j] = IF j < i THEN a[j] ELSE b[j - (i - 1)]
  <2> HIDE DEF d
  <2>1. Len(a) + Len(b) = Len(s) - 1 /\ Len(a) = i - 1
    BY <1>1, <1>2
  <2> QED
    BY <1>3, <2>1 DEF d
<1> HIDE DEF d
<1>6. \A j \in 1..(Len(s) - 1) : d[j] = IF j < i THEN s[j] ELSE s[j + 1]
  <2> TAKE j \in 1..(Len(s) - 1)
  <2>1. CASE j < i
    BY <1>1, <1>5, <2>1
  <2>2. CASE j >= i
    <3>1. j - (i - 1) \in 1..(Len(s) - i) /\ i + (j - (i - 1)) = j + 1
      BY <2>2
    <3>2. d[j] = b[j - (i - 1)]
      <4>1. ~(j < i)
        BY <2>2
      <4> QED
        BY <1>5, <4>1, Zenon
    <3>3. b[j - (i - 1)] = s[i + (j - (i - 1))]
      BY <1>2, <3>1, Zenon
    <3> QED
      BY <3>1, <3>2, <3>3
  <2> QED
    BY <2>1, <2>2
<1> QED
  BY <1>4, <1>5, <1>6

LEMMA FrontElements ==
  ASSUME NEW S, NEW s \in Seq(S), s # <<>>
  PROVE  /\ Front(s) \in Seq(S)
         /\ Len(Front(s)) = Len(s) - 1
         /\ \A j \in 1..(Len(s) - 1) : Front(s)[j] = s[j]
<1>1. 1 \in 1..(Len(s) + 1) /\ Len(s) - 1 \in (1 - 1)..Len(s)
  OBVIOUS
<1>2. /\ SubSeq(s, 1, Len(s) - 1) \in Seq(S)
      /\ Len(SubSeq(s, 1, Len(s) - 1)) = (Len(s) - 1) - 1 + 1
      /\ \A j \in 1..((Len(s) - 1) - 1 + 1) : SubSeq(s, 1, Len(s) - 1)[j] = s[1 + j - 1]
  BY <1>1, SubSeqElements
<1> QED
  BY <1>2 DEF Front

(* The search loops stop at the only occurrence.                           *)
LEMMA PositionOfOnly ==
  ASSUME NEW S, NEW s \in Seq(S), NEW i \in 1..Len(s), \A j \in 1..Len(s) : s[j] = s[i] => j = i
  PROVE  PositionOf(s, s[i]) = i
  BY DEF PositionOf

(* A descending search goes between the keys that are not above its key    *)
(* and those that are.                                                     *)
LEMMA InsertPointSeparates ==
  ASSUME NEW keys \in Seq(Int), NEW key \in Int
  PROVE  /\ getInsertPoint(keys, key) \in 0..Len(keys)
         /\ \A i \in 1..getInsertPoint(keys, key) : keys[i] <= key
         /\ getInsertPoint(keys, key) < Len(keys) => keys[getInsertPoint(keys, key) + 1] > key
<1> DEFINE T == {i \in 0..Len(keys) : i < Len(keys) => keys[i + 1] > key}
<1>1. T \in SUBSET Nat /\ Len(keys) \in T
  OBVIOUS
<1>2. PICK m \in T : \A j \in T : m <= j
  <2> HIDE DEF T
  <2> QED
    BY <1>1, LeastNatural
<1>3. Min(T) \in T /\ \A j \in T : Min(T) <= j
  <2> HIDE DEF T
  <2> QED
    BY <1>2 DEF Min
<1> DEFINE p == Min(T)
<1>4. getInsertPoint(keys, key) = p
  BY DEF getInsertPoint
<1> HIDE DEF p
<1>5. p \in T /\ \A j \in T : p <= j
  BY <1>3 DEF p
<1>6. \A i \in 1..p : keys[i] <= key
  <2> SUFFICES ASSUME NEW i \in 1..p, ~(keys[i] <= key)
               PROVE  FALSE
    OBVIOUS
  <2>1. i - 1 \in 0..Len(keys) /\ keys[(i - 1) + 1] > key
    BY <1>5
  <2>2. i - 1 \in T
    BY <2>1
  <2>3. p \in Nat /\ p <= i - 1
    <3> HIDE DEF T
    <3> QED
      BY <1>1, <1>5, <2>2
  <2> QED
    BY <2>3
<1> QED
  BY <1>4, <1>5, <1>6

(* They do stop when what they look for is there.                          *)
LEMMA PositionOfFinds ==
  ASSUME NEW S, NEW s \in Seq(S), NEW x, \E i \in 1..Len(s) : s[i] = x
  PROVE  PositionOf(s, x) \in 1..Len(s) /\ s[PositionOf(s, x)] = x
<1> DEFINE T == {i \in 1..Len(s) : s[i] = x}
<1>1. T \in SUBSET Nat /\ T # {}
  OBVIOUS
<1>2. \E i \in T : \A j \in T : i <= j
  <2> HIDE DEF T
  <2> QED
    BY <1>1, LeastNatural
<1>3. PICK i \in T : \A j \in T : i <= j
  BY <1>2
<1>4. i \in 1..Len(s) /\ s[i] = x /\ \A j \in 1..(i - 1) : s[j] # x
  <2>1. i \in 1..Len(s) /\ s[i] = x /\ Len(s) \in Nat
    BY <1>3
  <2>2. ASSUME NEW j \in 1..(i - 1), s[j] = x
        PROVE  FALSE
    <3>1. j \in 1..Len(s) /\ j < i
      BY <2>1
    <3>2. j \in T
      BY <2>2, <3>1
    <3>3. i <= j
      BY <1>3, <3>2
    <3> QED
      BY <2>1, <3>1, <3>3
  <2> QED
    BY <2>1, <2>2
<1> QED
  BY <1>4 DEF PositionOf

-----------------------------------------------------------------------------
(* Ranges and heights. *)
(* The part of S whose values a descent sends to pointer i.                *)
Slot(S, keys, i) ==
  {x \in S : (i > 1 => keys[i - 1] <= x) /\ (i <= Len(keys) => x < keys[i])}

(* The two parts of S on the left and on the right of a separator.         *)
Below(S, k) == {x \in S : x < k}
From(S, k)  == {x \in S : k <= x}

(* B begins where A ends.                                                  *)
Meets(A, B) == \E x \in A : x + 1 \in B \ A

Convex(A) == \A x, y \in A : \A z \in Int : x <= z /\ z <= y => z \in A

NodeTypes(h, L) ==
  /\ L \subseteq Node /\ L \subseteq DOMAIN h
  /\ \A n \in L : h[n] \in LeafRecord \/ h[n] \in InnerRecord

Levels(h, L, r, H) ==
  /\ H \in [L -> Nat]
  /\ \A n \in L : (h[n].isLeaf <=> H[n] = 0) /\ H[n] <= H[r]

LeafKeys(h, R, n) ==
  /\ Len(h[n].pointers) = Len(h[n].keys)
  /\ \A i \in 1..Len(h[n].keys) : h[n].keys[i] \in R[n] /\ h[n].pointers[i] # <<>>

(* The least value of a node is none of its separators.                    *)
InnerKeys(h, R, n) ==
  /\ Len(h[n].pointers) = Len(h[n].keys) + 1
  /\ \A i \in 1..Len(h[n].keys) : h[n].keys[i] \in R[n] /\ h[n].keys[i] - 1 \in R[n]

KeysInRange(h, L, R) ==
  \A n \in L : /\ Ascending(h[n].keys)
               /\ h[n].isLeaf => LeafKeys(h, R, n)
               /\ ~h[n].isLeaf => InnerKeys(h, R, n)

(* W are the ranges that the pointers cover, B the nodes not hung up.      *)
IsChild(h, L, H, R, W, B, n, i) ==
  LET c == h[n].pointers[i]
  IN  /\ c \in L \ B
      /\ h[c].parent = n
      /\ H[n] = H[c] + 1
      /\ W[c] = Slot(R[n], h[n].keys, i)

ChildrenOK(h, L, H, R, W, B) ==
  \A n \in L : ~h[n].isLeaf =>
    \A i \in 1..Len(h[n].pointers) : IsChild(h, L, H, R, W, B, n, i)

HangsIn(h, L, n, p) ==
  p \in L /\ ~h[p].isLeaf /\ \E i \in 1..Len(h[p].pointers) : h[p].pointers[i] = n

Attached(h, L, r, W, B) ==
  /\ r \in L \ B
  /\ h[r].parent = NULL
  /\ W[r] = Int
  /\ \A n \in L \ (B \union {r}) : HangsIn(h, L, n, h[n].parent)

Intervals(L, H, R) ==
  /\ R \in [L -> SUBSET Int]
  /\ \A n \in L : R[n] # {} /\ Convex(R[n])
  /\ \A n, m \in L : H[n] = H[m] /\ n # m => R[n] \cap R[m] = {}

LeafSet(h, L) == {n \in L : h[n].isLeaf}

Chain(h, L, R) ==
  /\ \A l \in LeafSet(h, L) : /\ h[l].next \in LeafSet(h, L) \union {NULL}
                              /\ h[l].prev \in LeafSet(h, L) \union {NULL}
  /\ \A l, m \in LeafSet(h, L) : /\ h[l].next = m <=> Meets(R[l], R[m])
                                 /\ h[m].prev = l <=> Meets(R[l], R[m])
  /\ \E f \in LeafSet(h, L) : \A l \in LeafSet(h, L) : h[l].prev = NULL <=> l = f

IsHeap(h, L, r, H, R, W, B) ==
  /\ NodeTypes(h, L)
  /\ Levels(h, L, r, H)
  /\ KeysInRange(h, L, R)
  /\ ChildrenOK(h, L, H, R, W, B)
  /\ Attached(h, L, r, W, B)
  /\ Intervals(L, H, R)
  /\ Chain(h, L, R)

IsTree(h, L, r, H, R) == IsHeap(h, L, r, H, R, R, {})

(* Node b waits, with separator k, to be hung in on the right of a.        *)
IsPair(h, L, H, R, a, k, b) ==
  /\ a \in L /\ b \in L /\ a # b
  /\ H[a] = H[b]
  /\ h[b].parent = h[a].parent
  /\ k \in Value
  /\ k - 1 \in R[a] /\ k \in R[b]
  /\ \A x \in R[a] : x < k
  /\ \A x \in R[b] : k <= x

Covered(R, a, b) == [R EXCEPT ![a] = R[a] \union R[b]]

IsForest(h, L, r, H, R, a, k, b) ==
  IsHeap(h, L, r, H, R, Covered(R, a, b), {b}) /\ IsPair(h, L, H, R, a, k, b)

-----------------------------------------------------------------------------
(*                         Arrays and their slots                          *)

(* t is s with e at position j.                                            *)
Inserted(s, t, j, e) ==
  /\ Len(t) = Len(s) + 1
  /\ j \in 1..Len(t)
  /\ t[j] = e
  /\ \A i \in 1..(j - 1) : t[i] = s[i]
  /\ \A i \in j..Len(s) : t[i + 1] = s[i]

(* t is s with u behind it.                                                *)
Joined(s, u, t) ==
  /\ Len(t) = Len(s) + Len(u)
  /\ \A i \in 1..Len(s) : t[i] = s[i]
  /\ \A i \in 1..Len(u) : t[Len(s) + i] = u[i]

(* t is s with e and u behind it.                                          *)
JoinedBy(s, e, u, t) ==
  /\ Len(t) = Len(s) + 1 + Len(u)
  /\ \A i \in 1..Len(s) : t[i] = s[i]
  /\ t[Len(s) + 1] = e
  /\ \A i \in 1..Len(u) : t[Len(s) + 1 + i] = u[i]

(* A new separator divides one slot in two and moves those on its right.   *)
LEMMA InsertedSlots ==
  ASSUME NEW S \in SUBSET Int, NEW s \in Seq(Int), NEW t \in Seq(Int), NEW j \in Nat,
         NEW k \in Int, Inserted(s, t, j, k), Ascending(t)
  PROVE  Slot(S, s, j) = Slot(S, t, j) \union Slot(S, t, j + 1)
<1>1. /\ Len(s) \in Nat /\ Len(t) = Len(s) + 1 /\ j \in 1..(Len(s) + 1)
      /\ \A i \in 1..Len(s) : s[i] \in Int
      /\ \A i \in 1..Len(t) : t[i] \in Int
      /\ \A i \in 1..(j - 1) : t[i] = s[i]
      /\ t[j] = k
      /\ \A i \in j..Len(s) : t[i + 1] = s[i]
  BY DEF Inserted
<1>4. Slot(S, s, j) = Slot(S, t, j) \union Slot(S, t, j + 1)
  <2>1. /\ j > 1 => t[j - 1] = s[j - 1] /\ t[j - 1] < k
        /\ j <= Len(s) => t[j + 1] = s[j] /\ k < t[j + 1]
        /\ j <= Len(t) /\ (j + 1 <= Len(t) <=> j <= Len(s))
        /\ j + 1 > 1 /\ (j + 1) - 1 = j /\ t[j] = k
    <3>1. /\ j \in 1..Len(t) /\ j + 1 > 1 /\ (j + 1) - 1 = j
          /\ j > 1 => j - 1 \in 1..(j - 1) /\ j - 1 \in 1..Len(t) /\ j - 1 < j
          /\ j <= Len(s) => j \in j..Len(s) /\ j + 1 \in 1..Len(t) /\ j < j + 1
          /\ j <= Len(t) /\ (j + 1 <= Len(t) <=> j <= Len(s))
      BY <1>1
    <3>2. \A i, m \in 1..Len(t) : i < m => t[i] < t[m]
      BY Zenon DEF Ascending
    <3>3. j > 1 => t[j - 1] = s[j - 1] /\ t[j - 1] < k
      BY <1>1, <3>1, <3>2, Zenon
    <3>4. j <= Len(s) => t[j + 1] = s[j] /\ k < t[j + 1]
      BY <1>1, <3>1, <3>2, Zenon
    <3> QED
      BY <1>1, <3>1, <3>3, <3>4
  <2>2. ASSUME NEW x \in S
        PROVE  x \in Slot(S, s, j) <=> x \in Slot(S, t, j) \/ x \in Slot(S, t, j + 1)
    <3>1. x \in Slot(S, t, j) <=> (j > 1 => s[j - 1] <= x) /\ x < k
      BY <2>1 DEF Slot
    <3>2. x \in Slot(S, t, j + 1) <=> k <= x /\ (j <= Len(s) => x < s[j])
      BY <2>1 DEF Slot
    <3>3. x \in Slot(S, s, j) <=> (j > 1 => s[j - 1] <= x) /\ (j <= Len(s) => x < s[j])
      BY DEF Slot
    <3>4. x \in Int /\ (j > 1 => s[j - 1] \in Int) /\ (j <= Len(s) => s[j] \in Int)
      BY <1>1
    <3> QED
      BY <2>1, <3>1, <3>2, <3>3, <3>4
  <2>3. \A x : x \in Slot(S, s, j) \/ x \in Slot(S, t, j) \/ x \in Slot(S, t, j + 1) => x \in S
    BY DEF Slot
  <2> QED
    BY <2>2, <2>3
<1> QED
  BY <1>4

LEMMA InsertedBefore ==
  ASSUME NEW S \in SUBSET Int, NEW s \in Seq(Int), NEW t \in Seq(Int), NEW j \in Nat,
         NEW k \in Int, Inserted(s, t, j, k), NEW i \in 1..(Len(s) + 1), i < j
  PROVE  Slot(S, t, i) = Slot(S, s, i)
<1>1. Len(s) \in Nat /\ Len(t) = Len(s) + 1 /\ j \in 1..(Len(s) + 1)
  BY DEF Inserted
<1>2. \A m \in 1..(j - 1) : t[m] = s[m]
  BY DEF Inserted
<1>3. i <= Len(s) /\ i <= Len(t) /\ i \in 1..(j - 1) /\ (i > 1 => i - 1 \in 1..(j - 1))
  BY <1>1
<1>4. t[i] = s[i] /\ (i > 1 => t[i - 1] = s[i - 1])
  BY <1>2, <1>3
<1> QED
  BY <1>3, <1>4 DEF Slot

LEMMA InsertedAfter ==
  ASSUME NEW S \in SUBSET Int, NEW s \in Seq(Int), NEW t \in Seq(Int), NEW j \in Nat,
         NEW k \in Int, Inserted(s, t, j, k), NEW i \in 1..(Len(s) + 1), i > j
  PROVE  Slot(S, t, i + 1) = Slot(S, s, i)
<1>1. Len(s) \in Nat /\ Len(t) = Len(s) + 1 /\ j \in 1..(Len(s) + 1)
  BY DEF Inserted
<1>6. \A m \in j..Len(s) : t[m + 1] = s[m]
  BY DEF Inserted
<1>2. i - 1 \in j..Len(s) /\ (i - 1) + 1 = i /\ (i <= Len(s) => i \in j..Len(s))
  BY <1>1
<1>3. t[i] = s[i - 1]
  BY <1>2, <1>6
<1>4. /\ i > 1 /\ i + 1 > 1 /\ (i + 1) - 1 = i
      /\ i + 1 <= Len(t) <=> i <= Len(s)
  BY <1>1
<1>5. i <= Len(s) => t[i + 1] = s[i]
  BY <1>2, <1>6
<1> QED
  BY <1>3, <1>4, <1>5 DEF Slot

LEMMA AscendingAt ==
  ASSUME NEW s \in Seq(Int), Ascending(s), NEW i \in 1..Len(s), NEW m \in 1..Len(s)
  PROVE  /\ s[i] \in Int /\ s[m] \in Int
         /\ i < m => s[i] < s[m]
         /\ i <= m => s[i] <= s[m]
<1>1. s[i] \in Int /\ s[m] \in Int
  OBVIOUS
<1>2. i < m => s[i] < s[m]
  BY DEF Ascending
<1>3. i = m \/ i < m \/ m < i
  OBVIOUS
<1> QED
  BY <1>1, <1>2, <1>3

(* Keys left and right of a separator.                                     *)
LEMMA JoinedByAt ==
  ASSUME NEW s \in Seq(Int), NEW u \in Seq(Int), NEW t \in Seq(Int), NEW k \in Int,
         JoinedBy(s, k, u, t), Ascending(t), NEW m \in Nat
  PROVE  /\ m \in 1..Len(s) => t[m] = s[m] /\ s[m] < k /\ s[m] \in Int
         /\ m \in 1..Len(u) => t[Len(s) + 1 + m] = u[m] /\ k < u[m] /\ u[m] \in Int
<1>1. Len(s) \in Nat /\ Len(u) \in Nat /\ Len(t) = Len(s) + 1 + Len(u)
  BY DEF JoinedBy
<1>2. t[Len(s) + 1] = k /\ Len(s) + 1 \in 1..Len(t)
  BY <1>1 DEF JoinedBy
<1>3. ASSUME m \in 1..Len(s) PROVE t[m] = s[m] /\ s[m] < k /\ s[m] \in Int
  <2>1. t[m] = s[m] /\ s[m] \in Int
    BY <1>3 DEF JoinedBy
  <2>2. m \in 1..Len(t) /\ m < Len(s) + 1
    BY <1>1, <1>3
  <2>3. t[m] < t[Len(s) + 1]
    BY <1>2, <2>2, AscendingAt
  <2> QED
    BY <1>2, <2>1, <2>3
<1>4. ASSUME m \in 1..Len(u) PROVE t[Len(s) + 1 + m] = u[m] /\ k < u[m] /\ u[m] \in Int
  <2>1. t[Len(s) + 1 + m] = u[m] /\ u[m] \in Int
    BY <1>4 DEF JoinedBy
  <2>2. Len(s) + 1 + m \in 1..Len(t) /\ Len(s) + 1 < Len(s) + 1 + m
    BY <1>1, <1>4
  <2>3. t[Len(s) + 1] < t[Len(s) + 1 + m]
    BY <1>2, <2>2, AscendingAt
  <2> QED
    BY <1>2, <2>1, <2>3
<1> QED
  BY <1>3, <1>4

(* The slots of two nodes with a separator between them.                   *)
LEMMA JoinedLeft ==
  ASSUME NEW S \in SUBSET Int, NEW s \in Seq(Int), NEW u \in Seq(Int), NEW t \in Seq(Int),
         NEW k \in Int, JoinedBy(s, k, u, t), Ascending(t), NEW i \in 1..(Len(s) + 1)
  PROVE  Slot(S, t, i) = Slot(Below(S, k), s, i)
<1>1. Len(s) \in Nat /\ Len(u) \in Nat /\ Len(t) = Len(s) + 1 + Len(u) /\ t[Len(s) + 1] = k
  BY DEF JoinedBy
<1>2. \A m \in 1..Len(s) : t[m] = s[m] /\ s[m] < k /\ s[m] \in Int
  BY JoinedByAt
<1>3. ASSUME NEW x \in S
      PROVE  x \in Slot(S, t, i) <=> x \in Slot(Below(S, k), s, i)
  <2>0. i > 1 => i - 1 \in 1..Len(s)
    BY <1>1
  <2>1. /\ i > 1 => t[i - 1] = s[i - 1]
        /\ i <= Len(t)
        /\ i <= Len(s) => t[i] = s[i] /\ s[i] < k /\ s[i] \in Int
        /\ i > Len(s) => t[i] = k
    <3>0. Len(s) \in Nat
      OBVIOUS
    <3>1. i > Len(s) => i = Len(s) + 1
      BY <3>0
    <3>2. i <= Len(t)
      BY <1>1
    <3>3. i <= Len(s) => i \in 1..Len(s)
      BY <1>1
    <3> QED
      BY <1>1, <1>2, <2>0, <3>1, <3>2, <3>3
  <2>2. x \in Slot(S, t, i) <=> (i > 1 => s[i - 1] <= x) /\ x < t[i]
    BY <2>1 DEF Slot
  <2>3. x \in Slot(Below(S, k), s, i) <=>
          x < k /\ (i > 1 => s[i - 1] <= x) /\ (i <= Len(s) => x < s[i])
    BY DEF Slot, Below
  <2> QED
    BY <2>1, <2>2, <2>3
<1> QED
  BY <1>3 DEF Slot, Below

LEMMA JoinedRight ==
  ASSUME NEW S \in SUBSET Int, NEW s \in Seq(Int), NEW u \in Seq(Int), NEW t \in Seq(Int),
         NEW k \in Int, JoinedBy(s, k, u, t), Ascending(t), NEW i \in 1..(Len(u) + 1)
  PROVE  Slot(S, t, Len(s) + 1 + i) = Slot(From(S, k), u, i)
<1>1. Len(s) \in Nat /\ Len(u) \in Nat /\ Len(t) = Len(s) + 1 + Len(u) /\ t[Len(s) + 1] = k
  BY DEF JoinedBy
<1>2. \A m \in 1..Len(u) : t[Len(s) + 1 + m] = u[m] /\ k < u[m] /\ u[m] \in Int
  BY JoinedByAt
<1>4. ASSUME NEW x \in S
      PROVE  x \in Slot(S, t, Len(s) + 1 + i) <=> x \in Slot(From(S, k), u, i)
  <2> DEFINE m == Len(s) + 1 + i
  <2>0. m \in Int /\ m > 1 /\ (m <= Len(t) <=> i <= Len(u))
    BY <1>1
  <2>1. i = 1 => t[m - 1] = k
    <3>1. i = 1 => m - 1 = Len(s) + 1
      BY <1>1
    <3> QED
      BY <1>1, <3>1
  <2>5. i # 1 => t[m - 1] = u[i - 1]
    <3>1. i # 1 => i - 1 \in 1..Len(u) /\ m - 1 = Len(s) + 1 + (i - 1)
      BY <1>1
    <3> QED
      BY <1>2, <3>1
  <2>6. i <= Len(u) => t[m] = u[i]
    <3>1. i <= Len(u) => i \in 1..Len(u)
      BY <1>1
    <3> QED
      BY <1>2, <3>1
  <2> HIDE DEF m
  <2>2. x \in Slot(S, t, m) <=> t[m - 1] <= x /\ (i <= Len(u) => x < u[i])
    BY <2>0, <2>6 DEF Slot
  <2>3. x \in Slot(From(S, k), u, i) <=>
          k <= x /\ (i > 1 => u[i - 1] <= x) /\ (i <= Len(u) => x < u[i])
    BY DEF Slot, From
  <2>4. i # 1 => k < u[i - 1] /\ u[i - 1] \in Int /\ i > 1
    <3>1. i # 1 => i - 1 \in 1..Len(u) /\ i > 1
      BY <1>1
    <3> QED
      BY <1>1, <1>2, <3>1
  <2> QED
    BY <2>1, <2>2, <2>3, <2>4, <2>5 DEF m
<1> QED
  BY <1>4 DEF Slot, From

(* A key put between its neighbours keeps an array in order, one taken out *)
(* as well.                                                                *)
LEMMA InsertedAscending ==
  ASSUME NEW s \in Seq(Int), NEW t \in Seq(Int), NEW j \in Nat, NEW k \in Int,
         Inserted(s, t, j, k), Ascending(s),
         j > 1 => s[j - 1] < k, j <= Len(s) => k < s[j]
  PROVE  Ascending(t)
<1>1. /\ Len(s) \in Nat /\ Len(t) = Len(s) + 1 /\ j \in 1..(Len(s) + 1)
      /\ t[j] = k
      /\ \A i \in 1..(j - 1) : t[i] = s[i]
      /\ \A i \in j..Len(s) : t[i + 1] = s[i]
      /\ \A i \in 1..Len(s) : s[i] \in Int
  BY DEF Inserted
<1>2. ASSUME NEW i \in 1..Len(t)
      PROVE  /\ i < j => t[i] = s[i] /\ s[i] < k /\ i \in 1..Len(s)
             /\ i > j => t[i] = s[i - 1] /\ k < s[i - 1] /\ i - 1 \in 1..Len(s)
  <2>1. ASSUME i < j PROVE t[i] = s[i] /\ s[i] < k /\ i \in 1..Len(s)
    <3>1. i \in 1..(j - 1) /\ i \in 1..Len(s) /\ j - 1 \in 1..Len(s) /\ j > 1
      BY <1>1, <2>1
    <3>2. s[i] <= s[j - 1] /\ s[i] \in Int /\ s[j - 1] \in Int
      BY <3>1, AscendingAt
    <3>3. t[i] = s[i]
      BY <1>1, <3>1
    <3> QED
      BY <3>1, <3>2, <3>3
  <2>2. ASSUME i > j PROVE t[i] = s[i - 1] /\ k < s[i - 1] /\ i - 1 \in 1..Len(s)
    <3>1. i - 1 \in j..Len(s) /\ i - 1 \in 1..Len(s) /\ (i - 1) + 1 = i /\ j \in 1..Len(s)
      BY <1>1, <2>2
    <3>2. s[j] <= s[i - 1] /\ s[j] \in Int /\ s[i - 1] \in Int
      BY <3>1, AscendingAt
    <3>3. t[i] = s[i - 1]
      <4>1. \A q \in j..Len(s) : t[q + 1] = s[q]
        BY <1>1
      <4>2. t[(i - 1) + 1] = s[i - 1]
        BY <3>1, <4>1
      <4> QED
        BY <3>1, <4>2
    <3>4. k < s[j]
      BY <3>1
    <3>5. k < s[i - 1]
      <4> DEFINE x == s[j]
                 y == s[i - 1]
      <4>1. x <= y /\ x \in Int /\ y \in Int /\ k < x
        BY <3>2, <3>4
      <4> HIDE DEF x, y
      <4>2. k < y
        BY <4>1
      <4> QED
        BY <4>2 DEF y
    <3> QED
      BY <3>1, <3>3, <3>5
  <2> QED
    BY <2>1, <2>2
<1>3. ASSUME NEW i \in 1..Len(t), NEW m \in 1..Len(t), i < m
      PROVE  t[i] < t[m]
  <2>1. CASE m < j
    BY <1>1, <1>2, <1>3, <2>1 DEF Ascending
  <2>2. CASE i > j
    <3>1. i - 1 \in 1..Len(s) /\ m - 1 \in 1..Len(s) /\ i - 1 < m - 1
      BY <1>1, <1>3, <2>2
    <3>2. m > j
      BY <1>1, <1>3, <2>2
    <3>3. t[i] = s[i - 1] /\ t[m] = s[m - 1]
      BY <1>2, <2>2, <3>2
    <3> QED
      BY <3>1, <3>3, AscendingAt
  <2>3. CASE i <= j /\ j <= m
    <3>1. (i < j => t[i] < k) /\ (i = j => t[i] = k)
      BY <1>1, <1>2
    <3>2. (m > j => k < t[m]) /\ (m = j => t[m] = k)
      BY <1>1, <1>2
    <3>3. (i < j \/ i = j) /\ (m > j \/ m = j) /\ ~(i = j /\ m = j)
      <4>1. i \in Int /\ m \in Int /\ j \in Int
        BY <1>1
      <4> QED
        BY <1>3, <2>3, <4>1
    <3>4. t[i] \in Int /\ t[m] \in Int
      OBVIOUS
    <3> QED
      BY <3>1, <3>2, <3>3, <3>4
  <2> QED
    BY <1>1, <1>3, <2>1, <2>2, <2>3
<1> QED
  BY <1>3 DEF Ascending

LEMMA RemovedAscending ==
  ASSUME NEW s \in Seq(Int), NEW t \in Seq(Int), NEW j \in Nat, NEW k \in Int,
         Inserted(s, t, j, k), Ascending(t)
  PROVE  Ascending(s)
<1>1. /\ Len(s) \in Nat /\ Len(t) = Len(s) + 1 /\ j \in 1..(Len(s) + 1)
      /\ \A i \in 1..(j - 1) : t[i] = s[i]
      /\ \A i \in j..Len(s) : t[i + 1] = s[i]
  BY DEF Inserted
<1> DEFINE up(i) == IF i < j THEN i ELSE i + 1
<1>2. \A i \in 1..Len(s) : up(i) \in 1..Len(t) /\ t[up(i)] = s[i]
  BY <1>1
<1>3. ASSUME NEW i \in 1..Len(s), NEW m \in 1..Len(s), i < m
      PROVE  up(i) < up(m)
  BY <1>3
<1> HIDE DEF up
<1>4. ASSUME NEW i \in 1..Len(s), NEW m \in 1..Len(s), i < m
      PROVE  s[i] < s[m]
  BY <1>2, <1>3, <1>4, AscendingAt
<1> QED
  BY <1>4 DEF Ascending

-----------------------------------------------------------------------------
(*                          Nodes and their fields                         *)

LEMMA NodeFields ==
  ASSUME NEW h, NEW L, NodeTypes(h, L), NEW n \in L
  PROVE  /\ n \in Node /\ n # NULL
         /\ h[n].isLeaf \in BOOLEAN
         /\ h[n].keys \in Seq(Int) /\ h[n].keys \in Seq(Value)
         /\ h[n].parent \in Node \union {NULL}
         /\ h[n].next \in Node \union {NULL} /\ h[n].prev \in Node \union {NULL}
         /\ h[n].isLeaf => h[n] \in LeafRecord /\ h[n].pointers \in Seq(Seq(Time))
         /\ ~h[n].isLeaf => h[n] \in InnerRecord /\ h[n].pointers \in Seq(Node)
<1>1. h[n].keys \in Seq(Value)
  BY DEF NodeTypes, LeafRecord, InnerRecord
<1>2. h[n].keys \in Seq(Int)
  BY <1>1, ValueAssumption, SeqMonotonic
<1>3. n \in Node /\ n # NULL
  BY NULLAssumption DEF NodeTypes
<1> QED
  BY <1>1, <1>2, <1>3 DEF NodeTypes, LeafRecord, InnerRecord

(* The chain of the leaves only depends on their links.                    *)
LEMMA SameChain ==
  ASSUME NEW h, NEW g, NEW L, NEW R, Chain(h, L, R),
         \A n \in L : g[n].isLeaf = h[n].isLeaf,
         \A n \in L : h[n].isLeaf => g[n].next = h[n].next /\ g[n].prev = h[n].prev
  PROVE  Chain(g, L, R)
<1>1. LeafSet(g, L) = LeafSet(h, L)
  BY DEF LeafSet
<1>2. \A l \in LeafSet(h, L) : g[l].next = h[l].next /\ g[l].prev = h[l].prev
  BY DEF LeafSet
<1> QED
  BY <1>1, <1>2 DEF Chain

(* The children of a node are different nodes: their slots are.            *)
LEMMA SlotsDiffer ==
  ASSUME NEW S \in SUBSET Int, S # {}, NEW keys \in Seq(Int), Ascending(keys),
         \A i \in 1..Len(keys) : keys[i] \in S /\ keys[i] - 1 \in S,
         NEW i \in 1..(Len(keys) + 1), NEW j \in 1..(Len(keys) + 1), i < j
  PROVE  /\ \A x \in Slot(S, keys, i) : \A y \in Slot(S, keys, j) : x < y
         /\ Slot(S, keys, i) # {} /\ Slot(S, keys, j) # {}
<1>1. Len(keys) \in Nat /\ \A m \in 1..Len(keys) : keys[m] \in Int
  OBVIOUS
<1>2. i \in 1..Len(keys) /\ j - 1 \in 1..Len(keys) /\ i <= j - 1 /\ j > 1
  BY <1>1
<1>3. keys[i] <= keys[j - 1]
  BY <1>2, AscendingAt
<1>4. \A x \in Slot(S, keys, i) : x \in Int /\ x < keys[i]
  BY <1>2 DEF Slot
<1>5. \A y \in Slot(S, keys, j) : y \in Int /\ keys[j - 1] <= y
  BY <1>2 DEF Slot
<1>6. keys[i] - 1 \in Slot(S, keys, i)
  <2>1. i > 1 => keys[i - 1] < keys[i] /\ keys[i - 1] \in Int
    <3>1. i > 1 => i - 1 \in 1..Len(keys) /\ i - 1 < i
      BY <1>2
    <3> QED
      BY <1>1, <1>2, <3>1 DEF Ascending
  <2> QED
    BY <1>1, <1>2, <2>1 DEF Slot
<1>7. keys[j - 1] \in Slot(S, keys, j)
  <2>1. j <= Len(keys) => keys[j - 1] < keys[j]
    <3>1. j <= Len(keys) => j \in 1..Len(keys) /\ j - 1 < j
      BY <1>2
    <3> QED
      BY <1>2, <3>1, AscendingAt
  <2> QED
    BY <1>1, <1>2, <2>1 DEF Slot
<1> QED
  <2>1. \A x \in Slot(S, keys, i) : \A y \in Slot(S, keys, j) : x < y
    <3> DEFINE high == keys[i]
               low == keys[j - 1]
    <3>1. high \in Int /\ low \in Int /\ high <= low
      BY <1>1, <1>2, <1>3
    <3>2. \A x \in Slot(S, keys, i) : x \in Int /\ x < high
      BY <1>4
    <3>3. \A y \in Slot(S, keys, j) : y \in Int /\ low <= y
      BY <1>5
    <3> HIDE DEF high, low
    <3> QED
      BY <3>1, <3>2, <3>3
  <2> QED
    BY <1>6, <1>7, <2>1

-----------------------------------------------------------------------------
(*                      Hanging up and taking out                          *)

(* Node p has pointer j + 1 to b, with separator k before it, in hung and  *)
(* lacks them in loose.                                                    *)
Hung(loose, hung, L, p, j, a, k, b) ==
  /\ p \in L /\ L \subseteq DOMAIN loose /\ L \subseteq DOMAIN hung
  /\ loose[p] \in InnerRecord /\ hung[p] \in InnerRecord
  /\ hung[p].parent = loose[p].parent
  /\ j \in 1..Len(loose[p].pointers) /\ loose[p].pointers[j] = a
  /\ Inserted(loose[p].keys, hung[p].keys, j, k)
  /\ Inserted(loose[p].pointers, hung[p].pointers, j + 1, b)
  /\ \A n \in L \ {p} : loose[n] = hung[n]

LEMMA HungFields ==
  ASSUME NEW loose, NEW hung, NEW L, NEW p, NEW j, NEW a, NEW k, NEW b,
         Hung(loose, hung, L, p, j, a, k, b), NodeTypes(loose, L) \/ NodeTypes(hung, L)
  PROVE  /\ NodeTypes(loose, L) /\ NodeTypes(hung, L)
         /\ \A n \in L : /\ hung[n].isLeaf = loose[n].isLeaf
                         /\ hung[n].parent = loose[n].parent
                         /\ hung[n].isLeaf => hung[n] = loose[n]
         /\ ~hung[p].isLeaf /\ ~loose[p].isLeaf
         /\ j \in Nat
         /\ loose[p].keys \in Seq(Int) /\ hung[p].keys \in Seq(Int)
         /\ loose[p].pointers \in Seq(Node) /\ hung[p].pointers \in Seq(Node)
<1>1. NodeTypes(loose, L) /\ NodeTypes(hung, L)
  BY DEF Hung, NodeTypes
<1>2. ~hung[p].isLeaf /\ ~loose[p].isLeaf
  BY DEF Hung, InnerRecord
<1>3. p \in L /\ j \in Nat
  BY DEF Hung
<1>4. loose[p].keys \in Seq(Int) /\ loose[p].pointers \in Seq(Node)
  BY <1>1, <1>2, <1>3, NodeFields
<1>6. hung[p].keys \in Seq(Int) /\ hung[p].pointers \in Seq(Node)
  BY <1>1, <1>2, <1>3, NodeFields
<1>5. \A n \in L : /\ hung[n].isLeaf = loose[n].isLeaf
                   /\ hung[n].parent = loose[n].parent
                   /\ hung[n].isLeaf => hung[n] = loose[n]
  BY <1>2 DEF Hung, InnerRecord
<1> QED
  BY <1>1, <1>2, <1>3, <1>4, <1>5, <1>6

(* A waiting node is hung into the parent of its left neighbour.           *)
LEMMA HangUp ==
  ASSUME NEW loose, NEW hung, NEW L, NEW r, NEW H, NEW R, NEW p, NEW j, NEW a, NEW k, NEW b,
         IsForest(loose, L, r, H, R, a, k, b), Hung(loose, hung, L, p, j, a, k, b)
  PROVE  IsTree(hung, L, r, H, R)
<1> DEFINE W == Covered(R, a, b)
           s == loose[p].keys
           t == hung[p].keys
<1>1. /\ NodeTypes(loose, L) /\ Levels(loose, L, r, H) /\ KeysInRange(loose, L, R)
      /\ ChildrenOK(loose, L, H, R, W, {b}) /\ Attached(loose, L, r, W, {b})
      /\ Intervals(L, H, R) /\ Chain(loose, L, R) /\ IsPair(loose, L, H, R, a, k, b)
  BY DEF IsForest, IsHeap
<1> HIDE DEF W
<1>2. /\ NodeTypes(hung, L)
      /\ \A n \in L : /\ hung[n].isLeaf = loose[n].isLeaf
                      /\ hung[n].parent = loose[n].parent
                      /\ hung[n].isLeaf => hung[n] = loose[n]
      /\ ~hung[p].isLeaf /\ ~loose[p].isLeaf
      /\ j \in Nat
      /\ s \in Seq(Int) /\ t \in Seq(Int)
      /\ loose[p].pointers \in Seq(Node) /\ hung[p].pointers \in Seq(Node)
  BY <1>1, HungFields
<1>3. /\ p \in L /\ Inserted(s, t, j, k) /\ loose[p].pointers[j] = a
      /\ Inserted(loose[p].pointers, hung[p].pointers, j + 1, b)
      /\ \A n \in L \ {p} : hung[n] = loose[n]
      /\ j \in 1..Len(loose[p].pointers)
  BY DEF Hung
<1>4. /\ a \in L /\ b \in L /\ a # b /\ k \in Int
      /\ \A n \in L : R[n] \in SUBSET Int
      /\ W[a] = R[a] \union R[b] /\ \A n \in L \ {a} : W[n] = R[n]
  BY <1>1, ValueAssumption DEF IsPair, W, Covered, Intervals
<1>5. /\ Len(loose[p].pointers) = Len(s) + 1
      /\ Ascending(s)
      /\ \A i \in 1..Len(s) : s[i] \in R[p] /\ s[i] - 1 \in R[p]
  BY <1>1, <1>2, <1>3 DEF KeysInRange, InnerKeys
<1>6. /\ loose[a].parent = p
      /\ H[p] = H[a] + 1
      /\ W[a] = Slot(R[p], s, j)
  BY <1>1, <1>2, <1>3 DEF ChildrenOK, IsChild
<1>7. /\ k \in Slot(R[p], s, j) /\ k - 1 \in Slot(R[p], s, j)
      /\ k \in R[p] /\ k - 1 \in R[p]
  BY <1>1, <1>4, <1>6 DEF IsPair, Slot
<1>8. Ascending(t)
  <2>1. (j > 1 => s[j - 1] < k) /\ (j <= Len(s) => k < s[j])
    <3>1. /\ j > 1 => s[j - 1] <= k - 1 /\ j - 1 \in 1..Len(s) /\ s[j - 1] \in Int
          /\ j <= Len(s) => k < s[j]
      BY <1>2, <1>3, <1>5, <1>7 DEF Slot
    <3> QED
      BY <1>4, <3>1
  <2> QED
    BY <1>2, <1>3, <1>4, <1>5, <2>1, InsertedAscending
<1>9. Levels(hung, L, r, H)
  BY <1>1, <1>2 DEF Levels
<1>10. KeysInRange(hung, L, R)
  <2>1. \A i \in 1..Len(t) : t[i] = k \/ \E m \in 1..Len(s) : t[i] = s[m]
    <3> TAKE i \in 1..Len(t)
    <3>1. CASE i < j
      BY <1>2, <1>3, <3>1 DEF Inserted
    <3>2. CASE i = j
      BY <1>3, <3>2 DEF Inserted
    <3>3. CASE i > j
      <4>1. i - 1 \in j..Len(s) /\ i - 1 \in 1..Len(s) /\ (i - 1) + 1 = i
        BY <1>2, <1>3, <3>3 DEF Inserted
      <4>2. \A q \in j..Len(s) : t[q + 1] = s[q]
        BY <1>3 DEF Inserted
      <4>3. t[(i - 1) + 1] = s[i - 1]
        BY <4>1, <4>2
      <4> QED
        BY <4>1, <4>3
    <3> QED
      BY <1>2, <3>1, <3>2, <3>3
  <2>2. \A i \in 1..Len(t) : t[i] \in R[p] /\ t[i] - 1 \in R[p]
    BY <1>5, <1>7, <2>1
  <2>3. Len(hung[p].pointers) = Len(t) + 1
    BY <1>3, <1>5 DEF Inserted
  <2>4. InnerKeys(hung, R, p)
    BY <2>2, <2>3 DEF InnerKeys
  <2>5. ASSUME NEW n \in L \ {p}
        PROVE  /\ Ascending(hung[n].keys)
               /\ hung[n].isLeaf => LeafKeys(hung, R, n)
               /\ ~hung[n].isLeaf => InnerKeys(hung, R, n)
    BY <1>1, <1>3 DEF KeysInRange, LeafKeys, InnerKeys
  <2> QED
    BY <1>2, <1>8, <2>4, <2>5 DEF KeysInRange
<1> DEFINE ps == loose[p].pointers
           pt == hung[p].pointers
<1>15. /\ Len(s) \in Nat /\ Len(ps) = Len(s) + 1 /\ Len(pt) = Len(s) + 2
       /\ j \in 1..(Len(s) + 1)
       /\ \A i \in 1..j : pt[i] = ps[i]
       /\ pt[j] = a
       /\ pt[j + 1] = b
       /\ \A q \in (j + 1)..(Len(s) + 1) : pt[q + 1] = ps[q]
  <2>1. Len(s) \in Nat /\ Len(ps) = Len(s) + 1 /\ j \in 1..(Len(s) + 1)
    BY <1>2, <1>3, <1>5
  <2>2. Len(pt) = Len(ps) + 1 /\ pt[j + 1] = b
    BY <1>3 DEF Inserted
  <2>3. \A i \in 1..((j + 1) - 1) : pt[i] = ps[i]
    BY <1>3 DEF Inserted
  <2>4. \A q \in (j + 1)..Len(ps) : pt[q + 1] = ps[q]
    BY <1>3 DEF Inserted
  <2>5. (j + 1) - 1 = j /\ j \in 1..j
    BY <2>1
  <2>6. \A i \in 1..j : pt[i] = ps[i]
    BY <2>3, <2>5
  <2>7. ps[j] = a
    BY <1>3
  <2>8. pt[j] = a
    BY <2>5, <2>6, <2>7
  <2>9. Len(pt) = Len(s) + 2
    BY <2>1, <2>2
  <2>10. \A q \in (j + 1)..(Len(s) + 1) : pt[q + 1] = ps[q]
    BY <2>1, <2>4
  <2> HIDE DEF s, ps, pt
  <2> QED
    BY <2>1, <2>2, <2>6, <2>8, <2>9, <2>10
<1>16. /\ \A i \in 1..(Len(s) + 1) : i < j => Slot(R[p], t, i) = Slot(R[p], s, i)
       /\ \A i \in 1..(Len(s) + 1) : i > j => Slot(R[p], t, i + 1) = Slot(R[p], s, i)
       /\ Slot(R[p], s, j) = Slot(R[p], t, j) \union Slot(R[p], t, j + 1)
  <2>1. R[p] \subseteq Int
    BY <1>3, <1>4
  <2>2. s \in Seq(Int) /\ t \in Seq(Int) /\ j \in Nat /\ k \in Int /\ Inserted(s, t, j, k)
    BY <1>2, <1>3, <1>4
  <2> DEFINE S == R[p]
  <2>3. S \in SUBSET Int
    BY <2>1
  <2> HIDE DEF s, t, S
  <2>4. \A i \in 1..(Len(s) + 1) : i < j => Slot(S, t, i) = Slot(S, s, i)
    BY <2>2, <2>3, InsertedBefore
  <2>5. \A i \in 1..(Len(s) + 1) : i > j => Slot(S, t, i + 1) = Slot(S, s, i)
    BY <2>2, <2>3, InsertedAfter
  <2>6. Slot(S, s, j) = Slot(S, t, j) \union Slot(S, t, j + 1)
    BY <1>8, <2>2, <2>3, InsertedSlots
  <2> QED
    BY <2>4, <2>5, <2>6 DEF S
<1>11. R[a] = Slot(R[p], t, j) /\ R[b] = Slot(R[p], t, j + 1)
  <2>1. R[p] \subseteq Int /\ R[a] \subseteq Int /\ R[b] \subseteq Int
    BY <1>3, <1>4
  <2>2. R[a] \union R[b] = Slot(R[p], t, j) \union Slot(R[p], t, j + 1)
    BY <1>4, <1>6, <1>16
  <2>3. \A x \in Slot(R[p], t, j) : x < k
    BY <1>3 DEF Slot, Inserted
  <2>4. \A x \in Slot(R[p], t, j + 1) : k <= x
    BY <1>2, <1>3 DEF Slot, Inserted
  <2>5. (\A x \in R[a] : x < k) /\ (\A x \in R[b] : k <= x)
    BY <1>1 DEF IsPair
  <2>6. \A x : x \in Slot(R[p], t, j) \/ x \in Slot(R[p], t, j + 1) => x \in Int
    BY <2>1, <2>2
  <2>7. \A x \in Int : ~(x < k /\ k <= x)
    BY <1>4
  <2> QED
    BY <2>1, <2>2, <2>3, <2>4, <2>5, <2>6, <2>7
<1>12. ChildrenOK(hung, L, H, R, R, {})
  <2> SUFFICES ASSUME NEW n \in L, ~hung[n].isLeaf, NEW i \in 1..Len(hung[n].pointers)
               PROVE  IsChild(hung, L, H, R, R, {}, n, i)
    BY DEF ChildrenOK
  <2>1. CASE n # p
    <3> DEFINE c == loose[n].pointers[i]
    <3>1. /\ c \in L \ {b} /\ loose[c].parent = n /\ H[n] = H[c] + 1
          /\ W[c] = Slot(R[n], loose[n].keys, i)
      BY <1>1, <1>2, <1>3, <2>1 DEF ChildrenOK, IsChild
    <3>2. c # a
      BY <1>6, <2>1, <3>1
    <3> QED
      BY <1>2, <1>3, <1>4, <2>1, <3>1, <3>2 DEF IsChild
  <2>2. ASSUME n = p, NEW m \in 1..Len(loose[p].pointers), m # j,
               hung[p].pointers[i] = loose[p].pointers[m],
               Slot(R[p], t, i) = Slot(R[p], s, m)
        PROVE  IsChild(hung, L, H, R, R, {}, n, i)
    <3> DEFINE c == loose[p].pointers[m]
    <3>1. /\ c \in L \ {b} /\ loose[c].parent = p /\ H[p] = H[c] + 1
          /\ W[c] = Slot(R[p], s, m)
      BY <1>1, <1>2, <1>3, <2>2 DEF ChildrenOK, IsChild
    <3>2. c # a
      <4>1. j < m \/ m < j
        BY <1>2, <2>2
      <4>2. R[p] # {} /\ R[p] \in SUBSET Int
        BY <1>1, <1>3, <1>4 DEF Intervals
      <4>4. /\ s \in Seq(Int) /\ Ascending(s)
            /\ \A x \in 1..Len(s) : s[x] \in R[p] /\ s[x] - 1 \in R[p]
            /\ R[p] # {} /\ R[p] \in SUBSET Int
        BY <1>2, <1>5, <4>2
      <4>3. Slot(R[p], s, j) # Slot(R[p], s, m)
        <5>1. m \in 1..(Len(s) + 1) /\ j \in 1..(Len(s) + 1)
          BY <1>3, <1>5
        <5>2. CASE j < m
          <6>1. /\ \A x \in Slot(R[p], s, j) : \A y \in Slot(R[p], s, m) : x < y
                /\ Slot(R[p], s, j) # {} /\ Slot(R[p], s, m) # {}
            BY <4>4, <5>1, <5>2, SlotsDiffer
          <6>2. \A x \in Slot(R[p], s, j) : x \in Int
            BY <4>2 DEF Slot
          <6> QED
            BY <6>1, <6>2
        <5>3. CASE m < j
          <6>1. /\ \A x \in Slot(R[p], s, m) : \A y \in Slot(R[p], s, j) : x < y
                /\ Slot(R[p], s, j) # {} /\ Slot(R[p], s, m) # {}
            BY <4>4, <5>1, <5>3, SlotsDiffer
          <6>2. \A x \in Slot(R[p], s, j) : x \in Int
            BY <4>2 DEF Slot
          <6> QED
            BY <6>1, <6>2
        <5> QED
          BY <4>1, <5>2, <5>3
      <4> QED
        BY <1>6, <3>1, <4>3
    <3> QED
      BY <1>2, <1>4, <2>2, <3>1, <3>2 DEF IsChild
  <2>4. CASE n = p /\ i < j
    <3>1. pt[i] = ps[i] /\ i \in 1..(Len(s) + 1)
      BY <1>2, <1>15, <2>4
    <3>2. Slot(R[p], t, i) = Slot(R[p], s, i)
      BY <1>16, <2>4, <3>1
    <3>3. i \in 1..Len(ps) /\ i # j
      BY <1>2, <1>15, <2>4, <3>1
    <3> QED
      BY <2>2, <2>4, <3>1, <3>2, <3>3
  <2>5. CASE n = p /\ i = j
    <3>1. hung[p].pointers[j] = a
      BY <1>15
    <3>2. hung[a].parent = p
      BY <1>2, <1>4, <1>6
    <3> QED
      BY <1>4, <1>6, <1>11, <2>5, <3>1, <3>2 DEF IsChild
  <2>6. CASE n = p /\ i = j + 1
    <3>1. hung[p].pointers[j + 1] = b
      BY <1>3 DEF Inserted
    <3>2. hung[b].parent = p /\ H[p] = H[b] + 1
      BY <1>1, <1>2, <1>4, <1>6 DEF IsPair
    <3> QED
      BY <1>4, <1>11, <2>6, <3>1, <3>2 DEF IsChild
  <2>7. CASE n = p /\ i > j + 1
    <3> DEFINE m == i - 1
    <3>1. m \in 1..(Len(s) + 1) /\ m > j /\ m \in (j + 1)..(Len(s) + 1) /\ m + 1 = i
      <4>1. i \in 1..(Len(s) + 2)
        BY <1>15, <2>7
      <4> QED
        BY <1>2, <1>15, <2>7, <4>1
    <3> HIDE DEF m
    <3>2. pt[m + 1] = ps[m]
      BY <1>15, <3>1
    <3>3. Slot(R[p], t, m + 1) = Slot(R[p], s, m)
      BY <1>16, <3>1
    <3>4. m \in 1..Len(ps) /\ m # j
      BY <1>2, <1>15, <3>1
    <3> QED
      BY <2>2, <2>7, <3>1, <3>2, <3>3, <3>4
  <2> QED
    BY <1>2, <2>1, <2>4, <2>5, <2>6, <2>7
<1>13. Attached(hung, L, r, R, {})
  <2>1. r \in L /\ r # b /\ loose[r].parent = NULL /\ W[r] = Int
    BY <1>1 DEF Attached
  <2>2. r # a
    BY <1>1, <1>3, <1>6, <2>1, NodeFields
  <2>3. ASSUME NEW n \in L \ {r}
        PROVE  HangsIn(hung, L, n, hung[n].parent)
    <3>1. CASE n = b
      <4>1. hung[b].parent = p
        BY <1>1, <1>2, <1>6 DEF IsPair
      <4>2. j + 1 \in 1..Len(hung[p].pointers) /\ hung[p].pointers[j + 1] = b
        BY <1>3 DEF Inserted
      <4> QED
        BY <1>2, <1>3, <3>1, <4>1, <4>2 DEF HangsIn
    <3>2. CASE n # b
      <4> DEFINE q == loose[n].parent
      <4>1. q \in L /\ ~loose[q].isLeaf /\ hung[n].parent = q
        BY <1>1, <1>2, <3>2 DEF Attached, HangsIn
      <4>2. PICK i \in 1..Len(loose[q].pointers) : loose[q].pointers[i] = n
        BY <1>1, <3>2 DEF Attached, HangsIn
      <4>3. CASE q # p
        BY <1>2, <1>3, <4>1, <4>2, <4>3 DEF HangsIn
      <4>4. CASE q = p
        <5>0. i \in 1..(Len(s) + 1) /\ ps[i] = n
          BY <1>15, <4>2, <4>4
        <5>1. i < j + 1 => i \in 1..Len(pt) /\ pt[i] = n
          <6>1. i < j + 1 => i \in 1..j /\ i \in 1..Len(pt)
            BY <1>15, <5>0
          <6> QED
            BY <1>15, <5>0, <6>1
        <5>2. i >= j + 1 => i + 1 \in 1..Len(pt) /\ pt[i + 1] = n
          <6>1. i >= j + 1 => i \in (j + 1)..(Len(s) + 1) /\ i + 1 \in 1..Len(pt)
            BY <1>15, <5>0
          <6> QED
            BY <1>15, <5>0, <6>1
        <5>3. \E m \in 1..Len(hung[p].pointers) : hung[p].pointers[m] = n
          BY <1>2, <5>0, <5>1, <5>2
        <5> QED
          BY <1>2, <1>3, <4>1, <4>4, <5>3 DEF HangsIn
      <4> QED
        BY <4>3, <4>4
    <3> QED
      BY <3>1, <3>2
  <2> QED
    BY <1>2, <1>4, <2>1, <2>2, <2>3 DEF Attached
<1>14. Chain(hung, L, R)
  BY <1>1, <1>2, SameChain
<1> QED
  BY <1>1, <1>2, <1>9, <1>10, <1>12, <1>13, <1>14 DEF IsTree, IsHeap

(* The right one of two neighbours is taken out of their parent.           *)
LEMMA TakeOut ==
  ASSUME NEW loose, NEW hung, NEW L, NEW r, NEW H, NEW R, NEW p, NEW j, NEW a, NEW k, NEW b,
         IsTree(hung, L, r, H, R), Hung(loose, hung, L, p, j, a, k, b)
  PROVE  IsForest(loose, L, r, H, R, a, k, b)
<1> DEFINE W == Covered(R, a, b)
           s == loose[p].keys
           t == hung[p].keys
           ps == loose[p].pointers
           pt == hung[p].pointers
<1>1. /\ NodeTypes(hung, L) /\ Levels(hung, L, r, H) /\ KeysInRange(hung, L, R)
      /\ ChildrenOK(hung, L, H, R, R, {}) /\ Attached(hung, L, r, R, {})
      /\ Intervals(L, H, R) /\ Chain(hung, L, R)
  BY DEF IsTree, IsHeap
<1>2. /\ NodeTypes(loose, L)
      /\ \A n \in L : /\ hung[n].isLeaf = loose[n].isLeaf
                      /\ hung[n].parent = loose[n].parent
                      /\ hung[n].isLeaf => hung[n] = loose[n]
      /\ ~hung[p].isLeaf /\ ~loose[p].isLeaf
      /\ j \in Nat
      /\ s \in Seq(Int) /\ t \in Seq(Int)
      /\ ps \in Seq(Node) /\ pt \in Seq(Node)
  BY <1>1, HungFields
<1>3. /\ p \in L /\ Inserted(s, t, j, k) /\ ps[j] = a
      /\ Inserted(ps, pt, j + 1, b)
      /\ \A n \in L \ {p} : hung[n] = loose[n]
      /\ j \in 1..Len(ps)
  BY DEF Hung
<1>4. /\ Len(pt) = Len(t) + 1
      /\ Ascending(t)
      /\ \A i \in 1..Len(t) : t[i] \in R[p] /\ t[i] - 1 \in R[p]
  BY <1>1, <1>2, <1>3 DEF KeysInRange, InnerKeys
<1>5. Len(s) \in Nat /\ Len(t) = Len(s) + 1 /\ Len(ps) = Len(s) + 1 /\ Len(pt) = Len(s) + 2
  <2>1. Len(t) = Len(s) + 1 /\ Len(pt) = Len(ps) + 1
    BY <1>3 DEF Inserted
  <2>2. Len(s) \in Nat /\ Len(ps) \in Nat
    BY <1>2
  <2> QED
    BY <1>4, <2>1, <2>2
<1>6. j \in 1..(Len(s) + 1) /\ j \in 1..Len(t)
  BY <1>3, <1>5
<1>7. \A i \in 1..j : pt[i] = ps[i]
  <2>1. \A i \in 1..((j + 1) - 1) : pt[i] = ps[i]
    BY <1>3 DEF Inserted
  <2>2. (j + 1) - 1 = j
    BY <1>6
  <2> QED
    BY <2>1, <2>2
<1>8. pt[j] = a /\ pt[j + 1] = b
  <2>1. j \in 1..j
    BY <1>6
  <2> QED
    BY <1>3, <1>7, <2>1 DEF Inserted
<1>9. \A q \in (j + 1)..(Len(s) + 1) : pt[q + 1] = ps[q]
  <2>1. \A q \in (j + 1)..Len(ps) : pt[q + 1] = ps[q]
    BY <1>3 DEF Inserted
  <2> QED
    BY <1>5, <2>1
<1>10. /\ \A n \in L : R[n] \in SUBSET Int
       /\ R[p] # {}
  BY <1>1, <1>3 DEF Intervals
<1>11. t[j] = k /\ k \in Int /\ k \in Value
  <2>1. t \in Seq(Value)
    BY <1>1, <1>3, NodeFields
  <2> QED
    BY <1>2, <1>3, <1>6, <2>1 DEF Inserted
<1>12. ASSUME NEW i \in 1..Len(pt)
       PROVE  /\ pt[i] \in L /\ hung[pt[i]].parent = p /\ H[p] = H[pt[i]] + 1
              /\ R[pt[i]] = Slot(R[p], t, i)
  BY <1>1, <1>2, <1>3 DEF ChildrenOK, IsChild
<1>13. ASSUME NEW i \in 1..Len(pt), NEW m \in 1..Len(pt), i < m
       PROVE  pt[i] # pt[m]
  <2> DEFINE S == R[p]
  <2>1. S \in SUBSET Int /\ S # {} /\ \A q \in 1..Len(t) : t[q] \in S /\ t[q] - 1 \in S
    BY <1>3, <1>4, <1>10
  <2>2. R[pt[i]] = Slot(S, t, i) /\ R[pt[m]] = Slot(S, t, m)
    BY <1>12
  <2>3. i \in 1..(Len(t) + 1) /\ m \in 1..(Len(t) + 1)
    BY <1>4
  <2>4. t \in Seq(Int)
    BY <1>2
  <2> HIDE DEF S, t, pt
  <2>5. /\ \A x \in Slot(S, t, i) : \A y \in Slot(S, t, m) : x < y
        /\ Slot(S, t, i) # {}
    BY <1>4, <1>13, <2>1, <2>3, <2>4, SlotsDiffer
  <2>6. \A x \in Slot(S, t, i) : x \in Int
    BY <2>1 DEF Slot
  <2> QED
    BY <2>2, <2>5, <2>6
<1>14. j \in 1..Len(pt) /\ j + 1 \in 1..Len(pt) /\ j < j + 1 /\ j + 1 > 1 /\ (j + 1) - 1 = j
  BY <1>5, <1>6
<1>15. /\ a \in L /\ hung[a].parent = p /\ H[p] = H[a] + 1 /\ R[a] = Slot(R[p], t, j)
       /\ b \in L /\ hung[b].parent = p /\ H[p] = H[b] + 1 /\ R[b] = Slot(R[p], t, j + 1)
       /\ a # b
  BY <1>8, <1>12, <1>13, <1>14
<1>16. /\ W[a] = R[a] \union R[b] /\ \A n \in L \ {a} : W[n] = R[n]
  BY <1>1, <1>15 DEF Covered, Intervals
<1> HIDE DEF W
<1>17. IsPair(loose, L, H, R, a, k, b)
  <2>1. loose[b].parent = loose[a].parent
    BY <1>2, <1>15
  <2>2. H[a] = H[b]
    BY <1>1, <1>15 DEF Levels
  <2>3. j <= Len(t) /\ k \in R[p] /\ k - 1 \in R[p]
    BY <1>4, <1>6, <1>11
  <2>4. (j > 1 => t[j - 1] < k /\ t[j - 1] \in Int) /\ (j + 1 <= Len(t) => k < t[j + 1])
    <3>1. j > 1 => j - 1 \in 1..Len(t) /\ j - 1 < j
      BY <1>6
    <3>2. j + 1 <= Len(t) => j + 1 \in 1..Len(t) /\ j < j + 1
      BY <1>6
    <3> QED
      BY <1>2, <1>4, <1>6, <1>11, <3>1, <3>2, AscendingAt
  <2>5. k - 1 \in Slot(R[p], t, j)
    BY <1>6, <1>11, <2>3, <2>4 DEF Slot
  <2>6. k \in Slot(R[p], t, j + 1)
    BY <1>6, <1>11, <1>14, <2>3, <2>4 DEF Slot
  <2>7. \A x \in Slot(R[p], t, j) : x < k
    BY <1>11, <2>3 DEF Slot
  <2>8. \A x \in Slot(R[p], t, j + 1) : k <= x
    BY <1>11, <1>14 DEF Slot
  <2> QED
    BY <1>11, <1>15, <2>1, <2>2, <2>5, <2>6, <2>7, <2>8 DEF IsPair
<1>18. Levels(loose, L, r, H)
  BY <1>1, <1>2 DEF Levels
<1>19. KeysInRange(loose, L, R)
  <2>1. Ascending(s)
    BY <1>2, <1>3, <1>4, <1>11, RemovedAscending
  <2>2. ASSUME NEW i \in 1..Len(s)
        PROVE  s[i] \in R[p] /\ s[i] - 1 \in R[p]
    <3>1. CASE i < j
      <4>1. i \in 1..(j - 1) /\ i \in 1..Len(t)
        BY <1>5, <1>6, <3>1
      <4>2. t[i] = s[i]
        BY <1>3, <4>1 DEF Inserted
      <4> QED
        BY <1>4, <4>1, <4>2
    <3>2. CASE i >= j
      <4>1. i \in j..Len(s) /\ i + 1 \in 1..Len(t)
        BY <1>5, <1>6, <3>2
      <4>2. \A q \in j..Len(s) : t[q + 1] = s[q]
        BY <1>3 DEF Inserted
      <4>3. t[i + 1] = s[i]
        BY <4>1, <4>2
      <4> QED
        BY <1>4, <4>1, <4>3
    <3> QED
      BY <1>6, <3>1, <3>2
  <2>3. InnerKeys(loose, R, p)
    BY <1>5, <2>2 DEF InnerKeys
  <2>4. ASSUME NEW n \in L \ {p}
        PROVE  /\ Ascending(loose[n].keys)
               /\ loose[n].isLeaf => LeafKeys(loose, R, n)
               /\ ~loose[n].isLeaf => InnerKeys(loose, R, n)
    BY <1>1, <1>3 DEF KeysInRange, LeafKeys, InnerKeys
  <2> QED
    BY <1>2, <2>1, <2>3, <2>4 DEF KeysInRange
<1>20. /\ \A i \in 1..(Len(s) + 1) : i < j => Slot(R[p], t, i) = Slot(R[p], s, i)
       /\ \A i \in 1..(Len(s) + 1) : i > j => Slot(R[p], t, i + 1) = Slot(R[p], s, i)
       /\ Slot(R[p], s, j) = Slot(R[p], t, j) \union Slot(R[p], t, j + 1)
  <2>2. s \in Seq(Int) /\ t \in Seq(Int) /\ j \in Nat /\ k \in Int /\ Inserted(s, t, j, k)
    BY <1>2, <1>3, <1>11
  <2> DEFINE S == R[p]
  <2>3. S \in SUBSET Int
    BY <1>3, <1>10
  <2> HIDE DEF s, t, S
  <2>4. \A i \in 1..(Len(s) + 1) : i < j => Slot(S, t, i) = Slot(S, s, i)
    BY <2>2, <2>3, InsertedBefore
  <2>5. \A i \in 1..(Len(s) + 1) : i > j => Slot(S, t, i + 1) = Slot(S, s, i)
    BY <2>2, <2>3, InsertedAfter
  <2>6. Slot(S, s, j) = Slot(S, t, j) \union Slot(S, t, j + 1)
    BY <1>4, <2>2, <2>3, InsertedSlots
  <2> QED
    BY <2>4, <2>5, <2>6 DEF S
<1>21. ChildrenOK(loose, L, H, R, W, {b})
  <2> SUFFICES ASSUME NEW n \in L, ~loose[n].isLeaf, NEW i \in 1..Len(loose[n].pointers)
               PROVE  IsChild(loose, L, H, R, W, {b}, n, i)
    BY DEF ChildrenOK
  <2>1. CASE n # p
    <3> DEFINE c == hung[n].pointers[i]
    <3>1. /\ c \in L /\ hung[c].parent = n /\ H[n] = H[c] + 1
          /\ R[c] = Slot(R[n], hung[n].keys, i)
      BY <1>1, <1>2, <1>3, <2>1 DEF ChildrenOK, IsChild
    <3>2. c # a /\ c # b
      BY <1>15, <2>1, <3>1
    <3> QED
      BY <1>2, <1>3, <1>16, <2>1, <3>1, <3>2 DEF IsChild
  <2>2. ASSUME n = p, NEW m \in 1..Len(pt), m # j, m # j + 1, pt[m] = ps[i],
               Slot(R[p], t, m) = Slot(R[p], s, i)
        PROVE  IsChild(loose, L, H, R, W, {b}, n, i)
    <3> DEFINE c == pt[m]
    <3>1. /\ c \in L /\ hung[c].parent = p /\ H[p] = H[c] + 1
          /\ R[c] = Slot(R[p], t, m)
      BY <1>12
    <3>2. c # a /\ c # b
      <4>1. (m < j \/ j < m) /\ (m < j + 1 \/ j + 1 < m)
        BY <1>6, <2>2
      <4>2. pt[m] # pt[j] /\ pt[m] # pt[j + 1]
        BY <1>13, <1>14, <2>2, <4>1
      <4> QED
        BY <1>8, <4>2
    <3> QED
      BY <1>2, <1>16, <2>2, <3>1, <3>2 DEF IsChild
  <2>3. CASE n = p /\ i < j
    <3>1. i \in 1..j /\ i \in 1..(Len(s) + 1) /\ i \in 1..Len(pt) /\ i # j /\ i # j + 1
      BY <1>5, <1>6, <2>3
    <3> QED
      BY <1>7, <1>20, <2>2, <2>3, <3>1
  <2>4. CASE n = p /\ i = j
    <3>1. W[a] = Slot(R[p], s, j)
      BY <1>15, <1>16, <1>20
    <3> QED
      BY <1>2, <1>3, <1>15, <2>4, <3>1 DEF IsChild
  <2>5. CASE n = p /\ i > j
    <3> DEFINE m == i + 1
    <3>1. /\ i \in (j + 1)..(Len(s) + 1) /\ i \in 1..(Len(s) + 1)
          /\ m \in 1..Len(pt) /\ m # j /\ m # j + 1
      BY <1>5, <1>6, <2>5
    <3>2. pt[m] = ps[i]
      BY <1>9, <3>1
    <3>3. Slot(R[p], t, m) = Slot(R[p], s, i)
      BY <1>20, <2>5, <3>1
    <3> HIDE DEF m
    <3> QED
      BY <2>2, <2>5, <3>1, <3>2, <3>3
  <2>6. n = p => i < j \/ i = j \/ i > j
    BY <1>5, <1>6
  <2> QED
    BY <2>1, <2>3, <2>4, <2>5, <2>6
<1>22. Attached(loose, L, r, W, {b})
  <2>1. r \in L /\ hung[r].parent = NULL /\ R[r] = Int
    BY <1>1 DEF Attached
  <2>2. r # a /\ r # b
    BY <1>1, <1>3, <1>15, <2>1, NodeFields
  <2>3. ASSUME NEW n \in L \ {b, r}
        PROVE  HangsIn(loose, L, n, loose[n].parent)
    <3> DEFINE q == loose[n].parent
    <3>1. q \in L /\ ~hung[q].isLeaf /\ hung[n].parent = q
      BY <1>1, <1>2 DEF Attached, HangsIn
    <3>2. PICK i \in 1..Len(hung[q].pointers) : hung[q].pointers[i] = n
      BY <1>1, <3>1 DEF Attached, HangsIn
    <3>3. CASE q # p
      BY <1>2, <1>3, <3>1, <3>2, <3>3 DEF HangsIn
    <3>4. CASE q = p
      <4>0. i \in 1..(Len(s) + 2) /\ pt[i] = n
        BY <1>5, <3>2, <3>4
      <4>1. i # j + 1
        BY <1>8, <4>0
      <4>2. i <= j => i \in 1..Len(ps) /\ ps[i] = n
        <5>1. i <= j => i \in 1..j /\ i \in 1..Len(ps)
          BY <1>5, <1>6, <4>0
        <5> QED
          BY <1>7, <4>0, <5>1
      <4>3. i > j + 1 => i - 1 \in 1..Len(ps) /\ ps[i - 1] = n
        <5>1. i > j + 1 => /\ i - 1 \in (j + 1)..(Len(s) + 1) /\ i - 1 \in 1..Len(ps)
                           /\ (i - 1) + 1 = i
          BY <1>5, <1>6, <4>0
        <5>2. i > j + 1 => pt[(i - 1) + 1] = ps[i - 1]
          BY <1>9, <5>1
        <5> QED
          BY <4>0, <5>1, <5>2
      <4>4. i <= j \/ i > j + 1
        BY <1>6, <4>0, <4>1
      <4>5. \E m \in 1..Len(loose[p].pointers) : loose[p].pointers[m] = n
        BY <4>2, <4>3, <4>4
      <4> QED
        BY <1>2, <1>3, <3>1, <3>4, <4>5 DEF HangsIn
    <3> QED
      BY <3>3, <3>4
  <2>4. \A n \in L \ ({b} \union {r}) : HangsIn(loose, L, n, loose[n].parent)
    BY <2>3
  <2>5. W[r] = Int /\ loose[r].parent = NULL /\ r \in L \ {b}
    BY <1>2, <1>16, <2>1, <2>2
  <2> QED
    BY <2>4, <2>5 DEF Attached
<1>23. Chain(loose, L, R)
  <2>1. \A n \in L : loose[n].isLeaf = hung[n].isLeaf
    BY <1>2
  <2>2. \A n \in L : hung[n].isLeaf => loose[n].next = hung[n].next /\ loose[n].prev = hung[n].prev
    BY <1>2
  <2> QED
    BY <1>1, <2>1, <2>2, SameChain
<1> QED
  BY <1>1, <1>2, <1>17, <1>18, <1>19, <1>21, <1>22, <1>23 DEF IsForest, IsHeap, W

-----------------------------------------------------------------------------
(*                       Dividing and joining ranges                       *)

(* The ranges and heights when a is divided at k and b gets its right half. *)
RangesWith(R, L, a, k, b) ==
  [n \in L |-> IF n = a THEN Below(R[a], k) ELSE IF n = b THEN From(R[a], k) ELSE R[n]]

LevelsWith(H, L, a, b) == [n \in L |-> IF n = b THEN H[a] ELSE H[n]]

Without(F, L, b) == [n \in L \ {b} |-> F[n]]

LEMMA HalvesOf ==
  ASSUME NEW A \in SUBSET Int, Convex(A), NEW k \in Int, k \in A, k - 1 \in A
  PROVE  /\ Below(A, k) \in SUBSET Int /\ From(A, k) \in SUBSET Int
         /\ k - 1 \in Below(A, k) /\ k \in From(A, k)
         /\ Convex(Below(A, k)) /\ Convex(From(A, k))
         /\ Below(A, k) \cap From(A, k) = {}
         /\ Below(A, k) \union From(A, k) = A
<1>1. /\ \A x : x \in Below(A, k) <=> x \in A /\ x < k
      /\ \A x : x \in From(A, k) <=> x \in A /\ k <= x
      /\ \A x \in A : x \in Int
  BY DEF Below, From
<1>7. \A x, y \in A : \A z \in Int : x <= z /\ z <= y => z \in A
  BY DEF Convex
<1>2. Convex(Below(A, k))
  <2>1. ASSUME NEW x \in Below(A, k), NEW y \in Below(A, k), NEW z \in Int, x <= z, z <= y
        PROVE  z \in Below(A, k)
    <3>1. z \in A
      BY <1>1, <1>7, <2>1
    <3>3. y \in Int /\ y < k
      BY DEF Below
    <3>2. z < k
      BY <2>1, <3>3
    <3> QED
      BY <1>1, <3>1, <3>2
  <2> QED
    BY <2>1 DEF Convex
<1>3. Convex(From(A, k))
  <2>1. ASSUME NEW x \in From(A, k), NEW y \in From(A, k), NEW z \in Int, x <= z, z <= y
        PROVE  z \in From(A, k)
    <3>1. z \in A
      BY <1>1, <1>7, <2>1
    <3>3. x \in Int /\ k <= x
      BY DEF From
    <3>2. k <= z
      BY <2>1, <3>3
    <3> QED
      BY <1>1, <3>1, <3>2
  <2> QED
    BY <2>1 DEF Convex
<1>4. \A x \in Int : (x < k \/ k <= x) /\ ~(x < k /\ k <= x)
  OBVIOUS
<1>5. /\ Below(A, k) \cap From(A, k) = {}
      /\ Below(A, k) \union From(A, k) = A
  BY <1>1, <1>4
<1>6. k - 1 < k /\ k <= k
  OBVIOUS
<1> QED
  BY <1>1, <1>2, <1>3, <1>5, <1>6

LEMMA HalvesJoined ==
  ASSUME NEW A \in SUBSET Int, NEW B \in SUBSET Int, NEW k \in Int, Convex(A), Convex(B),
         k - 1 \in A, k \in B, \A x \in A : x < k, \A x \in B : k <= x
  PROVE  /\ Convex(A \union B)
         /\ A \union B \in SUBSET Int /\ k \in A \union B /\ k - 1 \in A \union B
         /\ A = Below(A \union B, k) /\ B = From(A \union B, k)
<1>1. ASSUME NEW x \in A \union B, NEW y \in A \union B, NEW z \in Int, x <= z, z <= y
      PROVE  z \in A \union B
  <2>1. CASE z < k
    <3>1. x \in A /\ z <= k - 1
      BY <1>1, <2>1
    <3> QED
      BY <1>1, <3>1 DEF Convex
  <2>2. CASE k <= z
    <3>1. y \in B
      BY <1>1, <2>2
    <3> QED
      BY <1>1, <2>2, <3>1 DEF Convex
  <2> QED
    BY <2>1, <2>2
<1>2. Convex(A \union B)
  BY <1>1 DEF Convex
<1>3. A = Below(A \union B, k) /\ B = From(A \union B, k)
  <2>1. \A x \in Int : ~(x < k /\ k <= x)
    OBVIOUS
  <2>2. \A x : x \in Below(A \union B, k) <=> (x \in A \/ x \in B) /\ x < k
    BY DEF Below
  <2>3. \A x : x \in From(A \union B, k) <=> (x \in A \/ x \in B) /\ k <= x
    BY DEF From
  <2>4. (\A x \in A : x \in Int) /\ (\A x \in B : x \in Int)
    OBVIOUS
  <2> QED
    BY <2>1, <2>2, <2>3, <2>4
<1> QED
  BY <1>2, <1>3

(* Which ranges meet, before and after the division of A.                  *)
LEMMA HalvesMeet ==
  ASSUME NEW A \in SUBSET Int, Convex(A), NEW k \in Int, k \in A, k - 1 \in A
  PROVE  /\ Meets(Below(A, k), From(A, k)) /\ ~Meets(From(A, k), Below(A, k))
         /\ ~Meets(A, A)
         /\ ~Meets(Below(A, k), Below(A, k)) /\ ~Meets(From(A, k), From(A, k))
<1>1. k - 1 \in Below(A, k) /\ (k - 1) + 1 = k /\ k \in From(A, k) /\ k \notin Below(A, k)
  BY DEF Below, From
<1>2. \A x \in From(A, k) : x + 1 \notin Below(A, k)
  BY DEF Below, From
<1> QED
  BY <1>1, <1>2 DEF Meets

LEMMA OthersMeet ==
  ASSUME NEW A \in SUBSET Int, Convex(A), NEW k \in Int, k \in A, k - 1 \in A,
         NEW C \in SUBSET Int, A \cap C = {}
  PROVE  /\ Meets(From(A, k), C) <=> Meets(A, C)
         /\ ~Meets(Below(A, k), C)
         /\ Meets(C, Below(A, k)) <=> Meets(C, A)
         /\ ~Meets(C, From(A, k))
<1>1. ASSUME NEW x \in A, x < k
      PROVE  x + 1 \in A
  BY <1>1 DEF Convex
<1>2. ASSUME NEW x \in Int, x + 1 \in A, k <= x + 1
      PROVE  x \in A
  BY <1>2 DEF Convex
<1>3. \A x \in A : x \in Int /\ x \notin C
  OBVIOUS
<1>4. \A x : (x \in Below(A, k) <=> x \in A /\ x < k) /\ (x \in From(A, k) <=> x \in A /\ k <= x)
  BY DEF Below, From
<1>5. \A x \in Int : x < k \/ k <= x
  OBVIOUS
<1>6. ~Meets(Below(A, k), C)
  BY <1>1, <1>3, <1>4 DEF Meets
<1>7. ~Meets(C, From(A, k))
  <2> SUFFICES ASSUME NEW x \in C, x + 1 \in From(A, k) PROVE FALSE
    BY DEF Meets
  <2>1. x \in Int /\ x + 1 \in A /\ k <= x + 1
    BY <1>4
  <2> QED
    BY <1>2, <1>3, <2>1
<1>8. Meets(From(A, k), C) <=> Meets(A, C)
  <2>1. ASSUME NEW x \in A, x + 1 \in C
        PROVE  x \in From(A, k)
    BY <1>1, <1>3, <1>4, <1>5, <2>1
  <2>2. \A x \in From(A, k) : x \in A
    BY <1>4
  <2>3. \A x : x \in C => x \notin A /\ x \notin From(A, k)
    BY <1>3, <2>2
  <2> QED
    BY <2>1, <2>2, <2>3 DEF Meets
<1>9. Meets(C, Below(A, k)) <=> Meets(C, A)
  <2>1. ASSUME NEW x \in C, x + 1 \in A
        PROVE  x + 1 \in Below(A, k)
    <3>1. x \in Int /\ x + 1 \in Int
      OBVIOUS
    <3>2. ~(k <= x + 1)
      BY <1>2, <1>3, <2>1, <3>1
    <3> QED
      BY <1>4, <1>5, <2>1, <3>1, <3>2
  <2>2. \A x \in Below(A, k) : x \in A
    BY <1>4
  <2> QED
    BY <1>3, <2>1, <2>2 DEF Meets
<1> QED
  BY <1>6, <1>7, <1>8, <1>9

LEMMA IntervalsDivided ==
  ASSUME NEW L, NEW b \in L, NEW H, NEW R, Intervals(L \ {b}, H, R), H \in [L \ {b} -> Nat],
         NEW a \in L \ {b}, NEW k \in Int, k \in R[a], k - 1 \in R[a]
  PROVE  Intervals(L, LevelsWith(H, L, a, b), RangesWith(R, L, a, k, b))
<1> DEFINE H1 == LevelsWith(H, L, a, b)
           R1 == RangesWith(R, L, a, k, b)
           base(n) == IF n = b THEN a ELSE n
<1>1. /\ R[a] \in SUBSET Int /\ Convex(R[a])
      /\ \A n \in L \ {b} : R[n] \in SUBSET Int /\ R[n] # {} /\ Convex(R[n])
  BY DEF Intervals
<1> DEFINE A == R[a]
<1>2. /\ Below(A, k) \in SUBSET Int /\ From(A, k) \in SUBSET Int
      /\ k - 1 \in Below(A, k) /\ k \in From(A, k)
      /\ Convex(Below(A, k)) /\ Convex(From(A, k))
      /\ Below(A, k) \cap From(A, k) = {}
  <2> HIDE DEF A
  <2>1. A \in SUBSET Int /\ Convex(A) /\ k \in A /\ k - 1 \in A
    BY <1>1 DEF A
  <2> QED
    BY <2>1, HalvesOf
<1>3. /\ R1[a] = Below(A, k) /\ R1[b] = From(A, k)
      /\ \A n \in L \ {a, b} : R1[n] = R[n]
      /\ \A n \in L : H1[n] = H[base(n)]
  BY DEF RangesWith, LevelsWith
<1>4. R1 \in [L -> SUBSET Int]
  <2>1. \A n \in L : R1[n] \in SUBSET Int
    BY <1>1, <1>2, <1>3
  <2>2. R1 = [n \in L |-> R1[n]]
    BY DEF RangesWith
  <2> HIDE DEF R1
  <2> QED
    BY <2>1, <2>2
<1>5. \A n \in L : R1[n] # {} /\ Convex(R1[n]) /\ R1[n] \subseteq R[base(n)]
  <2> SUFFICES ASSUME NEW n \in L
               PROVE  R1[n] # {} /\ Convex(R1[n]) /\ R1[n] \subseteq R[base(n)]
    OBVIOUS
  <2>1. CASE n = a
    BY <1>2, <1>3, <2>1 DEF Below
  <2>2. CASE n = b
    BY <1>2, <1>3, <2>2 DEF From
  <2>3. CASE n \notin {a, b}
    BY <1>1, <1>3, <2>3
  <2> QED
    BY <2>1, <2>2, <2>3
<1>6. ASSUME NEW n \in L, NEW m \in L, H1[n] = H1[m], n # m
      PROVE  R1[n] \cap R1[m] = {}
  <2>1. CASE base(n) = base(m)
    <3>1. (n = a /\ m = b) \/ (n = b /\ m = a)
      BY <1>6, <2>1
    <3> QED
      BY <1>2, <1>3, <3>1
  <2>2. CASE base(n) # base(m)
    <3>1. base(n) \in L \ {b} /\ base(m) \in L \ {b} /\ H[base(n)] = H[base(m)]
      BY <1>3, <1>6
    <3> HIDE DEF base
    <3>2. R[base(n)] \cap R[base(m)] = {}
      BY <2>2, <3>1 DEF Intervals
    <3> QED
      BY <1>5, <3>2
  <2> QED
    BY <2>1, <2>2
<1> QED
  BY <1>4, <1>5, <1>6 DEF Intervals

(* A and B are the two parts of S. *)
Halved(S, k, A, B) ==
  /\ S \in SUBSET Int /\ Convex(S)
  /\ k \in S /\ k - 1 \in S
  /\ A = Below(S, k) /\ B = From(S, k)

LEMMA IntervalsJoined ==
  ASSUME NEW h, NEW L, NEW H, NEW R, NEW a, NEW k, NEW b,
         Intervals(L, H, R), IsPair(h, L, H, R, a, k, b)
  PROVE  /\ Intervals(L \ {b}, Without(H, L, b), Without(Covered(R, a, b), L, b))
         /\ Halved(R[a] \union R[b], k, R[a], R[b])
<1> DEFINE W == Without(Covered(R, a, b), L, b)
           G == Without(H, L, b)
           A == R[a]
           B == R[b]
<1>1. /\ a \in L /\ b \in L /\ a # b /\ H[a] = H[b] /\ k \in Int
      /\ k - 1 \in R[a] /\ k \in R[b] /\ (\A x \in R[a] : x < k) /\ (\A x \in R[b] : k <= x)
  BY ValueAssumption DEF IsPair
<1>2. /\ R \in [L -> SUBSET Int]
      /\ \A n \in L : R[n] \in SUBSET Int /\ R[n] # {} /\ Convex(R[n])
      /\ \A n, m \in L : H[n] = H[m] /\ n # m => R[n] \cap R[m] = {}
  BY DEF Intervals
<1>3. /\ Convex(A \union B)
      /\ A \union B \in SUBSET Int /\ k \in A \union B /\ k - 1 \in A \union B
      /\ A = Below(A \union B, k) /\ B = From(A \union B, k)
  <2>1. A \in SUBSET Int /\ B \in SUBSET Int /\ Convex(A) /\ Convex(B)
    BY <1>1, <1>2
  <2>2. k - 1 \in A /\ k \in B /\ (\A x \in A : x < k) /\ (\A x \in B : k <= x)
    BY <1>1
  <2> HIDE DEF A, B
  <2> QED
    BY <1>1, <2>1, <2>2, HalvesJoined
<1>4. /\ W[a] = R[a] \union R[b] /\ (\A n \in L \ {a, b} : W[n] = R[n])
      /\ \A n \in L \ {b} : G[n] = H[n]
  BY <1>1, <1>2 DEF Without, Covered
<1>5. \A n \in L \ {b} : H[n] = H[a] /\ n # a => (R[a] \union R[b]) \cap R[n] = {}
  BY <1>1, <1>2
<1>6. \A n \in L \ {b} : W[n] \in SUBSET Int /\ W[n] # {} /\ Convex(W[n])
  <2> SUFFICES ASSUME NEW n \in L \ {b}
               PROVE  W[n] \in SUBSET Int /\ W[n] # {} /\ Convex(W[n])
    OBVIOUS
  <2>1. CASE n = a
    BY <1>3, <1>4, <2>1
  <2>2. CASE n # a
    BY <1>2, <1>4, <2>2
  <2> QED
    BY <2>1, <2>2
<1>7. ASSUME NEW n \in L \ {b}, NEW m \in L \ {b}, G[n] = G[m], n # m
      PROVE  W[n] \cap W[m] = {}
  <2>0. H[n] = H[m]
    BY <1>4, <1>7
  <2>1. CASE n = a
    BY <1>4, <1>5, <1>7, <2>0, <2>1
  <2>2. CASE m = a
    BY <1>4, <1>5, <1>7, <2>0, <2>2
  <2>3. CASE n # a /\ m # a
    BY <1>2, <1>4, <1>7, <2>0, <2>3
  <2> QED
    BY <2>1, <2>2, <2>3
<1>8. W \in [L \ {b} -> SUBSET Int]
  <2>1. W = [n \in L \ {b} |-> W[n]]
    BY DEF Without
  <2> HIDE DEF W
  <2> QED
    BY <1>6, <2>1
<1>9. Intervals(L \ {b}, G, W)
  <2> HIDE DEF G, W
  <2> QED
    BY <1>6, <1>7, <1>8 DEF Intervals
<1>10. Halved(A \union B, k, A, B)
  BY <1>3 DEF Halved
<1> QED
  BY <1>9, <1>10

-----------------------------------------------------------------------------
(*                      Dividing and joining leaves                        *)

(* The leaf a of big is the two leaves a and b of two.                     *)
LeafDivided(big, two, L, a, b) ==
  /\ a \in L /\ b \in L /\ a # b
  /\ NodeTypes(big, L \ {b}) /\ NodeTypes(two, L)
  /\ big[a].isLeaf /\ two[a].isLeaf /\ two[b].isLeaf
  /\ two[a].parent = big[a].parent /\ two[b].parent = big[a].parent
  /\ Joined(two[a].keys, two[b].keys, big[a].keys)
  /\ Joined(two[a].pointers, two[b].pointers, big[a].pointers)
  /\ Len(two[a].pointers) = Len(two[a].keys)
  /\ two[a].next = b /\ two[b].prev = a
  /\ two[a].prev = big[a].prev /\ two[b].next = big[a].next
  /\ \A n \in L \ {a, b} :
       /\ two[n].isLeaf = big[n].isLeaf /\ two[n].parent = big[n].parent
       /\ two[n].keys = big[n].keys /\ two[n].pointers = big[n].pointers
       /\ two[n].next = big[n].next
       /\ n # big[a].next => two[n].prev = big[n].prev
       /\ n = big[a].next => two[n].prev = b /\ big[n].prev = a

LEMMA JoinedAt ==
  ASSUME NEW S, NEW s \in Seq(S), NEW u \in Seq(S), NEW t \in Seq(S), Joined(s, u, t),
         NEW i \in Nat
  PROVE  /\ i \in 1..Len(s) => i \in 1..Len(t) /\ t[i] = s[i]
         /\ i \in 1..Len(u) => Len(s) + i \in 1..Len(t) /\ t[Len(s) + i] = u[i]
         /\ i \in 1..Len(t) => i \in 1..Len(s) \/ (i > Len(s) /\ i - Len(s) \in 1..Len(u))
<1>1. Len(t) = Len(s) + Len(u) /\ Len(s) \in Nat /\ Len(u) \in Nat
  BY DEF Joined
<1>2. i \in 1..Len(s) => i \in 1..Len(t)
  BY <1>1
<1>3. i \in 1..Len(u) => Len(s) + i \in 1..Len(t)
  BY <1>1
<1>4. i \in 1..Len(t) => i \in 1..Len(s) \/ (i > Len(s) /\ i - Len(s) \in 1..Len(u))
  BY <1>1
<1> QED
  BY <1>2, <1>3, <1>4 DEF Joined

LEMMA SplitLeaf ==
  ASSUME NEW big, NEW two, NEW L, NEW r, NEW H, NEW R, NEW a, NEW k, NEW b,
         IsTree(big, L \ {b}, r, H, R), LeafDivided(big, two, L, a, b),
         two[a].keys # <<>>, two[b].keys # <<>>, k = two[b].keys[1]
  PROVE  IsForest(two, L, r, LevelsWith(H, L, a, b), RangesWith(R, L, a, k, b), a, k, b)
<1> DEFINE M == L \ {b}
           H1 == LevelsWith(H, L, a, b)
           R1 == RangesWith(R, L, a, k, b)
           W1 == Covered(R1, a, b)
           A == R[a]
           s == two[a].keys
           u == two[b].keys
           t == big[a].keys
<1>1. /\ NodeTypes(big, M) /\ Levels(big, M, r, H) /\ KeysInRange(big, M, R)
      /\ ChildrenOK(big, M, H, R, R, {}) /\ Attached(big, M, r, R, {})
      /\ Intervals(M, H, R) /\ Chain(big, M, R)
  BY DEF IsTree, IsHeap
<1>2. /\ a \in M /\ b \in L /\ a # b /\ NodeTypes(two, L)
      /\ big[a].isLeaf /\ two[a].isLeaf /\ two[b].isLeaf
      /\ two[a].parent = big[a].parent /\ two[b].parent = big[a].parent
      /\ Joined(s, u, t)
      /\ Joined(two[a].pointers, two[b].pointers, big[a].pointers)
      /\ Len(two[a].pointers) = Len(s)
  BY DEF LeafDivided
<1>3. /\ two[a].next = b /\ two[b].prev = a
      /\ two[a].prev = big[a].prev /\ two[b].next = big[a].next
  BY DEF LeafDivided
<1>4. \A n \in L \ {a, b} :
        /\ two[n].isLeaf = big[n].isLeaf /\ two[n].parent = big[n].parent
        /\ two[n].keys = big[n].keys /\ two[n].pointers = big[n].pointers
        /\ two[n].next = big[n].next
        /\ n # big[a].next => two[n].prev = big[n].prev
        /\ n = big[a].next => two[n].prev = b /\ big[n].prev = a
  BY DEF LeafDivided
<1>5. /\ s \in Seq(Int) /\ u \in Seq(Int) /\ t \in Seq(Int) /\ u \in Seq(Value)
      /\ two[a].pointers \in Seq(Seq(Time)) /\ two[b].pointers \in Seq(Seq(Time))
      /\ big[a].pointers \in Seq(Seq(Time))
  BY <1>1, <1>2, NodeFields
<1>6. /\ Ascending(t) /\ Len(big[a].pointers) = Len(t)
      /\ \A i \in 1..Len(t) : t[i] \in A /\ big[a].pointers[i] # <<>>
  BY <1>1, <1>2 DEF KeysInRange, LeafKeys
<1>7. Len(t) = Len(s) + Len(u) /\ Len(s) \in Nat /\ Len(s) >= 1 /\ Len(u) \in Nat /\ Len(u) >= 1
  <2>1. Len(t) = Len(s) + Len(u)
    BY <1>2 DEF Joined
  <2>2. Len(s) \in Nat /\ Len(s) # 0 /\ Len(u) \in Nat /\ Len(u) # 0
    BY <1>5, EmptySeq
  <2> QED
    BY <2>1, <2>2
<1>8. /\ k = t[Len(s) + 1] /\ Len(s) + 1 \in 1..Len(t) /\ k \in A /\ k \in Int /\ k \in Value
  <2> HIDE DEF s, t, A
  <2>1. 1 \in 1..Len(u) /\ Len(s) + 1 \in 1..Len(t)
    <3> HIDE DEF u
    <3> QED
      BY <1>7
  <2>2. t[Len(s) + 1] = u[1]
    BY <1>2, <2>1 DEF Joined
  <2>3. u[1] \in Value /\ u[1] \in Int
    BY <1>5, <2>1
  <2>4. t[Len(s) + 1] \in A
    BY <1>6, <2>1
  <2> QED
    BY <2>1, <2>2, <2>3, <2>4
<1>9. ASSUME NEW i \in 1..Len(s)
      PROVE  s[i] \in Below(A, k) /\ s[i] = t[i] /\ i \in 1..Len(t)
  <2> HIDE DEF s, u, t, A
  <2>1. i \in 1..Len(t) /\ i < Len(s) + 1
    BY <1>7
  <2>2. s[i] = t[i]
    BY <1>2 DEF Joined
  <2>3. t[i] < t[Len(s) + 1]
    BY <1>5, <1>6, <1>8, <2>1, AscendingAt
  <2> QED
    BY <1>6, <1>8, <2>1, <2>2, <2>3 DEF Below
<1>10. ASSUME NEW i \in 1..Len(u)
       PROVE  u[i] \in From(A, k) /\ u[i] = t[Len(s) + i] /\ Len(s) + i \in 1..Len(t)
  <2> HIDE DEF s, u, t, A
  <2>1. Len(s) + i \in 1..Len(t) /\ Len(s) + 1 <= Len(s) + i
    BY <1>7
  <2>2. u[i] = t[Len(s) + i]
    BY <1>2 DEF Joined
  <2>3. t[Len(s) + 1] <= t[Len(s) + i]
    BY <1>5, <1>6, <1>8, <2>1, AscendingAt
  <2> QED
    BY <1>6, <1>8, <2>1, <2>2, <2>3 DEF From
<1>11. /\ A \in SUBSET Int /\ Convex(A)
       /\ \A n \in M : R[n] \in SUBSET Int
  BY <1>1, <1>2 DEF Intervals
<1>12. k - 1 \in A
  <2>1. 1 \in 1..Len(s)
    BY <1>7
  <2>2. s[1] \in A /\ s[1] < k /\ s[1] \in Int
    <3>1. s[1] \in Below(A, k)
      BY <1>9, <2>1, Zenon
    <3>2. s[1] \in Int
      BY <1>5, <2>1
    <3> QED
      BY <3>1, <3>2, Zenon DEF Below
  <2>3. k - 1 \in Int /\ s[1] <= k - 1 /\ k - 1 <= k
    BY <1>8, <2>2
  <2> QED
    BY <1>8, <1>11, <2>2, <2>3 DEF Convex
<1>13. Intervals(L, H1, R1)
  <2>1. H \in [M -> Nat]
    BY <1>1 DEF Levels
  <2> QED
    BY <1>1, <1>2, <1>8, <1>12, <2>1, IntervalsDivided
<1>14. /\ R1[a] = Below(A, k) /\ R1[b] = From(A, k)
       /\ \A n \in L \ {a, b} : R1[n] = R[n]
       /\ \A n \in M : H1[n] = H[n]
       /\ H1[b] = H[a]
  BY <1>2 DEF RangesWith, LevelsWith
<1>15. /\ k - 1 \in Below(A, k) /\ k \in From(A, k)
       /\ Below(A, k) \union From(A, k) = A
  BY <1>8, <1>11, <1>12, HalvesOf
<1>16. \A n \in M : W1[n] = R[n]
  <2>1. W1[a] = R1[a] \union R1[b] /\ \A n \in M \ {a} : W1[n] = R1[n]
    BY <1>2 DEF Covered, RangesWith
  <2>2. R1[a] \union R1[b] = R[a]
    BY <1>14, <1>15, Zenon DEF A
  <2>3. \A n \in M \ {a} : n \in L \ {a, b}
    OBVIOUS
  <2>4. \A n \in M \ {a} : W1[n] = R[n]
    BY <1>14, <2>1, <2>3, Zenon
  <2> QED
    BY <2>1, <2>2, <2>4, Zenon
<1> HIDE DEF H1, R1, W1, M, A, s, u, t
<1>17. M \subseteq L /\ L = M \union {b} /\ b \notin M
  BY <1>2 DEF M
<1>18. \A n \in M : two[n].isLeaf = big[n].isLeaf /\ two[n].parent = big[n].parent
  <2>1. two[a].isLeaf = big[a].isLeaf /\ two[a].parent = big[a].parent
    BY <1>1, <1>2, <1>17, NodeFields
  <2>2. \A n \in M : n = a \/ n \in L \ {a, b}
    BY <1>17
  <2> QED
    BY <1>4, <2>1, <2>2
<1>19. r \in M /\ big[r].parent = NULL /\ R[r] = Int
  BY <1>1 DEF Attached
<1>20. Levels(two, L, r, H1)
  <2>1. H \in [M -> Nat] /\ \A n \in M : (big[n].isLeaf <=> H[n] = 0) /\ H[n] <= H[r]
    BY <1>1 DEF Levels
  <2>2. H1 \in [L -> Nat]
    <3>1. \A n \in L : H1[n] \in Nat
      BY <1>2, <1>14, <1>17, <2>1
    <3>2. H1 = [n \in L |-> H1[n]]
      BY DEF H1, LevelsWith
    <3> QED
      BY <3>1, <3>2
  <2>3. ASSUME NEW n \in L
        PROVE  (two[n].isLeaf <=> H1[n] = 0) /\ H1[n] <= H1[r]
    <3>1. CASE n = b
      BY <1>2, <1>14, <1>19, <2>1, <3>1
    <3>2. CASE n # b
      <4>1. n \in M
        BY <1>17, <3>2
      <4> QED
        BY <1>14, <1>18, <1>19, <2>1, <4>1
    <3> QED
      BY <3>1, <3>2
  <2> QED
    BY <2>2, <2>3 DEF Levels
<1>21. KeysInRange(two, L, R1)
  <2>1. Ascending(s) /\ Ascending(u)
    <3>1. ASSUME NEW i \in 1..Len(s), NEW m \in 1..Len(s), i < m
          PROVE  s[i] < s[m]
      BY <1>5, <1>6, <1>9, <3>1, AscendingAt
    <3>2. ASSUME NEW i \in 1..Len(u), NEW m \in 1..Len(u), i < m
          PROVE  u[i] < u[m]
      <4>1. Len(s) + i < Len(s) + m
        BY <1>7, <3>2
      <4> QED
        BY <1>5, <1>6, <1>10, <4>1, AscendingAt
    <3> QED
      BY <3>1, <3>2 DEF Ascending
  <2>2. Len(two[b].pointers) = Len(u)
    <3>1. Len(big[a].pointers) = Len(two[a].pointers) + Len(two[b].pointers)
      BY <1>2 DEF Joined
    <3>2. Len(two[b].pointers) \in Nat
      BY <1>5
    <3> QED
      BY <1>2, <1>6, <1>7, <3>1, <3>2
  <2>3. ASSUME NEW i \in 1..Len(s)
        PROVE  two[a].pointers[i] # <<>>
    <3>1. two[a].pointers[i] = big[a].pointers[i]
      BY <1>2 DEF Joined
    <3> QED
      BY <1>6, <1>9, <3>1
  <2>4. ASSUME NEW i \in 1..Len(u)
        PROVE  two[b].pointers[i] # <<>>
    <3>1. two[b].pointers[i] = big[a].pointers[Len(s) + i]
      BY <1>2, <2>2 DEF Joined
    <3> QED
      BY <1>6, <1>10, <3>1
  <2>5. LeafKeys(two, R1, a)
    BY <1>2, <1>9, <1>14, <2>3 DEF LeafKeys, s
  <2>6. LeafKeys(two, R1, b)
    BY <1>10, <1>14, <2>2, <2>4 DEF LeafKeys, u
  <2>7. ASSUME NEW n \in L \ {a, b}
        PROVE  /\ Ascending(two[n].keys)
               /\ two[n].isLeaf => LeafKeys(two, R1, n)
               /\ ~two[n].isLeaf => InnerKeys(two, R1, n)
    <3>1. n \in M
      BY <1>17
    <3>2. /\ two[n].isLeaf = big[n].isLeaf /\ two[n].keys = big[n].keys
          /\ two[n].pointers = big[n].pointers /\ R1[n] = R[n]
      BY <1>4, <1>14
    <3>3. /\ Ascending(big[n].keys)
          /\ big[n].isLeaf => LeafKeys(big, R, n)
          /\ ~big[n].isLeaf => InnerKeys(big, R, n)
      BY <1>1, <3>1 DEF KeysInRange
    <3> QED
      BY <3>2, <3>3 DEF LeafKeys, InnerKeys
  <2> QED
    BY <1>2, <2>1, <2>5, <2>6, <2>7 DEF KeysInRange, s, u
<1>22. ChildrenOK(two, L, H1, R1, W1, {b})
  <2> SUFFICES ASSUME NEW n \in L, ~two[n].isLeaf, NEW i \in 1..Len(two[n].pointers)
               PROVE  IsChild(two, L, H1, R1, W1, {b}, n, i)
    BY DEF ChildrenOK
  <2>1. n \in L \ {a, b} /\ n \in M
    BY <1>2, <1>17
  <2>2. /\ ~big[n].isLeaf /\ two[n].keys = big[n].keys /\ two[n].pointers = big[n].pointers
        /\ R1[n] = R[n] /\ H1[n] = H[n]
    BY <1>4, <1>14, <2>1
  <2> DEFINE c == big[n].pointers[i]
  <2>3. c \in M /\ big[c].parent = n /\ H[n] = H[c] + 1 /\ R[c] = Slot(R[n], big[n].keys, i)
    BY <1>1, <2>1, <2>2 DEF ChildrenOK, IsChild
  <2>4. c \in L \ {b} /\ two[c].parent = n /\ H1[c] = H[c] /\ W1[c] = R[c]
    BY <1>14, <1>16, <1>17, <1>18, <2>3
  <2> QED
    BY <2>2, <2>3, <2>4 DEF IsChild
<1>23. Attached(two, L, r, W1, {b})
  <2>1. r \in L \ {b} /\ two[r].parent = NULL /\ W1[r] = Int
    BY <1>16, <1>17, <1>18, <1>19
  <2>2. ASSUME NEW n \in L \ ({b} \union {r})
        PROVE  HangsIn(two, L, n, two[n].parent)
    <3>1. n \in M
      BY <1>17
    <3>2. two[n].parent = big[n].parent /\ HangsIn(big, M, n, big[n].parent)
      BY <1>1, <1>18, <3>1 DEF Attached
    <3> DEFINE p == big[n].parent
    <3>3. p \in M /\ ~big[p].isLeaf /\ \E i \in 1..Len(big[p].pointers) : big[p].pointers[i] = n
      BY <3>2 DEF HangsIn
    <3>4. p \in L \ {a, b}
      BY <1>2, <1>17, <3>3
    <3>5. ~two[p].isLeaf /\ two[p].pointers = big[p].pointers
      BY <1>4, <3>3, <3>4
    <3> QED
      BY <3>2, <3>3, <3>4, <3>5 DEF HangsIn
  <2> QED
    BY <2>1, <2>2 DEF Attached
<1>24. IsPair(two, L, H1, R1, a, k, b)
  <2>1. (\A x \in Below(A, k) : x < k) /\ (\A x \in From(A, k) : k <= x)
    BY DEF Below, From
  <2>2. a \in L /\ b \in L /\ a # b /\ H1[a] = H1[b] /\ two[b].parent = two[a].parent
    BY <1>2, <1>14, <1>17
  <2> QED
    BY <1>8, <1>14, <1>15, <2>1, <2>2 DEF IsPair
<1>25. Chain(two, L, R1)
  <2> DEFINE O == LeafSet(big, M)
             P == LeafSet(two, L)
  <2>1. P = O \union {b} /\ a \in O /\ b \notin O /\ O \subseteq M
    BY <1>2, <1>17, <1>18 DEF LeafSet
  <2>2. /\ \A l \in O : big[l].next \in O \union {NULL} /\ big[l].prev \in O \union {NULL}
        /\ \A l, m \in O : /\ big[l].next = m <=> Meets(R[l], R[m])
                           /\ big[m].prev = l <=> Meets(R[l], R[m])
    BY <1>1 DEF Chain
  <2>3. PICK f \in O : \A l \in O : big[l].prev = NULL <=> l = f
    BY <1>1 DEF Chain
  <2>4. \A n \in L : n # NULL
    BY <1>2, NodeFields
  <2>5. \A l \in O : H[l] = 0
    BY <1>1 DEF Levels, LeafSet
  <2>6. /\ Meets(R1[a], R1[b]) /\ ~Meets(R1[b], R1[a])
        /\ ~Meets(A, A) /\ ~Meets(R1[a], R1[a]) /\ ~Meets(R1[b], R1[b])
    BY <1>8, <1>11, <1>12, <1>14, HalvesMeet
  <2>7. ASSUME NEW m \in O \ {a}
        PROVE  /\ Meets(R1[b], R1[m]) <=> Meets(A, R[m])
               /\ ~Meets(R1[a], R1[m])
               /\ Meets(R1[m], R1[a]) <=> Meets(R[m], A)
               /\ ~Meets(R1[m], R1[b])
    <3>1. m \in L \ {a, b} /\ m \in M
      BY <1>17, <2>1
    <3>2. A \cap R[m] = {}
      <4>1. H[m] = H[a]
        BY <2>1, <2>5
      <4> QED
        BY <1>1, <1>2, <3>1, <4>1 DEF Intervals, A, M
    <3> DEFINE C == R[m]
    <3>3. R1[m] = C /\ C \in SUBSET Int /\ A \cap C = {}
      BY <1>11, <1>14, <3>1, <3>2
    <3> HIDE DEF C
    <3>4. /\ Meets(From(A, k), C) <=> Meets(A, C)
          /\ ~Meets(Below(A, k), C)
          /\ Meets(C, Below(A, k)) <=> Meets(C, A)
          /\ ~Meets(C, From(A, k))
      BY <1>8, <1>11, <1>12, <3>3, OthersMeet
    <3> QED
      BY <1>14, <3>3, <3>4 DEF C
  <2>8. \A l, m \in O \ {a} : Meets(R1[l], R1[m]) <=> Meets(R[l], R[m])
    BY <1>14, <1>17, <2>1
  <2>9. /\ \A n \in O \ {a} : two[n].next = big[n].next
        /\ \A n \in O \ {a} : n # big[a].next => two[n].prev = big[n].prev
        /\ \A n \in O \ {a} : n = big[a].next => two[n].prev = b /\ big[n].prev = a
    BY <1>4, <1>17, <2>1
  <2>10. R[a] = A
    BY DEF A
  <2>11. big[a].next # a /\ big[a].prev # a /\ big[a].next # b /\ big[a].prev # b
    BY <1>2, <2>1, <2>2, <2>4, <2>6, <2>10
  <2> HIDE DEF O, P
  <2>12. ASSUME NEW l \in P
         PROVE  two[l].next \in P \union {NULL} /\ two[l].prev \in P \union {NULL}
    <3>1. CASE l = a
      BY <1>3, <2>1, <2>2, <3>1
    <3>2. CASE l = b
      BY <1>3, <2>1, <2>2, <3>2
    <3>3. CASE l \in O \ {a}
      BY <2>1, <2>2, <2>9, <3>3
    <3> QED
      BY <2>1, <3>1, <3>2, <3>3
  <2>13. ASSUME NEW l \in P, NEW m \in P
         PROVE  two[l].next = m <=> Meets(R1[l], R1[m])
    <3>1. CASE l = a
      <4>1. two[l].next = b
        BY <1>3, <3>1
      <4> QED
        BY <2>1, <2>6, <2>7, <3>1, <4>1
    <3>2. CASE l = b
      <4>1. two[l].next = big[a].next
        BY <1>3, <3>2
      <4>2. CASE m \in {a, b}
        BY <2>6, <2>11, <3>2, <4>1, <4>2
      <4>3. CASE m \in O \ {a}
        BY <2>1, <2>2, <2>7, <2>10, <3>2, <4>1, <4>3
      <4> QED
        BY <2>1, <4>2, <4>3
    <3>3. CASE l \in O \ {a}
      <4>1. two[l].next = big[l].next
        BY <2>9, <3>3
      <4>2. CASE m = b
        BY <2>1, <2>2, <2>4, <1>2, <2>7, <3>3, <4>1, <4>2
      <4>3. CASE m = a
        BY <2>1, <2>2, <2>7, <2>10, <3>3, <4>1, <4>3
      <4>4. CASE m \in O \ {a}
        BY <2>2, <2>8, <3>3, <4>1, <4>4
      <4> QED
        BY <2>1, <4>2, <4>3, <4>4
    <3> QED
      BY <2>1, <3>1, <3>2, <3>3
  <2>14. ASSUME NEW l \in P, NEW m \in P
         PROVE  two[m].prev = l <=> Meets(R1[l], R1[m])
    <3>1. CASE m = b
      <4>1. two[m].prev = a
        BY <1>3, <3>1
      <4> QED
        BY <2>1, <2>6, <2>7, <3>1, <4>1
    <3>2. CASE m = a
      <4>1. two[m].prev = big[a].prev
        BY <1>3, <3>2
      <4>2. CASE l \in {a, b}
        BY <2>6, <2>11, <3>2, <4>1, <4>2
      <4>3. CASE l \in O \ {a}
        BY <2>1, <2>2, <2>7, <2>10, <3>2, <4>1, <4>3
      <4> QED
        BY <2>1, <4>2, <4>3
    <3>3. CASE m \in O \ {a} /\ m = big[a].next
      <4>1. two[m].prev = b /\ big[m].prev = a
        BY <2>9, <3>3
      <4>2. CASE l = b
        BY <2>1, <2>2, <2>7, <2>10, <3>3, <4>1, <4>2
      <4>3. CASE l = a
        BY <1>2, <2>7, <3>3, <4>1, <4>3
      <4>4. CASE l \in O \ {a}
        BY <2>1, <2>2, <2>8, <3>3, <4>1, <4>4
      <4> QED
        BY <2>1, <4>2, <4>3, <4>4
    <3>4. CASE m \in O \ {a} /\ m # big[a].next
      <4>1. two[m].prev = big[m].prev /\ ~Meets(A, R[m])
        BY <2>1, <2>2, <2>9, <2>10, <3>4
      <4>2. CASE l = b
        <5>1. big[m].prev # b
          BY <1>2, <2>1, <2>2, <2>4, <3>4
        <5> QED
          BY <2>7, <3>4, <4>1, <4>2, <5>1
      <4>3. CASE l = a
        BY <2>1, <2>2, <2>7, <2>10, <3>4, <4>1, <4>3
      <4>4. CASE l \in O \ {a}
        BY <2>2, <2>8, <3>4, <4>1, <4>4
      <4> QED
        BY <2>1, <4>2, <4>3, <4>4
    <3> QED
      BY <2>1, <3>1, <3>2, <3>3, <3>4
  <2>15. ASSUME NEW l \in P
         PROVE  two[l].prev = NULL <=> l = f
    <3>1. CASE l = a
      BY <1>3, <2>1, <2>3, <3>1
    <3>2. CASE l = b
      BY <1>2, <1>3, <1>17, <2>1, <2>3, <2>4, <3>2
    <3>3. CASE l \in O \ {a}
      BY <1>2, <1>17, <2>1, <2>3, <2>4, <2>9, <3>3
    <3> QED
      BY <2>1, <3>1, <3>2, <3>3
  <2>16. f \in P
    BY <2>1
  <2> QED
    BY <2>12, <2>13, <2>14, <2>15, <2>16 DEF Chain, P
<1> QED
  BY <1>2, <1>13, <1>20, <1>21, <1>22, <1>23, <1>24, <1>25 DEF IsForest, IsHeap, H1, R1, W1

LEMMA JoinLeaf ==
  ASSUME NEW big, NEW two, NEW L, NEW r, NEW H, NEW R, NEW a, NEW k, NEW b,
         IsForest(two, L, r, H, R, a, k, b), LeafDivided(big, two, L, a, b)
  PROVE  IsTree(big, L \ {b}, r, Without(H, L, b), Without(Covered(R, a, b), L, b))
<1> DEFINE M == L \ {b}
           W == Covered(R, a, b)
           H1 == Without(H, L, b)
           R1 == Without(W, L, b)
           A == R[a] \union R[b]
           s == two[a].keys
           u == two[b].keys
           t == big[a].keys
<1>1. /\ NodeTypes(two, L) /\ Levels(two, L, r, H) /\ KeysInRange(two, L, R)
      /\ ChildrenOK(two, L, H, R, W, {b}) /\ Attached(two, L, r, W, {b})
      /\ Intervals(L, H, R) /\ Chain(two, L, R) /\ IsPair(two, L, H, R, a, k, b)
  BY DEF IsForest, IsHeap
<1>2. /\ a \in M /\ b \in L /\ a # b /\ NodeTypes(big, M)
      /\ big[a].isLeaf /\ two[a].isLeaf /\ two[b].isLeaf
      /\ two[a].parent = big[a].parent /\ two[b].parent = big[a].parent
      /\ Joined(s, u, t)
      /\ Joined(two[a].pointers, two[b].pointers, big[a].pointers)
      /\ Len(two[a].pointers) = Len(s)
  BY DEF LeafDivided
<1>3. /\ two[a].next = b /\ two[b].prev = a
      /\ two[a].prev = big[a].prev /\ two[b].next = big[a].next
  BY DEF LeafDivided
<1>4. \A n \in L \ {a, b} :
        /\ two[n].isLeaf = big[n].isLeaf /\ two[n].parent = big[n].parent
        /\ two[n].keys = big[n].keys /\ two[n].pointers = big[n].pointers
        /\ two[n].next = big[n].next
        /\ n # big[a].next => two[n].prev = big[n].prev
        /\ n = big[a].next => two[n].prev = b /\ big[n].prev = a
  BY DEF LeafDivided
<1>5. /\ s \in Seq(Int) /\ u \in Seq(Int) /\ t \in Seq(Int)
      /\ two[a].pointers \in Seq(Seq(Time)) /\ two[b].pointers \in Seq(Seq(Time))
      /\ big[a].pointers \in Seq(Seq(Time))
  BY <1>1, <1>2, NodeFields
<1>6. /\ Ascending(s) /\ Ascending(u)
      /\ Len(two[b].pointers) = Len(u)
      /\ \A i \in 1..Len(s) : s[i] \in R[a] /\ two[a].pointers[i] # <<>>
      /\ \A i \in 1..Len(u) : u[i] \in R[b] /\ two[b].pointers[i] # <<>>
  BY <1>1, <1>2 DEF KeysInRange, LeafKeys
<1>7. /\ k \in Int /\ k - 1 \in R[a] /\ k \in R[b] /\ H[a] = H[b]
      /\ (\A x \in R[a] : x < k) /\ (\A x \in R[b] : k <= x)
  BY <1>1, ValueAssumption DEF IsPair
<1>8. /\ Intervals(M, H1, R1)
      /\ R[a] = Below(A, k) /\ R[b] = From(A, k)
      /\ k \in A /\ k - 1 \in A
      /\ A \in SUBSET Int /\ Convex(A)
      /\ \A n \in M : H[n] = H[a] /\ n # a => A \cap R[n] = {}
  <2>1. Intervals(M, H1, R1) /\ Halved(A, k, R[a], R[b])
    BY <1>1, IntervalsJoined
  <2>2. ASSUME NEW n \in M, H[n] = H[a], n # a
        PROVE  A \cap R[n] = {}
    BY <1>1, <1>2, <1>7, <2>2 DEF Intervals
  <2> QED
    BY <2>1, <2>2 DEF Halved
<1>9. /\ R1[a] = A /\ \A n \in L \ {a, b} : R1[n] = R[n]
      /\ \A n \in M : H1[n] = H[n]
      /\ \A n \in M : R1[n] = W[n]
  BY <1>1, <1>2 DEF Without, Covered, Intervals
<1> HIDE DEF H1, R1, W, M, A, s, u, t
<1>10. M \subseteq L /\ L = M \union {b} /\ b \notin M
  BY <1>2 DEF M
<1>11. \A n \in M : two[n].isLeaf = big[n].isLeaf /\ two[n].parent = big[n].parent
  <2>1. two[a].isLeaf = big[a].isLeaf /\ two[a].parent = big[a].parent
    BY <1>1, <1>2, <1>10, NodeFields
  <2>2. \A n \in M : n = a \/ n \in L \ {a, b}
    BY <1>10
  <2> QED
    BY <1>4, <2>1, <2>2
<1>12. r \in M /\ two[r].parent = NULL /\ W[r] = Int
  BY <1>1 DEF Attached, M
<1>13. Levels(big, M, r, H1)
  <2>1. H \in [L -> Nat] /\ \A n \in L : (two[n].isLeaf <=> H[n] = 0) /\ H[n] <= H[r]
    BY <1>1 DEF Levels
  <2>2. H1 \in [M -> Nat]
    <3>1. \A n \in M : H1[n] \in Nat
      BY <1>9, <1>10, <2>1
    <3>2. H1 = [n \in M |-> H1[n]]
      BY DEF H1, Without, M
    <3> QED
      BY <3>1, <3>2
  <2> QED
    BY <1>9, <1>10, <1>11, <1>12, <2>1, <2>2 DEF Levels
<1>14. KeysInRange(big, M, R1)
  <2>1. Len(t) = Len(s) + Len(u) /\ Len(s) \in Nat /\ Len(u) \in Nat
    BY <1>2, <1>5 DEF Joined
  <2>2. ASSUME NEW i \in 1..Len(t)
        PROVE  \/ i \in 1..Len(s) /\ t[i] = s[i] /\ big[a].pointers[i] = two[a].pointers[i]
               \/ /\ i > Len(s) /\ i - Len(s) \in 1..Len(u) /\ t[i] = u[i - Len(s)]
                  /\ big[a].pointers[i] = two[b].pointers[i - Len(s)]
    <3>1. CASE i \in 1..Len(s)
      BY <1>2, <3>1 DEF Joined
    <3>2. CASE i \notin 1..Len(s)
      <4> DEFINE m == i - Len(s)
      <4>1. i > Len(s) /\ m \in 1..Len(u) /\ Len(s) + m = i
        BY <2>1, <3>2
      <4> HIDE DEF m
      <4>2. t[Len(s) + m] = u[m] /\ big[a].pointers[Len(s) + m] = two[b].pointers[m]
        BY <1>2, <1>6, <4>1 DEF Joined
      <4> QED
        BY <4>1, <4>2 DEF m
    <3> QED
      BY <3>1, <3>2
  <2>3. ASSUME NEW i \in 1..Len(t), NEW m \in 1..Len(t), i < m
        PROVE  t[i] < t[m]
    <3>1. CASE i \in 1..Len(s) /\ m \in 1..Len(s)
      <4>1. t[i] = s[i] /\ t[m] = s[m]
        BY <1>2, <3>1 DEF Joined
      <4> QED
        BY <1>5, <1>6, <2>3, <3>1, <4>1, AscendingAt
    <3>2. CASE i \in 1..Len(s) /\ m \notin 1..Len(s)
      <4>1. t[i] = s[i] /\ t[m] = u[m - Len(s)] /\ m - Len(s) \in 1..Len(u)
        BY <2>1, <2>2, <3>2
      <4>3. s[i] \in R[a] /\ u[m - Len(s)] \in R[b]
        BY <1>6, <3>2, <4>1
      <4>4. s[i] < k /\ k <= u[m - Len(s)]
        BY <1>7, <4>3
      <4>5. s[i] \in Int /\ u[m - Len(s)] \in Int
        BY <1>8, <4>3 DEF A
      <4>2. t[i] < k /\ k <= t[m] /\ t[i] \in Int /\ t[m] \in Int
        BY <4>1, <4>4, <4>5
      <4> QED
        BY <1>7, <4>2
    <3>3. CASE i \notin 1..Len(s)
      <4>1. i - Len(s) \in 1..Len(u) /\ m - Len(s) \in 1..Len(u) /\ i - Len(s) < m - Len(s)
        BY <2>1, <2>3, <3>3
      <4>2. m \notin 1..Len(s)
        BY <2>1, <2>3, <3>3
      <4>3. t[i] = u[i - Len(s)] /\ t[m] = u[m - Len(s)]
        BY <2>2, <3>3, <4>2
      <4> QED
        BY <1>5, <1>6, <4>1, <4>3, AscendingAt
    <3> QED
      BY <3>1, <3>2, <3>3
  <2>4. Ascending(t)
    BY <2>3 DEF Ascending
  <2>5. Len(big[a].pointers) = Len(t)
    BY <1>2, <1>6, <2>1 DEF Joined
  <2>6. ASSUME NEW i \in 1..Len(t)
        PROVE  t[i] \in A /\ big[a].pointers[i] # <<>>
    BY <1>6, <2>2 DEF A
  <2>7. LeafKeys(big, R1, a)
    BY <1>9, <2>5, <2>6 DEF LeafKeys, t
  <2>8. ASSUME NEW n \in L \ {a, b}
        PROVE  /\ Ascending(big[n].keys)
               /\ big[n].isLeaf => LeafKeys(big, R1, n)
               /\ ~big[n].isLeaf => InnerKeys(big, R1, n)
    <3>2. /\ two[n].isLeaf = big[n].isLeaf /\ two[n].keys = big[n].keys
          /\ two[n].pointers = big[n].pointers /\ R1[n] = R[n]
      BY <1>4, <1>9
    <3>3. /\ Ascending(two[n].keys)
          /\ two[n].isLeaf => LeafKeys(two, R, n)
          /\ ~two[n].isLeaf => InnerKeys(two, R, n)
      BY <1>1 DEF KeysInRange
    <3> QED
      BY <3>2, <3>3 DEF LeafKeys, InnerKeys
  <2>9. \A n \in M : n = a \/ n \in L \ {a, b}
    BY <1>10
  <2> QED
    BY <1>2, <2>4, <2>7, <2>8, <2>9 DEF KeysInRange, t
<1>15. ChildrenOK(big, M, H1, R1, R1, {})
  <2> SUFFICES ASSUME NEW n \in M, ~big[n].isLeaf, NEW i \in 1..Len(big[n].pointers)
               PROVE  IsChild(big, M, H1, R1, R1, {}, n, i)
    BY DEF ChildrenOK
  <2>1. n \in L \ {a, b}
    BY <1>2, <1>10
  <2>2. /\ ~two[n].isLeaf /\ two[n].keys = big[n].keys /\ two[n].pointers = big[n].pointers
        /\ R1[n] = R[n] /\ H1[n] = H[n]
    BY <1>4, <1>9, <2>1
  <2> DEFINE c == two[n].pointers[i]
  <2>3. /\ c \in L \ {b} /\ two[c].parent = n /\ H[n] = H[c] + 1
        /\ W[c] = Slot(R[n], two[n].keys, i)
    BY <1>1, <2>1, <2>2 DEF ChildrenOK, IsChild
  <2>4. c \in M /\ big[c].parent = n /\ H1[c] = H[c] /\ R1[c] = W[c]
    BY <1>9, <1>10, <1>11, <2>3
  <2> QED
    BY <2>2, <2>3, <2>4 DEF IsChild
<1>16. Attached(big, M, r, R1, {})
  <2>1. r \in M /\ big[r].parent = NULL /\ R1[r] = Int
    BY <1>9, <1>11, <1>12
  <2>2. ASSUME NEW n \in M \ {r}
        PROVE  HangsIn(big, M, n, big[n].parent)
    <3>1. n \in L \ ({b} \union {r})
      BY <1>10
    <3>2. two[n].parent = big[n].parent /\ HangsIn(two, L, n, two[n].parent)
      BY <1>1, <1>11, <3>1 DEF Attached
    <3> DEFINE p == two[n].parent
    <3>3. p \in L /\ ~two[p].isLeaf /\ \E i \in 1..Len(two[p].pointers) : two[p].pointers[i] = n
      BY <3>2 DEF HangsIn
    <3>4. p \in L \ {a, b} /\ p \in M
      BY <1>2, <1>10, <3>3
    <3>5. ~big[p].isLeaf /\ two[p].pointers = big[p].pointers
      BY <1>4, <3>3, <3>4
    <3> QED
      BY <3>2, <3>3, <3>4, <3>5 DEF HangsIn
  <2> QED
    BY <2>1, <2>2 DEF Attached
<1>17. Chain(big, M, R1)
  <2> DEFINE O == LeafSet(big, M)
             P == LeafSet(two, L)
  <2>1. P = O \union {b} /\ a \in O /\ b \notin O /\ O \subseteq M
    BY <1>2, <1>10, <1>11 DEF LeafSet
  <2>2. /\ \A l \in P : two[l].next \in P \union {NULL} /\ two[l].prev \in P \union {NULL}
        /\ \A l, m \in P : /\ two[l].next = m <=> Meets(R[l], R[m])
                           /\ two[m].prev = l <=> Meets(R[l], R[m])
    BY <1>1 DEF Chain
  <2>3. PICK f \in P : \A l \in P : two[l].prev = NULL <=> l = f
    BY <1>1 DEF Chain
  <2>4. \A n \in L : n # NULL
    BY <1>1, NodeFields
  <2>5. \A l \in P : H[l] = 0
    BY <1>1 DEF Levels, LeafSet
  <2>6. /\ Meets(R[a], R[b]) /\ ~Meets(R[b], R[a])
        /\ ~Meets(A, A) /\ ~Meets(R[a], R[a]) /\ ~Meets(R[b], R[b])
    BY <1>7, <1>8, HalvesMeet
  <2>7. ASSUME NEW m \in O \ {a}
        PROVE  /\ Meets(R[b], R[m]) <=> Meets(A, R[m])
               /\ ~Meets(R[a], R[m])
               /\ Meets(R[m], R[a]) <=> Meets(R[m], A)
               /\ ~Meets(R[m], R[b])
    <3> DEFINE C == R[m]
    <3>1. m \in M /\ m \in L
      BY <1>10, <2>1
    <3>2. H[m] = H[a]
      BY <2>1, <2>5
    <3>3. C \in SUBSET Int /\ A \cap C = {}
      BY <1>1, <1>8, <3>1, <3>2 DEF Intervals
    <3> HIDE DEF C
    <3>4. /\ Meets(From(A, k), C) <=> Meets(A, C)
          /\ ~Meets(Below(A, k), C)
          /\ Meets(C, Below(A, k)) <=> Meets(C, A)
          /\ ~Meets(C, From(A, k))
      BY <1>7, <1>8, <3>3, OthersMeet
    <3> QED
      BY <1>8, <3>4 DEF C
  <2>8. /\ \A m \in O \ {a} : R1[m] = R[m]
        /\ R1[a] = A
    BY <1>9, <1>10, <2>1
  <2>9. /\ \A n \in O \ {a} : two[n].next = big[n].next
        /\ \A n \in O \ {a} : n # big[a].next => two[n].prev = big[n].prev
        /\ \A n \in O \ {a} : n = big[a].next => two[n].prev = b /\ big[n].prev = a
    BY <1>4, <1>10, <2>1
  <2> HIDE DEF O, P
  <2>10. /\ big[a].next # a /\ big[a].next # b
         /\ big[a].prev # a /\ big[a].prev # b
    BY <1>3, <2>1, <2>2, <2>6
  <2>11. \A m \in O \ {a} : big[m].next # b /\ two[m].prev # a
    BY <2>1, <2>2, <2>7, <2>9
  <2>12. ASSUME NEW l \in O
         PROVE  big[l].next \in O \union {NULL} /\ big[l].prev \in O \union {NULL}
    <3>1. CASE l = a
      BY <1>3, <2>1, <2>2, <2>10, <3>1
    <3>2. CASE l # a
      <4>1. big[l].next \in O \union {NULL}
        BY <2>1, <2>2, <2>9, <2>11, <3>2
      <4>2. CASE l = big[a].next
        BY <2>1, <2>9, <3>2, <4>1, <4>2
      <4>3. CASE l # big[a].next
        <5>1. two[b].next # l /\ b \in P /\ l \in P
          BY <1>3, <2>1, <4>3
        <5>2. two[l].prev # b
          BY <2>2, <5>1
        <5> QED
          BY <2>1, <2>2, <2>9, <3>2, <4>1, <4>3, <5>1, <5>2
      <4> QED
        BY <4>1, <4>2, <4>3
    <3> QED
      BY <3>1, <3>2
  <2>13. ASSUME NEW l \in O, NEW m \in O
         PROVE  big[l].next = m <=> Meets(R1[l], R1[m])
    <3>1. CASE l = a /\ m = a
      BY <2>6, <2>8, <2>10, <3>1
    <3>2. CASE l = a /\ m # a
      BY <1>3, <2>1, <2>2, <2>7, <2>8, <3>2
    <3>3. CASE l # a /\ m = a
      BY <2>1, <2>2, <2>7, <2>8, <2>9, <3>3
    <3>4. CASE l # a /\ m # a
      BY <2>1, <2>2, <2>8, <2>9, <3>4
    <3> QED
      BY <3>1, <3>2, <3>3, <3>4
  <2>14. ASSUME NEW l \in O, NEW m \in O
         PROVE  big[m].prev = l <=> Meets(R1[l], R1[m])
    <3>1. CASE l = a /\ m = a
      BY <2>6, <2>8, <2>10, <3>1
    <3>2. CASE l # a /\ m = a
      BY <1>3, <2>1, <2>2, <2>7, <2>8, <3>2
    <3>3. CASE l = a /\ m # a
      <4>1. Meets(A, R[m]) <=> big[a].next = m
        BY <1>3, <2>1, <2>2, <2>7, <3>3
      <4>2. big[m].prev = a <=> big[a].next = m
        BY <2>9, <2>11, <3>3
      <4> QED
        BY <2>8, <3>3, <4>1, <4>2
    <3>4. CASE l # a /\ m # a
      <4>1. CASE m = big[a].next
        <5>1. two[m].prev = b /\ big[m].prev = a
          BY <2>9, <3>4, <4>1
        <5>2. ~Meets(R[l], R[m])
          BY <2>1, <2>2, <5>1
        <5> QED
          BY <2>8, <3>4, <5>1, <5>2
      <4>2. CASE m # big[a].next
        BY <2>1, <2>2, <2>8, <2>9, <3>4, <4>2
      <4> QED
        BY <4>1, <4>2
    <3> QED
      BY <3>1, <3>2, <3>3, <3>4
  <2>15. f \in O
    BY <1>2, <1>3, <1>10, <2>1, <2>3, <2>4
  <2>16. ASSUME NEW l \in O
         PROVE  big[l].prev = NULL <=> l = f
    <3>1. CASE l = a
      BY <1>3, <2>1, <2>3, <3>1
    <3>2. CASE l # a /\ l = big[a].next
      <4>1. two[l].prev = b /\ big[l].prev = a
        BY <2>9, <3>2
      <4> QED
        BY <1>2, <1>10, <2>1, <2>3, <2>4, <4>1
    <3>3. CASE l # a /\ l # big[a].next
      BY <2>1, <2>3, <2>9, <3>3
    <3> QED
      BY <3>1, <3>2, <3>3
  <2> QED
    BY <2>12, <2>13, <2>14, <2>15, <2>16 DEF Chain, O
<1> QED
  BY <1>2, <1>8, <1>13, <1>14, <1>15, <1>16, <1>17 DEF IsTree, IsHeap, H1, R1, M, W

-----------------------------------------------------------------------------
(*                   Dividing and joining inner nodes                      *)

PointsTo(h, n, c) == \E i \in 1..Len(h[n].pointers) : h[n].pointers[i] = c

(* The inner node a of big is the two nodes a and b of two; the children   *)
(* of b change their parent.                                               *)
InnerDivided(big, two, L, a, k, b) ==
  /\ a \in L /\ b \in L /\ a # b
  /\ NodeTypes(big, L \ {b}) /\ NodeTypes(two, L)
  /\ ~big[a].isLeaf /\ ~two[a].isLeaf /\ ~two[b].isLeaf
  /\ two[a].parent = big[a].parent /\ two[b].parent = big[a].parent
  /\ JoinedBy(two[a].keys, k, two[b].keys, big[a].keys)
  /\ Joined(two[a].pointers, two[b].pointers, big[a].pointers)
  /\ Len(two[a].pointers) = Len(two[a].keys) + 1
  /\ \A n \in L \ {a, b} :
       /\ two[n].isLeaf = big[n].isLeaf
       /\ two[n].keys = big[n].keys /\ two[n].pointers = big[n].pointers
       /\ two[n].next = big[n].next /\ two[n].prev = big[n].prev
       /\ PointsTo(two, b, n) => two[n].parent = b /\ big[n].parent = a
       /\ ~PointsTo(two, b, n) => two[n].parent = big[n].parent

(* The chain depends on the leaves only. *)
LEMMA SameLeaves ==
  ASSUME NEW h, NEW g, NEW L, NEW M, NEW R, NEW Q, Chain(h, L, R), LeafSet(h, L) = LeafSet(g, M),
         \A l \in LeafSet(h, L) : g[l].next = h[l].next /\ g[l].prev = h[l].prev /\ Q[l] = R[l]
  PROVE  Chain(g, M, Q)
  BY DEF Chain

LEMMA SplitInner ==
  ASSUME NEW big, NEW two, NEW L, NEW r, NEW H, NEW R, NEW a, NEW k, NEW b,
         IsTree(big, L \ {b}, r, H, R), InnerDivided(big, two, L, a, k, b)
  PROVE  IsForest(two, L, r, LevelsWith(H, L, a, b), RangesWith(R, L, a, k, b), a, k, b)
<1> DEFINE M == L \ {b}
           H1 == LevelsWith(H, L, a, b)
           R1 == RangesWith(R, L, a, k, b)
           W1 == Covered(R1, a, b)
           A == R[a]
           s == two[a].keys
           u == two[b].keys
           t == big[a].keys
           sp == two[a].pointers
           up == two[b].pointers
           tp == big[a].pointers
<1>1. /\ NodeTypes(big, M) /\ Levels(big, M, r, H) /\ KeysInRange(big, M, R)
      /\ ChildrenOK(big, M, H, R, R, {}) /\ Attached(big, M, r, R, {})
      /\ Intervals(M, H, R) /\ Chain(big, M, R)
  BY DEF IsTree, IsHeap
<1>2. /\ a \in M /\ b \in L /\ a # b /\ NodeTypes(two, L)
      /\ ~big[a].isLeaf /\ ~two[a].isLeaf /\ ~two[b].isLeaf
      /\ two[a].parent = big[a].parent /\ two[b].parent = big[a].parent
      /\ JoinedBy(s, k, u, t)
      /\ Joined(sp, up, tp)
      /\ Len(sp) = Len(s) + 1
  BY DEF InnerDivided
<1>3. \A n \in L \ {a, b} :
        /\ two[n].isLeaf = big[n].isLeaf
        /\ two[n].keys = big[n].keys /\ two[n].pointers = big[n].pointers
        /\ two[n].next = big[n].next /\ two[n].prev = big[n].prev
        /\ PointsTo(two, b, n) => two[n].parent = b /\ big[n].parent = a
        /\ ~PointsTo(two, b, n) => two[n].parent = big[n].parent
  BY DEF InnerDivided
<1>4. /\ s \in Seq(Int) /\ u \in Seq(Int) /\ t \in Seq(Int) /\ t \in Seq(Value)
      /\ sp \in Seq(Node) /\ up \in Seq(Node) /\ tp \in Seq(Node)
  BY <1>1, <1>2, NodeFields
<1>5. /\ Ascending(t) /\ Len(tp) = Len(t) + 1
      /\ \A i \in 1..Len(t) : t[i] \in A /\ t[i] - 1 \in A
  BY <1>1, <1>2 DEF KeysInRange, InnerKeys
<1>6. /\ A \in SUBSET Int /\ Convex(A) /\ A # {}
      /\ \A n \in M : R[n] \in SUBSET Int
  BY <1>1, <1>2 DEF Intervals
<1>7. /\ Len(t) = Len(s) + 1 + Len(u) /\ Len(s) \in Nat /\ Len(u) \in Nat
      /\ Len(sp) = Len(s) + 1 /\ Len(up) = Len(u) + 1 /\ Len(tp) = Len(s) + Len(u) + 2
  <2>1. Len(t) = Len(s) + 1 + Len(u) /\ Len(tp) = Len(sp) + Len(up)
    BY <1>2 DEF JoinedBy, Joined
  <2>2. Len(s) \in Nat /\ Len(u) \in Nat /\ Len(up) \in Nat
    BY <1>4
  <2> HIDE DEF s, u, t, sp, up, tp
  <2> QED
    BY <1>2, <1>5, <2>1, <2>2
<1>8. k \in A /\ k - 1 \in A /\ k \in Int /\ k \in Value /\ t[Len(s) + 1] = k /\ Len(s) + 1 \in 1..Len(t)
  <2> HIDE DEF s, u, t, A
  <2>1. Len(s) + 1 \in 1..Len(t)
    BY <1>7
  <2>2. t[Len(s) + 1] = k
    BY <1>2 DEF JoinedBy
  <2>3. t[Len(s) + 1] \in A /\ t[Len(s) + 1] - 1 \in A
    BY <1>5, <2>1
  <2>4. t[Len(s) + 1] \in Value /\ t[Len(s) + 1] \in Int
    BY <1>4, <2>1
  <2> QED
    BY <2>1, <2>2, <2>3, <2>4
<1>9. ASSUME NEW i \in 1..Len(s)
      PROVE  s[i] = t[i] /\ i \in 1..Len(t) /\ s[i] < k /\ s[i] \in Int
  <2> HIDE DEF s, u, t, A
  <2>1. i \in 1..Len(t) /\ i < Len(s) + 1
    BY <1>7
  <2>2. s[i] = t[i]
    BY <1>2 DEF JoinedBy
  <2>3. t[i] < t[Len(s) + 1]
    BY <1>4, <1>5, <1>8, <2>1, AscendingAt
  <2> QED
    BY <1>4, <1>8, <2>1, <2>2, <2>3
<1>10. ASSUME NEW i \in 1..Len(u)
       PROVE  /\ u[i] = t[Len(s) + 1 + i] /\ Len(s) + 1 + i \in 1..Len(t)
              /\ k < u[i] /\ u[i] \in Int
  <2> HIDE DEF s, u, t, A
  <2>1. Len(s) + 1 + i \in 1..Len(t) /\ Len(s) + 1 < Len(s) + 1 + i
    BY <1>7
  <2>2. u[i] = t[Len(s) + 1 + i]
    BY <1>2 DEF JoinedBy
  <2>3. t[Len(s) + 1] < t[Len(s) + 1 + i]
    BY <1>4, <1>5, <1>8, <2>1, AscendingAt
  <2> QED
    BY <1>4, <1>8, <2>1, <2>2, <2>3
<1>11. /\ k - 1 \in Below(A, k) /\ k \in From(A, k)
       /\ Below(A, k) \union From(A, k) = A
  BY <1>6, <1>8, HalvesOf
<1>12. Intervals(L, H1, R1)
  <2>1. H \in [M -> Nat]
    BY <1>1 DEF Levels
  <2> QED
    BY <1>1, <1>2, <1>8, <2>1, IntervalsDivided
<1>13. /\ R1[a] = Below(A, k) /\ R1[b] = From(A, k)
       /\ \A n \in L \ {a, b} : R1[n] = R[n]
       /\ \A n \in M : H1[n] = H[n]
       /\ H1[b] = H[a]
  BY <1>2 DEF RangesWith, LevelsWith
<1>14. \A n \in M : W1[n] = R[n]
  <2>1. W1[a] = R1[a] \union R1[b] /\ \A n \in M \ {a} : W1[n] = R1[n]
    BY <1>2 DEF Covered, RangesWith
  <2> QED
    BY <1>2, <1>11, <1>13, <2>1
<1> HIDE DEF H1, R1, W1, M, A, s, u, t, sp, up, tp
<1>15. M \subseteq L /\ L = M \union {b} /\ b \notin M
  BY <1>2 DEF M
<1>16. /\ r \in M /\ big[r].parent = NULL /\ R[r] = Int
       /\ H \in [M -> Nat] /\ \A n \in M : (big[n].isLeaf <=> H[n] = 0) /\ H[n] <= H[r]
  BY <1>1 DEF Attached, Levels
<1>17. ASSUME NEW i \in 1..Len(tp)
       PROVE  /\ tp[i] \in M /\ big[tp[i]].parent = a /\ H[a] = H[tp[i]] + 1
              /\ R[tp[i]] = Slot(A, t, i) /\ tp[i] # a /\ tp[i] # b /\ tp[i] \in L \ {a, b}
  <2>1. /\ tp[i] \in M /\ big[tp[i]].parent = a /\ H[a] = H[tp[i]] + 1
        /\ R[tp[i]] = Slot(A, t, i)
    BY <1>1, <1>2 DEF ChildrenOK, IsChild, tp, t, A
  <2>2. H[a] \in Nat
    BY <1>2, <1>16
  <2>3. tp[i] # a
    BY <2>1, <2>2
  <2> QED
    BY <1>15, <2>1, <2>3
<1>18. ASSUME NEW i \in 1..Len(tp), NEW m \in 1..Len(tp), i < m
       PROVE  tp[i] # tp[m]
  <2>1. i \in 1..(Len(t) + 1) /\ m \in 1..(Len(t) + 1)
    BY <1>5
  <2>2. \A q \in 1..Len(t) : t[q] \in A /\ t[q] - 1 \in A
    BY <1>5
  <2>3. /\ \A x \in Slot(A, t, i) : \A y \in Slot(A, t, m) : x < y
        /\ Slot(A, t, i) # {}
    BY <1>4, <1>5, <1>6, <1>18, <2>1, <2>2, SlotsDiffer
  <2>4. \A x \in Slot(A, t, i) : x \in Int
    BY <1>6 DEF Slot
  <2> QED
    BY <1>17, <2>3, <2>4
<1>19. ASSUME NEW i \in 1..Len(sp)
       PROVE  i \in 1..Len(tp) /\ sp[i] = tp[i] /\ i \in 1..(Len(s) + 1)
  <2>1. i \in 1..Len(tp) /\ i \in 1..(Len(s) + 1)
    BY <1>7
  <2> QED
    BY <1>2, <2>1 DEF Joined
<1>20. ASSUME NEW i \in 1..Len(up)
       PROVE  /\ Len(s) + 1 + i \in 1..Len(tp) /\ up[i] = tp[Len(s) + 1 + i]
              /\ i \in 1..(Len(u) + 1) /\ PointsTo(two, b, up[i])
  <2>1. Len(s) + 1 + i \in 1..Len(tp) /\ Len(sp) + i = Len(s) + 1 + i /\ i \in 1..(Len(u) + 1)
    BY <1>7
  <2>2. up[i] = tp[Len(sp) + i]
    BY <1>2 DEF Joined
  <2>3. PointsTo(two, b, up[i])
    BY DEF PointsTo, up
  <2> QED
    BY <2>1, <2>2, <2>3
<1>21. ASSUME NEW i \in 1..Len(sp)
       PROVE  ~PointsTo(two, b, sp[i])
  <2> SUFFICES ASSUME NEW m \in 1..Len(up), up[m] = sp[i]
               PROVE  FALSE
    BY DEF PointsTo, up
  <2>1. i < Len(s) + 1 + m
    BY <1>7, <1>19
  <2> QED
    BY <1>18, <1>19, <1>20, <2>1
<1>22. ASSUME NEW c, PointsTo(two, b, c)
       PROVE  c \in M \ {a} /\ big[c].parent = a /\ two[c].parent = b
  <2>1. PICK m \in 1..Len(up) : up[m] = c
    BY <1>22 DEF PointsTo, up
  <2>2. c \in L \ {a, b} /\ c \in M /\ big[c].parent = a
    BY <1>17, <1>20, <2>1
  <2> QED
    BY <1>3, <1>22, <2>2
<1>23. ASSUME NEW c \in M, ~PointsTo(two, b, c)
       PROVE  two[c].parent = big[c].parent
  BY <1>2, <1>3, <1>15, <1>23
<1>24. Levels(two, L, r, H1)
  <2>2. H1 \in [L -> Nat]
    <3>1. \A n \in L : H1[n] \in Nat
      BY <1>2, <1>13, <1>15, <1>16
    <3>2. H1 = [n \in L |-> H1[n]]
      BY DEF H1, LevelsWith
    <3> QED
      BY <3>1, <3>2
  <2>3. ASSUME NEW n \in L
        PROVE  (two[n].isLeaf <=> H1[n] = 0) /\ H1[n] <= H1[r]
    <3>1. CASE n = b
      BY <1>2, <1>13, <1>16, <3>1
    <3>2. CASE n = a
      BY <1>2, <1>13, <1>16, <3>2
    <3>3. CASE n \notin {a, b}
      <4>1. n \in M
        BY <1>15, <3>3
      <4> QED
        BY <1>3, <1>13, <1>16, <3>3, <4>1
    <3> QED
      BY <3>1, <3>2, <3>3
  <2> QED
    BY <2>2, <2>3 DEF Levels
<1>25. KeysInRange(two, L, R1)
  <2>1. Ascending(s)
    <3>1. ASSUME NEW i \in 1..Len(s), NEW m \in 1..Len(s), i < m
          PROVE  s[i] < s[m]
      BY <1>4, <1>5, <1>9, <3>1, AscendingAt
    <3> QED
      BY <3>1 DEF Ascending
  <2>2. Ascending(u)
    <3>1. ASSUME NEW i \in 1..Len(u), NEW m \in 1..Len(u), i < m
          PROVE  u[i] < u[m]
      <4>1. Len(s) + 1 + i < Len(s) + 1 + m
        BY <1>7, <3>1
      <4> QED
        BY <1>4, <1>5, <1>10, <4>1, AscendingAt
    <3> QED
      BY <3>1 DEF Ascending
  <2>3. ASSUME NEW i \in 1..Len(s)
        PROVE  s[i] \in Below(A, k) /\ s[i] - 1 \in Below(A, k)
    <3>1. s[i] \in A /\ s[i] - 1 \in A
      BY <1>5, <1>9
    <3>2. s[i] < k /\ s[i] - 1 < k
      BY <1>8, <1>9
    <3> QED
      BY <3>1, <3>2 DEF Below
  <2>4. ASSUME NEW i \in 1..Len(u)
        PROVE  u[i] \in From(A, k) /\ u[i] - 1 \in From(A, k)
    <3>1. u[i] \in A /\ u[i] - 1 \in A
      BY <1>5, <1>10
    <3>2. k <= u[i] /\ k <= u[i] - 1
      BY <1>8, <1>10
    <3> QED
      BY <3>1, <3>2 DEF From
  <2>5. InnerKeys(two, R1, a)
    BY <1>7, <1>13, <2>3 DEF InnerKeys, s, sp
  <2>6. InnerKeys(two, R1, b)
    BY <1>7, <1>13, <2>4 DEF InnerKeys, u, up
  <2>7. ASSUME NEW n \in L \ {a, b}
        PROVE  /\ Ascending(two[n].keys)
               /\ two[n].isLeaf => LeafKeys(two, R1, n)
               /\ ~two[n].isLeaf => InnerKeys(two, R1, n)
    <3>1. n \in M
      BY <1>15
    <3>2. /\ two[n].isLeaf = big[n].isLeaf /\ two[n].keys = big[n].keys
          /\ two[n].pointers = big[n].pointers /\ R1[n] = R[n]
      BY <1>3, <1>13
    <3>3. /\ Ascending(big[n].keys)
          /\ big[n].isLeaf => LeafKeys(big, R, n)
          /\ ~big[n].isLeaf => InnerKeys(big, R, n)
      BY <1>1, <3>1 DEF KeysInRange
    <3> QED
      BY <3>2, <3>3 DEF LeafKeys, InnerKeys
  <2> QED
    BY <1>2, <2>1, <2>2, <2>5, <2>6, <2>7 DEF KeysInRange, s, u
<1>26. ChildrenOK(two, L, H1, R1, W1, {b})
  <2> SUFFICES ASSUME NEW n \in L, ~two[n].isLeaf, NEW i \in 1..Len(two[n].pointers)
               PROVE  IsChild(two, L, H1, R1, W1, {b}, n, i)
    BY DEF ChildrenOK
  <2>1. CASE n \notin {a, b}
    <3>1. n \in L \ {a, b} /\ n \in M
      BY <1>15, <2>1
    <3>2. /\ ~big[n].isLeaf /\ two[n].keys = big[n].keys /\ two[n].pointers = big[n].pointers
          /\ R1[n] = R[n] /\ H1[n] = H[n]
      BY <1>3, <1>13, <3>1
    <3> DEFINE c == big[n].pointers[i]
    <3>3. c \in M /\ big[c].parent = n /\ H[n] = H[c] + 1 /\ R[c] = Slot(R[n], big[n].keys, i)
      BY <1>1, <3>1, <3>2 DEF ChildrenOK, IsChild
    <3>4. ~PointsTo(two, b, c)
      BY <1>22, <2>1, <3>3
    <3>5. c \in L \ {b} /\ two[c].parent = n /\ H1[c] = H[c] /\ W1[c] = R[c]
      BY <1>13, <1>14, <1>15, <1>23, <3>3, <3>4
    <3> QED
      BY <3>2, <3>3, <3>5 DEF IsChild
  <2>2. CASE n = a
    <3>1. i \in 1..Len(sp)
      BY <2>2 DEF sp
    <3> DEFINE c == sp[i]
    <3>2. c \in M /\ big[c].parent = a /\ H[a] = H[c] + 1 /\ R[c] = Slot(A, t, i) /\ c \in L \ {b}
      BY <1>17, <1>19, <3>1
    <3>3. Slot(A, t, i) = Slot(Below(A, k), s, i)
      <4>1. i \in Int /\ i \in 1..(Len(s) + 1)
        BY <1>19, <3>1
      <4> QED
        BY <1>2, <1>4, <1>5, <1>6, <1>8, <4>1, JoinedLeft
    <3>4. two[c].parent = a
      BY <1>21, <1>23, <3>1, <3>2
    <3>5. W1[c] = R[c] /\ H1[c] = H[c] /\ H1[a] = H[a] /\ R1[a] = Below(A, k)
      BY <1>2, <1>13, <1>14, <3>2
    <3>6. two[n].pointers[i] = c /\ two[n].keys = s
      BY <2>2 DEF sp, s
    <3> HIDE DEF c
    <3> QED
      BY <2>2, <3>2, <3>3, <3>4, <3>5, <3>6 DEF IsChild
  <2>3. CASE n = b
    <3>1. i \in 1..Len(up)
      BY <2>3 DEF up
    <3> DEFINE c == up[i]
    <3>2. /\ c \in M /\ H[a] = H[c] + 1 /\ R[c] = Slot(A, t, Len(s) + 1 + i) /\ c \in L \ {b}
          /\ PointsTo(two, b, c)
      BY <1>17, <1>20, <3>1
    <3>3. Slot(A, t, Len(s) + 1 + i) = Slot(From(A, k), u, i)
      <4>1. i \in Int /\ i \in 1..(Len(u) + 1)
        BY <1>20, <3>1
      <4> QED
        BY <1>2, <1>4, <1>5, <1>6, <1>8, <4>1, JoinedRight
    <3>4. two[c].parent = b
      BY <1>22, <3>2
    <3>5. W1[c] = R[c] /\ H1[c] = H[c] /\ H1[b] = H[a] /\ R1[b] = From(A, k)
      BY <1>13, <1>14, <3>2
    <3>6. two[n].pointers[i] = c /\ two[n].keys = u
      BY <2>3 DEF up, u
    <3> HIDE DEF c
    <3> QED
      BY <2>3, <3>2, <3>3, <3>4, <3>5, <3>6 DEF IsChild
  <2> QED
    BY <2>1, <2>2, <2>3
<1>27. Attached(two, L, r, W1, {b})
  <2>1. ~PointsTo(two, b, r)
    <3>1. a # NULL
      BY <1>1, <1>2, NodeFields
    <3> QED
      BY <1>16, <1>22, <3>1
  <2>2. r \in L \ {b} /\ two[r].parent = NULL /\ W1[r] = Int
    BY <1>14, <1>15, <1>16, <1>23, <2>1
  <2>3. ASSUME NEW n \in L \ ({b} \union {r})
        PROVE  HangsIn(two, L, n, two[n].parent)
    <3>1. n \in M
      BY <1>15
    <3> DEFINE p == big[n].parent
    <3>2. p \in M /\ ~big[p].isLeaf /\ \E i \in 1..Len(big[p].pointers) : big[p].pointers[i] = n
      BY <1>1, <3>1 DEF Attached, HangsIn
    <3>3. CASE PointsTo(two, b, n)
      BY <1>2, <1>22, <3>3 DEF HangsIn, PointsTo
    <3>4. CASE ~PointsTo(two, b, n) /\ p # a
      <4>1. p \in L \ {a, b} /\ two[n].parent = p
        BY <1>15, <1>23, <3>1, <3>2, <3>4
      <4>2. ~two[p].isLeaf /\ two[p].pointers = big[p].pointers
        BY <1>3, <3>2, <4>1
      <4> QED
        BY <3>2, <4>1, <4>2 DEF HangsIn
    <3>5. CASE ~PointsTo(two, b, n) /\ p = a
      <4>1. two[n].parent = a
        BY <1>23, <3>1, <3>5
      <4>2. PICK i \in 1..Len(tp) : tp[i] = n
        BY <3>2, <3>5 DEF tp
      <4>3. CASE i \in 1..Len(sp)
        <5>1. sp[i] = n
          BY <1>19, <4>2, <4>3
        <5> QED
          BY <1>2, <1>15, <4>1, <4>3, <5>1 DEF HangsIn, sp
      <4>4. CASE i \notin 1..Len(sp)
        <5> DEFINE m == i - (Len(s) + 1)
        <5>1. m \in 1..Len(up) /\ Len(s) + 1 + m = i
          BY <1>7, <4>2, <4>4
        <5> HIDE DEF m
        <5> QED
          BY <1>20, <3>5, <4>2, <5>1
      <4> QED
        BY <4>3, <4>4
    <3> QED
      BY <3>3, <3>4, <3>5
  <2> QED
    BY <2>2, <2>3 DEF Attached
<1>28. IsPair(two, L, H1, R1, a, k, b)
  <2>1. (\A x \in Below(A, k) : x < k) /\ (\A x \in From(A, k) : k <= x)
    BY DEF Below, From
  <2>2. a \in L /\ b \in L /\ a # b /\ H1[a] = H1[b] /\ two[b].parent = two[a].parent
    BY <1>2, <1>13, <1>15
  <2> QED
    BY <1>8, <1>11, <1>13, <2>1, <2>2 DEF IsPair
<1>29. Chain(two, L, R1)
  <2>1. LeafSet(big, M) = LeafSet(two, L)
    BY <1>2, <1>3, <1>15 DEF LeafSet
  <2>2. \A l \in LeafSet(big, M) : two[l].next = big[l].next /\ two[l].prev = big[l].prev /\ R1[l] = R[l]
    <3>1. \A l \in LeafSet(big, M) : l \in L \ {a, b}
      BY <1>2, <1>15 DEF LeafSet
    <3> QED
      BY <1>3, <1>13, <3>1
  <2> QED
    BY <1>1, <2>1, <2>2, SameLeaves
<1> QED
  BY <1>2, <1>12, <1>24, <1>25, <1>26, <1>27, <1>28, <1>29 DEF IsForest, IsHeap, H1, R1, W1

LEMMA JoinInner ==
  ASSUME NEW big, NEW two, NEW L, NEW r, NEW H, NEW R, NEW a, NEW k, NEW b,
         IsForest(two, L, r, H, R, a, k, b), InnerDivided(big, two, L, a, k, b)
  PROVE  IsTree(big, L \ {b}, r, Without(H, L, b), Without(Covered(R, a, b), L, b))
<1> DEFINE M == L \ {b}
           W == Covered(R, a, b)
           H1 == Without(H, L, b)
           R1 == Without(W, L, b)
           A == R[a] \union R[b]
           s == two[a].keys
           u == two[b].keys
           t == big[a].keys
           sp == two[a].pointers
           up == two[b].pointers
           tp == big[a].pointers
<1>1. /\ NodeTypes(two, L) /\ Levels(two, L, r, H) /\ KeysInRange(two, L, R)
      /\ ChildrenOK(two, L, H, R, W, {b}) /\ Attached(two, L, r, W, {b})
      /\ Intervals(L, H, R) /\ Chain(two, L, R) /\ IsPair(two, L, H, R, a, k, b)
  BY DEF IsForest, IsHeap
<1>2. /\ a \in M /\ b \in L /\ a # b /\ NodeTypes(big, M)
      /\ ~big[a].isLeaf /\ ~two[a].isLeaf /\ ~two[b].isLeaf
      /\ two[a].parent = big[a].parent /\ two[b].parent = big[a].parent
      /\ JoinedBy(s, k, u, t)
      /\ Joined(sp, up, tp)
      /\ Len(sp) = Len(s) + 1
  BY DEF InnerDivided
<1>3. \A n \in L \ {a, b} :
        /\ two[n].isLeaf = big[n].isLeaf
        /\ two[n].keys = big[n].keys /\ two[n].pointers = big[n].pointers
        /\ two[n].next = big[n].next /\ two[n].prev = big[n].prev
        /\ PointsTo(two, b, n) => two[n].parent = b /\ big[n].parent = a
        /\ ~PointsTo(two, b, n) => two[n].parent = big[n].parent
  BY DEF InnerDivided
<1>4. /\ s \in Seq(Int) /\ u \in Seq(Int) /\ t \in Seq(Int)
      /\ sp \in Seq(Node) /\ up \in Seq(Node) /\ tp \in Seq(Node)
  BY <1>1, <1>2, NodeFields
<1>5. /\ Ascending(s) /\ Ascending(u)
      /\ Len(up) = Len(u) + 1
      /\ \A i \in 1..Len(s) : s[i] \in R[a] /\ s[i] - 1 \in R[a]
      /\ \A i \in 1..Len(u) : u[i] \in R[b] /\ u[i] - 1 \in R[b]
  BY <1>1, <1>2 DEF KeysInRange, InnerKeys
<1>6. /\ k \in Int /\ k - 1 \in R[a] /\ k \in R[b] /\ H[a] = H[b]
      /\ (\A x \in R[a] : x < k) /\ (\A x \in R[b] : k <= x)
  BY <1>1, ValueAssumption DEF IsPair
<1>7. /\ Intervals(M, H1, R1)
      /\ R[a] = Below(A, k) /\ R[b] = From(A, k)
      /\ k \in A /\ k - 1 \in A
      /\ A \in SUBSET Int /\ Convex(A)
  <2>1. Intervals(M, H1, R1) /\ Halved(A, k, R[a], R[b])
    BY <1>1, IntervalsJoined
  <2> QED
    BY <2>1 DEF Halved
<1>8. /\ R1[a] = A /\ \A n \in L \ {a, b} : R1[n] = R[n]
      /\ \A n \in M : H1[n] = H[n]
      /\ \A n \in M : R1[n] = W[n]
  BY <1>1, <1>2 DEF Without, Covered, Intervals
<1>9. /\ Len(t) = Len(s) + 1 + Len(u) /\ Len(s) \in Nat /\ Len(u) \in Nat
      /\ Len(sp) = Len(s) + 1 /\ Len(tp) = Len(s) + Len(u) + 2
  <2>1. Len(t) = Len(s) + 1 + Len(u) /\ Len(tp) = Len(sp) + Len(up)
    BY <1>2 DEF JoinedBy, Joined
  <2>2. Len(s) \in Nat /\ Len(u) \in Nat
    BY <1>4
  <2> HIDE DEF s, u, t, sp, up, tp
  <2> QED
    BY <1>2, <1>5, <2>1, <2>2
<1> HIDE DEF H1, R1, W, M, A, s, u, t, sp, up, tp
<1>10. M \subseteq L /\ L = M \union {b} /\ b \notin M
  BY <1>2 DEF M
<1>11. /\ r \in M /\ two[r].parent = NULL /\ W[r] = Int
       /\ H \in [L -> Nat] /\ \A n \in L : (two[n].isLeaf <=> H[n] = 0) /\ H[n] <= H[r]
  BY <1>1 DEF Attached, M, Levels
<1>12. ASSUME NEW i \in 1..Len(sp)
       PROVE  /\ sp[i] \in M \ {a} /\ two[sp[i]].parent = a /\ H[a] = H[sp[i]] + 1
              /\ W[sp[i]] = Slot(R[a], s, i)
              /\ i \in 1..Len(tp) /\ sp[i] = tp[i] /\ i \in 1..(Len(s) + 1)
  <2>1. /\ sp[i] \in L \ {b} /\ two[sp[i]].parent = a /\ H[a] = H[sp[i]] + 1
        /\ W[sp[i]] = Slot(R[a], s, i)
    BY <1>1, <1>2, <1>10 DEF ChildrenOK, IsChild, sp, s
  <2>2. sp[i] # a
    BY <1>2, <1>10, <1>11, <2>1
  <2>3. i \in 1..Len(tp) /\ i \in 1..(Len(s) + 1)
    BY <1>9
  <2> QED
    BY <1>2, <1>10, <2>1, <2>2, <2>3 DEF Joined
<1>13. ASSUME NEW i \in 1..Len(up)
       PROVE  /\ up[i] \in M \ {a} /\ two[up[i]].parent = b /\ H[b] = H[up[i]] + 1
              /\ W[up[i]] = Slot(R[b], u, i)
              /\ Len(s) + 1 + i \in 1..Len(tp) /\ up[i] = tp[Len(s) + 1 + i]
              /\ i \in 1..(Len(u) + 1) /\ PointsTo(two, b, up[i])
  <2>1. /\ up[i] \in L \ {b} /\ two[up[i]].parent = b /\ H[b] = H[up[i]] + 1
        /\ W[up[i]] = Slot(R[b], u, i)
    BY <1>1, <1>2 DEF ChildrenOK, IsChild, up, u
  <2>2. up[i] # a
    BY <1>2, <1>6, <1>10, <1>11, <2>1
  <2>3. Len(s) + 1 + i \in 1..Len(tp) /\ Len(sp) + i = Len(s) + 1 + i /\ i \in 1..(Len(u) + 1)
    BY <1>5, <1>9
  <2>4. up[i] = tp[Len(sp) + i]
    BY <1>2 DEF Joined
  <2>5. PointsTo(two, b, up[i])
    BY DEF PointsTo, up
  <2> QED
    BY <1>10, <2>1, <2>2, <2>3, <2>4, <2>5
<1>14. ASSUME NEW c, PointsTo(two, b, c)
       PROVE  c \in M \ {a} /\ big[c].parent = a /\ two[c].parent = b
  <2>1. PICK m \in 1..Len(up) : up[m] = c
    BY <1>14 DEF PointsTo, up
  <2>2. c \in M \ {a} /\ c \in L \ {a, b}
    BY <1>10, <1>13, <2>1
  <2> QED
    BY <1>3, <1>14, <2>2
<1>15. ASSUME NEW c \in M, ~PointsTo(two, b, c)
       PROVE  two[c].parent = big[c].parent
  BY <1>2, <1>3, <1>10, <1>15
<1>16. \A n \in M : two[n].isLeaf = big[n].isLeaf
  <2>1. two[a].isLeaf = big[a].isLeaf
    BY <1>1, <1>2, <1>10, NodeFields
  <2> QED
    BY <1>3, <1>10, <2>1
<1>17. Levels(big, M, r, H1)
  <2>1. H1 \in [M -> Nat]
    <3>1. \A n \in M : H1[n] \in Nat
      BY <1>8, <1>10, <1>11
    <3>2. H1 = [n \in M |-> H1[n]]
      BY DEF H1, Without, M
    <3> QED
      BY <3>1, <3>2
  <2> QED
    BY <1>8, <1>10, <1>11, <1>16, <2>1 DEF Levels
<1>18. Ascending(t) /\ t[Len(s) + 1] = k
  <2>1. t[Len(s) + 1] = k
    BY <1>2 DEF JoinedBy
  <2>2. ASSUME NEW i \in 1..Len(s)
        PROVE  t[i] = s[i] /\ s[i] \in Int /\ s[i] < k
    <3>1. t[i] = s[i]
      BY <1>2 DEF JoinedBy
    <3>2. s[i] \in Int
      BY <1>4
    <3>3. s[i] \in R[a]
      BY <1>5
    <3> QED
      BY <1>6, <3>1, <3>2, <3>3
  <2>3. ASSUME NEW i \in 1..Len(u)
        PROVE  t[Len(s) + 1 + i] = u[i] /\ u[i] \in Int /\ k < u[i]
    <3>1. t[Len(s) + 1 + i] = u[i] /\ u[i] \in Int
      BY <1>2, <1>4 DEF JoinedBy
    <3>2. k <= u[i] - 1
      BY <1>5, <1>6
    <3> QED
      BY <1>6, <3>1, <3>2
  <2>4. ASSUME NEW i \in 1..Len(t), NEW m \in 1..Len(t), i < m
        PROVE  t[i] < t[m]
    <3>1. CASE m \in 1..Len(s)
      <4>1. i \in 1..Len(s)
        BY <2>4, <3>1
      <4> QED
        BY <1>4, <1>5, <2>2, <2>4, <3>1, <4>1, AscendingAt
    <3>2. CASE i > Len(s) + 1
      <4> DEFINE i1 == i - (Len(s) + 1)
                 m1 == m - (Len(s) + 1)
      <4>1. /\ i1 \in 1..Len(u) /\ m1 \in 1..Len(u) /\ i1 < m1
            /\ Len(s) + 1 + i1 = i /\ Len(s) + 1 + m1 = m
        BY <1>9, <2>4, <3>2
      <4> HIDE DEF i1, m1
      <4>2. t[i] = u[i1] /\ t[m] = u[m1]
        BY <2>3, <4>1
      <4> QED
        BY <1>4, <1>5, <4>1, <4>2, AscendingAt
    <3>3. CASE i <= Len(s) + 1 /\ m >= Len(s) + 1
      <4>1. (i \in 1..Len(s) => t[i] < k) /\ (i \notin 1..Len(s) => i = Len(s) + 1)
        BY <1>9, <2>2, <3>3
      <4>2. m > Len(s) + 1 => k < t[m]
        <5> DEFINE m1 == m - (Len(s) + 1)
        <5>1. m > Len(s) + 1 => m1 \in 1..Len(u) /\ Len(s) + 1 + m1 = m
          BY <1>9, <2>4
        <5> HIDE DEF m1
        <5> QED
          BY <2>3, <5>1
      <4>3. m > Len(s) + 1 \/ m = Len(s) + 1
        BY <1>9, <3>3
      <4>4. t[i] \in Int /\ t[m] \in Int
        BY <1>4
      <4>5. ~(i = Len(s) + 1 /\ m = Len(s) + 1)
        BY <1>9, <2>4
      <4> QED
        BY <1>6, <2>1, <4>1, <4>2, <4>3, <4>4, <4>5
    <3> QED
      BY <1>9, <3>1, <3>2, <3>3
  <2> QED
    BY <2>1, <2>4 DEF Ascending
<1>19. KeysInRange(big, M, R1)
  <2>1. ASSUME NEW i \in 1..Len(t)
        PROVE  t[i] \in A /\ t[i] - 1 \in A
    <3>1. CASE i \in 1..Len(s)
      BY <1>2, <1>5, <3>1 DEF JoinedBy, A
    <3>2. CASE i = Len(s) + 1
      BY <1>7, <1>18, <3>2
    <3>3. CASE i > Len(s) + 1
      <4> DEFINE m == i - (Len(s) + 1)
      <4>1. m \in 1..Len(u) /\ Len(s) + 1 + m = i
        BY <1>9, <3>3
      <4> HIDE DEF m
      <4>2. t[i] = u[m]
        BY <1>2, <4>1 DEF JoinedBy
      <4> QED
        BY <1>5, <4>1, <4>2 DEF A
    <3> QED
      BY <1>9, <3>1, <3>2, <3>3
  <2>2. InnerKeys(big, R1, a)
    BY <1>8, <1>9, <2>1 DEF InnerKeys, t, tp
  <2>3. ASSUME NEW n \in L \ {a, b}
        PROVE  /\ Ascending(big[n].keys)
               /\ big[n].isLeaf => LeafKeys(big, R1, n)
               /\ ~big[n].isLeaf => InnerKeys(big, R1, n)
    <3>2. /\ two[n].isLeaf = big[n].isLeaf /\ two[n].keys = big[n].keys
          /\ two[n].pointers = big[n].pointers /\ R1[n] = R[n]
      BY <1>3, <1>8
    <3>3. /\ Ascending(two[n].keys)
          /\ two[n].isLeaf => LeafKeys(two, R, n)
          /\ ~two[n].isLeaf => InnerKeys(two, R, n)
      BY <1>1 DEF KeysInRange
    <3> QED
      BY <3>2, <3>3 DEF LeafKeys, InnerKeys
  <2>4. \A n \in M : n = a \/ n \in L \ {a, b}
    BY <1>10
  <2> QED
    BY <1>2, <1>18, <2>2, <2>3, <2>4 DEF KeysInRange, t
<1>20. ChildrenOK(big, M, H1, R1, R1, {})
  <2> SUFFICES ASSUME NEW n \in M, ~big[n].isLeaf, NEW i \in 1..Len(big[n].pointers)
               PROVE  IsChild(big, M, H1, R1, R1, {}, n, i)
    BY DEF ChildrenOK
  <2>1. CASE n # a
    <3>1. n \in L \ {a, b} /\ n \in L
      BY <1>10, <2>1
    <3>2. /\ ~two[n].isLeaf /\ two[n].keys = big[n].keys /\ two[n].pointers = big[n].pointers
          /\ R1[n] = R[n] /\ H1[n] = H[n]
      BY <1>3, <1>8, <3>1
    <3> DEFINE c == two[n].pointers[i]
    <3>3. /\ c \in L \ {b} /\ two[c].parent = n /\ H[n] = H[c] + 1
          /\ W[c] = Slot(R[n], two[n].keys, i)
      BY <1>1, <3>1, <3>2 DEF ChildrenOK, IsChild
    <3>4. ~PointsTo(two, b, c)
      BY <1>14, <3>1, <3>3
    <3>5. c \in M /\ big[c].parent = n /\ H1[c] = H[c] /\ R1[c] = W[c]
      BY <1>8, <1>10, <1>15, <3>3, <3>4
    <3> QED
      BY <3>2, <3>3, <3>5 DEF IsChild
  <2>2. CASE n = a /\ i \in 1..Len(sp)
    <3> DEFINE c == sp[i]
    <3>1. /\ c \in M \ {a} /\ two[c].parent = a /\ H[a] = H[c] + 1 /\ W[c] = Slot(R[a], s, i)
          /\ c = tp[i] /\ i \in 1..(Len(s) + 1)
      BY <1>12, <2>2
    <3>2. Slot(A, t, i) = Slot(Below(A, k), s, i)
      BY <1>2, <1>4, <1>6, <1>7, <1>18, <3>1, JoinedLeft
    <3>3. big[c].parent = a
      BY <1>2, <1>14, <1>15, <3>1
    <3>4. big[n].pointers[i] = c /\ big[n].keys = t
      BY <2>2, <3>1 DEF tp, t
    <3>5. H1[c] = H[c] /\ H1[a] = H[a] /\ R1[c] = W[c]
      BY <1>2, <1>8, <3>1
    <3> HIDE DEF c
    <3> QED
      BY <1>7, <1>8, <2>2, <3>1, <3>2, <3>3, <3>4, <3>5 DEF IsChild
  <2>3. CASE n = a /\ i \notin 1..Len(sp)
    <3> DEFINE m == i - (Len(s) + 1)
    <3>0. i \in 1..Len(tp)
      BY <2>3 DEF tp
    <3>1. m \in 1..Len(up) /\ Len(s) + 1 + m = i
      BY <1>5, <1>9, <2>3, <3>0
    <3> HIDE DEF m
    <3> DEFINE c == up[m]
    <3>2. /\ c \in M \ {a} /\ H[b] = H[c] + 1 /\ W[c] = Slot(R[b], u, m)
          /\ c = tp[Len(s) + 1 + m] /\ m \in 1..(Len(u) + 1) /\ PointsTo(two, b, c)
      BY <1>13, <3>1
    <3>3. Slot(A, t, Len(s) + 1 + m) = Slot(From(A, k), u, m)
      BY <1>2, <1>4, <1>6, <1>7, <1>18, <3>2, JoinedRight
    <3>4. big[c].parent = a
      BY <1>14, <3>2
    <3>5. big[n].pointers[i] = c /\ big[n].keys = t
      BY <2>3, <3>1, <3>2 DEF tp, t
    <3>6. H1[c] = H[c] /\ H1[a] = H[a] /\ R1[c] = W[c]
      BY <1>2, <1>8, <3>2
    <3> HIDE DEF c
    <3> QED
      BY <1>6, <1>7, <1>8, <2>3, <3>1, <3>2, <3>3, <3>4, <3>5, <3>6 DEF IsChild
  <2> QED
    BY <2>1, <2>2, <2>3
<1>21. Attached(big, M, r, R1, {})
  <2>1. ~PointsTo(two, b, r)
    <3>1. b # NULL
      BY <1>1, <1>2, NodeFields
    <3> QED
      BY <1>11, <1>14, <3>1
  <2>2. r \in M /\ big[r].parent = NULL /\ R1[r] = Int
    BY <1>8, <1>11, <1>15, <2>1
  <2>3. ASSUME NEW n \in M \ {r}
        PROVE  HangsIn(big, M, n, big[n].parent)
    <3> DEFINE p == two[n].parent
    <3>1. n \in L \ ({b} \union {r})
      BY <1>10
    <3>2. HangsIn(two, L, n, p)
      BY <1>1, <3>1 DEF Attached
    <3>3. p \in L /\ ~two[p].isLeaf /\ \E i \in 1..Len(two[p].pointers) : two[p].pointers[i] = n
      BY <3>2 DEF HangsIn
    <3>4. CASE p \notin {a, b}
      <4>1. big[n].parent = p
        BY <1>14, <1>15, <3>4
      <4>2. p \in M /\ ~big[p].isLeaf /\ big[p].pointers = two[p].pointers
        BY <1>3, <1>10, <3>3, <3>4
      <4> QED
        BY <3>3, <4>1, <4>2 DEF HangsIn
    <3>5. CASE p = a
      <4>1. big[n].parent = a
        BY <1>2, <1>14, <1>15, <3>5
      <4>2. PICK i \in 1..Len(sp) : sp[i] = n
        BY <3>3, <3>5 DEF sp
      <4>3. i \in 1..Len(tp) /\ tp[i] = n
        BY <1>12, <4>2
      <4> QED
        BY <1>2, <4>1, <4>3 DEF HangsIn, tp
    <3>6. CASE p = b
      <4>2. PICK i \in 1..Len(up) : up[i] = n
        BY <3>3, <3>6 DEF up
      <4>1. big[n].parent = a
        BY <1>13, <1>14, <4>2
      <4>3. Len(s) + 1 + i \in 1..Len(tp) /\ tp[Len(s) + 1 + i] = n
        BY <1>13, <4>2
      <4>4. \E m \in 1..Len(big[a].pointers) : big[a].pointers[m] = n
        BY <4>3 DEF tp
      <4> QED
        BY <1>2, <4>1, <4>4 DEF HangsIn
    <3> QED
      BY <3>4, <3>5, <3>6
  <2> QED
    BY <2>2, <2>3 DEF Attached
<1>22. Chain(big, M, R1)
  <2>1. LeafSet(two, L) = LeafSet(big, M)
    BY <1>2, <1>10, <1>16 DEF LeafSet
  <2>2. \A l \in LeafSet(two, L) :
          big[l].next = two[l].next /\ big[l].prev = two[l].prev /\ R1[l] = R[l]
    <3>1. \A l \in LeafSet(two, L) : l \in L \ {a, b}
      BY <1>2 DEF LeafSet
    <3> QED
      BY <1>3, <1>8, <3>1
  <2> QED
    BY <1>1, <2>1, <2>2, SameLeaves
<1> QED
  BY <1>2, <1>7, <1>17, <1>19, <1>20, <1>21, <1>22 DEF IsTree, IsHeap, H1, R1, M, W

-----------------------------------------------------------------------------
(*                     Growing and shrinking at the root                   *)

With(F, L, q, v) == [n \in L \union {q} |-> IF n = q THEN v ELSE F[n]]

(* The new root q of g has the nodes r and b of h as its two children.     *)
Raised(h, g, L, r, k, b, q) ==
  /\ q \notin L
  /\ NodeTypes(g, L \union {q})
  /\ ~g[q].isLeaf /\ g[q].parent = NULL
  /\ g[q].keys = <<k>> /\ g[q].pointers = <<r, b>>
  /\ \A n \in L :
       /\ g[n].isLeaf = h[n].isLeaf /\ g[n].keys = h[n].keys /\ g[n].pointers = h[n].pointers
       /\ g[n].next = h[n].next /\ g[n].prev = h[n].prev
       /\ g[n].parent = IF n \in {r, b} THEN q ELSE h[n].parent

LEMMA GrowRoot ==
  ASSUME NEW h, NEW g, NEW L, NEW r, NEW H, NEW R, NEW k, NEW b, NEW q,
         IsForest(h, L, r, H, R, r, k, b), Raised(h, g, L, r, k, b, q)
  PROVE  IsTree(g, L \union {q}, q, With(H, L, q, H[r] + 1), With(R, L, q, Int))
<1> DEFINE M == L \union {q}
           W == Covered(R, r, b)
           H1 == With(H, L, q, H[r] + 1)
           R1 == With(R, L, q, Int)
<1>1. /\ NodeTypes(h, L) /\ Levels(h, L, r, H) /\ KeysInRange(h, L, R)
      /\ ChildrenOK(h, L, H, R, W, {b}) /\ Attached(h, L, r, W, {b})
      /\ Intervals(L, H, R) /\ Chain(h, L, R) /\ IsPair(h, L, H, R, r, k, b)
  BY DEF IsForest, IsHeap
<1>2. /\ q \notin L /\ NodeTypes(g, M)
      /\ ~g[q].isLeaf /\ g[q].parent = NULL
      /\ g[q].keys = <<k>> /\ g[q].pointers = <<r, b>>
  BY DEF Raised
<1>3. \A n \in L :
        /\ g[n].isLeaf = h[n].isLeaf /\ g[n].keys = h[n].keys /\ g[n].pointers = h[n].pointers
        /\ g[n].next = h[n].next /\ g[n].prev = h[n].prev
  BY DEF Raised
<1>4. /\ g[r].parent = q /\ g[b].parent = q
      /\ \A n \in L \ {r, b} : g[n].parent = h[n].parent
  BY <1>1 DEF Raised, IsPair
<1>5. /\ r \in L /\ b \in L /\ r # b /\ h[r].parent = NULL /\ W[r] = Int /\ H[r] = H[b]
      /\ k \in Int /\ k - 1 \in R[r] /\ k \in R[b]
      /\ (\A x \in R[r] : x < k) /\ (\A x \in R[b] : k <= x)
  BY <1>1, ValueAssumption DEF IsPair, Attached
<1>6. /\ H \in [L -> Nat] /\ \A n \in L : (h[n].isLeaf <=> H[n] = 0) /\ H[n] <= H[r]
      /\ R \in [L -> SUBSET Int]
      /\ \A n \in L : R[n] # {} /\ Convex(R[n])
      /\ \A n, m \in L : H[n] = H[m] /\ n # m => R[n] \cap R[m] = {}
  BY <1>1 DEF Levels, Intervals
<1>7. /\ H1[q] = H[r] + 1 /\ R1[q] = Int
      /\ \A n \in L : H1[n] = H[n] /\ R1[n] = R[n]
  BY <1>2 DEF With
<1>8. R[r] \union R[b] = Int /\ \A n \in L \ {r} : W[n] = R[n]
  BY <1>5, <1>6 DEF Covered
<1>9. H1 \in [M -> Nat] /\ R1 \in [M -> SUBSET Int]
  <2>1. H[r] + 1 \in Nat /\ (\A n \in L : H[n] \in Nat) /\ \A n \in L : R[n] \in SUBSET Int
    BY <1>5, <1>6
  <2> QED
    BY <2>1 DEF With
<1> HIDE DEF H1, R1, W, M
<1>10. Levels(g, M, q, H1)
  <2>1. ASSUME NEW n \in M
        PROVE  (g[n].isLeaf <=> H1[n] = 0) /\ H1[n] <= H1[q]
    <3>1. CASE n = q
      BY <1>2, <1>5, <1>6, <1>7, <3>1
    <3>2. CASE n \in L
      <4>1. H[n] \in Nat /\ H[r] \in Nat /\ H[n] <= H[r] /\ (g[n].isLeaf <=> H[n] = 0)
        BY <1>3, <1>5, <1>6, <3>2
      <4> QED
        BY <1>7, <3>2, <4>1
    <3> QED
      BY <3>1, <3>2 DEF M
  <2> QED
    BY <1>9, <2>1 DEF Levels
<1>11. KeysInRange(g, M, R1)
  <2>1. ASSUME NEW n \in L
        PROVE  /\ Ascending(g[n].keys)
               /\ g[n].isLeaf => LeafKeys(g, R1, n)
               /\ ~g[n].isLeaf => InnerKeys(g, R1, n)
    <3>1. /\ g[n].isLeaf = h[n].isLeaf /\ g[n].keys = h[n].keys
          /\ g[n].pointers = h[n].pointers /\ R1[n] = R[n]
      BY <1>3, <1>7
    <3>2. /\ Ascending(h[n].keys)
          /\ h[n].isLeaf => LeafKeys(h, R, n)
          /\ ~h[n].isLeaf => InnerKeys(h, R, n)
      BY <1>1 DEF KeysInRange
    <3> QED
      BY <3>1, <3>2 DEF LeafKeys, InnerKeys
  <2>2. Ascending(g[q].keys) /\ InnerKeys(g, R1, q)
    BY <1>2, <1>5, <1>7 DEF Ascending, InnerKeys
  <2> QED
    BY <1>2, <2>1, <2>2 DEF KeysInRange, M
<1>12. Slot(Int, <<k>>, 1) = R[r] /\ Slot(Int, <<k>>, 2) = R[b]
  <2>1. Slot(Int, <<k>>, 1) = {x \in Int : x < k} /\ Slot(Int, <<k>>, 2) = {x \in Int : k <= x}
    BY DEF Slot
  <2>2. \A x \in Int : ~(x < k /\ k <= x) /\ (x < k \/ k <= x)
    BY <1>5
  <2> QED
    BY <1>5, <1>8, <2>1, <2>2
<1>13. ChildrenOK(g, M, H1, R1, R1, {})
  <2> SUFFICES ASSUME NEW n \in M, ~g[n].isLeaf, NEW i \in 1..Len(g[n].pointers)
               PROVE  IsChild(g, M, H1, R1, R1, {}, n, i)
    BY DEF ChildrenOK
  <2>1. CASE n = q
    <3>1. i \in {1, 2}
      <4>1. Len(g[n].pointers) = 2
        BY <1>2, <2>1
      <4> QED
        BY <4>1
    <3>2. IsChild(g, M, H1, R1, R1, {}, q, 1)
      BY <1>2, <1>4, <1>5, <1>7, <1>12 DEF IsChild, M
    <3>3. IsChild(g, M, H1, R1, R1, {}, q, 2)
      BY <1>2, <1>4, <1>5, <1>7, <1>12 DEF IsChild, M
    <3> QED
      BY <2>1, <3>1, <3>2, <3>3
  <2>2. CASE n \in L
    <3> DEFINE c == h[n].pointers[i]
    <3>1. /\ c \in L \ {b} /\ h[c].parent = n /\ H[n] = H[c] + 1
          /\ W[c] = Slot(R[n], h[n].keys, i)
      BY <1>1, <1>3, <2>2 DEF ChildrenOK, IsChild
    <3>2. c # r
      BY <1>1, <1>5, <2>2, <3>1, NodeFields
    <3> QED
      BY <1>3, <1>4, <1>7, <1>8, <2>2, <3>1, <3>2 DEF IsChild, M
  <2> QED
    BY <2>1, <2>2 DEF M
<1>14. Attached(g, M, q, R1, {})
  <2>1. ASSUME NEW n \in L
        PROVE  HangsIn(g, M, n, g[n].parent)
    <3>1. CASE n = r
      <4>1. 1 \in 1..Len(g[q].pointers) /\ g[q].pointers[1] = r
        BY <1>2
      <4> QED
        BY <1>2, <1>4, <3>1, <4>1 DEF HangsIn, M
    <3>2. CASE n = b
      <4>1. 2 \in 1..Len(g[q].pointers) /\ g[q].pointers[2] = b
        BY <1>2
      <4> QED
        BY <1>2, <1>4, <3>2, <4>1 DEF HangsIn, M
    <3>3. CASE n \notin {r, b}
      <4>1. HangsIn(h, L, n, h[n].parent) /\ g[n].parent = h[n].parent
        BY <1>1, <1>4, <3>3 DEF Attached
      <4> QED
        BY <1>3, <4>1 DEF HangsIn, M
    <3> QED
      BY <3>1, <3>2, <3>3
  <2> QED
    BY <1>2, <1>7, <2>1 DEF Attached, M
<1>15. Intervals(M, H1, R1)
  <2>1. ASSUME NEW n \in M
        PROVE  R1[n] # {} /\ Convex(R1[n])
    <3>1. Convex(Int) /\ 0 \in Int
      BY DEF Convex
    <3> QED
      BY <1>6, <1>7, <3>1 DEF M
  <2>2. ASSUME NEW n \in M, NEW m \in M, H1[n] = H1[m], n # m
        PROVE  R1[n] \cap R1[m] = {}
    <3>1. ASSUME NEW l \in L PROVE H1[l] # H1[q]
      <4>1. H[l] \in Nat /\ H[r] \in Nat /\ H[l] <= H[r]
        BY <1>5, <1>6
      <4> QED
        BY <1>7, <4>1
    <3>2. n \in L /\ m \in L
      BY <2>2, <3>1 DEF M
    <3> QED
      BY <1>6, <1>7, <2>2, <3>2
  <2> QED
    BY <1>9, <2>1, <2>2 DEF Intervals
<1>16. Chain(g, M, R1)
  <2>1. LeafSet(h, L) = LeafSet(g, M)
    BY <1>2, <1>3 DEF LeafSet, M
  <2>2. \A l \in LeafSet(h, L) :
          g[l].next = h[l].next /\ g[l].prev = h[l].prev /\ R1[l] = R[l]
    BY <1>3, <1>7 DEF LeafSet
  <2> QED
    BY <1>1, <2>1, <2>2, SameLeaves
<1> QED
  BY <1>2, <1>10, <1>11, <1>13, <1>14, <1>15, <1>16 DEF IsTree, IsHeap, H1, R1, M

(* The root of h has only the pointer to c, which is the root of g.        *)
Lowered(h, g, L, r, c) ==
  /\ ~h[r].isLeaf /\ h[r].keys = <<>> /\ c = h[r].pointers[1]
  /\ NodeTypes(g, L \ {r})
  /\ \A n \in L \ {r} :
       /\ g[n].isLeaf = h[n].isLeaf /\ g[n].keys = h[n].keys /\ g[n].pointers = h[n].pointers
       /\ g[n].next = h[n].next /\ g[n].prev = h[n].prev
       /\ g[n].parent = IF n = c THEN NULL ELSE h[n].parent

LEMMA ShrinkRoot ==
  ASSUME NEW h, NEW g, NEW L, NEW r, NEW H, NEW R, NEW c,
         IsTree(h, L, r, H, R), Lowered(h, g, L, r, c)
  PROVE  IsTree(g, L \ {r}, c, Without(H, L, r), Without(R, L, r))
<1> DEFINE M == L \ {r}
           H1 == Without(H, L, r)
           R1 == Without(R, L, r)
<1>1. /\ NodeTypes(h, L) /\ Levels(h, L, r, H) /\ KeysInRange(h, L, R)
      /\ ChildrenOK(h, L, H, R, R, {}) /\ Attached(h, L, r, R, {})
      /\ Intervals(L, H, R) /\ Chain(h, L, R)
  BY DEF IsTree, IsHeap
<1>2. /\ ~h[r].isLeaf /\ h[r].keys = <<>> /\ c = h[r].pointers[1] /\ NodeTypes(g, M)
  BY DEF Lowered
<1>3. \A n \in M :
        /\ g[n].isLeaf = h[n].isLeaf /\ g[n].keys = h[n].keys /\ g[n].pointers = h[n].pointers
        /\ g[n].next = h[n].next /\ g[n].prev = h[n].prev
  BY DEF Lowered
<1>4. /\ r \in L /\ h[r].parent = NULL /\ R[r] = Int
      /\ H \in [L -> Nat] /\ \A n \in L : (h[n].isLeaf <=> H[n] = 0) /\ H[n] <= H[r]
      /\ R \in [L -> SUBSET Int]
      /\ \A n \in L : R[n] # {} /\ Convex(R[n])
      /\ \A n, m \in L : H[n] = H[m] /\ n # m => R[n] \cap R[m] = {}
  BY <1>1 DEF Attached, Levels, Intervals
<1>5. 1..Len(h[r].pointers) = {1}
  <2>1. Len(h[r].pointers) = 1
    <3>1. Len(h[r].pointers) = Len(h[r].keys) + 1
      BY <1>1, <1>2, <1>4 DEF KeysInRange, InnerKeys
    <3>2. Len(h[r].keys) = 0
      BY <1>2
    <3> QED
      BY <3>1, <3>2
  <2> QED
    BY <2>1
<1>6. c \in L /\ h[c].parent = r /\ H[r] = H[c] + 1 /\ R[c] = Int
  <2>1. IsChild(h, L, H, R, R, {}, r, 1)
    BY <1>1, <1>2, <1>4, <1>5 DEF ChildrenOK
  <2>2. Slot(Int, <<>>, 1) = Int
    BY DEF Slot
  <2> QED
    BY <1>2, <1>4, <2>1, <2>2 DEF IsChild
<1>7. c # r /\ c \in M
  BY <1>1, <1>4, <1>6, NodeFields
<1>8. /\ g[c].parent = NULL
      /\ \A n \in M \ {c} : g[n].parent = h[n].parent
  BY <1>7 DEF Lowered
<1>9. \A n \in M : H1[n] = H[n] /\ R1[n] = R[n]
  BY DEF Without
<1>10. H1 \in [M -> Nat] /\ R1 \in [M -> SUBSET Int]
  <2>1. (\A n \in M : H[n] \in Nat) /\ \A n \in M : R[n] \in SUBSET Int
    BY <1>4
  <2> QED
    BY <2>1 DEF Without
<1> HIDE DEF H1, R1
<1>11. Levels(g, M, c, H1)
  <2>1. ASSUME NEW n \in M
        PROVE  (g[n].isLeaf <=> H1[n] = 0) /\ H1[n] <= H1[c]
    <3>1. H[n] # H[r]
      <4>1. R[n] # {} /\ R[n] \in SUBSET Int
        BY <1>4
      <4>2. R[n] \cap R[r] # {}
        BY <1>4, <4>1
      <4> QED
        BY <1>4, <4>2
    <3>2. H[n] \in Nat /\ H[c] \in Nat /\ H[n] <= H[r]
      BY <1>4, <1>6
    <3>3. H[n] <= H[c]
      BY <1>6, <3>1, <3>2
    <3> QED
      BY <1>3, <1>4, <1>7, <1>9, <3>3
  <2> QED
    BY <1>10, <2>1 DEF Levels
<1>12. KeysInRange(g, M, R1)
  <2>1. ASSUME NEW n \in M
        PROVE  /\ Ascending(g[n].keys)
               /\ g[n].isLeaf => LeafKeys(g, R1, n)
               /\ ~g[n].isLeaf => InnerKeys(g, R1, n)
    <3>1. /\ g[n].isLeaf = h[n].isLeaf /\ g[n].keys = h[n].keys
          /\ g[n].pointers = h[n].pointers /\ R1[n] = R[n]
      BY <1>3, <1>9
    <3>2. /\ Ascending(h[n].keys)
          /\ h[n].isLeaf => LeafKeys(h, R, n)
          /\ ~h[n].isLeaf => InnerKeys(h, R, n)
      BY <1>1 DEF KeysInRange
    <3> QED
      BY <3>1, <3>2 DEF LeafKeys, InnerKeys
  <2> QED
    BY <2>1 DEF KeysInRange
<1>13. ChildrenOK(g, M, H1, R1, R1, {})
  <2> SUFFICES ASSUME NEW n \in M, ~g[n].isLeaf, NEW i \in 1..Len(g[n].pointers)
               PROVE  IsChild(g, M, H1, R1, R1, {}, n, i)
    BY DEF ChildrenOK
  <2> DEFINE d == h[n].pointers[i]
  <2>1. d \in L /\ h[d].parent = n /\ H[n] = H[d] + 1 /\ R[d] = Slot(R[n], h[n].keys, i)
    BY <1>1, <1>3 DEF ChildrenOK, IsChild
  <2>2. d # c /\ d # r
    BY <1>1, <1>4, <1>6, <2>1, NodeFields
  <2> QED
    BY <1>3, <1>8, <1>9, <2>1, <2>2 DEF IsChild
<1>14. Attached(g, M, c, R1, {})
  <2>1. ASSUME NEW n \in M \ {c}
        PROVE  HangsIn(g, M, n, g[n].parent)
    <3>1. HangsIn(h, L, n, h[n].parent) /\ g[n].parent = h[n].parent
      BY <1>1, <1>8 DEF Attached
    <3>2. h[n].parent # r
      BY <1>2, <1>5, <3>1 DEF HangsIn
    <3> QED
      BY <1>3, <3>1, <3>2 DEF HangsIn
  <2> QED
    BY <1>6, <1>7, <1>8, <1>9, <2>1 DEF Attached
<1>15. Intervals(M, H1, R1)
  BY <1>4, <1>9, <1>10 DEF Intervals
<1>16. Chain(g, M, R1)
  <2>1. LeafSet(h, L) = LeafSet(g, M)
    BY <1>2, <1>3, <1>4 DEF LeafSet
  <2>2. \A l \in LeafSet(g, M) :
          g[l].next = h[l].next /\ g[l].prev = h[l].prev /\ R1[l] = R[l]
    BY <1>3, <1>9 DEF LeafSet
  <2> QED
    BY <1>1, <2>1, <2>2, SameLeaves
<1> QED
  BY <1>2, <1>11, <1>12, <1>13, <1>14, <1>15, <1>16 DEF IsTree, IsHeap, H1, R1

(* A leaf at the root is the whole tree.                                   *)
LEMMA LeafRootAlone ==
  ASSUME NEW h, NEW L, NEW r, NEW H, NEW R, IsTree(h, L, r, H, R), h[r].isLeaf
  PROVE  L = {r}
<1>1. r \in L /\ \A n \in L \ {r} : HangsIn(h, L, n, h[n].parent)
  BY DEF IsTree, IsHeap, Attached
<1>2. H \in [L -> Nat] /\ \A n \in L : (h[n].isLeaf <=> H[n] = 0) /\ H[n] <= H[r]
  BY DEF IsTree, IsHeap, Levels
<1>3. ASSUME NEW n \in L \ {r}
      PROVE  FALSE
  <2>1. PICK p \in L : ~h[p].isLeaf
    BY <1>1 DEF HangsIn
  <2>2. H[p] \in Nat /\ H[p] <= 0 /\ H[p] # 0
    BY <1>1, <1>2, <2>1
  <2> QED
    BY <2>2
<1> QED
  BY <1>1, <1>3

-----------------------------------------------------------------------------
(*                            Changes in a leaf                            *)

(* Only the entries of leaf l differ.                                      *)
LEMMA LeafChanged ==
  ASSUME NEW h, NEW g, NEW L, NEW r, NEW H, NEW R, NEW l \in L,
         IsTree(h, L, r, H, R), NodeTypes(g, L),
         h[l].isLeaf, g[l].isLeaf, g[l].parent = h[l].parent,
         g[l].next = h[l].next, g[l].prev = h[l].prev,
         Ascending(g[l].keys), LeafKeys(g, R, l),
         \A n \in L \ {l} : g[n] = h[n]
  PROVE  IsTree(g, L, r, H, R)
<1>1. /\ NodeTypes(h, L) /\ Levels(h, L, r, H) /\ KeysInRange(h, L, R)
      /\ ChildrenOK(h, L, H, R, R, {}) /\ Attached(h, L, r, R, {})
      /\ Intervals(L, H, R) /\ Chain(h, L, R)
  BY DEF IsTree, IsHeap
<1>2. \A n \in L : /\ g[n].isLeaf = h[n].isLeaf /\ g[n].parent = h[n].parent
                   /\ g[n].next = h[n].next /\ g[n].prev = h[n].prev
                   /\ ~g[n].isLeaf => g[n] = h[n]
  <2>1. g[l].isLeaf = h[l].isLeaf
    BY <1>1, NodeFields
  <2> QED
    BY <2>1
<1>3. Levels(g, L, r, H)
  BY <1>1, <1>2 DEF Levels
<1>4. KeysInRange(g, L, R)
  <2>1. ASSUME NEW n \in L \ {l}
        PROVE  /\ Ascending(g[n].keys)
               /\ g[n].isLeaf => LeafKeys(g, R, n)
               /\ ~g[n].isLeaf => InnerKeys(g, R, n)
    BY <1>1 DEF KeysInRange, LeafKeys, InnerKeys
  <2> QED
    BY <2>1 DEF KeysInRange
<1>5. ChildrenOK(g, L, H, R, R, {})
  <2> SUFFICES ASSUME NEW n \in L, ~g[n].isLeaf, NEW i \in 1..Len(g[n].pointers)
               PROVE  IsChild(g, L, H, R, R, {}, n, i)
    BY DEF ChildrenOK
  <2>1. g[n] = h[n] /\ ~h[n].isLeaf
    BY <1>2
  <2>2. IsChild(h, L, H, R, R, {}, n, i)
    BY <1>1, <2>1 DEF ChildrenOK
  <2> QED
    BY <1>2, <2>1, <2>2 DEF IsChild
<1>6. Attached(g, L, r, R, {})
  <2>1. ASSUME NEW n \in L \ ({} \union {r})
        PROVE  HangsIn(g, L, n, g[n].parent)
    <3>1. HangsIn(h, L, n, h[n].parent)
      BY <1>1 DEF Attached
    <3> QED
      BY <1>2, <3>1 DEF HangsIn
  <2> QED
    BY <1>1, <1>2, <2>1 DEF Attached
<1>7. Chain(g, L, R)
  BY <1>1, <1>2, SameChain
<1> QED
  BY <1>1, <1>3, <1>4, <1>5, <1>6, <1>7 DEF IsTree, IsHeap

(* Nodes outside the tree do not matter.                                   *)
LEMMA SameTree ==
  ASSUME NEW h, NEW g, NEW L, NEW r, NEW H, NEW R, IsTree(h, L, r, H, R),
         L \subseteq DOMAIN g, \A n \in L : g[n] = h[n]
  PROVE  IsTree(g, L, r, H, R)
<1>1. NodeTypes(h, L)
  BY DEF IsTree, IsHeap
<1>2. NodeTypes(g, L)
  BY <1>1 DEF NodeTypes
<1>3. LeafSet(g, L) = LeafSet(h, L)
  BY DEF LeafSet
<1>4. /\ Levels(g, L, r, H) /\ KeysInRange(g, L, R)
  BY DEF IsTree, IsHeap, Levels, KeysInRange, LeafKeys, InnerKeys
<1>5. ChildrenOK(g, L, H, R, R, {})
  <2> SUFFICES ASSUME NEW n \in L, ~g[n].isLeaf, NEW i \in 1..Len(g[n].pointers)
               PROVE  IsChild(g, L, H, R, R, {}, n, i)
    BY DEF ChildrenOK
  <2>2. IsChild(h, L, H, R, R, {}, n, i)
    BY DEF IsTree, IsHeap, ChildrenOK
  <2> QED
    BY <2>2 DEF IsChild
<1>6. Attached(g, L, r, R, {})
  BY DEF IsTree, IsHeap, Attached, HangsIn
<1>7. Chain(g, L, R)
  <2>1. Chain(h, L, R)
    BY DEF IsTree, IsHeap
  <2>2. \A l \in LeafSet(h, L) : g[l].next = h[l].next /\ g[l].prev = h[l].prev /\ R[l] = R[l]
    BY DEF LeafSet
  <2> QED
    BY <1>3, <2>1, <2>2, SameLeaves
<1>8. Intervals(L, H, R)
  BY DEF IsTree, IsHeap
<1> QED
  BY <1>2, <1>4, <1>5, <1>6, <1>7, <1>8 DEF IsTree, IsHeap

(* A leaf by itself is a tree.                                             *)
LEMMA FirstLeaf ==
  ASSUME NEW g, NEW r, NodeTypes(g, {r}), g[r].isLeaf, g[r].parent = NULL,
         g[r].prev = NULL, g[r].next = NULL, Len(g[r].keys) = 1,
         Len(g[r].pointers) = 1, g[r].pointers[1] # <<>>
  PROVE  IsTree(g, {r}, r, [n \in {r} |-> 0], [n \in {r} |-> Int])
<1> DEFINE L == {r}
           H == [n \in L |-> 0]
           R == [n \in L |-> Int]
<1>1. H[r] = 0 /\ R[r] = Int /\ H \in [L -> Nat] /\ R \in [L -> SUBSET Int]
  OBVIOUS
<1>2. r # NULL /\ g[r].keys \in Seq(Int)
  BY NodeFields
<1>3. Levels(g, L, r, H)
  BY <1>1 DEF Levels
<1>4. KeysInRange(g, L, R)
  <2>1. g[r].keys[1] \in Int
    BY <1>2
  <2>2. LeafKeys(g, R, r)
    BY <1>1, <2>1 DEF LeafKeys
  <2>3. Ascending(g[r].keys)
    BY DEF Ascending
  <2> QED
    BY <2>2, <2>3 DEF KeysInRange
<1>5. ChildrenOK(g, L, H, R, R, {})
  BY DEF ChildrenOK
<1>6. Attached(g, L, r, R, {})
  BY <1>1 DEF Attached
<1>7. Intervals(L, H, R)
  <2>1. Convex(Int) /\ 0 \in Int
    BY DEF Convex
  <2> QED
    BY <1>1, <2>1 DEF Intervals
<1>8. Chain(g, L, R)
  <2>1. ~Meets(R[r], R[r])
    BY <1>1 DEF Meets
  <2>2. LeafSet(g, L) = {r}
    BY DEF LeafSet
  <2> HIDE DEF R
  <2> QED
    BY <1>2, <2>1, <2>2 DEF Chain
<1> HIDE DEF H, R
<1>9. IsTree(g, L, r, H, R)
  BY <1>3, <1>4, <1>5, <1>6, <1>7, <1>8 DEF IsTree, IsHeap
<1> QED
  BY <1>9 DEF H, R

-----------------------------------------------------------------------------
(*                        Descending through a tree                        *)

(* The insert point of a value is the pointer to its part of the range.    *)
LEMMA InsertPointSlot ==
  ASSUME NEW S \in SUBSET Int, NEW keys \in Seq(Int), NEW v \in S
  PROVE  /\ getInsertPoint(keys, v) + 1 \in 1..(Len(keys) + 1)
         /\ v \in Slot(S, keys, getInsertPoint(keys, v) + 1)
<1> DEFINE p == getInsertPoint(keys, v)
<1>1. /\ p \in 0..Len(keys)
      /\ \A i \in 1..p : keys[i] <= v
      /\ p < Len(keys) => keys[p + 1] > v
  <2>1. v \in Int
    OBVIOUS
  <2> HIDE DEF p
  <2> QED
    BY <2>1, InsertPointSeparates DEF p
<1> HIDE DEF p
<1>2. Len(keys) \in Nat /\ (p + 1) - 1 = p /\ (p + 1 <= Len(keys) <=> p < Len(keys))
  BY <1>1
<1>3. p + 1 > 1 => keys[(p + 1) - 1] <= v
  <2>1. p + 1 > 1 => p \in 1..p
    BY <1>1
  <2> QED
    BY <1>1, <1>2, <2>1
<1>4. p + 1 <= Len(keys) => v < keys[p + 1]
  <2>1. p + 1 <= Len(keys) => p + 1 \in 1..Len(keys)
    BY <1>1, <1>2
  <2>2. p + 1 <= Len(keys) => keys[p + 1] \in Int
    BY <2>1
  <2> QED
    BY <1>1, <1>2, <2>2
<1>5. v \in Slot(S, keys, p + 1)
  BY <1>3, <1>4 DEF Slot
<1> QED
  BY <1>1, <1>2, <1>5 DEF p

LEMMA ChildOf ==
  ASSUME NEW h, NEW L, NEW r, NEW H, NEW R, IsTree(h, L, r, H, R),
         NEW n \in L, ~h[n].isLeaf, NEW i \in 1..Len(h[n].pointers)
  PROVE  /\ h[n].pointers[i] \in L
         /\ h[h[n].pointers[i]].parent = n
         /\ H[n] = H[h[n].pointers[i]] + 1
         /\ R[h[n].pointers[i]] = Slot(R[n], h[n].keys, i)
  BY DEF IsTree, IsHeap, ChildrenOK, IsChild

LEMMA Descend ==
  ASSUME NEW h, NEW L, NEW r, NEW H, NEW R, IsTree(h, L, r, H, R),
         NEW n \in L, ~h[n].isLeaf, NEW v \in Int
  PROVE  /\ h[n].pointers[getInsertPoint(h[n].keys, v) + 1] \in L
         /\ H[n] = H[h[n].pointers[getInsertPoint(h[n].keys, v) + 1]] + 1
         /\ v \in R[n] => v \in R[h[n].pointers[getInsertPoint(h[n].keys, v) + 1]]
<1> DEFINE keys == h[n].keys
           i == getInsertPoint(keys, v) + 1
           S == R[n]
<1>1. /\ keys \in Seq(Int) /\ Len(h[n].pointers) = Len(keys) + 1
      /\ S \in SUBSET Int
  BY NodeFields DEF IsTree, IsHeap, KeysInRange, InnerKeys, Intervals
<1>2. i \in 1..Len(h[n].pointers)
  <2> HIDE DEF keys
  <2>1. getInsertPoint(keys, v) \in 0..Len(keys)
    BY <1>1, InsertPointSeparates
  <2> QED
    BY <1>1, <2>1
<1>3. v \in S => v \in Slot(S, keys, i)
  <2> HIDE DEF keys, S
  <2> QED
    BY <1>1, InsertPointSlot
<1> HIDE DEF i
<1>4. h[n].pointers[i] \in L /\ H[n] = H[h[n].pointers[i]] + 1 /\ R[h[n].pointers[i]] = Slot(S, keys, i)
  BY <1>2, ChildOf
<1> QED
  BY <1>3, <1>4 DEF i

(* A tree has nodes of every height below its root, so it is not higher    *)
(* than it has nodes.                                                      *)
LEMMA HeightBound ==
  ASSUME NEW h, NEW L, NEW r, NEW H, NEW R, IsTree(h, L, r, H, R), IsFiniteSet(L)
  PROVE  Cardinality(L) \in Nat /\ H[r] \in Nat /\ H[r] < Cardinality(L)
<1>1. /\ r \in L /\ H \in [L -> Nat]
      /\ \A n \in L : (h[n].isLeaf <=> H[n] = 0) /\ H[n] <= H[r]
  BY DEF IsTree, IsHeap, Levels, Attached
<1> DEFINE top == H[r]
           T == {e \in 0..top : \E n \in L : H[n] + e = top}
<1>2. top \in Nat
  BY <1>1
<1>3. 0 \in T
  BY <1>1, <1>2
<1>4. ASSUME NEW e \in 0..(top - 1), e \in T
      PROVE  e + 1 \in T
  <2>1. PICK n \in L : H[n] + e = top
    BY <1>4
  <2>2. H[n] \in Nat /\ H[n] # 0 /\ ~h[n].isLeaf
    BY <1>1, <1>2, <2>1
  <2>3. Len(h[n].pointers) = Len(h[n].keys) + 1 /\ Len(h[n].keys) \in Nat
    <3>1. h[n].keys \in Seq(Int)
      BY NodeFields DEF IsTree, IsHeap
    <3> QED
      BY <2>2, <3>1 DEF IsTree, IsHeap, KeysInRange, InnerKeys
  <2> DEFINE c == h[n].pointers[1]
  <2>4. 1 \in 1..Len(h[n].pointers)
    BY <2>3
  <2>5. c \in L /\ H[n] = H[c] + 1
    BY <2>2, <2>4, ChildOf
  <2> HIDE DEF c
  <2>6. H[c] \in Nat /\ H[c] + (e + 1) = top /\ e + 1 \in 0..top
    BY <1>1, <1>2, <2>1, <2>5
  <2> QED
    BY <2>5, <2>6
<1>5. \A e \in 0..top : e \in T
  <2> HIDE DEF T, top
  <2> QED
    BY <1>2, <1>3, <1>4, IntervalInduction
<1>6. H \in Surjection(L, 0..top)
  <2>1. H \in [L -> 0..top]
    BY <1>1, <1>2
  <2>2. ASSUME NEW d \in 0..top
        PROVE  \E n \in L : H[n] = d
    <3>1. top - d \in T
      BY <1>2, <1>5
    <3>2. PICK n \in L : H[n] + (top - d) = top
      BY <3>1
    <3>3. H[n] \in Nat
      BY <1>1
    <3> QED
      BY <1>2, <3>2, <3>3
  <2> QED
    BY <2>1, <2>2 DEF Surjection
<1>7. Cardinality(L) \in Nat /\ Cardinality(0..top) <= Cardinality(L)
  BY <1>6, FS_Surjection, FS_CardinalityType
<1>8. Cardinality(0..top) = top + 1
  BY <1>2, FS_Interval
<1> QED
  BY <1>2, <1>7, <1>8

-----------------------------------------------------------------------------
(*                  Finding a child or a key in a node                     *)

(* A node is a child once only.                                            *)
LEMMA ChildrenDiffer ==
  ASSUME NEW h, NEW L, NEW r, NEW H, NEW R, NEW W, NEW B, IsHeap(h, L, r, H, R, W, B),
         NEW n \in L, ~h[n].isLeaf,
         NEW i \in 1..Len(h[n].pointers), NEW m \in 1..Len(h[n].pointers),
         h[n].pointers[i] = h[n].pointers[m]
  PROVE  i = m
<1> DEFINE S == R[n]
           s == h[n].keys
<1>1. /\ s \in Seq(Int) /\ Ascending(s)
      /\ Len(h[n].pointers) = Len(s) + 1
      /\ S \in SUBSET Int /\ S # {}
  BY NodeFields DEF IsHeap, KeysInRange, InnerKeys, Intervals
<1>2. \A x \in 1..Len(s) : s[x] \in S /\ s[x] - 1 \in S
  BY DEF IsHeap, KeysInRange, InnerKeys
<1>3. Slot(S, s, i) = Slot(S, s, m)
  BY DEF IsHeap, ChildrenOK, IsChild
<1>4. i \in 1..(Len(s) + 1) /\ m \in 1..(Len(s) + 1)
  BY <1>1
<1> HIDE DEF S, s
<1>5. ASSUME NEW x \in 1..(Len(s) + 1), NEW y \in 1..(Len(s) + 1), x < y,
             Slot(S, s, x) = Slot(S, s, y)
      PROVE  FALSE
  <2>1. /\ \A u \in Slot(S, s, x) : \A w \in Slot(S, s, y) : u < w
        /\ Slot(S, s, x) # {}
    BY <1>1, <1>2, <1>5, SlotsDiffer
  <2>2. PICK u \in Slot(S, s, x) : TRUE
    BY <2>1
  <2>3. u \in Int
    BY <1>1, <2>2 DEF Slot
  <2> QED
    BY <1>5, <2>1, <2>3
<1> QED
  BY <1>3, <1>4, <1>5

(* So the search in a parent ends at its one pointer to the child ...      *)
LEMMA ChildPosition ==
  ASSUME NEW h, NEW L, NEW r, NEW H, NEW R, NEW W, NEW B, IsHeap(h, L, r, H, R, W, B),
         NEW n \in L, ~h[n].isLeaf, NEW i \in 1..Len(h[n].pointers)
  PROVE  PositionOf(h[n].pointers, h[n].pointers[i]) = i
<1>1. h[n].pointers \in Seq(Node)
  BY NodeFields DEF IsHeap
<1>2. \A m \in 1..Len(h[n].pointers) : h[n].pointers[m] = h[n].pointers[i] => m = i
  BY ChildrenDiffer
<1> QED
  BY <1>1, <1>2, PositionOfOnly

(* ... and the search for a key at its one position.                       *)
LEMMA KeyPosition ==
  ASSUME NEW s \in Seq(Int), Ascending(s), NEW i \in 1..Len(s)
  PROVE  PositionOf(s, s[i]) = i
<1>1. \A m \in 1..Len(s) : s[m] = s[i] => m = i
  BY AscendingAt
<1> QED
  BY <1>1, PositionOfOnly

(* What InsertAt and RemoveAt do, as relations between arrays.             *)
LEMMA InsertAtInserts ==
  ASSUME NEW S, NEW s \in Seq(S), NEW i \in 1..(Len(s) + 1), NEW e \in S
  PROVE  Inserted(s, InsertAt(s, i, e), i, e) /\ InsertAt(s, i, e) \in Seq(S)
<1> DEFINE t == InsertAt(s, i, e)
<1>1. t \in Seq(S) /\ Len(t) = Len(s) + 1
  BY InsertAtElements
<1>2. \A j \in 1..(Len(s) + 1) : t[j] = IF j < i THEN s[j] ELSE IF j = i THEN e ELSE s[j - 1]
  BY InsertAtElements
<1>3. Len(s) \in Nat /\ i \in 1..(Len(s) + 1)
  OBVIOUS
<1> HIDE DEF t
<1>4. t[i] = e
  BY <1>2, <1>3
<1>5. ASSUME NEW j \in 1..(i - 1)
      PROVE  t[j] = s[j]
  <2>1. j \in 1..(Len(s) + 1) /\ j < i
    BY <1>3
  <2> QED
    BY <1>2, <2>1
<1>6. ASSUME NEW j \in i..Len(s)
      PROVE  t[j + 1] = s[j]
  <2>1. j + 1 \in 1..(Len(s) + 1) /\ ~(j + 1 < i) /\ j + 1 # i /\ (j + 1) - 1 = j
    BY <1>3
  <2>2. t[j + 1] = s[(j + 1) - 1]
    BY <1>2, <2>1
  <2> QED
    BY <2>1, <2>2
<1>7. Inserted(s, t, i, e)
  BY <1>1, <1>3, <1>4, <1>5, <1>6 DEF Inserted
<1> QED
  BY <1>1, <1>7 DEF t

LEMMA RemoveAtTakesOut ==
  ASSUME NEW S, NEW s \in Seq(S), NEW i \in 1..Len(s)
  PROVE  Inserted(RemoveAt(s, i), s, i, s[i]) /\ RemoveAt(s, i) \in Seq(S)
<1> DEFINE t == RemoveAt(s, i)
<1>1. t \in Seq(S) /\ Len(t) = Len(s) - 1
  BY RemoveAtElements
<1>2. \A j \in 1..(Len(s) - 1) : t[j] = IF j < i THEN s[j] ELSE s[j + 1]
  BY RemoveAtElements
<1>3. Len(s) \in Nat /\ i \in 1..Len(s)
  OBVIOUS
<1> HIDE DEF t
<1>4. ASSUME NEW j \in 1..(i - 1)
      PROVE  s[j] = t[j]
  <2>1. j \in 1..(Len(s) - 1) /\ j < i
    BY <1>3
  <2> QED
    BY <1>2, <2>1
<1>5. ASSUME NEW j \in i..Len(t)
      PROVE  s[j + 1] = t[j]
  <2>1. j \in 1..(Len(s) - 1) /\ ~(j < i)
    BY <1>1, <1>3
  <2> QED
    BY <1>2, <2>1
<1>6. Inserted(t, s, i, s[i])
  <2>1. Len(s) = Len(t) + 1 /\ i \in 1..Len(s)
    BY <1>1, <1>3
  <2> QED
    BY <2>1, <1>4, <1>5 DEF Inserted
<1> QED
  BY <1>1, <1>6 DEF t

(* An array is its two halves.                                             *)
LEMMA HalvesAreJoined ==
  ASSUME NEW S, NEW s \in Seq(S), NEW m \in 0..Len(s)
  PROVE  /\ Joined(SubSeq(s, 1, m), SubSeq(s, m + 1, Len(s)), s)
         /\ SubSeq(s, 1, m) \in Seq(S) /\ SubSeq(s, m + 1, Len(s)) \in Seq(S)
         /\ Len(SubSeq(s, 1, m)) = m /\ Len(SubSeq(s, m + 1, Len(s))) = Len(s) - m
<1>1. /\ Len(s) \in Nat /\ m \in Nat /\ 1 \in 1..(Len(s) + 1) /\ m \in (1 - 1)..Len(s)
      /\ m + 1 \in 1..(Len(s) + 1) /\ Len(s) \in ((m + 1) - 1)..Len(s)
      /\ m - 1 + 1 = m /\ Len(s) - (m + 1) + 1 = Len(s) - m
  OBVIOUS
<1> DEFINE l == SubSeq(s, 1, m)
           u == SubSeq(s, m + 1, Len(s))
<1>2. /\ l \in Seq(S) /\ Len(l) = m
      /\ \A j \in 1..(m - 1 + 1) : l[j] = s[1 + j - 1]
  BY <1>1, SubSeqElements
<1>3. /\ u \in Seq(S) /\ Len(u) = Len(s) - m
      /\ \A j \in 1..(Len(s) - (m + 1) + 1) : u[j] = s[(m + 1) + j - 1]
  <2> DEFINE x == m + 1
  <2>1. x \in 1..(Len(s) + 1) /\ Len(s) \in (x - 1)..Len(s) /\ Len(s) - x + 1 = Len(s) - m
    BY <1>1
  <2>2. u = SubSeq(s, x, Len(s))
    OBVIOUS
  <2> HIDE DEF x, u
  <2>3. /\ u \in Seq(S) /\ Len(u) = Len(s) - x + 1
        /\ \A j \in 1..(Len(s) - x + 1) : u[j] = s[x + j - 1]
    BY <2>1, <2>2, SubSeqElements
  <2> QED
    BY <2>1, <2>3 DEF x
<1> HIDE DEF l, u
<1>4. ASSUME NEW j \in 1..Len(l)
      PROVE  s[j] = l[j]
  <2>1. j \in 1..(m - 1 + 1) /\ 1 + j - 1 = j
    BY <1>1, <1>2
  <2> QED
    BY <1>2, <2>1
<1>5. ASSUME NEW j \in 1..Len(u)
      PROVE  s[Len(l) + j] = u[j]
  <2>1. j \in 1..(Len(s) - (m + 1) + 1) /\ (m + 1) + j - 1 = Len(l) + j
    BY <1>1, <1>2, <1>3
  <2> QED
    BY <1>3, <2>1
<1>6. Joined(l, u, s)
  BY <1>1, <1>2, <1>3, <1>4, <1>5 DEF Joined
<1> QED
  BY <1>2, <1>3, <1>6 DEF l, u

-----------------------------------------------------------------------------
(*                         Neighbours in the chain                         *)

LEMMA LeafLinks ==
  ASSUME NEW h, NEW L, NEW R, Chain(h, L, R), NULL \notin L, NEW l \in L, h[l].isLeaf
  PROVE  /\ h[l].next # l /\ h[l].prev # l
         /\ h[l].next # NULL => /\ h[l].next \in L /\ h[h[l].next].isLeaf
                                /\ h[h[l].next].prev = l
         /\ h[l].prev # NULL => /\ h[l].prev \in L /\ h[h[l].prev].isLeaf
                                /\ h[h[l].prev].next = l
<1>1. l \in LeafSet(h, L) /\ \A m \in LeafSet(h, L) : m \in L /\ h[m].isLeaf /\ m # NULL
  BY DEF LeafSet
<1>2. ~Meets(R[l], R[l])
  BY DEF Meets
<1>3. /\ h[l].next \in LeafSet(h, L) \union {NULL} /\ h[l].prev \in LeafSet(h, L) \union {NULL}
      /\ \A m \in LeafSet(h, L) : /\ h[l].next = m <=> Meets(R[l], R[m])
                                  /\ h[m].prev = l <=> Meets(R[l], R[m])
                                  /\ h[m].next = l <=> Meets(R[m], R[l])
                                  /\ h[l].prev = m <=> Meets(R[m], R[l])
  BY <1>1 DEF Chain
<1> HIDE DEF LeafSet
<1> QED
  BY <1>1, <1>2, <1>3

(* Where the left neighbour of a waiting node hangs.                       *)
LEMMA ParentOfLeft ==
  ASSUME NEW h, NEW L, NEW r, NEW H, NEW R, NEW a, NEW k, NEW b, IsForest(h, L, r, H, R, a, k, b)
  PROVE  IF h[a].parent = NULL THEN a = r
         ELSE /\ h[a].parent \in L /\ h[a].parent # a /\ h[a].parent # b
              /\ ~h[h[a].parent].isLeaf
              /\ PositionOf(h[h[a].parent].pointers, a) \in 1..Len(h[h[a].parent].pointers)
              /\ h[h[a].parent].pointers[PositionOf(h[h[a].parent].pointers, a)] = a
<1> DEFINE W == Covered(R, a, b)
           p == h[a].parent
<1>1. /\ IsHeap(h, L, r, H, R, W, {b}) /\ Attached(h, L, r, W, {b}) /\ NodeTypes(h, L)
      /\ ChildrenOK(h, L, H, R, W, {b}) /\ H \in [L -> Nat]
  BY DEF IsForest, IsHeap, Levels
<1>2. a \in L /\ b \in L /\ a # b /\ H[a] = H[b]
  BY DEF IsForest, IsPair
<1>3. CASE a = r
  BY <1>1, <1>3 DEF Attached
<1>4. CASE a # r
  <2>1. HangsIn(h, L, a, p)
    BY <1>1, <1>2, <1>4 DEF Attached
  <2>2. p \in L /\ ~h[p].isLeaf
    BY <2>1 DEF HangsIn
  <2>3. PICK i \in 1..Len(h[p].pointers) : h[p].pointers[i] = a
    BY <2>1 DEF HangsIn
  <2>4. PositionOf(h[p].pointers, a) = i
    BY <1>1, <2>2, <2>3, ChildPosition
  <2>5. p # NULL
    BY <1>1, <2>2, NodeFields
  <2>6. H[p] = H[a] + 1
    BY <1>1, <2>2, <2>3 DEF ChildrenOK, IsChild
  <2>7. p # a /\ p # b
    BY <1>1, <1>2, <2>2, <2>6
  <2> HIDE DEF p
  <2> QED
    BY <2>2, <2>3, <2>4, <2>5, <2>7 DEF p
<1> QED
  BY <1>3, <1>4

(* An array is the element behind its first m and what is on both sides.   *)
LEMMA SidesAreJoined ==
  ASSUME NEW S, NEW s \in Seq(S), NEW m \in Nat, m < Len(s)
  PROVE  /\ JoinedBy(SubSeq(s, 1, m), s[m + 1], SubSeq(s, m + 2, Len(s)), s)
         /\ SubSeq(s, 1, m) \in Seq(S) /\ SubSeq(s, m + 2, Len(s)) \in Seq(S)
         /\ Len(SubSeq(s, 1, m)) = m /\ Len(SubSeq(s, m + 2, Len(s))) = Len(s) - m - 1
<1>1. /\ Len(s) \in Nat /\ m \in Nat /\ 1 \in 1..(Len(s) + 1) /\ m \in (1 - 1)..Len(s)
      /\ m + 2 \in 1..(Len(s) + 1) /\ Len(s) \in ((m + 2) - 1)..Len(s)
      /\ m - 1 + 1 = m /\ Len(s) - (m + 2) + 1 = Len(s) - m - 1
  OBVIOUS
<1> DEFINE l == SubSeq(s, 1, m)
           u == SubSeq(s, m + 2, Len(s))
<1>2. /\ l \in Seq(S) /\ Len(l) = m
      /\ \A j \in 1..(m - 1 + 1) : l[j] = s[1 + j - 1]
  BY <1>1, SubSeqElements
<1>3. /\ u \in Seq(S) /\ Len(u) = Len(s) - m - 1
      /\ \A j \in 1..(Len(s) - (m + 2) + 1) : u[j] = s[(m + 2) + j - 1]
  <2> DEFINE x == m + 2
  <2>1. x \in 1..(Len(s) + 1) /\ Len(s) \in (x - 1)..Len(s) /\ Len(s) - x + 1 = Len(s) - m - 1
    BY <1>1
  <2>2. u = SubSeq(s, x, Len(s))
    OBVIOUS
  <2> HIDE DEF x, u
  <2>3. /\ u \in Seq(S) /\ Len(u) = Len(s) - x + 1
        /\ \A j \in 1..(Len(s) - x + 1) : u[j] = s[x + j - 1]
    BY <2>1, <2>2, SubSeqElements
  <2> QED
    BY <2>1, <2>3 DEF x
<1> HIDE DEF l, u
<1>4. ASSUME NEW j \in 1..Len(l)
      PROVE  s[j] = l[j]
  <2>1. j \in 1..(m - 1 + 1) /\ 1 + j - 1 = j
    BY <1>1, <1>2
  <2> QED
    BY <1>2, <2>1
<1>5. ASSUME NEW j \in 1..Len(u)
      PROVE  s[Len(l) + 1 + j] = u[j]
  <2>1. j \in 1..(Len(s) - (m + 2) + 1) /\ (m + 2) + j - 1 = Len(l) + 1 + j
    BY <1>1, <1>2, <1>3
  <2> QED
    BY <1>3, <2>1
<1>6. JoinedBy(l, s[m + 1], u, s)
  <2>1. Len(s) = Len(l) + 1 + Len(u) /\ Len(l) + 1 = m + 1
    BY <1>1, <1>2, <1>3
  <2> QED
    BY <1>4, <1>5, <2>1 DEF JoinedBy
<1> QED
  BY <1>2, <1>3, <1>6 DEF l, u

LEMMA ConcatJoined ==
  ASSUME NEW S, NEW s \in Seq(S), NEW u \in Seq(S)
  PROVE  Joined(s, u, s \o u) /\ s \o u \in Seq(S)
  BY DEF Joined

LEMMA ConcatJoinedBy ==
  ASSUME NEW S, NEW s \in Seq(S), NEW e \in S, NEW u \in Seq(S)
  PROVE  JoinedBy(s, e, u, s \o <<e>> \o u) /\ s \o <<e>> \o u \in Seq(S)
<1> DEFINE t == s \o <<e>> \o u
<1>1. t \in Seq(S) /\ Len(t) = Len(s) + 1 + Len(u) /\ Len(s) \in Nat /\ Len(u) \in Nat
  OBVIOUS
<1>2. \A i \in 1..Len(s) : t[i] = s[i]
  OBVIOUS
<1>3. t[Len(s) + 1] = e
  OBVIOUS
<1>4. \A i \in 1..Len(u) : t[Len(s) + 1 + i] = u[i]
  OBVIOUS
<1> HIDE DEF t
<1>5. JoinedBy(s, e, u, t)
  BY <1>1, <1>2, <1>3, <1>4 DEF JoinedBy
<1> QED
  BY <1>1, <1>5 DEF t

-----------------------------------------------------------------------------
(*            An element moves between two neighbouring arrays             *)

(* What an array is after it got an element in front or behind, or lost    *)
(* its first.                                                              *)
LEMMA EnlargedElements ==
  ASSUME NEW S, NEW s \in Seq(S), NEW e \in S
  PROVE  /\ <<e>> \o s \in Seq(S) /\ Append(s, e) \in Seq(S)
         /\ Len(<<e>> \o s) = Len(s) + 1 /\ Len(Append(s, e)) = Len(s) + 1
         /\ (<<e>> \o s)[1] = e /\ Append(s, e)[Len(s) + 1] = e
         /\ \A i \in 1..Len(s) : (<<e>> \o s)[i + 1] = s[i] /\ Append(s, e)[i] = s[i]
OBVIOUS

LEMMA TailElements ==
  ASSUME NEW S, NEW s \in Seq(S), s # <<>>
  PROVE  /\ Tail(s) \in Seq(S) /\ Head(s) \in S /\ Head(s) = s[1]
         /\ Len(Tail(s)) = Len(s) - 1 /\ Len(s) >= 1
         /\ \A i \in 1..(Len(s) - 1) : Tail(s)[i] = s[i + 1]
OBVIOUS

LEMMA LastMoves ==
  ASSUME NEW S, NEW s \in Seq(S), NEW u \in Seq(S), NEW t \in Seq(S), Joined(s, u, t), s # <<>>
  PROVE  Joined(Front(s), <<Last(s)>> \o u, t)
<1> DEFINE f == Front(s)
           w == <<Last(s)>> \o u
<1>1. /\ Len(s) \in Nat /\ Len(u) \in Nat /\ Len(s) >= 1
      /\ Last(s) = s[Len(s)] /\ Last(s) \in S
  BY DEF Last
<1>2. /\ Len(f) = Len(s) - 1
      /\ \A i \in 1..(Len(s) - 1) : f[i] = s[i]
  BY FrontElements
<1>3. /\ Len(w) = Len(u) + 1 /\ w[1] = s[Len(s)]
      /\ \A i \in 1..Len(u) : w[i + 1] = u[i]
  BY <1>1, EnlargedElements
<1>4. /\ Len(t) = Len(s) + Len(u)
      /\ \A i \in 1..Len(s) : t[i] = s[i]
      /\ \A i \in 1..Len(u) : t[Len(s) + i] = u[i]
  BY DEF Joined
<1> HIDE DEF f, w
<1>5. Len(t) = Len(f) + Len(w)
  BY <1>1, <1>2, <1>3, <1>4
<1>6. ASSUME NEW i \in 1..Len(f)
      PROVE  t[i] = f[i]
  <2>1. i \in 1..(Len(s) - 1) /\ i \in 1..Len(s)
    BY <1>1, <1>2
  <2> QED
    BY <1>2, <1>4, <2>1
<1>7. ASSUME NEW i \in 1..Len(w)
      PROVE  t[Len(f) + i] = w[i]
  <2>1. CASE i = 1
    <3>1. Len(f) + i = Len(s) /\ Len(s) \in 1..Len(s)
      BY <1>1, <1>2, <2>1
    <3> QED
      BY <1>3, <1>4, <2>1, <3>1
  <2>2. CASE i # 1
    <3>1. i - 1 \in 1..Len(u) /\ (i - 1) + 1 = i /\ Len(f) + i = Len(s) + (i - 1)
      BY <1>1, <1>2, <1>3, <2>2
    <3> QED
      <4>1. t[Len(s) + (i - 1)] = u[i - 1]
        BY <1>4, <3>1, Zenon
      <4>2. w[(i - 1) + 1] = u[i - 1]
        BY <1>3, <3>1, Zenon
      <4> QED
        BY <3>1, <4>1, <4>2, Zenon
  <2> QED
    BY <2>1, <2>2
<1>8. Joined(f, w, t)
  BY <1>5, <1>6, <1>7 DEF Joined
<1> QED
  BY <1>8 DEF f, w

LEMMA FirstMoves ==
  ASSUME NEW S, NEW s \in Seq(S), NEW u \in Seq(S), NEW t \in Seq(S), Joined(s, u, t), u # <<>>
  PROVE  Joined(Append(s, Head(u)), Tail(u), t)
<1> DEFINE f == Append(s, Head(u))
           w == Tail(u)
<1>1. /\ Len(s) \in Nat /\ Len(u) \in Nat /\ Len(u) >= 1 /\ Head(u) = u[1] /\ Head(u) \in S
  BY TailElements
<1>2. /\ Len(f) = Len(s) + 1 /\ f[Len(s) + 1] = u[1]
      /\ \A i \in 1..Len(s) : f[i] = s[i]
  BY <1>1, EnlargedElements
<1>3. /\ Len(w) = Len(u) - 1
      /\ \A i \in 1..(Len(u) - 1) : w[i] = u[i + 1]
  BY TailElements
<1>4. /\ Len(t) = Len(s) + Len(u)
      /\ \A i \in 1..Len(s) : t[i] = s[i]
      /\ \A i \in 1..Len(u) : t[Len(s) + i] = u[i]
  BY DEF Joined
<1> HIDE DEF f, w
<1>5. Len(t) = Len(f) + Len(w)
  BY <1>1, <1>2, <1>3, <1>4
<1>6. ASSUME NEW i \in 1..Len(f)
      PROVE  t[i] = f[i]
  <2>1. CASE i = Len(s) + 1
    <3>1. 1 \in 1..Len(u)
      BY <1>1
    <3> QED
      BY <1>2, <1>4, <2>1, <3>1
  <2>2. CASE i # Len(s) + 1
    <3>1. i \in 1..Len(s)
      BY <1>1, <1>2, <2>2
    <3> QED
      BY <1>2, <1>4, <3>1
  <2> QED
    BY <2>1, <2>2
<1>7. ASSUME NEW i \in 1..Len(w)
      PROVE  t[Len(f) + i] = w[i]
  <2>1. i \in 1..(Len(u) - 1) /\ i + 1 \in 1..Len(u) /\ Len(f) + i = Len(s) + (i + 1)
    BY <1>1, <1>2, <1>3
  <2> QED
    BY <1>3, <1>4, <2>1
<1>8. Joined(f, w, t)
  BY <1>5, <1>6, <1>7 DEF Joined
<1> QED
  BY <1>8 DEF f, w

(* With a separator between the two arrays the element becomes the new     *)
(* separator and the old one moves.                                        *)
LEMMA LastMovesUp ==
  ASSUME NEW S, NEW s \in Seq(S), NEW k \in S, NEW u \in Seq(S), NEW t \in Seq(S),
         JoinedBy(s, k, u, t), s # <<>>
  PROVE  JoinedBy(Front(s), Last(s), <<k>> \o u, t)
<1> DEFINE f == Front(s)
           w == <<k>> \o u
           e == Last(s)
<1>1. Len(s) \in Nat /\ Len(u) \in Nat /\ Len(s) >= 1 /\ e = s[Len(s)]
  BY DEF Last
<1>2. /\ Len(f) = Len(s) - 1
      /\ \A i \in 1..(Len(s) - 1) : f[i] = s[i]
  BY FrontElements
<1>3. /\ Len(w) = Len(u) + 1 /\ w[1] = k
      /\ \A i \in 1..Len(u) : w[i + 1] = u[i]
  BY <1>1, EnlargedElements
<1>4. /\ Len(t) = Len(s) + 1 + Len(u)
      /\ \A i \in 1..Len(s) : t[i] = s[i]
      /\ t[Len(s) + 1] = k
      /\ \A i \in 1..Len(u) : t[Len(s) + 1 + i] = u[i]
  BY DEF JoinedBy
<1> HIDE DEF f, w, e
<1>5. Len(t) = Len(f) + 1 + Len(w)
  BY <1>1, <1>2, <1>3, <1>4
<1>6. ASSUME NEW i \in 1..Len(f)
      PROVE  t[i] = f[i]
  <2>1. i \in 1..(Len(s) - 1) /\ i \in 1..Len(s)
    BY <1>1, <1>2
  <2> QED
    BY <1>2, <1>4, <2>1
<1>7. t[Len(f) + 1] = e
  <2>1. Len(f) + 1 = Len(s) /\ Len(s) \in 1..Len(s)
    BY <1>1, <1>2
  <2> QED
    BY <1>1, <1>4, <2>1
<1>8. ASSUME NEW i \in 1..Len(w)
      PROVE  t[Len(f) + 1 + i] = w[i]
  <2>1. CASE i = 1
    <3>1. Len(f) + 1 + i = Len(s) + 1
      BY <1>1, <1>2, <2>1
    <3> QED
      BY <1>3, <1>4, <2>1, <3>1
  <2>2. CASE i # 1
    <3>1. i - 1 \in 1..Len(u) /\ (i - 1) + 1 = i /\ Len(f) + 1 + i = Len(s) + 1 + (i - 1)
      BY <1>1, <1>2, <1>3, <2>2
    <3> QED
      <4>1. t[Len(s) + 1 + (i - 1)] = u[i - 1]
        BY <1>4, <3>1, Zenon
      <4>2. w[(i - 1) + 1] = u[i - 1]
        BY <1>3, <3>1, Zenon
      <4> QED
        BY <3>1, <4>1, <4>2, Zenon
  <2> QED
    BY <2>1, <2>2
<1>9. JoinedBy(f, e, w, t)
  BY <1>5, <1>6, <1>7, <1>8 DEF JoinedBy
<1> QED
  BY <1>9 DEF f, w, e

LEMMA FirstMovesUp ==
  ASSUME NEW S, NEW s \in Seq(S), NEW k \in S, NEW u \in Seq(S), NEW t \in Seq(S),
         JoinedBy(s, k, u, t), u # <<>>
  PROVE  JoinedBy(Append(s, k), Head(u), Tail(u), t)
<1> DEFINE f == Append(s, k)
           w == Tail(u)
           e == Head(u)
<1>1. Len(s) \in Nat /\ Len(u) \in Nat /\ Len(u) >= 1 /\ e = u[1]
  BY TailElements
<1>2. /\ Len(f) = Len(s) + 1 /\ f[Len(s) + 1] = k
      /\ \A i \in 1..Len(s) : f[i] = s[i]
  BY <1>1, EnlargedElements
<1>3. /\ Len(w) = Len(u) - 1
      /\ \A i \in 1..(Len(u) - 1) : w[i] = u[i + 1]
  BY TailElements
<1>4. /\ Len(t) = Len(s) + 1 + Len(u)
      /\ \A i \in 1..Len(s) : t[i] = s[i]
      /\ t[Len(s) + 1] = k
      /\ \A i \in 1..Len(u) : t[Len(s) + 1 + i] = u[i]
  BY DEF JoinedBy
<1> HIDE DEF f, w, e
<1>5. Len(t) = Len(f) + 1 + Len(w)
  BY <1>1, <1>2, <1>3, <1>4
<1>6. ASSUME NEW i \in 1..Len(f)
      PROVE  t[i] = f[i]
  <2>1. i = Len(s) + 1 \/ i \in 1..Len(s)
    BY <1>1, <1>2
  <2> QED
    BY <1>2, <1>4, <2>1
<1>7. t[Len(f) + 1] = e
  <2>1. Len(f) + 1 = Len(s) + 1 + 1 /\ 1 \in 1..Len(u)
    BY <1>1, <1>2
  <2> QED
    BY <1>1, <1>4, <2>1
<1>8. ASSUME NEW i \in 1..Len(w)
      PROVE  t[Len(f) + 1 + i] = w[i]
  <2>1. /\ i \in 1..(Len(u) - 1) /\ i + 1 \in 1..Len(u)
        /\ Len(f) + 1 + i = Len(s) + 1 + (i + 1)
    BY <1>1, <1>2, <1>3
  <2> QED
    BY <1>3, <1>4, <2>1
<1>9. JoinedBy(f, e, w, t)
  BY <1>5, <1>6, <1>7, <1>8 DEF JoinedBy
<1> QED
  BY <1>9 DEF f, w, e

(* Two arrays make one array only.                                         *)
LEMMA JoinedOnce ==
  ASSUME NEW S, NEW s \in Seq(S), NEW u \in Seq(S), NEW t \in Seq(S), NEW w \in Seq(S),
         Joined(s, u, t), Joined(s, u, w)
  PROVE  t = w
<1>1. Len(t) = Len(w)
  BY DEF Joined
<1>2. ASSUME NEW i \in 1..Len(t)
      PROVE  t[i] = w[i]
  <2>1. i \in 1..Len(s) \/ (i - Len(s) \in 1..Len(u) /\ Len(s) + (i - Len(s)) = i)
    BY DEF Joined
  <2> QED
    BY <2>1 DEF Joined
<1> QED
  BY <1>1, <1>2, SeqEqual

-----------------------------------------------------------------------------
(*                       The entries of the leaves                         *)

(* Key v with list x in an array of keys and one of lists.                 *)
ArrayHas(keys, pointers, v, x) == \E i \in 1..Len(keys) : keys[i] = v /\ pointers[i] = x

(* The same in a leaf. *)
HasEntry(h, L, v, x) == \E l \in LeafSet(h, L) : ArrayHas(h[l].keys, h[l].pointers, v, x)

SameEntries(g, M, h, L) == \A v, x : HasEntry(g, M, v, x) <=> HasEntry(h, L, v, x)

LEMMA SameLeafContents ==
  ASSUME NEW h, NEW L, NEW g, NEW M, LeafSet(g, M) = LeafSet(h, L),
         \A l \in LeafSet(h, L) : g[l].keys = h[l].keys /\ g[l].pointers = h[l].pointers
  PROVE  SameEntries(g, M, h, L)
<1> SUFFICES ASSUME NEW v, NEW x
             PROVE  HasEntry(g, M, v, x) <=> HasEntry(h, L, v, x)
  BY DEF SameEntries
<1>1. \A l \in LeafSet(h, L) : ArrayHas(g[l].keys, g[l].pointers, v, x)
                                <=> ArrayHas(h[l].keys, h[l].pointers, v, x)
  BY Zenon DEF ArrayHas
<1> QED
  BY <1>1, Zenon DEF HasEntry

LEMMA SameEntriesAgain ==
  ASSUME NEW f, NEW K, NEW g, NEW M, NEW h, NEW L,
         SameEntries(f, K, g, M), SameEntries(g, M, h, L)
  PROVE  SameEntries(f, K, h, L)
BY Zenon DEF SameEntries

(* A change in an inner node does not matter. *)
LEMMA InnerNodeChanged ==
  ASSUME NEW h, NEW L, NEW g, NEW p, ~g[p].isLeaf, ~h[p].isLeaf,
         \A n \in L \ {p} : g[n] = h[n]
  PROVE  SameEntries(g, L, h, L)
<1>1. LeafSet(g, L) = LeafSet(h, L) /\ p \notin LeafSet(h, L)
  BY DEF LeafSet
<1>2. \A l \in LeafSet(h, L) : l \in L \ {p}
  BY <1>1 DEF LeafSet
<1> QED
  BY <1>1, <1>2, SameLeafContents

LEMMA HungEntries ==
  ASSUME NEW loose, NEW hung, NEW L, NEW p, NEW j, NEW a, NEW k, NEW b,
         Hung(loose, hung, L, p, j, a, k, b)
  PROVE  SameEntries(loose, L, hung, L)
<1>1. ~loose[p].isLeaf /\ ~hung[p].isLeaf
  BY DEF Hung, InnerRecord
<1>2. \A n \in L \ {p} : loose[n] = hung[n]
  BY DEF Hung
<1> QED
  BY <1>1, <1>2, InnerNodeChanged

(* Joined arrays have the entries of both. *)
JoinedLists(s, ps, u, pu, t, pt) ==
  /\ s \in Seq(Int) /\ u \in Seq(Int) /\ t \in Seq(Int) /\ Joined(s, u, t)
  /\ ps \in Seq(Seq(Time)) /\ pu \in Seq(Seq(Time)) /\ pt \in Seq(Seq(Time))
  /\ Joined(ps, pu, pt) /\ Len(ps) = Len(s) /\ Len(pt) = Len(t)

LEMMA JoinedHas ==
  ASSUME NEW s, NEW ps, NEW u, NEW pu, NEW t, NEW pt, JoinedLists(s, ps, u, pu, t, pt),
         NEW v, NEW x
  PROVE  ArrayHas(t, pt, v, x) <=> ArrayHas(s, ps, v, x) \/ ArrayHas(u, pu, v, x)
<1>0. /\ s \in Seq(Int) /\ u \in Seq(Int) /\ t \in Seq(Int) /\ Joined(s, u, t)
      /\ ps \in Seq(Seq(Time)) /\ pu \in Seq(Seq(Time)) /\ pt \in Seq(Seq(Time))
      /\ Joined(ps, pu, pt) /\ Len(ps) = Len(s) /\ Len(pt) = Len(t)
  BY DEF JoinedLists
<1>1. /\ Len(t) = Len(s) + Len(u) /\ Len(s) \in Nat /\ Len(u) \in Nat /\ Len(pu) \in Nat
      /\ Len(pt) = Len(ps) + Len(pu)
  BY <1>0 DEF Joined
<1>2. Len(pu) = Len(u)
  BY <1>0, <1>1
<1>3. ASSUME NEW i \in 1..Len(s)
      PROVE  i \in 1..Len(t) /\ t[i] = s[i] /\ pt[i] = ps[i]
  BY <1>0, <1>1 DEF Joined
<1>4. ASSUME NEW i \in 1..Len(u)
      PROVE  Len(s) + i \in 1..Len(t) /\ t[Len(s) + i] = u[i] /\ pt[Len(s) + i] = pu[i]
  <2>1. Len(s) + i \in 1..Len(t)
    BY <1>1
  <2>2. t[Len(s) + i] = u[i]
    BY <1>0 DEF Joined
  <2>3. pt[Len(ps) + i] = pu[i]
    BY <1>0, <1>2 DEF Joined
  <2> QED
    BY <1>0, <2>1, <2>2, <2>3
<1>5. ASSUME NEW i \in 1..Len(t), i \notin 1..Len(s)
      PROVE  i - Len(s) \in 1..Len(u) /\ Len(s) + (i - Len(s)) = i
  BY <1>1, <1>5
<1>6. ArrayHas(t, pt, v, x) => ArrayHas(s, ps, v, x) \/ ArrayHas(u, pu, v, x)
  <2> SUFFICES ASSUME NEW i \in 1..Len(t), t[i] = v, pt[i] = x
               PROVE  ArrayHas(s, ps, v, x) \/ ArrayHas(u, pu, v, x)
    BY DEF ArrayHas
  <2>1. CASE i \in 1..Len(s)
    BY <1>3, <2>1 DEF ArrayHas
  <2>2. CASE i \notin 1..Len(s)
    <3>1. i - Len(s) \in 1..Len(u) /\ u[i - Len(s)] = v /\ pu[i - Len(s)] = x
      BY <1>4, <1>5, <2>2
    <3> QED
      BY <3>1 DEF ArrayHas
  <2> QED
    BY <2>1, <2>2
<1>7. ArrayHas(s, ps, v, x) => ArrayHas(t, pt, v, x)
  BY <1>3 DEF ArrayHas
<1>8. ArrayHas(u, pu, v, x) => ArrayHas(t, pt, v, x)
  BY <1>4 DEF ArrayHas
<1> QED
  BY <1>6, <1>7, <1>8

(* Dividing a leaf moves its entries only. *)
LEMMA DividedEntries ==
  ASSUME NEW big, NEW two, NEW L, NEW a, NEW b, LeafDivided(big, two, L, a, b),
         Len(big[a].pointers) = Len(big[a].keys)
  PROVE  SameEntries(two, L, big, L \ {b})
<1>1. /\ a \in L \ {b} /\ b \in L /\ NodeTypes(big, L \ {b}) /\ NodeTypes(two, L)
      /\ big[a].isLeaf /\ two[a].isLeaf /\ two[b].isLeaf
      /\ Joined(two[a].keys, two[b].keys, big[a].keys)
      /\ Joined(two[a].pointers, two[b].pointers, big[a].pointers)
      /\ Len(two[a].pointers) = Len(two[a].keys)
      /\ \A n \in L \ {a, b} :
           /\ two[n].isLeaf = big[n].isLeaf
           /\ two[n].keys = big[n].keys /\ two[n].pointers = big[n].pointers
  BY DEF LeafDivided
<1>2. /\ two[a].keys \in Seq(Int) /\ two[b].keys \in Seq(Int) /\ big[a].keys \in Seq(Int)
      /\ two[a].pointers \in Seq(Seq(Time)) /\ two[b].pointers \in Seq(Seq(Time))
      /\ big[a].pointers \in Seq(Seq(Time))
  BY <1>1, NodeFields
<1> SUFFICES ASSUME NEW v, NEW x
             PROVE  HasEntry(two, L, v, x) <=> HasEntry(big, L \ {b}, v, x)
  BY DEF SameEntries
<1>3. ArrayHas(big[a].keys, big[a].pointers, v, x)
        <=> \/ ArrayHas(two[a].keys, two[a].pointers, v, x)
            \/ ArrayHas(two[b].keys, two[b].pointers, v, x)
  <2>1. JoinedLists(two[a].keys, two[a].pointers, two[b].keys, two[b].pointers,
                    big[a].keys, big[a].pointers)
    BY <1>1, <1>2 DEF JoinedLists
  <2> QED
    BY <2>1, JoinedHas
<1>4. /\ a \in LeafSet(two, L) /\ b \in LeafSet(two, L) /\ a \in LeafSet(big, L \ {b})
      /\ \A n \in L \ {a, b} : n \in LeafSet(two, L) <=> n \in LeafSet(big, L \ {b})
  BY <1>1 DEF LeafSet
<1>5. \A n \in L \ {a, b} : ArrayHas(two[n].keys, two[n].pointers, v, x)
                             <=> ArrayHas(big[n].keys, big[n].pointers, v, x)
  BY <1>1, Zenon DEF ArrayHas
<1>6. LeafSet(two, L) \subseteq L /\ LeafSet(big, L \ {b}) \subseteq L \ {b}
  BY DEF LeafSet
<1> QED
  BY <1>3, <1>4, <1>5, <1>6, Zenon DEF HasEntry

(* t and pt are s and ps with k and e at position j. *)
InsertedLists(s, ps, t, pt, j, k, e) ==
  /\ s \in Seq(Int) /\ Len(ps) = Len(s)
  /\ j \in Nat /\ Inserted(s, t, j, k) /\ Inserted(ps, pt, j, e)

LEMMA InsertedHas ==
  ASSUME NEW s, NEW ps, NEW t, NEW pt, NEW j, NEW k, NEW e,
         InsertedLists(s, ps, t, pt, j, k, e), NEW v, NEW x
  PROVE  ArrayHas(t, pt, v, x) <=> ArrayHas(s, ps, v, x) \/ (v = k /\ x = e)
<1>1. /\ Len(s) \in Nat /\ j \in 1..(Len(s) + 1) /\ Len(t) = Len(s) + 1
      /\ t[j] = k /\ pt[j] = e
      /\ \A i \in 1..(j - 1) : t[i] = s[i] /\ pt[i] = ps[i]
      /\ \A i \in j..Len(s) : t[i + 1] = s[i] /\ pt[i + 1] = ps[i]
  BY DEF InsertedLists, Inserted
<1>2. ASSUME NEW i \in 1..Len(t), t[i] = v, pt[i] = x
      PROVE  ArrayHas(s, ps, v, x) \/ (v = k /\ x = e)
  <2>1. CASE i = j
    BY <1>1, <1>2, <2>1
  <2>2. CASE i < j
    <3>1. i \in 1..(j - 1) /\ i \in 1..Len(s)
      BY <1>1, <2>2
    <3> QED
      BY <1>1, <1>2, <3>1 DEF ArrayHas
  <2>3. CASE i > j
    <3>1. i - 1 \in j..Len(s) /\ i - 1 \in 1..Len(s) /\ (i - 1) + 1 = i
      BY <1>1, <2>3
    <3>2. s[i - 1] = v /\ ps[i - 1] = x
      BY <1>1, <1>2, <3>1
    <3> QED
      BY <3>1, <3>2 DEF ArrayHas
  <2> QED
    BY <1>1, <2>1, <2>2, <2>3
<1>3. ASSUME NEW i \in 1..Len(s), s[i] = v, ps[i] = x
      PROVE  ArrayHas(t, pt, v, x)
  <2>1. CASE i < j
    <3>1. i \in 1..(j - 1) /\ i \in 1..Len(t)
      BY <1>1, <2>1
    <3> QED
      BY <1>1, <1>3, <3>1 DEF ArrayHas
  <2>2. CASE ~(i < j)
    <3>1. i \in j..Len(s) /\ i + 1 \in 1..Len(t)
      BY <1>1, <2>2
    <3> QED
      BY <1>1, <1>3, <3>1 DEF ArrayHas
  <2> QED
    BY <2>1, <2>2
<1>4. ASSUME v = k, x = e
      PROVE  ArrayHas(t, pt, v, x)
  BY <1>1, <1>4 DEF ArrayHas
<1> QED
  BY <1>2, <1>3, <1>4 DEF ArrayHas

(* The leaves M of g have the entries of the leaves L of h and one more.   *)
OneEntryMore(g, M, h, L, k, e) ==
  \A v, x : HasEntry(g, M, v, x) <=> HasEntry(h, L, v, x) \/ (v = k /\ x = e)

NoEntry(h, L, k) == \A x : ~HasEntry(h, L, k, x)

LEMMA LeafGainsEntry ==
  ASSUME NEW h, NEW g, NEW L, NEW leaf \in L, h[leaf].isLeaf, g[leaf].isLeaf,
         NEW j, NEW k, NEW e,
         InsertedLists(h[leaf].keys, h[leaf].pointers, g[leaf].keys, g[leaf].pointers, j, k, e),
         \A n \in L \ {leaf} : g[n] = h[n]
  PROVE  OneEntryMore(g, L, h, L, k, e)
<1> SUFFICES ASSUME NEW v, NEW x
             PROVE  HasEntry(g, L, v, x) <=> HasEntry(h, L, v, x) \/ (v = k /\ x = e)
  BY DEF OneEntryMore
<1>1. ArrayHas(g[leaf].keys, g[leaf].pointers, v, x)
        <=> ArrayHas(h[leaf].keys, h[leaf].pointers, v, x) \/ (v = k /\ x = e)
  BY InsertedHas
<1>2. \A n \in L \ {leaf} : /\ n \in LeafSet(g, L) <=> n \in LeafSet(h, L)
                            /\ ArrayHas(g[n].keys, g[n].pointers, v, x)
                                 <=> ArrayHas(h[n].keys, h[n].pointers, v, x)
  BY Zenon DEF LeafSet
<1>3. leaf \in LeafSet(g, L) /\ leaf \in LeafSet(h, L)
  BY DEF LeafSet
<1>4. LeafSet(g, L) \subseteq L /\ LeafSet(h, L) \subseteq L
  BY DEF LeafSet
<1> QED
  BY <1>1, <1>2, <1>3, <1>4, Zenon DEF HasEntry

(* A key is in one leaf and once there. *)
LEMMA OneEntryOnly ==
  ASSUME NEW h, NEW L, NEW r, NEW H, NEW R, IsTree(h, L, r, H, R),
         NEW l \in L, h[l].isLeaf, NEW i \in 1..Len(h[l].keys),
         NEW m \in L, h[m].isLeaf, NEW j \in 1..Len(h[m].keys),
         h[l].keys[i] = h[m].keys[j]
  PROVE  l = m /\ i = j
<1>1. /\ LeafKeys(h, R, l) /\ LeafKeys(h, R, m) /\ Ascending(h[l].keys)
      /\ H[l] = 0 /\ H[m] = 0
  BY DEF IsTree, IsHeap, KeysInRange, Levels
<1>2. h[l].keys[i] \in R[l] /\ h[m].keys[j] \in R[m]
  BY <1>1 DEF LeafKeys
<1>3. l = m
  <2>1. H[l] = H[m] /\ l # m => R[l] \cap R[m] = {}
    BY DEF IsTree, IsHeap, Intervals
  <2> QED
    BY <1>1, <1>2, <2>1
<1>4. h[l].keys \in Seq(Int)
  <2>1. NodeTypes(h, L)
    BY DEF IsTree, IsHeap
  <2> QED
    BY <2>1, NodeFields
<1>5. i = j
  BY <1>1, <1>3, <1>4 DEF Ascending
<1> QED
  BY <1>3, <1>5

(* The leaves of g have list e for key k and otherwise the entries of h. *)
EntryReplaced(g, h, L, k, e) ==
  \A v, x : HasEntry(g, L, v, x) <=> (v # k /\ HasEntry(h, L, v, x)) \/ (v = k /\ x = e)

LEMMA ListReplacedEntries ==
  ASSUME NEW h, NEW L, NEW r, NEW H, NEW R, IsTree(h, L, r, H, R),
         NEW leaf \in L, h[leaf].isLeaf, NEW i \in 1..Len(h[leaf].keys),
         NEW k, k = h[leaf].keys[i], NEW e,
         NEW g, g[leaf].isLeaf, g[leaf].keys = h[leaf].keys,
         g[leaf].pointers = [h[leaf].pointers EXCEPT ![i] = e],
         \A n \in L \ {leaf} : g[n] = h[n]
  PROVE  EntryReplaced(g, h, L, k, e)
<1>1. /\ NodeTypes(h, L) /\ LeafKeys(h, R, leaf)
  BY DEF IsTree, IsHeap, KeysInRange
<1>2. /\ h[leaf].pointers \in Seq(Seq(Time)) /\ h[leaf].keys \in Seq(Int)
      /\ Len(h[leaf].pointers) = Len(h[leaf].keys)
  BY <1>1, NodeFields DEF LeafKeys
<1>3. \A n \in 1..Len(h[leaf].keys) :
        g[leaf].pointers[n] = IF n = i THEN e ELSE h[leaf].pointers[n]
  BY <1>2
<1>4. LeafSet(g, L) = LeafSet(h, L) /\ leaf \in LeafSet(h, L) /\ LeafSet(h, L) \subseteq L
  BY DEF LeafSet
<1>5. \A n \in 1..Len(h[leaf].keys) : h[leaf].keys[n] = k => n = i
  BY OneEntryOnly
<1>6. \A m \in LeafSet(h, L) \ {leaf} : \A n \in 1..Len(h[m].keys) : h[m].keys[n] # k
  <2> SUFFICES ASSUME NEW m \in L, h[m].isLeaf, m # leaf, NEW n \in 1..Len(h[m].keys),
                      h[m].keys[n] = k
               PROVE  FALSE
    BY DEF LeafSet
  <2> QED
    BY OneEntryOnly
<1> SUFFICES ASSUME NEW v, NEW x
             PROVE  HasEntry(g, L, v, x)
                      <=> (v # k /\ HasEntry(h, L, v, x)) \/ (v = k /\ x = e)
  BY DEF EntryReplaced
<1>7. \A m \in LeafSet(h, L) \ {leaf} :
        ArrayHas(g[m].keys, g[m].pointers, v, x) <=> ArrayHas(h[m].keys, h[m].pointers, v, x)
  BY <1>4, Zenon
<1>8. CASE v = k
  <2>1. \A m \in LeafSet(h, L) \ {leaf} : ~ArrayHas(h[m].keys, h[m].pointers, v, x)
    BY <1>6, <1>8 DEF ArrayHas
  <2>2. ArrayHas(g[leaf].keys, g[leaf].pointers, v, x) <=> x = e
    BY <1>3, <1>5, <1>8 DEF ArrayHas
  <2> QED
    BY <1>4, <1>7, <1>8, <2>1, <2>2, Zenon DEF HasEntry
<1>9. CASE v # k
  <2>1. ArrayHas(g[leaf].keys, g[leaf].pointers, v, x)
          <=> ArrayHas(h[leaf].keys, h[leaf].pointers, v, x)
    BY <1>3, <1>9 DEF ArrayHas
  <2> QED
    BY <1>4, <1>7, <1>9, <2>1, Zenon DEF HasEntry
<1> QED
  BY <1>8, <1>9

(* The index that the leaves of h make: for each value its list, if any.   *)
IndexIs(h, L, idx) ==
  /\ idx \in [Value -> Seq(Time)]
  /\ \A v \in Value : \A x : HasEntry(h, L, v, x) => idx[v] = x
  /\ \A v \in Value : idx[v] # <<>> => HasEntry(h, L, v, idx[v])

LEMMA IndexKept ==
  ASSUME NEW h, NEW L, NEW idx, IndexIs(h, L, idx), NEW g, NEW M, SameEntries(g, M, h, L)
  PROVE  IndexIs(g, M, idx)
BY Zenon DEF IndexIs, SameEntries

LEMMA IndexGains ==
  ASSUME NEW h, NEW L, NEW idx, IndexIs(h, L, idx), NEW v \in Value, NEW t \in Time,
         NEW g, NEW M, OneEntryMore(g, M, h, L, v, <<t>>), NoEntry(h, L, v),
         NEW new, new = [idx EXCEPT ![v] = Append(@, t)]
  PROVE  IndexIs(g, M, new)
<1>1. idx \in [Value -> Seq(Time)] /\ idx[v] = <<>>
  BY DEF IndexIs, NoEntry
<1>2. new \in [Value -> Seq(Time)] /\ new[v] = <<t>> /\ \A w \in Value \ {v} : new[w] = idx[w]
  BY <1>1
<1>3. \A w \in Value : \A x : HasEntry(g, M, w, x) <=> HasEntry(h, L, w, x) \/ (w = v /\ x = <<t>>)
  BY DEF OneEntryMore
<1>4. ASSUME NEW w \in Value, NEW x, HasEntry(g, M, w, x)
      PROVE  new[w] = x
  BY <1>2, <1>3, <1>4 DEF IndexIs, NoEntry
<1>5. ASSUME NEW w \in Value, new[w] # <<>>
      PROVE  HasEntry(g, M, w, new[w])
  BY <1>2, <1>3, <1>5 DEF IndexIs
<1> QED
  BY <1>2, <1>4, <1>5 DEF IndexIs

LEMMA IndexLoses ==
  ASSUME NEW h, NEW L, NEW idx, IndexIs(h, L, idx), NEW v \in Value, NEW e,
         NEW g, OneEntryMore(h, L, g, L, v, e), NoEntry(g, L, v),
         NEW new, new = [idx EXCEPT ![v] = <<>>]
  PROVE  IndexIs(g, L, new) /\ idx[v] = e
<1>1. idx \in [Value -> Seq(Time)]
  BY DEF IndexIs
<1>2. \A w \in Value : \A x : HasEntry(h, L, w, x) <=> HasEntry(g, L, w, x) \/ (w = v /\ x = e)
  BY DEF OneEntryMore
<1>3. idx[v] = e
  BY <1>2 DEF IndexIs
<1>4. new \in [Value -> Seq(Time)] /\ new[v] = <<>> /\ \A w \in Value \ {v} : new[w] = idx[w]
  BY <1>1
<1>5. ASSUME NEW w \in Value, NEW x, HasEntry(g, L, w, x)
      PROVE  new[w] = x
  BY <1>2, <1>4, <1>5 DEF IndexIs, NoEntry
<1>6. ASSUME NEW w \in Value, new[w] # <<>>
      PROVE  HasEntry(g, L, w, new[w])
  BY <1>2, <1>4, <1>6 DEF IndexIs
<1> QED
  BY <1>3, <1>4, <1>5, <1>6 DEF IndexIs

LEMMA IndexReplaced ==
  ASSUME NEW h, NEW L, NEW idx, IndexIs(h, L, idx), NEW v \in Value, NEW e \in Seq(Time),
         NEW g, EntryReplaced(g, h, L, v, e),
         NEW new, new = [idx EXCEPT ![v] = e]
  PROVE  IndexIs(g, L, new)
<1>1. idx \in [Value -> Seq(Time)]
  BY DEF IndexIs
<1>2. new \in [Value -> Seq(Time)] /\ new[v] = e /\ \A w \in Value \ {v} : new[w] = idx[w]
  BY <1>1
<1>3. \A w \in Value : \A x : HasEntry(g, L, w, x)
                              <=> (w # v /\ HasEntry(h, L, w, x)) \/ (w = v /\ x = e)
  BY DEF EntryReplaced
<1>4. ASSUME NEW w \in Value, NEW x, HasEntry(g, L, w, x)
      PROVE  new[w] = x
  BY <1>2, <1>3, <1>4 DEF IndexIs
<1>5. ASSUME NEW w \in Value, new[w] # <<>>
      PROVE  HasEntry(g, L, w, new[w])
  BY <1>2, <1>3, <1>5 DEF IndexIs
<1> QED
  BY <1>2, <1>4, <1>5 DEF IndexIs
=============================================================================
