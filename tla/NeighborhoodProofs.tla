-------------------------- MODULE NeighborhoodProofs --------------------------
(***************************************************************************)
(* The search for similar values, for every chain of leaves, pattern       *)
(* length and set of cells.                                                *)
(*                                                                         *)
(* A position stands for a measurement.  A step to the left goes to the    *)
(* measurement before it, by value and then by time; a step to the right   *)
(* may turn back in a ring, but what is still ahead of it shrinks with     *)
(* every step, so both walks end.                                          *)
(***************************************************************************)
EXTENDS Neighborhood, SequenceTheorems, FiniteSetTheorems, TLAPS

(* Induction over the natural numbers, for sets and functions instead of   *)
(* for operators: the library's theorems take an operator.                 *)

(* Every set of natural numbers has a least one, as the intervals from 0   *)
(* are well-founded by inclusion.                                          *)
LEMMA LeastNatural ==
  ASSUME NEW T \in SUBSET Nat, T # {}
  PROVE  \E x \in T : \A y \in T : x <= y
<1> DEFINE below == {0..x : x \in T}
<1>1. below \subseteq FiniteSubsetsOf(Nat) /\ below # {}
  <2>1. \A x \in T : 0..x \in SUBSET Nat /\ IsFiniteSet(0..x)
    BY FS_Interval
  <2> QED
    BY <2>1 DEF FiniteSubsetsOf
<1>2. PICK b \in below : \A c \in below : <<c, b>> \notin StrictSubsetOrdering(Nat)
  <2> HIDE DEF below
  <2> QED BY <1>1, WFMin, FS_StrictSubsetOrderingWellFounded
<1>3. PICK x \in T : b = 0..x
  BY <1>2
<1>4. ASSUME NEW y \in T, y < x
      PROVE  FALSE
  <2>1. /\ <<0..y, 0..x>> \in (SUBSET Nat) \X (SUBSET Nat)
        /\ 0..y \subseteq 0..x
        /\ x \in 0..x /\ x \notin 0..y
    BY <1>4
  <2>2. <<0..y, 0..x>> \in StrictSubsetOrdering(Nat)
    BY <2>1, Zenon DEF StrictSubsetOrdering
  <2> QED
    BY <1>2, <1>3, <2>2
<1> QED
  BY <1>4

(* A set that has 0 and, with any number, the next one has all numbers.    *)
LEMMA SetInduction ==
  ASSUME NEW T, 0 \in T, \A n \in Nat : n \in T => n + 1 \in T
  PROVE  \A n \in Nat : n \in T
<1> SUFFICES ASSUME NEW n \in Nat, n \notin T
             PROVE  FALSE
  OBVIOUS
<1> DEFINE missing == Nat \ T
<1>1. PICK m \in missing : \A k \in missing : m <= k
  <2>1. missing \in SUBSET Nat /\ missing # {}
    OBVIOUS
  <2> HIDE DEF missing
  <2> QED
    BY <2>1, LeastNatural
<1>2. m - 1 \in Nat /\ m - 1 \notin missing /\ (m - 1) + 1 = m
  BY <1>1
<1> QED
  BY <1>1, <1>2

(* The same up to a limit. *)
LEMMA IntervalInduction ==
  ASSUME NEW m \in Int, NEW n \in Int, NEW T, m \in T,
         \A k \in m..(n - 1) : k \in T => k + 1 \in T
  PROVE  \A k \in m..n : k \in T
<1> DEFINE U == {d \in Nat : m + d <= n => m + d \in T}
<1>1. 0 \in U
  OBVIOUS
<1>2. ASSUME NEW d \in Nat, d \in U
      PROVE  d + 1 \in U
  <2> SUFFICES ASSUME m + (d + 1) <= n
               PROVE  m + (d + 1) \in T
    OBVIOUS
  <2>1. m + d \in m..(n - 1) /\ (m + d) + 1 = m + (d + 1)
    OBVIOUS
  <2> QED
    BY <1>2, <2>1
<1>3. \A d \in Nat : d \in U
  <2> HIDE DEF U
  <2> QED
    BY <1>1, <1>2, SetInduction
<1> SUFFICES ASSUME NEW k \in m..n
             PROVE  k \in T
  OBVIOUS
<1>4. k - m \in Nat /\ m + (k - m) = k
  OBVIOUS
<1> QED
  BY <1>3, <1>4

(* f[n] is what n applications of g make of origin.                         *)
Iterates(f, S, origin, g) ==
  /\ f \in [Nat -> S]
  /\ f[0] = origin
  /\ \A n \in Nat : f[n + 1] = g[f[n]]

(* Iterating a function on a set is a function on the natural numbers.     *)
LEMMA Iteration ==
  ASSUME NEW S, NEW origin, NEW g, origin \in S, g \in [S -> S]
  PROVE  \E f : Iterates(f, S, origin, g)
<1> DEFINE Upto(f, n) ==
             /\ f \in [0..n -> S]
             /\ f[0] = origin
             /\ \A k \in 0..(n - 1) : f[k + 1] = g[f[k]]
           T == {n \in Nat : \E f : Upto(f, n)}
<1>1. \A n \in Nat : n \in T
  <2>1. 0 \in T
    <3>1. Upto([k \in 0..0 |-> origin], 0)
      OBVIOUS
    <3> QED
      BY <3>1
  <2>2. ASSUME NEW n \in Nat, n \in T
        PROVE  n + 1 \in T
    <3>1. PICK f : Upto(f, n)
      BY <2>2
    <3> DEFINE h == [k \in 0..(n + 1) |-> IF k = n + 1 THEN g[f[n]] ELSE f[k]]
    <3>2. Upto(h, n + 1)
      <4>1. h \in [0..(n + 1) -> S]
        BY <3>1
      <4>2. h[0] = origin
        BY <3>1
      <4>3. ASSUME NEW k \in 0..((n + 1) - 1)
            PROVE  h[k + 1] = g[h[k]]
        <5>1. CASE k = n
          BY <5>1
        <5>2. CASE k # n
          <6>1. k \in 0..(n - 1) /\ k + 1 # n + 1 /\ k # n + 1
            BY <5>2
          <6> QED
            BY <3>1, <6>1
        <5> QED
          BY <5>1, <5>2
      <4> QED
        BY <4>1, <4>2, <4>3
    <3> HIDE DEF Upto, h
    <3> QED
      BY <3>2
  <2> HIDE DEF T
  <2> QED
    BY <2>1, <2>2, SetInduction
<1>2. ASSUME NEW n \in Nat, NEW m \in Nat, NEW e, NEW f, Upto(e, n), Upto(f, m), n <= m
      PROVE  \A k \in 0..n : e[k] = f[k]
  <2> DEFINE U == {k \in 0..n : e[k] = f[k]}
  <2>1. 0 \in U
    BY <1>2
  <2>2. ASSUME NEW k \in 0..(n - 1), k \in U
        PROVE  k + 1 \in U
    BY <1>2, <2>2
  <2>3. \A k \in 0..n : k \in U
    <3> HIDE DEF U
    <3> QED
      BY <2>1, <2>2, IntervalInduction
  <2> QED
    BY <2>3
<1> DEFINE upto(n) == CHOOSE f : Upto(f, n)
           all == [n \in Nat |-> upto(n)[n]]
<1>3. \A n \in Nat : Upto(upto(n), n)
  <2> SUFFICES ASSUME NEW n \in Nat
               PROVE  Upto(upto(n), n)
    OBVIOUS
  <2>1. \E f : Upto(f, n)
    BY <1>1
  <2> HIDE DEF Upto
  <2> QED
    BY <2>1
<1> HIDE DEF upto
<1>4. all \in [Nat -> S]
  BY <1>3
<1>5. all[0] = origin
  BY <1>3
<1>6. ASSUME NEW n \in Nat
      PROVE  all[n + 1] = g[all[n]]
  <2>1. upto(n + 1)[n + 1] = g[upto(n + 1)[n]]
    BY <1>3
  <2>2. upto(n + 1)[n] = upto(n)[n]
    <3>1. n + 1 \in Nat /\ n <= n + 1 /\ n \in 0..n
      OBVIOUS
    <3>2. Upto(upto(n), n) /\ Upto(upto(n + 1), n + 1)
      BY <1>3
    <3> HIDE DEF Upto
    <3>3. \A k \in 0..n : upto(n)[k] = upto(n + 1)[k]
      <4>1. \A e, f : Upto(e, n) /\ Upto(f, n + 1) => \A k \in 0..n : e[k] = f[k]
        BY <1>2, <3>1
      <4> QED
        BY <3>2, <4>1
    <3> QED
      BY <3>1, <3>3
  <2> QED
    BY <2>1, <2>2
<1>7. Iterates(all, S, origin, g)
  BY <1>4, <1>5, <1>6 DEF Iterates
<1> HIDE DEF all
<1> QED
  BY <1>7

-----------------------------------------------------------------------------
(*                                   Rings                                 *)

IsRing(s) ==
  /\ s \in Seq(Nat)
  /\ s # <<>>
  /\ \A j, k \in 1..Len(s) : j < k => s[j] < s[k]

(* A ring by its positions: its times are different, head and last are at  *)
(* its ends.                                                               *)
LEMMA RingByPosition ==
  ASSUME NEW s, IsRing(s)
  PROVE  /\ Len(s) \in Nat \ {0}
         /\ DOMAIN s = 1..Len(s)
         /\ ToSet(s) = {s[k] : k \in 1..Len(s)}
         /\ \A k \in 1..Len(s) : s[k] \in Nat
         /\ Head(s) = s[1] /\ Last(s) = s[Len(s)]
         /\ \A j, k \in 1..Len(s) : s[j] = s[k] => j = k
         /\ \A j, k \in 1..Len(s) : s[j] < s[k] => j < k
<1>1. s \in Seq(Nat) /\ s # <<>>
  BY DEF IsRing
<1>2. Len(s) \in Nat \ {0} /\ DOMAIN s = 1..Len(s) /\ \A k \in 1..Len(s) : s[k] \in Nat
  BY <1>1, LenProperties, EmptySeq, ElementOfSeq
<1>3. ToSet(s) = {s[k] : k \in 1..Len(s)}
  BY <1>2 DEF ToSet
<1>4. Head(s) = s[1]
  BY <1>1
<1>5. \A j, k \in 1..Len(s) : s[j] = s[k] => j = k
  <2>1. \A j, k \in 1..Len(s) : s[j] = s[k] => ~(j < k) /\ ~(k < j)
    BY <1>2 DEF IsRing
  <2> QED
    BY <1>2, <2>1
<1>6. \A j, k \in 1..Len(s) : s[j] < s[k] => j < k
  <2>1. \A j, k \in 1..Len(s) : s[j] < s[k] => ~(k < j) /\ j # k
    BY <1>2 DEF IsRing
  <2> QED
    BY <1>2, <2>1
<1> QED
  BY <1>2, <1>3, <1>4, <1>5, <1>6 DEF Last

(* prev and next go one position back and on, and around at the ends.      *)
LEMMA PrevAndNext ==
  ASSUME NEW s, IsRing(s), NEW k \in 1..Len(s)
  PROVE  /\ prevIn(s, s[k]) = s[IF k = 1 THEN Len(s) ELSE k - 1]
         /\ nextIn(s, s[k]) = s[IF k = Len(s) THEN 1 ELSE k + 1]
<1>1. Len(s) \in Nat \ {0}
  BY RingByPosition
<1>2. placeInRing(s, s[k]) = k
  <2>1. DOMAIN s = 1..Len(s)
    BY RingByPosition
  <2>2. \A j \in 1..Len(s) : s[j] = s[k] => j = k
    BY RingByPosition
  <2> QED
    BY <2>1, <2>2 DEF placeInRing
<1> DEFINE n == Len(s)
<1>3. n \in Nat \ {0} /\ k \in 1..n
  BY <1>1
<1> HIDE DEF n
<1>4. ((k - 2) % n) + 1 = IF k = 1 THEN n ELSE k - 1
  BY <1>3
<1>5. (k % n) + 1 = IF k = n THEN 1 ELSE k + 1
  BY <1>3
<1> QED
  BY <1>2, <1>4, <1>5 DEF prevIn, nextIn, n

-----------------------------------------------------------------------------
(*                                   The chain                             *)

InTree(l, i) == l \in 1..Len(leaves) /\ i \in 0..(numOfKeys(l) - 1)

(* What TreeAssumption says, in the terms of the search. *)
ChainOrdered ==
  /\ Len(leaves) \in Nat
  /\ \A l \in 1..Len(leaves) : numOfKeys(l) \in Nat \ {0}
  /\ \A l, i : InTree(l, i) => key(l, i) \in Int /\ IsRing(ring(l, i))
  /\ \A l, i, m, j : /\ InTree(l, i) /\ InTree(m, j)
                     /\ l < m \/ (l = m /\ i < j)
                     => key(l, i) < key(m, j)

MeasuredOnce ==
  \A l, i, m, j, t : /\ InTree(l, i) /\ InTree(m, j)
                     /\ t \in ToSet(ring(l, i)) /\ t \in ToSet(ring(m, j))
                     => l = m /\ i = j

MeasurementsInTree ==
  \A m : m \in measurements <=>
    \E l, i, t : /\ InTree(l, i) /\ t \in ToSet(ring(l, i))
                 /\ m = Measurement(t, key(l, i))

(* The entries of the chain. *)
LEMMA EntriesByPlace ==
  ASSUME NEW chain, chain \in Seq(Seq([key : Int, times : Seq(Nat)]))
  PROVE  /\ Len(chain) \in Nat /\ DOMAIN chain = 1..Len(chain)
         /\ \A l \in 1..Len(chain) :
              /\ chain[l] \in Seq([key : Int, times : Seq(Nat)])
              /\ Len(chain[l]) \in Nat /\ DOMAIN chain[l] = 1..Len(chain[l])
         /\ \A e : e \in entriesOf(chain) <=>
              \E l \in 1..Len(chain) : \E i \in 1..Len(chain[l]) : e = chain[l][i]
<1>1. Len(chain) \in Nat /\ DOMAIN chain = 1..Len(chain)
  BY LenProperties
<1>2. ASSUME NEW l \in 1..Len(chain)
      PROVE  /\ chain[l] \in Seq([key : Int, times : Seq(Nat)])
             /\ Len(chain[l]) \in Nat /\ DOMAIN chain[l] = 1..Len(chain[l])
  <2>1. chain[l] \in Seq([key : Int, times : Seq(Nat)])
    BY ElementOfSeq
  <2> QED
    BY <2>1, LenProperties
<1>3. ToSet(chain) = {chain[l] : l \in 1..Len(chain)}
  BY <1>1 DEF ToSet
<1>4. \A l \in 1..Len(chain) : ToSet(chain[l]) = {chain[l][i] : i \in 1..Len(chain[l])}
  BY <1>2 DEF ToSet
<1>5. \A e : e \in entriesOf(chain) <=> \E l \in 1..Len(chain) : e \in ToSet(chain[l])
  BY <1>3 DEF entriesOf
<1>6. ASSUME NEW e
      PROVE  e \in entriesOf(chain) <=>
               \E l \in 1..Len(chain) : \E i \in 1..Len(chain[l]) : e = chain[l][i]
  <2>1. ASSUME e \in entriesOf(chain)
        PROVE  \E l \in 1..Len(chain) : \E i \in 1..Len(chain[l]) : e = chain[l][i]
    <3>1. PICK l \in 1..Len(chain) : e \in ToSet(chain[l])
      BY <1>5, <2>1
    <3>2. PICK i \in 1..Len(chain[l]) : e = chain[l][i]
      BY <1>4, <3>1
    <3> QED
      BY <3>2
  <2>2. ASSUME NEW l \in 1..Len(chain), NEW i \in 1..Len(chain[l]), e = chain[l][i]
        PROVE  e \in entriesOf(chain)
    <3>1. e \in ToSet(chain[l])
      BY <1>4, <2>2
    <3> QED
      BY <1>5, <3>1
  <2> QED
    BY <2>1, <2>2
<1> QED
  BY <1>1, <1>2, <1>6

LEMMA TreeFacts ==
  ASSUME leaves \in Tree
  PROVE  ChainOrdered /\ MeasuredOnce /\ MeasurementsInTree
<1> DEFINE Entry == [key : Int, times : Seq(Nat)]
<1>1. IsChain(leaves)
  BY TreeAssumption
<1>2. leaves \in Seq(Seq(Entry))
  BY <1>1 DEF IsChain
<1>3. /\ Len(leaves) \in Nat /\ DOMAIN leaves = 1..Len(leaves)
      /\ \A l \in 1..Len(leaves) :
           /\ leaves[l] \in Seq(Entry)
           /\ Len(leaves[l]) \in Nat /\ DOMAIN leaves[l] = 1..Len(leaves[l])
      /\ \A e : e \in entriesOf(leaves) <=>
           \E l \in 1..Len(leaves) : \E i \in 1..Len(leaves[l]) : e = leaves[l][i]
  BY <1>2, EntriesByPlace
<1>4. \A l \in 1..Len(leaves) : numOfKeys(l) \in Nat \ {0}
  <2> SUFFICES ASSUME NEW l \in 1..Len(leaves)
               PROVE  numOfKeys(l) \in Nat \ {0}
    OBVIOUS
  <2>1. leaves[l] \in ToSet(leaves)
    BY <1>3 DEF ToSet
  <2>2. leaves[l] # <<>> /\ leaves[l] \in Seq(Entry)
    BY <1>1, <1>3, <2>1 DEF IsChain
  <2> HIDE DEF Entry
  <2> QED
    BY <2>2, LenProperties, EmptySeq DEF numOfKeys
<1>5. ASSUME NEW l, NEW i, InTree(l, i)
      PROVE  /\ leaves[l][i + 1] \in Entry
             /\ leaves[l][i + 1] \in entriesOf(leaves)
             /\ l \in 1..Len(leaves) /\ i \in Nat /\ i + 1 \in 1..Len(leaves[l])
  <2>1. l \in 1..Len(leaves) /\ i \in Nat /\ i + 1 \in 1..Len(leaves[l])
    BY <1>3, <1>5 DEF InTree, numOfKeys
  <2>2. leaves[l] \in Seq(Entry)
    BY <1>3, <2>1
  <2> HIDE DEF Entry
  <2>3. leaves[l][i + 1] \in Entry
    BY <2>1, <2>2, ElementOfSeq
  <2> QED
    BY <1>3, <2>1, <2>3
<1>6. ASSUME NEW l, NEW i, InTree(l, i)
      PROVE  key(l, i) \in Int /\ IsRing(ring(l, i))
  <2>1. leaves[l][i + 1] \in Entry /\ leaves[l][i + 1] \in entriesOf(leaves)
    BY <1>5, <1>6
  <2> DEFINE e == leaves[l][i + 1]
  <2>2. e.key \in Int /\ e.times \in Seq(Nat)
    BY <2>1
  <2>3. /\ e.times # <<>>
        /\ \A j, k \in 1..Len(e.times) : j < k => e.times[j] < e.times[k]
    BY <1>1, <2>1 DEF IsChain
  <2> QED
    BY <2>2, <2>3 DEF key, ring, IsRing
<1>7. ASSUME NEW l, NEW i, NEW m, NEW j, InTree(l, i), InTree(m, j),
             l < m \/ (l = m /\ i < j)
      PROVE  key(l, i) < key(m, j)
  <2>1. /\ l \in 1..Len(leaves) /\ i + 1 \in 1..Len(leaves[l]) /\ i \in Nat
        /\ m \in 1..Len(leaves) /\ j + 1 \in 1..Len(leaves[m]) /\ j \in Nat
    BY <1>5, <1>7
  <2>2. l < m \/ (l = m /\ i + 1 < j + 1)
    BY <1>7, <2>1
  <2>3. \A a, b \in 1..Len(leaves) : \A x \in 1..Len(leaves[a]), y \in 1..Len(leaves[b]) :
          a < b \/ (a = b /\ x < y) => leaves[a][x].key < leaves[b][y].key
    BY <1>1 DEF IsChain
  <2> QED
    BY <2>1, <2>2, <2>3 DEF key
<1>8. ChainOrdered
  BY <1>3, <1>4, <1>6, <1>7 DEF ChainOrdered
<1>9. ASSUME NEW l, NEW i, NEW m, NEW j, NEW t, InTree(l, i), InTree(m, j),
             t \in ToSet(ring(l, i)), t \in ToSet(ring(m, j))
      PROVE  l = m /\ i = j
  <2> SUFFICES ASSUME ~(l = m /\ i = j)
               PROVE  FALSE
    OBVIOUS
  <2>1. l \in Int /\ m \in Int /\ i \in Int /\ j \in Int
    BY <1>5, <1>9
  <2>2. \/ l < m \/ (l = m /\ i < j)
        \/ m < l \/ (m = l /\ j < i)
    BY <2>1
  <2>3. key(l, i) < key(m, j) \/ key(m, j) < key(l, i)
    BY <1>7, <1>9, <2>2
  <2>4. key(l, i) # key(m, j)
    BY <1>6, <1>9, <2>3
  <2>5. leaves[l][i + 1] # leaves[m][j + 1]
    BY <2>4 DEF key
  <2>6. leaves[l][i + 1] \in entriesOf(leaves) /\ leaves[m][j + 1] \in entriesOf(leaves)
    BY <1>5, <1>9
  <2>7. ToSet(leaves[l][i + 1].times) \cap ToSet(leaves[m][j + 1].times) = {}
    BY <1>1, <2>5, <2>6 DEF IsChain
  <2> QED
    BY <1>9, <2>7 DEF ring
<1>10. MeasuredOnce
  BY <1>9 DEF MeasuredOnce
<1>11. ASSUME NEW m, m \in measurements
       PROVE  \E l, i, t : /\ InTree(l, i) /\ t \in ToSet(ring(l, i))
                           /\ m = Measurement(t, key(l, i))
  <2>1. PICK e \in entriesOf(leaves) : \E t \in ToSet(e.times) : m = Measurement(t, e.key)
    BY <1>11 DEF measurements
  <2>2. PICK l \in 1..Len(leaves) : \E x \in 1..Len(leaves[l]) : e = leaves[l][x]
    BY <1>3, <2>1
  <2>3. PICK x \in 1..Len(leaves[l]) : e = leaves[l][x]
    BY <2>2
  <2>4. InTree(l, x - 1) /\ leaves[l][(x - 1) + 1] = e
    BY <1>3, <2>3 DEF InTree, numOfKeys
  <2> QED
    BY <2>1, <2>4 DEF key, ring
<1>12. ASSUME NEW l, NEW i, NEW t, InTree(l, i), t \in ToSet(ring(l, i))
       PROVE  Measurement(t, key(l, i)) \in measurements
  <2>1. leaves[l][i + 1] \in entriesOf(leaves)
    BY <1>5, <1>12
  <2> QED
    BY <1>12, <2>1 DEF measurements, key, ring
<1>13. MeasurementsInTree
  BY <1>11, <1>12 DEF MeasurementsInTree
<1> QED
  BY <1>8, <1>10, <1>13

-----------------------------------------------------------------------------
(*                         Positions and measurements                      *)

(* The measurement that a position leads to. *)
At(pos) == Measurement(pos.timeStampPosition, key(pos.LeafPosition, pos.indexPosition))

(* By value, and by time if the value is the same. *)
Before(m, n) == m.value < n.value \/ (m.value = n.value /\ m.timestamp < n.timestamp)

(* Where a position is in its ring. *)
LEMMA PositionInRing ==
  ASSUME leaves \in Tree, NEW pos, IsPosition(pos)
  PROVE  /\ InTree(pos.LeafPosition, pos.indexPosition)
         /\ IsRing(ringAt(pos))
         /\ key(pos.LeafPosition, pos.indexPosition) \in Int
         /\ \E k \in 1..Len(ringAt(pos)) : pos.timeStampPosition = ringAt(pos)[k]
<1>1. InTree(pos.LeafPosition, pos.indexPosition)
  <2>1. DOMAIN leaves = 1..Len(leaves)
    BY TreeAssumption, EntriesByPlace DEF IsChain
  <2> QED
    BY <2>1 DEF IsPosition, InTree
<1>2. IsRing(ringAt(pos)) /\ key(pos.LeafPosition, pos.indexPosition) \in Int
  BY <1>1, TreeFacts DEF ChainOrdered, ringAt
<1>3. pos.timeStampPosition \in ToSet(ringAt(pos))
  BY DEF IsPosition
<1>4. ToSet(ringAt(pos)) = {ringAt(pos)[k] : k \in 1..Len(ringAt(pos))}
  BY <1>2, RingByPosition
<1> QED
  BY <1>1, <1>2, <1>3, <1>4

(* A place in the tree with a time of its ring is a position.              *)
LEMMA PlaceIsPosition ==
  ASSUME leaves \in Tree, NEW l, NEW i, InTree(l, i),
         NEW k \in 1..Len(ring(l, i)), NEW t, t = ring(l, i)[k]
  PROVE  /\ IsPosition(Position(l, i, t))
         /\ At(Position(l, i, t)) = Measurement(t, key(l, i))
         /\ At(Position(l, i, t)) \in measurements
<1>1. IsRing(ring(l, i))
  BY TreeFacts DEF ChainOrdered
<1>2. t \in ToSet(ring(l, i))
  BY <1>1, RingByPosition
<1>3. DOMAIN leaves = 1..Len(leaves)
  BY TreeAssumption, EntriesByPlace DEF IsChain
<1>4. IsPosition(Position(l, i, t))
  BY <1>2, <1>3 DEF IsPosition, Position, InTree, ringAt
<1>5. At(Position(l, i, t)) = Measurement(t, key(l, i))
  BY DEF At, Position
<1>6. Measurement(t, key(l, i)) \in measurements
  BY <1>2, TreeFacts DEF MeasurementsInTree
<1> QED
  BY <1>4, <1>5, <1>6

LEMMA PositionIsMeasurement ==
  ASSUME leaves \in Tree, NEW pos, IsPosition(pos)
  PROVE  At(pos) \in measurements
<1>1. /\ InTree(pos.LeafPosition, pos.indexPosition)
      /\ pos.timeStampPosition \in ToSet(ring(pos.LeafPosition, pos.indexPosition))
  BY PositionInRing DEF IsPosition, ringAt
<1> QED
  BY <1>1, TreeFacts DEF MeasurementsInTree, At

(* Measurements have a value and a time, and a time has one measurement.   *)
LEMMA MeasurementTyped ==
  ASSUME leaves \in Tree, NEW m \in measurements
  PROVE  /\ m.value \in Int /\ m.timestamp \in Nat
         /\ m = Measurement(m.timestamp, m.value)
         /\ m.timestamp # NULL
<1>1. PICK l, i, t : InTree(l, i) /\ t \in ToSet(ring(l, i)) /\ m = Measurement(t, key(l, i))
  BY TreeFacts DEF MeasurementsInTree
<1>2. key(l, i) \in Int /\ IsRing(ring(l, i))
  BY <1>1, TreeFacts DEF ChainOrdered
<1>3. t \in Nat
  BY <1>1, <1>2, RingByPosition
<1>4. m.value = key(l, i) /\ m.timestamp = t
  BY <1>1 DEF Measurement
<1>5. t \in timesOf(leaves)
  <2>1. PICK e \in entriesOf(leaves) : \E x \in ToSet(e.times) : m = Measurement(x, e.key)
    BY DEF measurements
  <2> QED
    BY <1>4, <2>1 DEF timesOf, Measurement
<1>6. t # NULL
  BY <1>5, TreeAssumption DEF IsChain
<1> QED
  BY <1>1, <1>2, <1>3, <1>4, <1>6

LEMMA OneMeasurementPerTime ==
  ASSUME leaves \in Tree, NEW m \in measurements, NEW n \in measurements,
         m.timestamp = n.timestamp
  PROVE  m = n
<1>1. PICK l, i, t : InTree(l, i) /\ t \in ToSet(ring(l, i)) /\ m = Measurement(t, key(l, i))
  BY TreeFacts DEF MeasurementsInTree
<1>2. PICK k, j, u : InTree(k, j) /\ u \in ToSet(ring(k, j)) /\ n = Measurement(u, key(k, j))
  BY TreeFacts DEF MeasurementsInTree
<1>3. t = u
  BY <1>1, <1>2 DEF Measurement
<1>4. l = k /\ i = j
  BY <1>1, <1>2, <1>3, TreeFacts DEF MeasuredOnce
<1> QED
  BY <1>1, <1>2, <1>3, <1>4

(* Places in the order of their keys.                                      *)
LEMMA PlacesByKey ==
  ASSUME leaves \in Tree, NEW l, NEW i, InTree(l, i), NEW m, NEW j, InTree(m, j)
  PROVE  /\ key(l, i) < key(m, j) <=> l < m \/ (l = m /\ i < j)
         /\ key(l, i) = key(m, j) <=> l = m /\ i = j
<1>1. l \in Int /\ m \in Int /\ i \in Int /\ j \in Int
  BY DEF InTree
<1>2. key(l, i) \in Int /\ key(m, j) \in Int
  BY TreeFacts DEF ChainOrdered
<1>3. l < m \/ (l = m /\ i < j) => key(l, i) < key(m, j)
  BY TreeFacts DEF ChainOrdered
<1>4. m < l \/ (m = l /\ j < i) => key(m, j) < key(l, i)
  BY TreeFacts DEF ChainOrdered
<1>5. l = m /\ i = j => key(l, i) = key(m, j)
  OBVIOUS
<1>6. \/ l < m \/ (l = m /\ i < j)
      \/ m < l \/ (m = l /\ j < i)
      \/ l = m /\ i = j
  BY <1>1
<1> QED
  BY <1>1, <1>2, <1>3, <1>4, <1>5, <1>6

(* A measurement before the one at place k of a ring comes earlier in the  *)
(* ring, or from a place before.                                           *)
LEMMA BeforeAtPlace ==
  ASSUME leaves \in Tree, NEW l, NEW i, InTree(l, i), NEW k \in 1..Len(ring(l, i)),
         NEW a, NEW b, InTree(a, b), NEW j \in 1..Len(ring(a, b))
  PROVE  Before(Measurement(ring(a, b)[j], key(a, b)), Measurement(ring(l, i)[k], key(l, i)))
           <=> a < l \/ (a = l /\ b < i) \/ (a = l /\ b = i /\ j < k)
<1>1. /\ Before(Measurement(ring(a, b)[j], key(a, b)), Measurement(ring(l, i)[k], key(l, i)))
           <=> \/ key(a, b) < key(l, i)
               \/ key(a, b) = key(l, i) /\ ring(a, b)[j] < ring(l, i)[k]
  BY DEF Before, Measurement
<1>2. IsRing(ring(l, i))
  BY TreeFacts DEF ChainOrdered
<1>3. a = l /\ b = i => (ring(a, b)[j] < ring(l, i)[k] <=> j < k)
  BY <1>2, RingByPosition DEF IsRing
<1>4. /\ key(a, b) < key(l, i) <=> a < l \/ (a = l /\ b < i)
      /\ key(a, b) = key(l, i) <=> a = l /\ b = i
  BY PlacesByKey
<1> QED
  BY <1>1, <1>3, <1>4

-----------------------------------------------------------------------------
(*                              Steps to the left                          *)

(* A step to the left goes to the measurement next before, or tells that   *)
(* there is none.                                                          *)
IsPredecessor(pos, q) ==
  \/ /\ IsPosition(q)
     /\ Before(At(q), At(pos))
     /\ \A n \in measurements : ~(Before(At(q), n) /\ Before(n, At(pos)))
  \/ /\ IsNull(q)
     /\ \A n \in measurements : ~Before(n, At(pos))

(* Positions and the results of steps.                                     *)
Positions ==
  {p \in [LeafPosition : 1..Len(leaves), indexPosition : Nat,
          timeStampPosition : Nat \union {NULL}] : IsPosition(p) \/ IsNull(p)}

LEMMA LeftStep ==
  ASSUME leaves \in Tree, NEW pos, IsPosition(pos)
  PROVE  IsPredecessor(pos, getTMinus(pos)) /\ getTMinus(pos) \in Positions
<1> DEFINE l == pos.LeafPosition
           i == pos.indexPosition
           t == pos.timeStampPosition
           q == getTMinus(pos)
<1>1. InTree(l, i) /\ IsRing(ring(l, i)) /\ key(l, i) \in Int
  BY PositionInRing DEF ringAt
<1>2. PICK k \in 1..Len(ring(l, i)) : t = ring(l, i)[k]
  BY PositionInRing DEF ringAt
<1>3. At(pos) = Measurement(ring(l, i)[k], key(l, i))
  BY <1>2 DEF At
<1>4. /\ l \in 1..Len(leaves) /\ Len(leaves) \in Nat
      /\ i \in 0..(numOfKeys(l) - 1) /\ numOfKeys(l) \in Nat \ {0}
  BY <1>1, TreeFacts DEF InTree, ChainOrdered
<1>5. /\ Len(ring(l, i)) \in Nat \ {0}
      /\ \A j \in 1..Len(ring(l, i)) : ring(l, i)[j] \in Nat
  BY <1>1, RingByPosition
<1>6. prevIn(ringAt(pos), t) = ring(l, i)[IF k = 1 THEN Len(ring(l, i)) ELSE k - 1]
  BY <1>1, <1>2, PrevAndNext DEF ringAt
<1>7. prevIn(ringAt(pos), t) < t <=> k > 1
  <2>1. CASE k = 1
    <3>1. prevIn(ringAt(pos), t) = ring(l, i)[Len(ring(l, i))] /\ t = ring(l, i)[1]
      BY <1>2, <1>6, <2>1
    <3>2. ~(ring(l, i)[Len(ring(l, i))] < ring(l, i)[1])
      <4>1. Len(ring(l, i)) \in 1..Len(ring(l, i)) /\ 1 \in 1..Len(ring(l, i))
        BY <1>5
      <4>2. ~(Len(ring(l, i)) < 1)
        BY <1>5
      <4> QED
        BY <1>1, <4>1, <4>2, RingByPosition
    <3> QED
      BY <2>1, <3>1, <3>2
  <2>2. CASE k # 1
    <3>1. k - 1 \in 1..Len(ring(l, i)) /\ k - 1 < k /\ k > 1
      BY <1>5, <2>2
    <3>2. prevIn(ringAt(pos), t) = ring(l, i)[k - 1]
      BY <1>6, <2>2
    <3> QED
      BY <1>1, <1>2, <3>1, <3>2 DEF IsRing
  <2> QED
    BY <2>1, <2>2
<1>8. prevIn(ringAt(pos), t) >= t <=> ~(k > 1)
  <2>1. prevIn(ringAt(pos), t) \in Nat /\ t \in Nat
    BY <1>2, <1>5, <1>6
  <2> QED
    BY <1>7, <2>1
<1>9. \A n \in measurements : \E a, b, j :
        /\ InTree(a, b) /\ j \in 1..Len(ring(a, b))
        /\ n = Measurement(ring(a, b)[j], key(a, b))
  <2> SUFFICES ASSUME NEW n \in measurements
               PROVE  \E a, b, j : /\ InTree(a, b) /\ j \in 1..Len(ring(a, b))
                                   /\ n = Measurement(ring(a, b)[j], key(a, b))
    OBVIOUS
  <2>1. PICK a, b, u : InTree(a, b) /\ u \in ToSet(ring(a, b)) /\ n = Measurement(u, key(a, b))
    BY TreeFacts DEF MeasurementsInTree
  <2>2. IsRing(ring(a, b))
    BY <2>1, TreeFacts DEF ChainOrdered
  <2>3. PICK j \in 1..Len(ring(a, b)) : u = ring(a, b)[j]
    BY <2>1, <2>2, RingByPosition
  <2> QED
    BY <2>1, <2>3
<1>10. ASSUME NEW m, NEW x, InTree(m, x), NEW y \in 1..Len(ring(m, x)),
              q = Position(m, x, ring(m, x)[y]),
              m < l \/ (m = l /\ x < i) \/ (m = l /\ x = i /\ y < k),
              \A a, b, j : /\ InTree(a, b) /\ j \in 1..Len(ring(a, b))
                           /\ a < l \/ (a = l /\ b < i) \/ (a = l /\ b = i /\ j < k)
                           => ~(m < a \/ (m = a /\ x < b) \/ (m = a /\ x = b /\ y < j))
       PROVE  IsPredecessor(pos, q) /\ q \in Positions
  <2>1. IsPosition(q) /\ At(q) = Measurement(ring(m, x)[y], key(m, x))
    BY <1>10, PlaceIsPosition
  <2>2. Before(At(q), At(pos))
    BY <1>1, <1>2, <1>3, <1>10, <2>1, BeforeAtPlace
  <2>3. ASSUME NEW n \in measurements, Before(At(q), n), Before(n, At(pos))
        PROVE  FALSE
    <3>1. PICK a, b, j : /\ InTree(a, b) /\ j \in 1..Len(ring(a, b))
                         /\ n = Measurement(ring(a, b)[j], key(a, b))
      BY <1>9
    <3>2. a < l \/ (a = l /\ b < i) \/ (a = l /\ b = i /\ j < k)
      BY <1>1, <1>2, <1>3, <2>3, <3>1, BeforeAtPlace
    <3>3. m < a \/ (m = a /\ x < b) \/ (m = a /\ x = b /\ y < j)
      BY <1>10, <2>1, <2>3, <3>1, BeforeAtPlace
    <3> QED
      BY <1>10, <3>1, <3>2, <3>3
  <2>4. q \in Positions
    <3>1. IsRing(ring(m, x))
      BY <1>10, TreeFacts DEF ChainOrdered
    <3>2. ring(m, x)[y] \in Nat
      BY <1>10, <3>1, RingByPosition
    <3>3. m \in 1..Len(leaves) /\ x \in Nat
      BY <1>10 DEF InTree
    <3>4. q \in [LeafPosition : 1..Len(leaves), indexPosition : Nat,
                 timeStampPosition : Nat \union {NULL}]
      BY <1>10, <3>2, <3>3 DEF Position
    <3> HIDE DEF q
    <3> QED
      BY <2>1, <3>4 DEF Positions
  <2> HIDE DEF q
  <2> QED
    BY <2>1, <2>2, <2>3, <2>4 DEF IsPredecessor
<1>11. ASSUME k > 1
       PROVE  IsPredecessor(pos, q) /\ q \in Positions
  <2>1. q = Position(l, i, ring(l, i)[k - 1])
    BY <1>6, <1>7, <1>8, <1>11 DEF getTMinus
  <2>2. k - 1 \in 1..Len(ring(l, i)) /\ k - 1 < k
    BY <1>5, <1>11
  <2>3. \A a, b, j : /\ InTree(a, b) /\ j \in 1..Len(ring(a, b))
                     /\ a < l \/ (a = l /\ b < i) \/ (a = l /\ b = i /\ j < k)
                     => ~(l < a \/ (l = a /\ i < b) \/ (l = a /\ i = b /\ k - 1 < j))
    BY <1>4, <2>2 DEF InTree
  <2> HIDE DEF q, l, i
  <2> QED
    BY <1>1, <1>10, <2>1, <2>2, <2>3
<1>12. ASSUME ~(k > 1) /\ i # 0
       PROVE  IsPredecessor(pos, q) /\ q \in Positions
  <2>1. q = Position(l, i - 1, newestTime(l, i - 1))
    BY <1>7, <1>8, <1>12 DEF getTMinus, isLeftMost
  <2>2. InTree(l, i - 1)
    BY <1>4, <1>12 DEF InTree
  <2>3. IsRing(ring(l, i - 1))
    BY <2>2, TreeFacts DEF ChainOrdered
  <2>4. /\ newestTime(l, i - 1) = ring(l, i - 1)[Len(ring(l, i - 1))]
        /\ Len(ring(l, i - 1)) \in Nat \ {0}
    BY <2>3, RingByPosition DEF newestTime
  <2>5. \A a, b, j : /\ InTree(a, b) /\ j \in 1..Len(ring(a, b))
                     /\ a < l \/ (a = l /\ b < i) \/ (a = l /\ b = i /\ j < k)
                     => ~(l < a \/ (l = a /\ i - 1 < b)
                                \/ (l = a /\ i - 1 = b /\ Len(ring(l, i - 1)) < j))
    <3> HIDE DEF q, l, i
    <3> SUFFICES ASSUME NEW a, NEW b, NEW j, InTree(a, b), j \in 1..Len(ring(a, b)),
                        a < l \/ (a = l /\ b < i) \/ (a = l /\ b = i /\ j < k)
                 PROVE  ~(l < a \/ (l = a /\ i - 1 < b)
                                \/ (l = a /\ i - 1 = b /\ Len(ring(l, i - 1)) < j))
      OBVIOUS
    <3>1. a \in Int /\ b \in Int /\ j \in Int /\ j >= 1
      BY DEF InTree
    <3>2. l \in Int /\ i \in Int /\ k \in Int /\ ~(k > 1)
      BY <1>4, <1>5, <1>12 DEF InTree
    <3>3. a < l \/ (a = l /\ b < i)
      BY <3>1, <3>2
    <3>4. l = a /\ i - 1 = b => ~(Len(ring(l, i - 1)) < j)
      BY <2>4
    <3> QED
      BY <3>1, <3>2, <3>3, <3>4
  <2>6. i - 1 < i /\ Len(ring(l, i - 1)) \in 1..Len(ring(l, i - 1))
    BY <1>4, <2>4
  <2> HIDE DEF q, l, i
  <2> QED
    BY <1>10, <2>1, <2>2, <2>4, <2>5, <2>6
<1>13. ASSUME ~(k > 1) /\ i = 0 /\ l > 1
       PROVE  IsPredecessor(pos, q) /\ q \in Positions
  <2> DEFINE m == l - 1
             x == numOfKeys(l - 1) - 1
  <2>1. q = Position(m, x, newestTime(m, x))
    BY <1>7, <1>8, <1>13 DEF getTMinus, isLeftMost
  <2>2. m \in 1..Len(leaves) /\ numOfKeys(m) \in Nat \ {0}
    BY <1>4, <1>13, TreeFacts DEF ChainOrdered
  <2>3. InTree(m, x)
    BY <2>2 DEF InTree
  <2>4. IsRing(ring(m, x))
    BY <2>3, TreeFacts DEF ChainOrdered
  <2>5. newestTime(m, x) = ring(m, x)[Len(ring(m, x))] /\ Len(ring(m, x)) \in Nat \ {0}
    BY <2>4, RingByPosition DEF newestTime
  <2>6. x = numOfKeys(m) - 1
    OBVIOUS
  <2>7. m + 1 = l
    BY <1>4
  <2> HIDE DEF x, m
  <2>8. \A a, b, j : /\ InTree(a, b) /\ j \in 1..Len(ring(a, b))
                     /\ a < l \/ (a = l /\ b < i) \/ (a = l /\ b = i /\ j < k)
                     => ~(m < a \/ (m = a /\ x < b)
                                \/ (m = a /\ x = b /\ Len(ring(m, x)) < j))
    <3> HIDE DEF q, l, i
    <3> SUFFICES ASSUME NEW a, NEW b, NEW j, InTree(a, b), j \in 1..Len(ring(a, b)),
                        a < l \/ (a = l /\ b < i) \/ (a = l /\ b = i /\ j < k)
                 PROVE  ~(m < a \/ (m = a /\ x < b)
                                \/ (m = a /\ x = b /\ Len(ring(m, x)) < j))
      OBVIOUS
    <3>1. a \in 1..Len(leaves) /\ b \in 0..(numOfKeys(a) - 1)
      BY DEF InTree
    <3>2. l \in Int /\ m \in Int /\ a \in Int /\ b \in Int /\ b >= 0 /\ j \in Int /\ j >= 1
      BY <2>2, <2>7, <3>1
    <3>3. a < l
      <4>1. i = 0 /\ ~(k > 1) /\ k \in Int
        BY <1>5, <1>13
      <4> QED
        BY <3>2, <4>1
    <3>4. ~(m < a)
      BY <2>7, <3>2, <3>3
    <3>5. m = a => ~(x < b)
      BY <2>2, <2>6, <3>1
    <3>6. m = a /\ x = b => ~(Len(ring(m, x)) < j)
      BY <2>5
    <3> QED
      BY <3>4, <3>5, <3>6
  <2>9. m < l /\ Len(ring(m, x)) \in 1..Len(ring(m, x))
    BY <1>4, <2>2, <2>5, <2>7
  <2> HIDE DEF q, l, i
  <2> QED
    BY <1>10, <2>1, <2>3, <2>5, <2>8, <2>9
<1>14. ASSUME ~(k > 1) /\ i = 0 /\ ~(l > 1)
       PROVE  IsPredecessor(pos, q) /\ q \in Positions
  <2>1. q = Position(l, i, NULL)
    BY <1>7, <1>8, <1>14 DEF getTMinus, isLeftMost
  <2>2. IsNull(q)
    BY <2>1 DEF IsNull, Position
  <2>3. ASSUME NEW n \in measurements
        PROVE  ~Before(n, At(pos))
    <3>1. PICK a, b, j : /\ InTree(a, b) /\ j \in 1..Len(ring(a, b))
                         /\ n = Measurement(ring(a, b)[j], key(a, b))
      BY <1>9
    <3>2. ~(a < l \/ (a = l /\ b < i) \/ (a = l /\ b = i /\ j < k))
      BY <1>2, <1>4, <1>5, <1>14, <3>1 DEF InTree
    <3> QED
      BY <1>1, <1>2, <1>3, <3>1, <3>2, BeforeAtPlace
  <2>4. q \in [LeafPosition : 1..Len(leaves), indexPosition : Nat,
               timeStampPosition : Nat \union {NULL}]
    BY <1>4, <2>1 DEF Position
  <2> HIDE DEF q
  <2> QED
    BY <2>2, <2>3, <2>4 DEF IsPredecessor, Positions
<1> QED
  BY <1>11, <1>12, <1>13, <1>14

-----------------------------------------------------------------------------
(*                              Steps to the right                         *)

(* What getTPlus does at place k of a ring: in the ring it goes back, and  *)
(* only the newest time has a way on.                                      *)
RightStepFrom(l, i, k) ==
  LET s == ring(l, i)
      next == ring(l, i + 1)
  IN  CASE k < Len(s) -> Position(l, i, s[IF k = 1 THEN Len(s) ELSE k - 1])
        [] k = Len(s) /\ i < numOfKeys(l) - 1 ->
             Position(l, i + 1, next[IF Len(next) = 1 THEN 1 ELSE 2])
        [] k = Len(s) /\ i = numOfKeys(l) - 1 /\ l < Len(leaves) ->
             Position(l + 1, 0, ring(l + 1, 0)[1])
        [] OTHER -> Position(l, i, NULL)

LEMMA RightStepByPlace ==
  ASSUME leaves \in Tree, NEW pos, IsPosition(pos),
         NEW k \in 1..Len(ringAt(pos)), pos.timeStampPosition = ringAt(pos)[k]
  PROVE  getTPlus(pos) = RightStepFrom(pos.LeafPosition, pos.indexPosition, k)
<1> DEFINE l == pos.LeafPosition
           i == pos.indexPosition
           t == pos.timeStampPosition
           s == ring(l, i)
<1>1. InTree(l, i) /\ IsRing(s) /\ k \in 1..Len(s) /\ t = s[k]
  BY PositionInRing DEF ringAt
<1>2. /\ l \in 1..Len(leaves) /\ Len(leaves) \in Nat
      /\ i \in 0..(numOfKeys(l) - 1) /\ numOfKeys(l) \in Nat \ {0}
  BY <1>1, TreeFacts DEF InTree, ChainOrdered
<1>3. /\ Len(s) \in Nat \ {0} /\ \A j \in 1..Len(s) : s[j] \in Nat
      /\ \A x, y \in 1..Len(s) : s[x] < s[y] => x < y
      /\ \A x, y \in 1..Len(s) : x < y => s[x] < s[y]
  BY <1>1, RingByPosition DEF IsRing
<1>4. /\ prevIn(ringAt(pos), t) = s[IF k = 1 THEN Len(s) ELSE k - 1]
      /\ nextIn(ringAt(pos), t) = s[IF k = Len(s) THEN 1 ELSE k + 1]
  BY <1>1, PrevAndNext DEF ringAt
<1> DEFINE next == nextIn(ringAt(pos), t)
<1>5. next > t <=> k < Len(s)
  <2>1. CASE k = Len(s)
    <3>1. next = s[1] /\ t = s[k] /\ 1 \in 1..Len(s) /\ ~(k < 1)
      BY <1>1, <1>3, <1>4, <2>1
    <3>2. ~(s[k] < s[1])
      BY <1>1, <1>3, <3>1
    <3>3. next \in Nat /\ t \in Nat
      BY <1>1, <1>3, <3>1
    <3> HIDE DEF next, s, t
    <3> QED
      BY <1>3, <2>1, <3>1, <3>2, <3>3
  <2>2. CASE k # Len(s)
    <3>1. next = s[k + 1] /\ t = s[k] /\ k + 1 \in 1..Len(s) /\ k < k + 1 /\ k < Len(s)
      BY <1>1, <1>3, <1>4, <2>2
    <3>2. s[k] < s[k + 1]
      BY <1>1, <1>3, <3>1
    <3>3. next \in Nat /\ t \in Nat
      BY <1>1, <1>3, <3>1
    <3> HIDE DEF next, s, t
    <3> QED
      BY <3>1, <3>2, <3>3
  <2> QED
    BY <2>1, <2>2
<1>6. next <= t <=> k = Len(s)
  <2>1. next \in Nat /\ t \in Nat
    BY <1>1, <1>3, <1>4
  <2>2. k = Len(s) <=> ~(k < Len(s))
    BY <1>1, <1>3
  <2> HIDE DEF next, s, t
  <2> QED
    BY <1>5, <2>1, <2>2
<1>7. ~isRightMost(pos) <=> i < numOfKeys(l) - 1
  BY <1>2 DEF isRightMost
<1>8. isRightMost(pos) <=> i = numOfKeys(l) - 1
  BY <1>2 DEF isRightMost
<1>9. CASE k < Len(s)
  <2>1. getTPlus(pos) = Position(l, i, prevIn(ringAt(pos), t))
    BY <1>3, <1>5, <1>6, <1>9 DEF getTPlus
  <2>2. RightStepFrom(l, i, k) = Position(l, i, s[IF k = 1 THEN Len(s) ELSE k - 1])
    BY <1>1, <1>3, <1>9 DEF RightStepFrom
  <2> QED
    BY <1>4, <2>1, <2>2
<1>10. CASE k = Len(s) /\ i < numOfKeys(l) - 1
  <2> DEFINE u == ring(l, i + 1)
  <2>1. getTPlus(pos) = Position(l, i + 1, nextIn(u, Head(u)))
    BY <1>3, <1>5, <1>6, <1>7, <1>10 DEF getTPlus
  <2>2. RightStepFrom(l, i, k) = Position(l, i + 1, u[IF Len(u) = 1 THEN 1 ELSE 2])
    <3>1. ~(k < Len(s)) /\ i # numOfKeys(l) - 1
      BY <1>1, <1>2, <1>3, <1>10
    <3> HIDE DEF l, i
    <3> QED
      BY <1>10, <3>1, Zenon DEF RightStepFrom
  <2>3. IsRing(u)
    <3>1. InTree(l, i + 1)
      BY <1>2, <1>10 DEF InTree
    <3> QED
      BY <3>1, TreeFacts DEF ChainOrdered
  <2> HIDE DEF u
  <2>4. Len(u) \in Nat \ {0} /\ Head(u) = u[1]
    BY <2>3, RingByPosition
  <2>5. 1 \in 1..Len(u)
    BY <2>4
  <2>6. nextIn(u, u[1]) = u[IF 1 = Len(u) THEN 1 ELSE 1 + 1]
    BY <2>3, <2>5, PrevAndNext
  <2>7. nextIn(u, Head(u)) = u[IF Len(u) = 1 THEN 1 ELSE 2]
    BY <2>4, <2>6
  <2> QED
    BY <2>1, <2>2, <2>7
<1>11. CASE k = Len(s) /\ i = numOfKeys(l) - 1 /\ l < Len(leaves)
  <2> DEFINE u == ring(l + 1, 0)
  <2>1. getTPlus(pos) = Position(l + 1, 0, Head(u))
    BY <1>3, <1>5, <1>6, <1>8, <1>11 DEF getTPlus
  <2>2. RightStepFrom(l, i, k) = Position(l + 1, 0, u[1])
    BY <1>1, <1>2, <1>3, <1>11 DEF RightStepFrom
  <2>3. IsRing(u)
    <3>1. InTree(l + 1, 0)
      <4>1. /\ l \in 1..Len(leaves) /\ Len(leaves) \in Nat
            /\ \A x \in 1..Len(leaves) : numOfKeys(x) \in Nat \ {0}
        BY <1>2, TreeFacts, Zenon DEF ChainOrdered
      <4> DEFINE x == l + 1
      <4>2. x \in 1..Len(leaves)
        BY <1>11, <4>1
      <4> HIDE DEF x
      <4>3. numOfKeys(x) \in Nat \ {0}
        BY <4>1, <4>2, Zenon
      <4>4. 0 \in 0..(numOfKeys(x) - 1)
        BY <4>3
      <4>5. InTree(x, 0)
        BY <4>2, <4>4, Zenon DEF InTree
      <4> QED
        BY <4>5 DEF x
    <3> QED
      BY <3>1, TreeFacts DEF ChainOrdered
  <2>4. Head(u) = u[1]
    BY <2>3, RingByPosition
  <2> QED
    BY <2>1, <2>2, <2>4
<1>12. CASE k = Len(s) /\ i = numOfKeys(l) - 1 /\ ~(l < Len(leaves))
  <2>1. getTPlus(pos) = Position(l, i, NULL)
    BY <1>3, <1>5, <1>6, <1>8, <1>12 DEF getTPlus
  <2>2. RightStepFrom(l, i, k) = Position(l, i, NULL)
    BY <1>1, <1>2, <1>3, <1>12 DEF RightStepFrom
  <2> QED
    BY <2>1, <2>2
<1>13. \/ k < Len(s)
       \/ k = Len(s) /\ i < numOfKeys(l) - 1
       \/ k = Len(s) /\ i = numOfKeys(l) - 1 /\ l < Len(leaves)
       \/ k = Len(s) /\ i = numOfKeys(l) - 1 /\ ~(l < Len(leaves))
  BY <1>1, <1>2, <1>3
<1> HIDE DEF l, i, s
<1> QED
  BY <1>9, <1>10, <1>11, <1>12, <1>13 DEF l, i, s

(* The latest time of its value. *)
IsNewest(m) == \A n \in measurements : n.value = m.value => n.timestamp <= m.timestamp

LEMMA MeasurementPlace ==
  ASSUME leaves \in Tree, NEW n \in measurements
  PROVE  \E a, b, j : /\ InTree(a, b) /\ j \in 1..Len(ring(a, b))
                      /\ n = Measurement(ring(a, b)[j], key(a, b))
<1>1. PICK a, b, u : InTree(a, b) /\ u \in ToSet(ring(a, b)) /\ n = Measurement(u, key(a, b))
  BY TreeFacts DEF MeasurementsInTree
<1>2. IsRing(ring(a, b))
  BY <1>1, TreeFacts DEF ChainOrdered
<1>3. PICK j \in 1..Len(ring(a, b)) : u = ring(a, b)[j]
  BY <1>1, <1>2, RingByPosition
<1> QED
  BY <1>1, <1>3

(* The newest is the last of its ring. *)
LEMMA NewestByPlace ==
  ASSUME leaves \in Tree, NEW l, NEW i, InTree(l, i), NEW k \in 1..Len(ring(l, i))
  PROVE  IsNewest(Measurement(ring(l, i)[k], key(l, i))) <=> k = Len(ring(l, i))
<1> DEFINE s == ring(l, i)
           m == Measurement(s[k], key(l, i))
<1>1. IsRing(s) /\ m.value = key(l, i) /\ m.timestamp = s[k]
  BY TreeFacts DEF ChainOrdered, Measurement
<1>2. /\ Len(s) \in Nat \ {0} /\ \A x \in 1..Len(s) : s[x] \in Nat
      /\ \A x, y \in 1..Len(s) : x < y => s[x] < s[y]
      /\ k \in 1..Len(s)
  BY <1>1, RingByPosition DEF IsRing
<1>3. ASSUME k = Len(s)
      PROVE  IsNewest(m)
  <2> SUFFICES ASSUME NEW n \in measurements, n.value = m.value
               PROVE  n.timestamp <= m.timestamp
    BY DEF IsNewest
  <2>1. PICK a, b, j : /\ InTree(a, b) /\ j \in 1..Len(ring(a, b))
                       /\ n = Measurement(ring(a, b)[j], key(a, b))
    BY MeasurementPlace
  <2>2. n.value = key(a, b) /\ n.timestamp = ring(a, b)[j]
    BY <2>1 DEF Measurement
  <2>3. a = l /\ b = i
    BY <1>1, <2>1, <2>2, PlacesByKey
  <2>4. j \in 1..Len(s) /\ n.timestamp = s[j]
    BY <2>1, <2>2, <2>3
  <2> HIDE DEF s, m
  <2>5. j = k \/ j < k
    BY <1>2, <1>3, <2>4
  <2>6. s[j] <= s[k]
    <3>1. s[j] \in Nat /\ s[k] \in Nat
      BY <1>2, <2>4
    <3>2. j < k => s[j] < s[k]
      BY <1>2, <2>4
    <3> QED
      BY <2>5, <3>1, <3>2
  <2> QED
    BY <1>1, <2>4, <2>6
<1>4. ASSUME k # Len(s)
      PROVE  ~IsNewest(m)
  <2> DEFINE n == Measurement(s[k + 1], key(l, i))
  <2>1. k + 1 \in 1..Len(s) /\ k < k + 1
    BY <1>2, <1>4
  <2>2. n \in measurements
    <3>1. s[k + 1] \in ToSet(s)
      BY <1>1, <2>1, RingByPosition
    <3> QED
      BY <3>1, TreeFacts DEF MeasurementsInTree
  <2>3. n.value = m.value /\ n.timestamp = s[k + 1]
    BY DEF Measurement
  <2> HIDE DEF s, m, n
  <2>4. s[k] < s[k + 1] /\ s[k] \in Nat /\ s[k + 1] \in Nat
    BY <1>2, <2>1
  <2>5. ~(n.timestamp <= m.timestamp)
    BY <1>1, <2>3, <2>4
  <2> QED
    BY <2>2, <2>3, <2>5 DEF IsNewest
<1> QED
  BY <1>3, <1>4

(* What the walk to the right has ahead: larger values, and in a ring the  *)
(* older times and then the newest.                                        *)
AheadRight(m) ==
  {n \in measurements :
     \/ n.value > m.value
     \/ n.value = m.value /\ ~IsNewest(m) /\ (IsNewest(n) \/ n.timestamp < m.timestamp)}

AheadLeft(m) == {n \in measurements : Before(n, m)}

(* A step to the right goes to what is ahead, or has no position.          *)
LEMMA RightStep ==
  ASSUME leaves \in Tree, NEW pos, IsPosition(pos)
  PROVE  /\ getTPlus(pos) \in Positions
         /\ \/ IsNull(getTPlus(pos))
            \/ IsPosition(getTPlus(pos)) /\ At(getTPlus(pos)) \in AheadRight(At(pos))
<1> DEFINE l == pos.LeafPosition
           i == pos.indexPosition
           s == ring(l, i)
           q == getTPlus(pos)
           Goal == /\ q \in Positions
                   /\ \/ IsNull(q)
                      \/ IsPosition(q) /\ At(q) \in AheadRight(At(pos))
<1>1. InTree(l, i) /\ IsRing(s)
  BY PositionInRing DEF ringAt
<1>2. PICK k \in 1..Len(s) : pos.timeStampPosition = s[k]
  BY PositionInRing DEF ringAt
<1>3. q = RightStepFrom(l, i, k)
  BY <1>2, RightStepByPlace DEF ringAt
<1>4. At(pos) = Measurement(s[k], key(l, i))
  BY <1>2 DEF At
<1>5. /\ l \in 1..Len(leaves) /\ Len(leaves) \in Nat
      /\ i \in 0..(numOfKeys(l) - 1) /\ numOfKeys(l) \in Nat \ {0}
  BY <1>1, TreeFacts DEF InTree, ChainOrdered
<1>6. /\ Len(s) \in Nat \ {0} /\ \A x \in 1..Len(s) : s[x] \in Nat
      /\ \A x, y \in 1..Len(s) : x < y => s[x] < s[y]
  BY <1>1, RingByPosition DEF IsRing
<1>7. ASSUME NEW m, NEW x, InTree(m, x), NEW y \in 1..Len(ring(m, x)),
             q = Position(m, x, ring(m, x)[y]),
             Measurement(ring(m, x)[y], key(m, x)) \in AheadRight(At(pos))
      PROVE  Goal
  <2>1. IsPosition(q) /\ At(q) = Measurement(ring(m, x)[y], key(m, x))
    BY <1>7, PlaceIsPosition
  <2>2. IsRing(ring(m, x))
    BY <1>7, TreeFacts DEF ChainOrdered
  <2>3. ring(m, x)[y] \in Nat
    BY <1>7, <2>2, RingByPosition
  <2>4. m \in 1..Len(leaves) /\ x \in Nat
    BY <1>7 DEF InTree
  <2>5. q \in [LeafPosition : 1..Len(leaves), indexPosition : Nat,
               timeStampPosition : Nat \union {NULL}]
    BY <1>7, <2>3, <2>4 DEF Position
  <2> HIDE DEF q
  <2> QED
    BY <1>7, <2>1, <2>5 DEF Positions
<1>8. ASSUME k < Len(s)
      PROVE  Goal
  <2> DEFINE y == IF k = 1 THEN Len(s) ELSE k - 1
             n == Measurement(s[y], key(l, i))
  <2>1. q = Position(l, i, s[y])
    BY <1>3, <1>8 DEF RightStepFrom
  <2>2. y \in 1..Len(s)
    BY <1>6
  <2>3. ~IsNewest(At(pos))
    BY <1>1, <1>4, <1>8, NewestByPlace
  <2>4. IsNewest(n) \/ s[y] < s[k]
    <3>1. CASE k = 1
      BY <1>1, <2>2, <3>1, NewestByPlace
    <3>2. CASE k # 1
      <4>1. y \in 1..Len(s) /\ y < k
        BY <1>6, <3>2
      <4> HIDE DEF y
      <4> QED
        BY <1>6, <4>1
    <3> QED
      BY <3>1, <3>2
  <2>5. n \in measurements
    <3>1. s[y] \in ToSet(s)
      BY <1>1, <2>2, RingByPosition
    <3> QED
      BY <1>1, <3>1, TreeFacts DEF MeasurementsInTree
  <2>6. /\ n.value = key(l, i) /\ n.timestamp = s[y]
        /\ At(pos).value = key(l, i) /\ At(pos).timestamp = s[k]
    BY <1>4 DEF Measurement
  <2> HIDE DEF y
  <2>7. n \in AheadRight(At(pos))
    BY <2>3, <2>4, <2>5, <2>6 DEF AheadRight
  <2> HIDE DEF q, l, i, Goal
  <2> QED
    BY <1>1, <1>7, <2>1, <2>2, <2>7
<1>9. ASSUME NEW m, NEW x, InTree(m, x), NEW y \in 1..Len(ring(m, x)),
             q = Position(m, x, ring(m, x)[y]), l < m \/ (l = m /\ i < x)
      PROVE  Goal
  <2> DEFINE n == Measurement(ring(m, x)[y], key(m, x))
  <2>1. n \in measurements
    BY <1>9, PlaceIsPosition
  <2>2. n.value = key(m, x) /\ At(pos).value = key(l, i)
    BY <1>4 DEF Measurement
  <2>3. key(l, i) < key(m, x)
    BY <1>1, <1>9, PlacesByKey
  <2>4. key(l, i) \in Int /\ key(m, x) \in Int
    BY <1>1, <1>9, TreeFacts DEF ChainOrdered
  <2>5. n \in AheadRight(At(pos))
    <3>1. n.value > At(pos).value
      BY <2>2, <2>3, <2>4
    <3> QED
      BY <2>1, <3>1 DEF AheadRight
  <2> HIDE DEF q, l, i, Goal
  <2> QED
    BY <1>7, <1>9, <2>5
<1>10. ASSUME k = Len(s), i < numOfKeys(l) - 1
       PROVE  Goal
  <2> DEFINE y == IF Len(ring(l, i + 1)) = 1 THEN 1 ELSE 2
  <2>1. q = Position(l, i + 1, ring(l, i + 1)[y])
    <3>1. ~(k < Len(s)) /\ i # numOfKeys(l) - 1
      BY <1>5, <1>6, <1>10
    <3> HIDE DEF q, l, i
    <3> QED
      BY <1>3, <1>10, <3>1, Zenon DEF RightStepFrom
  <2>2. InTree(l, i + 1)
    BY <1>5, <1>10 DEF InTree
  <2>3. IsRing(ring(l, i + 1))
    BY <2>2, TreeFacts DEF ChainOrdered
  <2>4. y \in 1..Len(ring(l, i + 1))
    <3> DEFINE n == Len(ring(l, i + 1))
    <3>1. n \in Nat \ {0}
      BY <2>3, RingByPosition
    <3> HIDE DEF n
    <3>2. (IF n = 1 THEN 1 ELSE 2) \in 1..n
      BY <3>1
    <3> QED
      BY <3>2 DEF n
  <2>5. i < i + 1
    BY <1>5
  <2> HIDE DEF q, l, i, y, Goal
  <2> QED
    BY <1>9, <2>1, <2>2, <2>4, <2>5
<1>11. ASSUME k = Len(s), i = numOfKeys(l) - 1, l < Len(leaves)
       PROVE  Goal
  <2>1. q = Position(l + 1, 0, ring(l + 1, 0)[1])
    BY <1>3, <1>5, <1>6, <1>11 DEF RightStepFrom
  <2>2. InTree(l + 1, 0)
    BY <1>5, <1>11, TreeFacts DEF InTree, ChainOrdered
  <2>3. IsRing(ring(l + 1, 0))
    BY <2>2, TreeFacts DEF ChainOrdered
  <2>4. 1 \in 1..Len(ring(l + 1, 0))
    <3>1. Len(ring(l + 1, 0)) \in Nat \ {0}
      BY <2>3, RingByPosition
    <3> QED
      BY <3>1
  <2>5. l < l + 1
    BY <1>5
  <2> HIDE DEF q, l, i, Goal
  <2> QED
    BY <1>9, <2>1, <2>2, <2>4, <2>5
<1>12. ASSUME k = Len(s), i = numOfKeys(l) - 1, ~(l < Len(leaves))
       PROVE  Goal
  <2>1. q = Position(l, i, NULL)
    BY <1>3, <1>5, <1>6, <1>12 DEF RightStepFrom
  <2>2. IsNull(q)
    BY <2>1 DEF IsNull, Position
  <2>3. q \in [LeafPosition : 1..Len(leaves), indexPosition : Nat,
               timeStampPosition : Nat \union {NULL}]
    BY <1>5, <2>1 DEF Position
  <2> HIDE DEF q
  <2> QED
    BY <2>2, <2>3 DEF Positions
<1>13. \/ k < Len(s)
       \/ k = Len(s) /\ i < numOfKeys(l) - 1
       \/ k = Len(s) /\ i = numOfKeys(l) - 1 /\ l < Len(leaves)
       \/ k = Len(s) /\ i = numOfKeys(l) - 1 /\ ~(l < Len(leaves))
  BY <1>5, <1>6
<1>14. Goal
  <2> HIDE DEF Goal, l, i, s
  <2> QED
    BY <1>8, <1>10, <1>11, <1>12, <1>13
<1> QED
  BY <1>14

(* If the position is the newest of its value and every larger value was   *)
(* measured once, the step goes to the measurement next after.             *)
IsSuccessor(pos, q) ==
  \/ /\ IsPosition(q)
     /\ Before(At(pos), At(q))
     /\ \A n \in measurements : ~(Before(At(pos), n) /\ Before(n, At(q)))
  \/ /\ IsNull(q)
     /\ \A n \in measurements : ~Before(At(pos), n)

SingleAbove(v) ==
  \A m, n \in measurements : m.value > v /\ n.value = m.value => n = m

LEMMA RightStepOfSingle ==
  ASSUME leaves \in Tree, NEW pos, IsPosition(pos),
         IsNewest(At(pos)), SingleAbove(At(pos).value)
  PROVE  IsSuccessor(pos, getTPlus(pos))
<1> DEFINE l == pos.LeafPosition
           i == pos.indexPosition
           s == ring(l, i)
           q == getTPlus(pos)
<1>1. InTree(l, i) /\ IsRing(s)
  BY PositionInRing DEF ringAt
<1>2. PICK k \in 1..Len(s) : pos.timeStampPosition = s[k]
  BY PositionInRing DEF ringAt
<1>3. q = RightStepFrom(l, i, k)
  BY <1>2, RightStepByPlace DEF ringAt
<1>4. At(pos) = Measurement(s[k], key(l, i)) /\ At(pos).value = key(l, i)
  BY <1>2 DEF At, Measurement
<1>5. /\ l \in 1..Len(leaves) /\ Len(leaves) \in Nat
      /\ i \in 0..(numOfKeys(l) - 1) /\ numOfKeys(l) \in Nat \ {0}
  BY <1>1, TreeFacts DEF InTree, ChainOrdered
<1>6. k = Len(s) /\ Len(s) \in Nat \ {0}
  BY <1>1, <1>4, NewestByPlace, RingByPosition
<1>7. ASSUME NEW n \in measurements, Before(At(pos), n)
      PROVE  \E a, b : /\ InTree(a, b) /\ (l < a \/ (l = a /\ i < b))
                       /\ n = Measurement(ring(a, b)[1], key(a, b))
                       /\ Len(ring(a, b)) = 1
  <2>1. PICK a, b, j : /\ InTree(a, b) /\ j \in 1..Len(ring(a, b))
                       /\ n = Measurement(ring(a, b)[j], key(a, b))
    BY MeasurementPlace
  <2>2. l < a \/ (l = a /\ i < b) \/ (l = a /\ i = b /\ k < j)
    BY <1>1, <1>2, <1>4, <1>7, <2>1, BeforeAtPlace
  <2>3. IsRing(ring(a, b))
    BY <2>1, TreeFacts DEF ChainOrdered
  <2>4. Len(ring(a, b)) \in Nat \ {0}
    BY <2>3, RingByPosition
  <2>5. l < a \/ (l = a /\ i < b)
    BY <1>6, <2>1, <2>2, <2>4
  <2>6. key(l, i) < key(a, b) /\ key(l, i) \in Int /\ key(a, b) \in Int
    BY <1>1, <2>1, <2>5, PlacesByKey, TreeFacts DEF ChainOrdered
  <2>7. \A x, y \in 1..Len(ring(a, b)) : x = y
    <3> SUFFICES ASSUME NEW x \in 1..Len(ring(a, b)), NEW y \in 1..Len(ring(a, b))
                 PROVE  x = y
      OBVIOUS
    <3> DEFINE m == Measurement(ring(a, b)[x], key(a, b))
               o == Measurement(ring(a, b)[y], key(a, b))
    <3>1. m \in measurements /\ o \in measurements
      BY <2>1, PlaceIsPosition
    <3>2. /\ m.value = key(a, b) /\ o.value = key(a, b)
          /\ m.timestamp = ring(a, b)[x] /\ o.timestamp = ring(a, b)[y]
      BY DEF Measurement
    <3> HIDE DEF m, o
    <3>3. m.value > At(pos).value
      BY <1>4, <2>6, <3>2
    <3>4. m = o
      BY <3>1, <3>2, <3>3 DEF SingleAbove
    <3> QED
      BY <2>3, <3>2, <3>4, RingByPosition
  <2>8. Len(ring(a, b)) = 1
    <3>1. 1 \in 1..Len(ring(a, b)) /\ Len(ring(a, b)) \in 1..Len(ring(a, b))
      BY <2>4
    <3> QED
      BY <2>7, <3>1
  <2>9. j = 1
    BY <2>1, <2>8
  <2> QED
    BY <2>1, <2>5, <2>8, <2>9
<1>8. ASSUME NEW m, NEW x, InTree(m, x), NEW y \in 1..Len(ring(m, x)),
             q = Position(m, x, ring(m, x)[y]), l < m \/ (l = m /\ i < x),
             \A a, b : /\ InTree(a, b)
                       /\ l < a \/ (l = a /\ i < b)
                       => ~(a < m \/ (a = m /\ b < x))
      PROVE  IsSuccessor(pos, q)
  <2>1. IsPosition(q) /\ At(q) = Measurement(ring(m, x)[y], key(m, x)) /\ At(q) \in measurements
    BY <1>8, PlaceIsPosition
  <2>2. Before(At(pos), At(q))
    BY <1>1, <1>2, <1>4, <1>8, <2>1, BeforeAtPlace
  <2>3. ASSUME NEW n \in measurements, Before(At(pos), n), Before(n, At(q))
        PROVE  FALSE
    <3>1. PICK a, b : /\ InTree(a, b) /\ (l < a \/ (l = a /\ i < b))
                      /\ n = Measurement(ring(a, b)[1], key(a, b))
                      /\ Len(ring(a, b)) = 1
      BY <1>7, <2>3
    <3>2. PICK c, d : /\ InTree(c, d) /\ (l < c \/ (l = c /\ i < d))
                      /\ At(q) = Measurement(ring(c, d)[1], key(c, d))
                      /\ Len(ring(c, d)) = 1
      BY <1>7, <2>1, <2>2
    <3>3. c = m /\ d = x
      <4>1. key(c, d) = key(m, x)
        BY <2>1, <3>2 DEF Measurement
      <4> QED
        BY <1>8, <3>2, <4>1, PlacesByKey
    <3>4. y = 1
      BY <3>2, <3>3
    <3>5. 1 \in 1..Len(ring(a, b)) /\ y \in 1..Len(ring(m, x))
      BY <3>1
    <3>6. a < m \/ (a = m /\ b < x) \/ (a = m /\ b = x /\ 1 < y)
      BY <1>8, <2>1, <2>3, <3>1, <3>5, BeforeAtPlace
    <3> QED
      BY <1>8, <3>1, <3>4, <3>6
  <2> HIDE DEF q
  <2> QED
    BY <2>1, <2>2, <2>3 DEF IsSuccessor
<1>9. ASSUME i < numOfKeys(l) - 1
      PROVE  IsSuccessor(pos, q)
  <2> DEFINE y == IF Len(ring(l, i + 1)) = 1 THEN 1 ELSE 2
  <2>1. q = Position(l, i + 1, ring(l, i + 1)[y])
    <3>1. ~(k < Len(s)) /\ i # numOfKeys(l) - 1
      BY <1>5, <1>6, <1>9
    <3> HIDE DEF q, l, i
    <3> QED
      BY <1>3, <1>6, <1>9, <3>1, Zenon DEF RightStepFrom
  <2>2. InTree(l, i + 1)
    BY <1>5, <1>9 DEF InTree
  <2>3. IsRing(ring(l, i + 1))
    BY <2>2, TreeFacts DEF ChainOrdered
  <2>4. y \in 1..Len(ring(l, i + 1))
    <3> DEFINE n == Len(ring(l, i + 1))
    <3>1. n \in Nat \ {0}
      BY <2>3, RingByPosition
    <3> HIDE DEF n
    <3>2. (IF n = 1 THEN 1 ELSE 2) \in 1..n
      BY <3>1
    <3> QED
      BY <3>2 DEF n
  <2>5. i < i + 1
    BY <1>5
  <2>6. \A a, b : /\ InTree(a, b)
                  /\ l < a \/ (l = a /\ i < b)
                  => ~(a < l \/ (a = l /\ b < i + 1))
    BY <1>5 DEF InTree
  <2> HIDE DEF q, l, i, y
  <2> QED
    BY <1>8, <2>1, <2>2, <2>4, <2>5, <2>6
<1>10. ASSUME i = numOfKeys(l) - 1, l < Len(leaves)
       PROVE  IsSuccessor(pos, q)
  <2>1. q = Position(l + 1, 0, ring(l + 1, 0)[1])
    BY <1>3, <1>5, <1>6, <1>10 DEF RightStepFrom
  <2>2. InTree(l + 1, 0)
    <3>1. l \in 1..Len(leaves) /\ Len(leaves) \in Nat
      BY <1>5, TreeFacts DEF InTree, ChainOrdered
    <3> HIDE DEF q, l, i
    <3>2. l + 1 \in 1..Len(leaves)
      BY <1>10, <3>1
    <3>3. numOfKeys(l + 1) \in Nat \ {0}
      BY <3>2, TreeFacts DEF ChainOrdered
    <3>4. 0 \in 0..(numOfKeys(l + 1) - 1)
      BY <3>3
    <3> QED
      BY <3>2, <3>4 DEF InTree
  <2>3. IsRing(ring(l + 1, 0))
    BY <2>2, TreeFacts DEF ChainOrdered
  <2>4. 1 \in 1..Len(ring(l + 1, 0))
    <3>1. Len(ring(l + 1, 0)) \in Nat \ {0}
      BY <2>3, RingByPosition
    <3> QED
      BY <3>1
  <2>5. l < l + 1
    BY <1>5
  <2>6. \A a, b : /\ InTree(a, b)
                  /\ l < a \/ (l = a /\ i < b)
                  => ~(a < l + 1 \/ (a = l + 1 /\ b < 0))
    BY <1>5, <1>10 DEF InTree
  <2> HIDE DEF q, l, i
  <2> QED
    BY <1>8, <2>1, <2>2, <2>4, <2>5, <2>6
<1>11. ASSUME i = numOfKeys(l) - 1, ~(l < Len(leaves))
       PROVE  IsSuccessor(pos, q)
  <2>1. q = Position(l, i, NULL)
    BY <1>3, <1>5, <1>6, <1>11 DEF RightStepFrom
  <2>2. IsNull(q)
    BY <2>1 DEF IsNull, Position
  <2>3. ASSUME NEW n \in measurements, Before(At(pos), n)
        PROVE  FALSE
    <3>1. PICK a, b : InTree(a, b) /\ (l < a \/ (l = a /\ i < b))
      BY <1>7, <2>3
    <3> QED
      BY <1>5, <1>11, <3>1 DEF InTree
  <2> HIDE DEF q
  <2> QED
    BY <2>2, <2>3 DEF IsSuccessor
<1>12. \/ i < numOfKeys(l) - 1
       \/ i = numOfKeys(l) - 1 /\ l < Len(leaves)
       \/ i = numOfKeys(l) - 1 /\ ~(l < Len(leaves))
  BY <1>5
<1>13. IsSuccessor(pos, q)
  <2> HIDE DEF q, l, i
  <2> QED
    BY <1>9, <1>10, <1>11, <1>12
<1> QED
  BY <1>13

-----------------------------------------------------------------------------
(*                             Both walks end                              *)

Ahead(side, m) == IF side = "left" THEN AheadLeft(m) ELSE AheadRight(m)

(* What is ahead of a measurement ahead was ahead before, except for that  *)
(* measurement.                                                            *)
LEMMA AheadShrinks ==
  ASSUME leaves \in Tree, NEW side, NEW m \in measurements, NEW n \in Ahead(side, m)
  PROVE  /\ n \in measurements
         /\ Ahead(side, n) \subseteq Ahead(side, m)
         /\ n \notin Ahead(side, n)
<1>1. \A o \in measurements : o.value \in Int /\ o.timestamp \in Nat
  BY MeasurementTyped
<1>2. CASE side = "left"
  <2>1. Ahead(side, m) = AheadLeft(m) /\ Ahead(side, n) = AheadLeft(n)
    BY <1>2 DEF Ahead
  <2>2. n \in measurements /\ Before(n, m)
    BY <2>1 DEF AheadLeft
  <2>3. \A o \in measurements : Before(o, n) => Before(o, m)
    BY <1>1, <2>2 DEF Before
  <2>4. ~Before(n, n)
    BY <1>1, <2>2 DEF Before
  <2> QED
    BY <2>1, <2>2, <2>3, <2>4 DEF AheadLeft
<1>3. CASE side # "left"
  <2>1. Ahead(side, m) = AheadRight(m) /\ Ahead(side, n) = AheadRight(n)
    BY <1>3 DEF Ahead
  <2>2. /\ n \in measurements
        /\ \/ n.value > m.value
           \/ n.value = m.value /\ ~IsNewest(m) /\ (IsNewest(n) \/ n.timestamp < m.timestamp)
    BY <2>1 DEF AheadRight
  <2>3. ASSUME NEW o \in measurements,
               \/ o.value > n.value
               \/ o.value = n.value /\ ~IsNewest(n) /\ (IsNewest(o) \/ o.timestamp < n.timestamp)
        PROVE  \/ o.value > m.value
               \/ o.value = m.value /\ ~IsNewest(m) /\ (IsNewest(o) \/ o.timestamp < m.timestamp)
    <3>1. /\ o.value \in Int /\ n.value \in Int /\ m.value \in Int
          /\ o.timestamp \in Nat /\ n.timestamp \in Nat /\ m.timestamp \in Nat
      BY <1>1, <2>2
    <3> QED
      BY <2>2, <2>3, <3>1
  <2>4. ~(n.value > n.value) /\ ~(n.timestamp < n.timestamp)
    BY <1>1, <2>2
  <2>5. n \notin AheadRight(n)
    BY <2>4 DEF AheadRight
  <2>6. AheadRight(n) \subseteq AheadRight(m)
    BY <2>3 DEF AheadRight
  <2> QED
    BY <2>1, <2>2, <2>5, <2>6
<1> QED
  BY <1>2, <1>3

(* A step of either walk goes ahead or ends. *)
LEMMA NextIsAhead ==
  ASSUME leaves \in Tree, NEW side, NEW pos, IsPosition(pos)
  PROVE  /\ nextPosition(side, pos) \in Positions
         /\ \/ IsNull(nextPosition(side, pos))
            \/ /\ IsPosition(nextPosition(side, pos))
               /\ At(nextPosition(side, pos)) \in Ahead(side, At(pos))
<1>1. CASE side = "left"
  <2> DEFINE q == getTMinus(pos)
  <2>1. nextPosition(side, pos) = q
    BY <1>1 DEF nextPosition
  <2>2. q \in Positions /\ IsPredecessor(pos, q)
    BY LeftStep
  <2> HIDE DEF q
  <2>3. IsNull(q) \/ (IsPosition(q) /\ Before(At(q), At(pos)))
    BY <2>2 DEF IsPredecessor
  <2>4. IsPosition(q) => At(q) \in measurements
    BY PositionIsMeasurement
  <2> QED
    BY <1>1, <2>1, <2>2, <2>3, <2>4 DEF Ahead, AheadLeft
<1>2. CASE side # "left"
  <2>1. nextPosition(side, pos) = getTPlus(pos)
    BY <1>2 DEF nextPosition
  <2> QED
    BY <1>2, <2>1, RightStep DEF Ahead
<1> QED
  BY <1>1, <1>2

(* There are finitely many measurements, as their times are in an interval.*)
LEMMA FinitelyManyMeasurements ==
  ASSUME leaves \in Tree
  PROVE  IsFiniteSet(measurements)
<1>1. \A t \in timesOf(leaves) : t \in Nat
  <2> SUFFICES ASSUME NEW t \in timesOf(leaves)
               PROVE  t \in Nat
    OBVIOUS
  <2>1. PICK e \in entriesOf(leaves) : t \in ToSet(e.times)
    BY DEF timesOf
  <2>2. Measurement(t, e.key) \in measurements
    BY <2>1 DEF measurements
  <2>3. Measurement(t, e.key).timestamp = t
    BY DEF Measurement
  <2> QED
    BY <2>2, <2>3, MeasurementTyped
<1>2. PICK oldest \in timesOf(leaves), latest \in timesOf(leaves) :
        timesOf(leaves) = {t \in oldest..latest : (latest - t) % TIMESTAMP_DIFF = 0}
  BY TreeAssumption DEF IsChain
<1>3. IsFiniteSet(timesOf(leaves))
  <2>1. oldest \in Int /\ latest \in Int
    BY <1>1
  <2>2. IsFiniteSet(oldest..latest)
    BY <2>1, FS_Interval
  <2>3. timesOf(leaves) \in SUBSET (oldest..latest)
    BY <1>2
  <2> QED
    BY <2>2, <2>3, FS_Subset
<1> DEFINE time == [m \in measurements |-> m.timestamp]
<1>4. time \in Injection(measurements, timesOf(leaves))
  <2>1. \A m \in measurements : m.timestamp \in timesOf(leaves)
    BY DEF measurements, timesOf, Measurement
  <2>2. \A m, n \in measurements : m.timestamp = n.timestamp => m = n
    BY OneMeasurementPerTime
  <2> QED
    BY <2>1, <2>2 DEF Injection, IsInjective
<1> QED
  BY <1>3, <1>4, FS_Injection

(* A walk ends at the first position whose time was not seen, or past the  *)
(* end, within as many steps as there are measurements.                    *)
LEMMA WalkEnds ==
  ASSUME leaves \in Tree, NEW c, NEW side, NEW first \in Positions
  PROVE  /\ pastSeen(c, side, first) \in Positions
         /\ ~isSeen(c, pastSeen(c, side, first))
         /\ ~isSeen(c, first) => pastSeen(c, side, first) = first
<1> DEFINE N == Cardinality(measurements)
           on(p) == IF isSeen(c, p) THEN nextPosition(side, p) ELSE p
           Recursion(f) ==
             f = [n \in Nat |-> IF n = 0 THEN first
                                ELSE IF isSeen(c, f[n - 1]) THEN nextPosition(side, f[n - 1])
                                     ELSE f[n - 1]]
           after == CHOOSE f : Recursion(f)
           g == [p \in Positions |-> on(p)]
<1>1. pastSeen(c, side, first) = after[N]
  BY Zenon DEF pastSeen, after
<1>2. \A p \in Positions : isSeen(c, p) => IsPosition(p) /\ ~IsNull(p)
  BY DEF Positions, isSeen
<1>3. g \in [Positions -> Positions] /\ \A p \in Positions : g[p] = on(p) /\ on(p) \in Positions
  BY <1>2, NextIsAhead
<1>4. PICK f \in [Nat -> Positions] : f[0] = first /\ \A n \in Nat : f[n + 1] = g[f[n]]
  <2> HIDE DEF g
  <2>1. \E f : Iterates(f, Positions, first, g)
    BY <1>3, Iteration
  <2> QED
    BY <2>1 DEF Iterates
<1>5. Recursion(f)
  <2>1. ASSUME NEW n \in Nat
        PROVE  f[n] = IF n = 0 THEN first
                      ELSE IF isSeen(c, f[n - 1]) THEN nextPosition(side, f[n - 1]) ELSE f[n - 1]
    <3>1. CASE n = 0
      BY <1>4, <3>1
    <3>2. CASE n # 0
      <4>1. n - 1 \in Nat /\ (n - 1) + 1 = n
        BY <3>2
      <4>2. f[n] = g[f[n - 1]] /\ f[n - 1] \in Positions
        BY <1>4, <4>1
      <4>3. f[n] = on(f[n - 1])
        BY <1>3, <4>2
      <4> QED
        BY <3>2, <4>3
    <3> QED
      BY <3>1, <3>2
  <2>2. f = [n \in Nat |-> f[n]]
    BY <1>4
  <2> QED
    BY <2>1, <2>2
<1>6. Recursion(after)
  <2> HIDE DEF Recursion
  <2> QED
    BY <1>5 DEF after
<1> HIDE DEF after
<1>7. after = [n \in Nat |-> after[n]] /\ after[0] = first
      /\ \A n \in Nat \ {0} : after[n] = on(after[n - 1])
  <2>1. \A n \in Nat : after[n] = IF n = 0 THEN first
                                  ELSE IF isSeen(c, after[n - 1]) THEN nextPosition(side, after[n - 1])
                                       ELSE after[n - 1]
    BY <1>6
  <2> QED
    BY <1>6, <2>1
<1>8. \A n \in Nat : after[n + 1] = on(after[n])
  BY <1>7
<1> HIDE DEF Recursion, g, on
<1>9. \A n \in Nat : after[n] \in Positions
  <2> DEFINE T == {n \in Nat : after[n] \in Positions}
  <2>1. 0 \in T
    BY <1>7
  <2>2. \A n \in Nat : n \in T => n + 1 \in T
    BY <1>3, <1>8
  <2> HIDE DEF T
  <2>3. \A n \in Nat : n \in T
    BY <2>1, <2>2, SetInduction
  <2> QED
    BY <2>3 DEF T
<1>10. N \in Nat
  BY FinitelyManyMeasurements, FS_CardinalityType
<1> DEFINE left(n) == Cardinality(Ahead(side, At(after[n])))
<1>11. \A m \in measurements : IsFiniteSet(Ahead(side, m)) /\ Ahead(side, m) \subseteq measurements
  <2>1. \A m \in measurements : Ahead(side, m) \in SUBSET measurements
    BY DEF Ahead, AheadLeft, AheadRight
  <2> QED
    BY <2>1, FinitelyManyMeasurements, FS_Subset
<1>12. \A n \in Nat : isSeen(c, after[n]) => At(after[n]) \in measurements
  BY <1>2, <1>9, PositionIsMeasurement
<1>13. \A n \in Nat : isSeen(c, after[n]) => left(n) \in Nat
  BY <1>11, <1>12, FS_CardinalityType
<1>14. ASSUME NEW n \in Nat, isSeen(c, after[n + 1])
       PROVE  isSeen(c, after[n]) /\ left(n + 1) < left(n)
  <2>1. isSeen(c, after[n])
    BY <1>8, <1>14 DEF on
  <2>2. after[n + 1] = nextPosition(side, after[n])
    BY <1>8, <2>1 DEF on
  <2>3. IsPosition(after[n]) /\ IsPosition(after[n + 1]) /\ ~IsNull(after[n + 1])
    BY <1>2, <1>9, <1>14, <2>1
  <2>4. At(after[n + 1]) \in Ahead(side, At(after[n]))
    BY <2>2, <2>3, NextIsAhead
  <2> DEFINE S == Ahead(side, At(after[n]))
             T == Ahead(side, At(after[n + 1]))
  <2>5. T \subseteq S /\ At(after[n + 1]) \in S /\ At(after[n + 1]) \notin T
    BY <1>12, <2>1, <2>4, AheadShrinks
  <2>6. IsFiniteSet(S)
    BY <1>11, <1>12, <2>1
  <2>7. left(n) \in Nat /\ left(n + 1) \in Nat
    BY <1>13, <1>14, <2>1
  <2>8. Cardinality(T) <= Cardinality(S) /\ (Cardinality(S) = Cardinality(T) => S = T)
    <3> HIDE DEF S, T
    <3> QED
      BY <2>5, <2>6, FS_Subset
  <2>9. Cardinality(S) # Cardinality(T)
    BY <2>5, <2>8
  <2> HIDE DEF S, T
  <2>10. Cardinality(S) \in Nat /\ Cardinality(T) \in Nat
    BY <2>7 DEF S, T
  <2>11. Cardinality(T) < Cardinality(S)
    BY <2>8, <2>9, <2>10
  <2> QED
    BY <2>1, <2>11 DEF S, T
<1>15. \A n \in Nat : isSeen(c, after[n]) => left(n) + n < N
  <2> DEFINE T == {n \in Nat : isSeen(c, after[n]) => left(n) + n < N}
  <2>1. 0 \in T
    <3> SUFFICES ASSUME isSeen(c, after[0])
                 PROVE  left(0) + 0 < N
      OBVIOUS
    <3> DEFINE m == At(after[0])
               S == Ahead(side, m)
    <3>1. m \in measurements /\ S \subseteq measurements
      BY <1>11, <1>12
    <3>2. m \notin S
      <4>1. CASE side = "left"
        BY <3>1, <4>1, MeasurementTyped DEF Ahead, AheadLeft, Before
      <4>2. CASE side # "left"
        BY <3>1, <4>2, MeasurementTyped DEF Ahead, AheadRight
      <4> QED
        BY <4>1, <4>2
    <3>3. S # measurements /\ S \in SUBSET measurements
      BY <3>1, <3>2
    <3> HIDE DEF S, m
    <3>4. Cardinality(S) <= N /\ (N = Cardinality(S) => measurements = S)
      BY <3>3, FinitelyManyMeasurements, FS_Subset
    <3>5. left(0) = Cardinality(S)
      BY DEF S, m
    <3>6. Cardinality(S) \in Nat
      BY <1>13, <3>5
    <3> HIDE DEF N
    <3> QED
      BY <1>10, <3>3, <3>4, <3>5, <3>6
  <2>2. ASSUME NEW n \in Nat, n \in T
        PROVE  n + 1 \in T
    <3> SUFFICES ASSUME isSeen(c, after[n + 1])
                 PROVE  left(n + 1) + (n + 1) < N
      OBVIOUS
    <3>1. isSeen(c, after[n]) /\ left(n + 1) < left(n)
      BY <1>14
    <3>2. left(n) \in Nat /\ left(n + 1) \in Nat
      BY <1>13, <3>1
    <3>3. left(n) + n < N
      BY <2>2, <3>1
    <3> HIDE DEF left, N
    <3> QED
      BY <1>10, <3>1, <3>2, <3>3
  <2> HIDE DEF T
  <2>3. \A n \in Nat : n \in T
    BY <2>1, <2>2, SetInduction
  <2> QED
    BY <2>3 DEF T
<1>16. ~isSeen(c, after[N])
  <2>1. isSeen(c, after[N]) => left(N) + N < N /\ left(N) \in Nat
    BY <1>10, <1>13, <1>15
  <2> HIDE DEF left, N
  <2> QED
    BY <1>10, <2>1
<1>17. ASSUME ~isSeen(c, first)
       PROVE  after[N] = first
  <2> DEFINE T == {n \in Nat : after[n] = first}
  <2>1. 0 \in T
    BY <1>7
  <2>2. \A n \in Nat : n \in T => n + 1 \in T
    BY <1>8, <1>17 DEF on
  <2> HIDE DEF T
  <2>3. \A n \in Nat : n \in T
    BY <2>1, <2>2, SetInduction
  <2> QED
    BY <1>10, <2>3 DEF T
<1> QED
  BY <1>1, <1>9, <1>10, <1>16, <1>17


-----------------------------------------------------------------------------
(*                            The start of a search                        *)

(* "The value will be at most patternLength away": the walk finds a time   *)
(* that has less than patternLength newer ones in its ring.                *)
LEMMA SearchFinds ==
  ASSUME NEW s, IsRing(s), NEW k \in 1..Len(s), Len(s) - k <= patternLength - 1
  PROVE  searchTime(s, s[k]) = s[k]
<1> DEFINE t == s[k]
           Times == ToSet(s)
           on(x) == IF x # t THEN prevIn(s, x) ELSE x
           Recursion(f) ==
             f = [n \in Nat |-> IF n = 0 THEN Head(s)
                                ELSE IF f[n - 1] # t THEN prevIn(s, f[n - 1]) ELSE f[n - 1]]
           after == CHOOSE f : Recursion(f)
           g == [x \in Times |-> on(x)]
           len == Len(s)
<1>1. searchTime(s, t) = after[patternLength]
  BY Zenon DEF searchTime, after, maxSteps
<1>2. /\ len \in Nat \ {0} /\ Times = {s[j] : j \in 1..len} /\ Head(s) = s[1]
      /\ \A i, j \in 1..len : s[i] = s[j] => i = j
  BY RingByPosition
<1>3. \A j \in 1..len : prevIn(s, s[j]) = s[IF j = 1 THEN len ELSE j - 1]
  BY PrevAndNext
<1>4. len \in 1..len /\ 1 \in 1..len /\ k \in 1..len /\ \A j \in 1..len : j # 1 => j - 1 \in 1..len
  BY <1>2
<1> HIDE DEF len
<1>5. \A x \in Times : prevIn(s, x) \in Times
  <2> SUFFICES ASSUME NEW j \in 1..len
               PROVE  prevIn(s, s[j]) \in Times
    BY <1>2
  <2>1. j = 1 => prevIn(s, s[j]) = s[len]
    BY <1>3
  <2>2. j # 1 => prevIn(s, s[j]) = s[j - 1]
    BY <1>3
  <2> HIDE DEF Times
  <2> QED
    BY <1>2, <1>4, <2>1, <2>2
<1>6. g \in [Times -> Times] /\ s[1] \in Times
  <2> HIDE DEF Times
  <2> QED
    BY <1>2, <1>4, <1>5
<1>7. PICK f \in [Nat -> Times] : f[0] = s[1] /\ \A n \in Nat : f[n + 1] = g[f[n]]
  <2> HIDE DEF g, Times
  <2>1. \E f : Iterates(f, Times, s[1], g)
    BY <1>6, Iteration
  <2> QED
    BY <2>1 DEF Iterates
<1> HIDE DEF Times
<1>8. \A n \in Nat : f[n + 1] = on(f[n])
  BY <1>7
<1> HIDE DEF g
<1>9. Recursion(f)
  <2>1. ASSUME NEW n \in Nat
        PROVE  f[n] = IF n = 0 THEN Head(s)
                      ELSE IF f[n - 1] # t THEN prevIn(s, f[n - 1]) ELSE f[n - 1]
    <3>1. CASE n = 0
      BY <1>2, <1>7, <3>1
    <3>2. CASE n # 0
      <4>1. n - 1 \in Nat /\ (n - 1) + 1 = n
        BY <3>2
      <4>2. f[n] = on(f[n - 1])
        BY <1>8, <4>1
      <4> QED
        BY <3>2, <4>2
    <3> QED
      BY <3>1, <3>2
  <2>2. f = [n \in Nat |-> f[n]]
    BY <1>7
  <2> QED
    BY <2>1, <2>2
<1>10. Recursion(after)
  <2> HIDE DEF Recursion
  <2> QED
    BY <1>9 DEF after
<1> HIDE DEF after
<1>11. after[0] = s[1] /\ \A n \in Nat : after[n + 1] = on(after[n])
  <2>1. \A n \in Nat : after[n] = IF n = 0 THEN Head(s)
                                  ELSE IF after[n - 1] # t THEN prevIn(s, after[n - 1])
                                       ELSE after[n - 1]
    BY <1>10
  <2>2. \A n \in Nat : n + 1 \in Nat /\ n + 1 # 0 /\ (n + 1) - 1 = n
    OBVIOUS
  <2> HIDE DEF t
  <2>3. \A n \in Nat : after[n + 1] = on(after[n])
    BY <2>1, <2>2
  <2> QED
    BY <1>2, <2>1, <2>3
<1> HIDE DEF Recursion
<1>12. patternLength \in Nat \ {0} /\ len - k <= patternLength - 1
  BY PatternAssumption DEF len
<1>13. CASE k = 1
  <2> DEFINE T == {n \in Nat : after[n] = t}
  <2>1. 0 \in T
    BY <1>11, <1>13
  <2>2. \A n \in Nat : n \in T => n + 1 \in T
    BY <1>11
  <2> HIDE DEF T
  <2>3. \A n \in Nat : n \in T
    BY <2>1, <2>2, SetInduction
  <2>4. patternLength \in T
    BY <1>12, <2>3
  <2> QED
    BY <1>1, <2>4 DEF T
<1>14. CASE k # 1
  <2> DEFINE place(n) == IF len - n >= k THEN len - n ELSE k
             T == {n \in Nat : after[n + 1] = s[place(n)]}
  <2>1. 0 \in T
    <3>1. s[1] # t
      BY <1>2, <1>4, <1>14
    <3>2. after[0 + 1] = on(s[1])
      BY <1>11
    <3>3. on(s[1]) = s[len]
      BY <1>3, <1>4, <3>1
    <3>4. place(0) = len
      BY <1>2, <1>4
    <3> QED
      BY <3>2, <3>3, <3>4
  <2>2. ASSUME NEW n \in Nat, n \in T
        PROVE  n + 1 \in T
    <3>1. after[(n + 1) + 1] = on(s[place(n)])
      BY <1>11, <2>2
    <3>2. CASE len - n > k
      <4>1. place(n) = len - n /\ place(n + 1) = (len - n) - 1
        BY <1>2, <1>4, <3>2
      <4>2. len - n \in 1..len /\ len - n # k /\ len - n # 1
        BY <1>2, <1>4, <3>2
      <4>3. s[len - n] # t
        BY <1>2, <1>4, <4>2
      <4>4. prevIn(s, s[len - n]) = s[(len - n) - 1]
        BY <1>3, <4>2
      <4> HIDE DEF place
      <4>5. after[(n + 1) + 1] = s[place(n + 1)]
        BY <3>1, <4>1, <4>3, <4>4
      <4> QED
        BY <4>5
    <3>3. CASE ~(len - n > k)
      <4>1. place(n) = k /\ place(n + 1) = k
        BY <1>2, <1>4, <3>3
      <4> HIDE DEF place
      <4>2. after[(n + 1) + 1] = s[place(n + 1)]
        BY <3>1, <4>1
      <4> QED
        BY <4>2
    <3> QED
      BY <3>2, <3>3
  <2> HIDE DEF T
  <2>3. \A n \in Nat : n \in T
    BY <2>1, <2>2, SetInduction
  <2>4. patternLength - 1 \in Nat /\ (patternLength - 1) + 1 = patternLength
    BY <1>12
  <2>5. place(patternLength - 1) = k
    BY <1>2, <1>4, <1>12
  <2>6. patternLength - 1 \in T
    BY <2>3, <2>4
  <2> HIDE DEF place
  <2>7. after[patternLength] = s[k]
    BY <2>4, <2>5, <2>6 DEF T
  <2> QED
    BY <1>1, <2>7
<1> QED
  BY <1>13, <1>14

(* Multiples of the distance between two times. *)
LEMMA Multiples ==
  ASSUME NEW d \in Nat \ {0}
  PROVE  /\ \A x \in Nat : (x * d) % d = 0
         /\ \A a \in Nat : a % d = 0 => \E x \in Nat : a = x * d
         /\ \A x, y \in Nat : x <= y <=> x * d <= y * d
         /\ \A x, y \in Nat : x < y => x * d + d <= y * d
<1>1. \A x \in Nat : (x * d) % d = 0
  OBVIOUS
<1>2. \A a \in Nat : a % d = 0 => \E x \in Nat : a = x * d
  <2> SUFFICES ASSUME NEW a \in Nat, a % d = 0
               PROVE  \E x \in Nat : a = x * d
    OBVIOUS
  <2>1. a \div d \in Nat /\ a = d * (a \div d) + (a % d)
    OBVIOUS
  <2>2. a = (a \div d) * d
    BY <2>1
  <2> QED
    BY <2>1, <2>2
<1>3. \A x, y \in Nat : x <= y => x * d <= y * d
  OBVIOUS
<1>4. \A x, y \in Nat : x < y => x * d + d <= y * d
  <2> SUFFICES ASSUME NEW x \in Nat, NEW y \in Nat, x < y
               PROVE  x * d + d <= y * d
    OBVIOUS
  <2>1. x + 1 \in Nat /\ x + 1 <= y /\ (x + 1) * d = x * d + d
    OBVIOUS
  <2> QED
    BY <1>3, <2>1
<1>5. \A x, y \in Nat : x * d <= y * d => x <= y
  <2> SUFFICES ASSUME NEW x \in Nat, NEW y \in Nat, ~(x <= y)
               PROVE  ~(x * d <= y * d)
    OBVIOUS
  <2>1. y * d + d <= x * d
    BY <1>4
  <2>2. y * d \in Nat /\ x * d \in Nat
    OBVIOUS
  <2> QED
    BY <2>1, <2>2
<1> QED
  BY <1>1, <1>2, <1>3, <1>4, <1>5

(* The times of the series, from the oldest to the latest.                 *)
IsRegular(oldest, latest) ==
  /\ oldest \in timesOf(leaves) /\ latest \in timesOf(leaves)
  /\ timesOf(leaves) = {t \in oldest..latest : (latest - t) % TIMESTAMP_DIFF = 0}
  /\ latest - oldest >= (patternLength - 1) * TIMESTAMP_DIFF

LEMMA SeriesTimes ==
  ASSUME leaves \in Tree
  PROVE  /\ timesOf(leaves) = {m.timestamp : m \in measurements}
         /\ \A t \in timesOf(leaves) : t \in Nat
         /\ \E oldest, latest : IsRegular(oldest, latest)
<1>1. timesOf(leaves) = {m.timestamp : m \in measurements}
  <2>1. ASSUME NEW t \in timesOf(leaves)
        PROVE  t \in {m.timestamp : m \in measurements}
    <3>1. PICK e \in entriesOf(leaves) : t \in ToSet(e.times)
      BY DEF timesOf
    <3>2. Measurement(t, e.key) \in measurements
      BY <3>1 DEF measurements
    <3>3. Measurement(t, e.key).timestamp = t
      BY DEF Measurement
    <3> QED
      BY <3>2, <3>3
  <2>2. \A m \in measurements : m.timestamp \in timesOf(leaves)
    BY DEF measurements, timesOf, Measurement
  <2> QED
    BY <2>1, <2>2
<1>2. \A t \in timesOf(leaves) : t \in Nat
  BY <1>1, MeasurementTyped
<1>3. \E oldest, latest : IsRegular(oldest, latest)
  BY TreeAssumption DEF IsChain, IsRegular
<1> QED
  BY <1>1, <1>2, <1>3

LEMMA SeriesEndsAtLatest ==
  ASSUME leaves \in Tree
  PROVE  /\ \E oldest : IsRegular(oldest, latestTime)
         /\ latestTime \in Nat
         /\ \A t \in timesOf(leaves) : t <= latestTime
<1>1. PICK oldest, latest : IsRegular(oldest, latest)
  BY SeriesTimes
<1>2. latest \in timesOf(leaves) /\ \A t \in timesOf(leaves) : t \in Nat /\ t <= latest
  <2>1. oldest \in Nat /\ latest \in Nat
    BY <1>1, SeriesTimes DEF IsRegular
  <2> QED
    BY <1>1, <2>1, SeriesTimes DEF IsRegular
<1>3. latestTime = CHOOSE x \in timesOf(leaves) : \A y \in timesOf(leaves) : x >= y
  BY SeriesTimes, Zenon DEF latestTime, Max
<1>4. \A y \in timesOf(leaves) : latest >= y
  BY <1>2
<1>5. latestTime \in timesOf(leaves) /\ \A y \in timesOf(leaves) : latestTime >= y
  BY <1>2, <1>3, <1>4
<1>6. latestTime = latest
  <2>1. latestTime \in Nat /\ latest \in Nat /\ latestTime >= latest /\ latest >= latestTime
    BY <1>2, <1>4, <1>5
  <2> QED
    BY <2>1
<1> QED
  BY <1>1, <1>2, <1>6

LEMMA PatternInSeries ==
  ASSUME leaves \in Tree, NEW c \in Cell
  PROVE  /\ measurementOf(c) \in measurements
         /\ \A m \in measurements : m.timestamp <= latestTime
         /\ measurementOf(c).timestamp = latestTime - (patternLength - c) * TIMESTAMP_DIFF
<1> DEFINE latest == latestTime
<1>1. PICK oldest : IsRegular(oldest, latest)
  BY SeriesEndsAtLatest
<1>2. oldest \in Nat /\ latest \in Nat /\ \A t \in timesOf(leaves) : t <= latest
  BY <1>1, SeriesTimes, SeriesEndsAtLatest DEF IsRegular
<1> HIDE DEF latest
<1> DEFINE x == patternLength - c
           d == TIMESTAMP_DIFF
           t == latest - x * d
<1>5. x \in Nat /\ patternLength - 1 \in Nat /\ x <= patternLength - 1 /\ d \in Nat \ {0}
  BY PatternAssumption, UnitAssumption
<1>6. t \in timesOf(leaves)
  <2>1. (x * d) % d = 0
    BY <1>5, Multiples
  <2>2. x * d <= (patternLength - 1) * d
    BY <1>5, Multiples
  <2>3. latest - oldest >= (patternLength - 1) * d
    BY <1>1 DEF IsRegular
  <2>4. x * d \in Nat /\ (patternLength - 1) * d \in Nat
    BY <1>5
  <2> HIDE DEF x, d
  <2> DEFINE p == x * d
             r == (patternLength - 1) * d
  <2>5. p \in Nat /\ r \in Nat /\ p <= r /\ latest - oldest >= r /\ p % d = 0
    BY <2>1, <2>2, <2>3, <2>4
  <2> HIDE DEF p, r
  <2>6. latest - p \in oldest..latest /\ latest - (latest - p) = p
    BY <1>2, <2>5
  <2>7. (latest - (latest - p)) % d = 0
    BY <2>5, <2>6
  <2>8. latest - p \in timesOf(leaves)
    BY <1>1, <2>6, <2>7 DEF IsRegular, d
  <2> QED
    BY <2>8 DEF p
<1>7. measurementOf(c) = CHOOSE m \in measurements : m.timestamp = t
  BY Zenon DEF measurementOf, latest
<1> HIDE DEF t
<1>8. \E m \in measurements : m.timestamp = t
  BY <1>6, SeriesTimes
<1>9. measurementOf(c) \in measurements /\ measurementOf(c).timestamp = t
  BY <1>7, <1>8
<1>10. \A m \in measurements : m.timestamp <= latest
  BY <1>2, SeriesTimes
<1> QED
  BY <1>9, <1>10 DEF t, latest

(* A measurement of the pattern has at most patternLength - 1 newer ones   *)
(* of the same value.                                                      *)
LEMMA NewerOfPattern ==
  ASSUME leaves \in Tree, NEW c \in Cell, NEW l, NEW i, InTree(l, i),
         NEW k \in 1..Len(ring(l, i)), ring(l, i)[k] = measurementOf(c).timestamp
  PROVE  Len(ring(l, i)) - k <= patternLength - 1
<1> DEFINE s == ring(l, i)
           d == TIMESTAMP_DIFF
           x == patternLength - c
           n == Len(s)
           latest == latestTime
<1>1. PICK oldest : IsRegular(oldest, latest)
  BY SeriesEndsAtLatest
<1>2. IsRing(s)
  BY TreeFacts DEF ChainOrdered
<1>3. /\ n \in Nat \ {0} /\ k \in 1..n /\ \A j \in 1..n : s[j] \in Nat
      /\ \A a, b \in 1..n : a < b => s[a] < s[b]
  BY <1>2, RingByPosition DEF IsRing
<1>4. \A j \in 1..n : s[j] \in timesOf(leaves)
  <2> SUFFICES ASSUME NEW j \in 1..n
               PROVE  s[j] \in timesOf(leaves)
    OBVIOUS
  <2>1. Measurement(s[j], key(l, i)) \in measurements
    BY PlaceIsPosition
  <2>2. Measurement(s[j], key(l, i)).timestamp = s[j]
    BY DEF Measurement
  <2> QED
    BY <2>1, <2>2, SeriesTimes
<1>5. latest \in Nat /\ \A t \in timesOf(leaves) : t \in Nat /\ t <= latest /\ (latest - t) % d = 0
  BY <1>1, SeriesTimes, SeriesEndsAtLatest DEF IsRegular
<1>6. x \in Nat /\ x <= patternLength - 1 /\ d \in Nat \ {0} /\ patternLength \in Nat
  BY PatternAssumption, UnitAssumption
<1>7. s[k] = latest - x * d
  BY PatternInSeries
<1> HIDE DEF s, n, d, x, latest
<1>8. ASSUME NEW j \in 1..(n - 1)
      PROVE  s[j] + d <= s[j + 1]
  <2>1. j \in 1..n /\ j + 1 \in 1..n /\ j < j + 1
    BY <1>3
  <2>2. s[j] < s[j + 1] /\ s[j] \in Nat /\ s[j + 1] \in Nat
    BY <1>3, <2>1
  <2>3. /\ latest - s[j] \in Nat /\ (latest - s[j]) % d = 0
        /\ latest - s[j + 1] \in Nat /\ (latest - s[j + 1]) % d = 0
    BY <1>4, <1>5, <2>1, <2>2
  <2>4. PICK a \in Nat : latest - s[j] = a * d
    BY <1>6, <2>3, Multiples
  <2>5. PICK b \in Nat : latest - s[j + 1] = b * d
    BY <1>6, <2>3, Multiples
  <2> DEFINE p == a * d
             r == b * d
  <2>6. p \in Nat /\ r \in Nat
    BY <1>6
  <2>7. ~(a <= b)
    <3>1. a <= b => p <= r
      BY <1>6, Multiples
    <3>2. latest - s[j] = p /\ latest - s[j + 1] = r
      BY <2>4, <2>5
    <3> HIDE DEF p, r
    <3> QED
      BY <1>5, <2>2, <2>6, <3>1, <3>2
  <2>8. r + d <= p
    <3>1. b < a
      BY <2>7
    <3> QED
      BY <1>6, <3>1, Multiples
  <2>9. latest - s[j] = p /\ latest - s[j + 1] = r
    BY <2>4, <2>5
  <2> HIDE DEF p, r
  <2> QED
    BY <1>5, <1>6, <2>2, <2>6, <2>8, <2>9
<1>9. \A j \in k..n : s[k] + (j - k) * d <= s[j]
  <2> DEFINE T == {j \in k..n : s[k] + (j - k) * d <= s[j]}
  <2>1. k \in T
    BY <1>3, <1>6
  <2>2. ASSUME NEW j \in k..(n - 1), j \in T
        PROVE  j + 1 \in T
    <3>1. j \in 1..(n - 1) /\ j \in 1..n /\ j + 1 \in 1..n /\ j + 1 \in k..n /\ j - k \in Nat
      BY <1>3
    <3>2. ((j + 1) - k) * d = (j - k) * d + d
      BY <1>6, <3>1
    <3>3. s[j] + d <= s[j + 1]
      BY <1>8, <3>1
    <3>4. s[k] + (j - k) * d <= s[j]
      BY <2>2
    <3> DEFINE p == (j - k) * d
    <3>5. p \in Nat
      BY <1>6, <3>1
    <3>6. ((j + 1) - k) * d = p + d /\ s[k] + p <= s[j]
      BY <3>2, <3>4
    <3>7. s[k] \in Nat /\ s[j] \in Nat /\ s[j + 1] \in Nat
      BY <1>3, <3>1
    <3> HIDE DEF p
    <3>8. s[k] + (p + d) <= s[j + 1]
      BY <1>6, <3>3, <3>5, <3>6, <3>7
    <3> QED
      BY <3>1, <3>6, <3>8
  <2> HIDE DEF T
  <2>3. k \in Int /\ n \in Int
    BY <1>3
  <2>4. \A j \in k..n : j \in T
    BY <2>1, <2>2, <2>3, IntervalInduction
  <2> QED
    BY <2>4 DEF T
<1>10. n - k \in Nat /\ n \in k..n /\ n \in 1..n
  BY <1>3
<1>11. s[k] + (n - k) * d <= s[n] /\ s[n] <= latest /\ s[n] \in Nat /\ s[k] \in Nat
  BY <1>3, <1>4, <1>5, <1>9, <1>10
<1> DEFINE p == (n - k) * d
           r == x * d
<1>12. p \in Nat /\ r \in Nat
  BY <1>6, <1>10
<1>13. p <= r
  <2>1. s[k] = latest - r /\ s[k] + p <= s[n]
    BY <1>7, <1>11
  <2> HIDE DEF p, r
  <2> QED
    BY <1>5, <1>11, <1>12, <2>1
<1>14. n - k <= x
  BY <1>6, <1>10, <1>13, Multiples
<1> HIDE DEF p, r
<1>15. n - k <= patternLength - 1
  BY <1>6, <1>10, <1>14
<1> QED
  BY <1>15 DEF n, s

(* Where a Neighborhood starts. *)
PositionOf(m) ==
  LET l == placeOf(m.value)[1]
      i == placeOf(m.value)[2]
  IN  Position(l, i, searchTime(ring(l, i), m.timestamp))

LEMMA StartPosition ==
  ASSUME leaves \in Tree, NEW c \in Cell
  PROVE  /\ IsPosition(PositionOf(measurementOf(c)))
         /\ At(PositionOf(measurementOf(c))) = measurementOf(c)
<1> DEFINE m == measurementOf(c)
           place == placeOf(m.value)
           places == UNION {{<<l, i>> : i \in 0..(numOfKeys(l) - 1)} : l \in DOMAIN leaves}
           l == place[1]
           i == place[2]
<1>1. m \in measurements
  BY PatternInSeries
<1>2. DOMAIN leaves = 1..Len(leaves)
  BY TreeAssumption, EntriesByPlace DEF IsChain
<1>3. PICK a, b, j : /\ InTree(a, b) /\ j \in 1..Len(ring(a, b))
                     /\ m = Measurement(ring(a, b)[j], key(a, b))
  BY <1>1, MeasurementPlace
<1>4. m.value = key(a, b) /\ m.timestamp = ring(a, b)[j]
  BY <1>3 DEF Measurement
<1>5. l = a /\ i = b
  <2>1. <<a, b>> \in places /\ key(<<a, b>>[1], <<a, b>>[2]) = m.value
    BY <1>2, <1>3, <1>4 DEF InTree
  <2>2. place = CHOOSE p \in places : key(p[1], p[2]) = m.value
    BY Zenon DEF placeOf
  <2>3. place \in places /\ key(place[1], place[2]) = m.value
    <3> HIDE DEF places, m, place
    <3> QED
      BY <2>1, <2>2
  <2>4. InTree(l, i)
    BY <1>2, <2>3 DEF InTree
  <2> QED
    BY <1>3, <1>4, <2>3, <2>4, PlacesByKey
<1>6. Len(ring(a, b)) - j <= patternLength - 1
  BY <1>3, <1>4, NewerOfPattern
<1>7. IsRing(ring(a, b))
  BY <1>3, TreeFacts DEF ChainOrdered
<1>8. searchTime(ring(a, b), m.timestamp) = ring(a, b)[j]
  BY <1>3, <1>4, <1>6, <1>7, SearchFinds
<1>9. PositionOf(m) = Position(a, b, ring(a, b)[j])
  BY <1>5, <1>8 DEF PositionOf
<1> HIDE DEF m
<1> QED
  BY <1>3, <1>9, PlaceIsPosition DEF m

(* Where a walk of grow ends, if it does not read beyond the end.          *)
LEMMA WalkIsPlaced ==
  ASSUME leaves \in Tree, NEW c, NEW side, NEW old, IsPosition(old),
         NEW first, first = nextPosition(side, old),
         NEW reached, reached = pastSeen(c, side, first), ~readsNull(first, reached)
  PROVE  /\ ~isSeen(c, reached)
         /\ IsNull(reached) \/ IsPosition(reached)
         /\ IsNull(reached) => reached = first
         /\ ~isSeen(c, first) => reached = first
<1>1. first \in Positions
  BY NextIsAhead
<1>2. /\ reached \in Positions /\ ~isSeen(c, reached)
      /\ ~isSeen(c, first) => reached = first
  BY <1>1, WalkEnds
<1>3. IsNull(reached) => ~isSeen(c, first)
  BY DEF readsNull, isSeen
<1> QED
  BY <1>2, <1>3 DEF Positions

-----------------------------------------------------------------------------
(*                              The invariant                              *)

IsActive(c) == status[c] \in {"new", "grown", "exhausted"}

(* Both positions lead to measurements, before the first call to the one   *)
(* that the Neighborhood is made for.                                      *)
IsPlaced(c) ==
  /\ status[c] \notin {"absent", "destroyed"} =>
       IsPosition(leftPosition[c]) /\ IsPosition(rightPosition[c])
  /\ IsActive(c) => start[c] = measurementOf(c)
  /\ status[c] = "new" =>
       rightPosition[c] = leftPosition[c] /\ At(leftPosition[c]) = start[c]

(* The measurements from low to high. *)
Between(low, high) == {m \in measurements : ~Before(m, low) /\ ~Before(high, m)}

(* What a Neighborhood that is alone has found: all between its positions. *)
(* It goes to the right one value at a time, and when it has answered      *)
(* false nothing is outside.                                               *)
FoundBetween(c, left, right) ==
  /\ timeset = {m.timestamp + offset(c) : m \in Between(left, right) \ {start[c]}}
  /\ ~Before(start[c], left) /\ ~Before(right, start[c])
  /\ IsNewest(right) /\ SingleAbove(right.value)
  /\ status[c] = "exhausted" =>
       \A m \in measurements : ~Before(m, left) /\ ~Before(right, m)

HasFound(c) ==
  IsActive(c) /\ isAlone(c) /\ isSingleOnTheRight(c) =>
    FoundBetween(c, At(leftPosition[c]), At(rightPosition[c]))

QueryInv ==
  /\ leaves \in Tree
  /\ status \in [Cell -> Status]
  /\ DOMAIN leftPosition = Cell /\ DOMAIN rightPosition = Cell /\ DOMAIN start = Cell
  /\ \A c \in Cell : IsPlaced(c)
  /\ \A c \in Cell : HasFound(c)
  /\ (\A c \in Cell : status[c] = "absent") => timeset = {}

LEMMA QueryStarts == QueryInit => QueryInv
<1> SUFFICES ASSUME QueryInit
             PROVE  QueryInv
  OBVIOUS
<1> USE DEF QueryInit
<1>1. /\ leaves \in Tree /\ timeset = {}
      /\ DOMAIN leftPosition = Cell /\ DOMAIN rightPosition = Cell /\ DOMAIN start = Cell
  OBVIOUS
<1>2. status \in [Cell -> Status] /\ \A c \in Cell : status[c] = "absent"
  BY DEF Status
<1>3. \A c \in Cell : IsPlaced(c) /\ HasFound(c)
  BY <1>2 DEF IsPlaced, HasFound, IsActive
<1> QED
  BY <1>1, <1>2, <1>3 DEF QueryInv

(* What does not change with the chain. *)
LEMMA SameChain ==
  ASSUME leaves' = leaves
  PROVE  /\ measurements' = measurements
         /\ \A c \in Cell : measurementOf(c)' = measurementOf(c)
<1>1. measurements' = measurements
  BY DEF measurements
<1>2. latestTime' = latestTime
  BY <1>1 DEF latestTime
<1>3. ASSUME NEW c \in Cell
      PROVE  measurementOf(c)' = measurementOf(c)
  BY <1>1, <1>2 DEF measurementOf
<1> QED
  BY <1>1, <1>3

(* Measurements are ordered, by value and then by time. *)
LEMMA MeasurementOrder ==
  ASSUME leaves \in Tree
  PROVE  /\ \A m, n \in measurements : Before(m, n) \/ Before(n, m) \/ m = n
         /\ \A m \in measurements : ~Before(m, m)
         /\ \A m, n \in measurements : Before(m, n) => ~Before(n, m)
         /\ \A m, n, o \in measurements : Before(m, n) /\ Before(n, o) => Before(m, o)
<1>1. \A m \in measurements : m.value \in Int /\ m.timestamp \in Nat
  BY MeasurementTyped
<1>2. ASSUME NEW m \in measurements, NEW n \in measurements,
             ~Before(m, n), ~Before(n, m)
      PROVE  m = n
  <2>1. m.timestamp = n.timestamp
    BY <1>1, <1>2 DEF Before
  <2> QED
    BY <2>1, OneMeasurementPerTime
<1>3. \A m \in measurements : ~Before(m, m)
  BY <1>1 DEF Before
<1>4. \A m, n \in measurements : Before(m, n) => ~Before(n, m)
  BY <1>1 DEF Before
<1>5. \A m, n, o \in measurements : Before(m, n) /\ Before(n, o) => Before(m, o)
  BY <1>1 DEF Before
<1> QED
  BY <1>2, <1>3, <1>4, <1>5

(* A segment grows by the measurement next before or next after it.        *)
LEMMA SegmentGrows ==
  ASSUME leaves \in Tree, NEW low \in measurements, NEW high \in measurements,
         ~Before(high, low), NEW new \in measurements
  PROVE  /\ /\ Before(new, low)
            /\ \A n \in measurements : ~(Before(new, n) /\ Before(n, low))
            => Between(new, high) = Between(low, high) \union {new}
         /\ /\ Before(high, new)
            /\ \A n \in measurements : ~(Before(high, n) /\ Before(n, new))
            => Between(low, new) = Between(low, high) \union {new}
<1>1. /\ \A m, n \in measurements : Before(m, n) \/ Before(n, m) \/ m = n
      /\ \A m \in measurements : ~Before(m, m)
      /\ \A m, n \in measurements : Before(m, n) => ~Before(n, m)
      /\ \A m, n, o \in measurements : Before(m, n) /\ Before(n, o) => Before(m, o)
  BY MeasurementOrder
<1>2. ASSUME Before(new, low), \A n \in measurements : ~(Before(new, n) /\ Before(n, low))
      PROVE  Between(new, high) = Between(low, high) \union {new}
  <2>1. ASSUME NEW n \in Between(new, high)
        PROVE  n \in Between(low, high) \union {new}
    BY <1>1, <1>2, <2>1 DEF Between
  <2>2. ~Before(high, new)
    BY <1>1, <1>2
  <2>3. ASSUME NEW n \in Between(low, high)
        PROVE  n \in Between(new, high)
    BY <1>1, <1>2, <2>3 DEF Between
  <2>4. new \in Between(new, high)
    BY <1>1, <2>2 DEF Between
  <2> QED
    BY <2>1, <2>3, <2>4
<1>3. ASSUME Before(high, new), \A n \in measurements : ~(Before(high, n) /\ Before(n, new))
      PROVE  Between(low, new) = Between(low, high) \union {new}
  <2>1. ASSUME NEW n \in Between(low, new)
        PROVE  n \in Between(low, high) \union {new}
    BY <1>1, <1>3, <2>1 DEF Between
  <2>2. ~Before(new, low)
    BY <1>1, <1>3
  <2>3. ASSUME NEW n \in Between(low, high)
        PROVE  n \in Between(low, new)
    BY <1>1, <1>3, <2>3 DEF Between
  <2>4. new \in Between(low, new)
    BY <1>1, <2>2 DEF Between
  <2> QED
    BY <2>1, <2>3, <2>4
<1> QED
  BY <1>2, <1>3

(* What has been found is seen, and nothing else is.                       *)
LEMMA SeenIsFound ==
  ASSUME leaves \in Tree, NEW c \in Cell, NEW F \in SUBSET measurements,
         timeset = {m.timestamp + offset(c) : m \in F}
  PROVE  \A m \in measurements : m.timestamp + offset(c) \in timeset <=> m \in F
<1>1. offset(c) \in Int
  BY PatternAssumption, UnitAssumption DEF offset
<1>2. ASSUME NEW m \in measurements, m.timestamp + offset(c) \in timeset
      PROVE  m \in F
  <2>1. PICK n \in F : n.timestamp + offset(c) = m.timestamp + offset(c)
    BY <1>2
  <2>2. n.timestamp \in Nat /\ m.timestamp \in Nat
    BY MeasurementTyped
  <2>3. n.timestamp = m.timestamp
    BY <1>1, <2>1, <2>2
  <2> QED
    BY <2>3, OneMeasurementPerTime
<1> QED
  BY <1>2

-----------------------------------------------------------------------------
(*                        What grow finds when it is alone                 *)

(* The names of Neighborhood_grow. *)
FirstLeft(c) == getTMinus(leftPosition[c])
FirstRight(c) == getTPlus(rightPosition[c])
Left(c) == pastSeen(c, "left", FirstLeft(c))
Right(c) == pastSeen(c, "right", FirstRight(c))
TakesLeft(c) == leftIsNext(c, Left(c), Right(c))
TakesRight(c) == ~IsNull(Right(c)) /\ ~TakesLeft(c)
Found(c) == IF TakesLeft(c) THEN {getOffsetTime(c, Left(c))}
            ELSE IF TakesRight(c) THEN {getOffsetTime(c, Right(c))} ELSE {}

Answers(c) ==
  /\ ~readsNull(FirstLeft(c), Left(c)) /\ ~readsNull(FirstRight(c), Right(c))
  /\ leftPosition' = [leftPosition EXCEPT ![c] =
                        IF TakesLeft(c) \/ Left(c) # FirstLeft(c) THEN Left(c) ELSE @]
  /\ rightPosition' = [rightPosition EXCEPT ![c] =
                         IF TakesRight(c) \/ Right(c) # FirstRight(c) THEN Right(c) ELSE @]
  /\ timeset' = timeset \union Found(c)
  /\ status' = [status EXCEPT ![c] = IF Found(c) # {} THEN "grown" ELSE "exhausted"]

LEMMA GrowByName ==
  ASSUME NEW c, Neighborhood_grow(c)
  PROVE  /\ IsActive(c) /\ leaves' = leaves /\ start' = start
         /\ \/ /\ status' = [status EXCEPT ![c] = "nullRead"]
               /\ UNCHANGED <<leftPosition, rightPosition, timeset>>
            \/ Answers(c)
  BY Zenon DEF Neighborhood_grow, Answers, FirstLeft, FirstRight, Left, Right, TakesLeft,
               TakesRight, Found, IsActive

(* Both walks of an answered call, and what is taken.                      *)
LEMMA GrowWalks ==
  ASSUME leaves \in Tree, NEW c \in Cell,
         IsPosition(leftPosition[c]), IsPosition(rightPosition[c]), Answers(c)
  PROVE  /\ ~isSeen(c, Left(c)) /\ (IsNull(Left(c)) \/ IsPosition(Left(c)))
         /\ IsNull(Left(c)) => Left(c) = FirstLeft(c)
         /\ ~isSeen(c, FirstLeft(c)) => Left(c) = FirstLeft(c)
         /\ ~isSeen(c, Right(c)) /\ (IsNull(Right(c)) \/ IsPosition(Right(c)))
         /\ IsNull(Right(c)) => Right(c) = FirstRight(c)
         /\ ~isSeen(c, FirstRight(c)) => Right(c) = FirstRight(c)
         /\ TakesLeft(c) => ~IsNull(Left(c))
         /\ TakesRight(c) => ~IsNull(Right(c)) /\ ~TakesLeft(c)
         /\ ~TakesLeft(c) /\ ~TakesRight(c) => IsNull(Left(c)) /\ IsNull(Right(c))
<1>1. FirstLeft(c) = nextPosition("left", leftPosition[c])
  BY DEF FirstLeft, nextPosition
<1>2. FirstRight(c) = nextPosition("right", rightPosition[c])
  BY DEF FirstRight, nextPosition
<1>3. /\ ~isSeen(c, Left(c)) /\ (IsNull(Left(c)) \/ IsPosition(Left(c)))
      /\ IsNull(Left(c)) => Left(c) = FirstLeft(c)
      /\ ~isSeen(c, FirstLeft(c)) => Left(c) = FirstLeft(c)
  BY <1>1, WalkIsPlaced DEF Left, Answers
<1>4. /\ ~isSeen(c, Right(c)) /\ (IsNull(Right(c)) \/ IsPosition(Right(c)))
      /\ IsNull(Right(c)) => Right(c) = FirstRight(c)
      /\ ~isSeen(c, FirstRight(c)) => Right(c) = FirstRight(c)
  BY <1>2, WalkIsPlaced DEF Right, Answers
<1> QED
  BY <1>3, <1>4 DEF TakesLeft, TakesRight, leftIsNext

NewLeft(c) == IF TakesLeft(c) THEN Left(c) ELSE leftPosition[c]
NewRight(c) == IF TakesRight(c) THEN Right(c) ELSE rightPosition[c]

(* It is the first step of each walk that finds a time nobody has seen.    *)
LEMMA AloneWalks ==
  ASSUME leaves \in Tree, NEW c \in Cell,
         IsPosition(leftPosition[c]), IsPosition(rightPosition[c]), Answers(c),
         FoundBetween(c, At(leftPosition[c]), At(rightPosition[c]))
  PROVE  /\ Left(c) = FirstLeft(c) /\ Right(c) = FirstRight(c)
         /\ \/ /\ ~IsNull(Left(c)) /\ At(Left(c)) \in measurements
               /\ Before(At(Left(c)), At(leftPosition[c]))
               /\ \A n \in measurements :
                    ~(Before(At(Left(c)), n) /\ Before(n, At(leftPosition[c])))
            \/ /\ IsNull(Left(c))
               /\ \A n \in measurements : ~Before(n, At(leftPosition[c]))
         /\ \/ /\ ~IsNull(Right(c)) /\ At(Right(c)) \in measurements
               /\ Before(At(rightPosition[c]), At(Right(c)))
               /\ \A n \in measurements :
                    ~(Before(At(rightPosition[c]), n) /\ Before(n, At(Right(c))))
            \/ /\ IsNull(Right(c))
               /\ \A n \in measurements : ~Before(At(rightPosition[c]), n)
<1> DEFINE low == At(leftPosition[c])
           high == At(rightPosition[c])
           F == Between(low, high) \ {start[c]}
<1>1. timeset = {m.timestamp + offset(c) : m \in F} /\ F \in SUBSET measurements
  BY DEF FoundBetween, Between
<1> HIDE DEF F
<1>2. \A m \in measurements : m.timestamp + offset(c) \in timeset => m \in F
  BY <1>1, SeenIsFound
<1>3. \A m \in F : ~Before(m, low) /\ ~Before(high, m)
  BY DEF F, Between
<1>4. \A q : IsPosition(q) =>
        /\ At(q) \in measurements /\ ~IsNull(q)
        /\ isSeen(c, q) => At(q) \in F
  <2> SUFFICES ASSUME NEW q, IsPosition(q)
               PROVE  /\ At(q) \in measurements /\ ~IsNull(q)
                      /\ isSeen(c, q) => At(q) \in F
    OBVIOUS
  <2>1. At(q) \in measurements /\ At(q).timestamp = q.timeStampPosition
    BY PositionIsMeasurement DEF At, Measurement
  <2>2. ~IsNull(q)
    BY <2>1, MeasurementTyped DEF IsNull
  <2>3. isSeen(c, q) => At(q).timestamp + offset(c) \in timeset
    BY <2>1 DEF isSeen, getOffsetTime
  <2> QED
    BY <1>2, <2>1, <2>2, <2>3
<1>5. \A q : IsNull(q) => ~isSeen(c, q)
  BY DEF isSeen
<1>6. IsPredecessor(leftPosition[c], FirstLeft(c))
  BY LeftStep DEF FirstLeft
<1>7. IsSuccessor(rightPosition[c], FirstRight(c))
  BY RightStepOfSingle DEF FirstRight, FoundBetween
<1>8. Left(c) = FirstLeft(c)
  <2>1. ~isSeen(c, FirstLeft(c))
    BY <1>3, <1>4, <1>5, <1>6 DEF IsPredecessor
  <2> QED
    BY <2>1, GrowWalks
<1>9. Right(c) = FirstRight(c)
  <2>1. ~isSeen(c, FirstRight(c))
    BY <1>3, <1>4, <1>5, <1>7 DEF IsSuccessor
  <2> QED
    BY <2>1, GrowWalks
<1>10. \/ /\ ~IsNull(Left(c)) /\ At(Left(c)) \in measurements
          /\ Before(At(Left(c)), low)
          /\ \A n \in measurements : ~(Before(At(Left(c)), n) /\ Before(n, low))
       \/ IsNull(Left(c)) /\ \A n \in measurements : ~Before(n, low)
  BY <1>4, <1>6, <1>8 DEF IsPredecessor
<1>11. \/ /\ ~IsNull(Right(c)) /\ At(Right(c)) \in measurements
          /\ Before(high, At(Right(c)))
          /\ \A n \in measurements : ~(Before(high, n) /\ Before(n, At(Right(c))))
       \/ IsNull(Right(c)) /\ \A n \in measurements : ~Before(high, n)
  BY <1>4, <1>7, <1>9 DEF IsSuccessor
<1> QED
  BY <1>8, <1>9, <1>10, <1>11

(* The next value to the right is newest too, and single above. *)
LEMMA NextIsSingle ==
  ASSUME leaves \in Tree, NEW high \in measurements, NEW new \in measurements,
         IsNewest(high), SingleAbove(high.value), Before(high, new)
  PROVE  /\ IsNewest(new) /\ SingleAbove(new.value)
         /\ new.value > high.value
<1>1. \A m \in measurements : m.value \in Int /\ m.timestamp \in Nat
  BY MeasurementTyped
<1>2. new.value > high.value
  <2>1. ~(new.value = high.value /\ high.timestamp < new.timestamp)
    BY <1>1 DEF IsNewest
  <2> QED
    BY <1>1, <2>1 DEF Before
<1>3. \A n \in measurements : n.value = new.value => n = new
  BY <1>2 DEF SingleAbove
<1>4. IsNewest(new)
  BY <1>1, <1>3 DEF IsNewest
<1>5. SingleAbove(new.value)
  <2>1. \A m \in measurements : m.value > new.value => m.value > high.value
    BY <1>1, <1>2
  <2> QED
    BY <2>1 DEF SingleAbove
<1> QED
  BY <1>2, <1>4, <1>5

LEMMA GrowKeepsFound ==
  ASSUME leaves \in Tree, NEW c \in Cell, c \in DOMAIN status, start[c] \in measurements,
         IsPosition(leftPosition[c]), IsPosition(rightPosition[c]), Answers(c),
         FoundBetween(c, At(leftPosition[c]), At(rightPosition[c]))
  PROVE  /\ timeset' = {m.timestamp + offset(c) :
                          m \in Between(At(NewLeft(c)), At(NewRight(c))) \ {start[c]}}
         /\ ~Before(start[c], At(NewLeft(c))) /\ ~Before(At(NewRight(c)), start[c])
         /\ IsNewest(At(NewRight(c))) /\ SingleAbove(At(NewRight(c)).value)
         /\ status'[c] = "exhausted" =>
              \A m \in measurements :
                ~Before(m, At(NewLeft(c))) /\ ~Before(At(NewRight(c)), m)
<1> DEFINE low == At(leftPosition[c])
           high == At(rightPosition[c])
           s == start[c]
           times(F) == {m.timestamp + offset(c) : m \in F}
           Goal == /\ timeset' = times(Between(At(NewLeft(c)), At(NewRight(c))) \ {s})
                   /\ ~Before(s, At(NewLeft(c))) /\ ~Before(At(NewRight(c)), s)
                   /\ IsNewest(At(NewRight(c))) /\ SingleAbove(At(NewRight(c)).value)
                   /\ status'[c] = "exhausted" =>
                        \A m \in measurements :
                          ~Before(m, At(NewLeft(c))) /\ ~Before(At(NewRight(c)), m)
<1>1. /\ timeset = times(Between(low, high) \ {s})
      /\ ~Before(s, low) /\ ~Before(high, s)
      /\ IsNewest(high) /\ SingleAbove(high.value)
  BY DEF FoundBetween
<1>2. low \in measurements /\ high \in measurements /\ s \in measurements
  BY PositionIsMeasurement
<1>3. /\ \A m, n \in measurements : Before(m, n) \/ Before(n, m) \/ m = n
      /\ \A m \in measurements : ~Before(m, m)
      /\ \A m, n \in measurements : Before(m, n) => ~Before(n, m)
      /\ \A m, n, o \in measurements : Before(m, n) /\ Before(n, o) => Before(m, o)
  BY MeasurementOrder
<1>4. ~Before(high, low)
  BY <1>1, <1>2, <1>3
<1>5. /\ timeset' = timeset \union Found(c)
      /\ status'[c] = IF Found(c) # {} THEN "grown" ELSE "exhausted"
  BY DEF Answers
<1>6. \A q : getOffsetTime(c, q) = At(q).timestamp + offset(c)
  BY DEF getOffsetTime, At, Measurement
<1>7. \A F, m : times(F \union {m}) = times(F) \union {m.timestamp + offset(c)}
  OBVIOUS
<1> HIDE DEF times
<1>8. CASE TakesLeft(c)
  <2> DEFINE new == At(Left(c))
  <2>1. /\ new \in measurements /\ Before(new, low)
        /\ \A n \in measurements : ~(Before(new, n) /\ Before(n, low))
    BY <1>8, AloneWalks, GrowWalks
  <2>2. At(NewLeft(c)) = new /\ At(NewRight(c)) = high
    BY <1>8 DEF NewLeft, NewRight, TakesRight
  <2>3. Found(c) = {new.timestamp + offset(c)} /\ Found(c) # {}
    BY <1>6, <1>8 DEF Found
  <2> HIDE DEF new, low, high, s
  <2>4. Between(new, high) = Between(low, high) \union {new}
    BY <1>2, <1>4, <2>1, SegmentGrows
  <2>5. new # s /\ ~Before(s, new)
    BY <1>1, <1>2, <1>3, <2>1
  <2>6. Between(new, high) \ {s} = (Between(low, high) \ {s}) \union {new}
    BY <2>4, <2>5
  <2>7. timeset' = times(Between(new, high) \ {s})
    BY <1>1, <1>5, <1>7, <2>3, <2>6
  <2>8. status'[c] # "exhausted"
    BY <1>5, <2>3
  <2>9. Goal
    BY <1>1, <2>2, <2>5, <2>7, <2>8
  <2> QED
    BY <2>9 DEF s, times
<1>9. CASE TakesRight(c)
  <2> DEFINE new == At(Right(c))
  <2>1. /\ new \in measurements /\ Before(high, new)
        /\ \A n \in measurements : ~(Before(high, n) /\ Before(n, new))
    BY <1>9, AloneWalks, GrowWalks
  <2>2. At(NewLeft(c)) = low /\ At(NewRight(c)) = new
    BY <1>9 DEF NewLeft, NewRight, TakesRight
  <2>3. Found(c) = {new.timestamp + offset(c)} /\ Found(c) # {}
    BY <1>6, <1>9 DEF Found, TakesRight
  <2> HIDE DEF new, low, high, s
  <2>4. Between(low, new) = Between(low, high) \union {new}
    BY <1>2, <1>4, <2>1, SegmentGrows
  <2>5. new # s /\ ~Before(new, s)
    BY <1>1, <1>2, <1>3, <2>1
  <2>6. Between(low, new) \ {s} = (Between(low, high) \ {s}) \union {new}
    BY <2>4, <2>5
  <2>7. timeset' = times(Between(low, new) \ {s})
    BY <1>1, <1>5, <1>7, <2>3, <2>6
  <2>8. status'[c] # "exhausted"
    BY <1>5, <2>3
  <2>9. IsNewest(new) /\ SingleAbove(new.value)
    BY <1>1, <1>2, <2>1, NextIsSingle
  <2>10. Goal
    BY <1>1, <2>2, <2>5, <2>7, <2>8, <2>9
  <2> QED
    BY <2>10 DEF s, times
<1>10. CASE ~TakesLeft(c) /\ ~TakesRight(c)
  <2>1. At(NewLeft(c)) = low /\ At(NewRight(c)) = high /\ Found(c) = {}
    BY <1>10 DEF NewLeft, NewRight, Found
  <2>2. IsNull(Left(c)) /\ IsNull(Right(c))
    BY <1>10, GrowWalks
  <2>3. \A n \in measurements : ~Before(n, low) /\ ~Before(high, n)
    BY <2>2, AloneWalks
  <2>4. timeset' = times(Between(low, high) \ {s})
    BY <1>1, <1>5, <2>1
  <2> HIDE DEF low, high, s
  <2>5. Goal
    BY <1>1, <2>1, <2>3, <2>4
  <2> QED
    BY <2>5 DEF s, times
<1> QED
  BY <1>8, <1>9, <1>10

-----------------------------------------------------------------------------
(*                                   Steps                                 *)

(* A new Neighborhood has found nothing, and what is between its positions *)
(* is its start.                                                           *)
LEMMA NewKeepsInv ==
  ASSUME QueryInv, NEW c \in Cell, Neighborhood_new(c)
  PROVE  QueryInv'
<1> DEFINE pos == PositionOf(measurementOf(c))
           m == measurementOf(c)
<1>1. /\ leftPosition' = [leftPosition EXCEPT ![c] = pos]
      /\ rightPosition' = [rightPosition EXCEPT ![c] = pos]
      /\ start' = [start EXCEPT ![c] = m]
      /\ status' = [status EXCEPT ![c] = "new"]
      /\ leaves' = leaves /\ timeset' = timeset /\ status[c] = "absent"
  BY Zenon DEF Neighborhood_new, PositionOf
<1>2. /\ leaves \in Tree /\ status \in [Cell -> Status]
      /\ DOMAIN leftPosition = Cell /\ DOMAIN rightPosition = Cell /\ DOMAIN start = Cell
      /\ \A d \in Cell : IsPlaced(d)
      /\ (\A d \in Cell : status[d] = "absent") => timeset = {}
  BY DEF QueryInv
<1>3. IsPosition(pos) /\ At(pos) = m /\ m \in measurements
  BY <1>2, StartPosition, PatternInSeries
<1>4. measurements' = measurements /\ \A d \in Cell : measurementOf(d)' = measurementOf(d)
  BY <1>1, SameChain
<1> HIDE DEF pos
<1>5. /\ leftPosition'[c] = pos /\ rightPosition'[c] = pos /\ start'[c] = m /\ status'[c] = "new"
      /\ \A d \in Cell \ {c} : /\ leftPosition'[d] = leftPosition[d]
                               /\ rightPosition'[d] = rightPosition[d]
                               /\ start'[d] = start[d] /\ status'[d] = status[d]
      /\ status' \in [Cell -> Status]
      /\ DOMAIN leftPosition' = Cell /\ DOMAIN rightPosition' = Cell /\ DOMAIN start' = Cell
  BY <1>1, <1>2 DEF Status
<1>6. IsPlaced(c)'
  BY <1>1, <1>3, <1>4, <1>5
     DEF IsPlaced, IsActive, IsPosition, ringAt, ring, numOfKeys, At, key
<1>7. ASSUME NEW d \in Cell \ {c}
      PROVE  IsPlaced(d)'
  BY <1>1, <1>2, <1>4, <1>5
     DEF IsPlaced, IsActive, IsPosition, ringAt, ring, numOfKeys, At, key
<1>8. ASSUME NEW d \in Cell \ {c}
      PROVE  HasFound(d)'
  <2>1. status'[c] # "absent"
    BY <1>5
  <2> QED
    BY <2>1 DEF HasFound, isAlone
<1>9. HasFound(c)'
  <2> SUFFICES ASSUME isAlone(c)', isSingleOnTheRight(c)'
               PROVE  FoundBetween(c, At(leftPosition[c]), At(rightPosition[c]))'
    BY DEF HasFound
  <2>1. At(leftPosition[c])' = m /\ At(rightPosition[c])' = m
    BY <1>1, <1>3, <1>5 DEF At, key
  <2>2. timeset' = {}
    <3>1. \A d \in Cell : status[d] = "absent"
      BY <1>1, <1>5 DEF isAlone
    <3> QED
      BY <1>1, <1>2, <3>1
  <2>3. IsNewest(m) /\ SingleAbove(m.value)
    <3>1. \A n \in measurements :
            /\ n.value = m.value => n.timestamp <= m.timestamp
            /\ n.value > m.value => \A o \in measurements : o.value = n.value => o = n
      BY <1>4, <1>5 DEF isSingleOnTheRight
    <3> HIDE DEF m
    <3> QED
      BY <3>1, Zenon DEF IsNewest, SingleAbove
  <2>4. \A n \in measurements : ~Before(n, m) /\ ~Before(m, n) => n = m
    BY <1>2, <1>3, MeasurementOrder
  <2>5. ~Before(m, m)
    BY <1>2, <1>3, MeasurementOrder
  <2> HIDE DEF m
  <2>6. /\ timeset' = {n.timestamp + offset(c) :
                         n \in {n \in measurements' : ~Before(n, m) /\ ~Before(m, n)} \ {m}}
    <3>1. {n \in measurements' : ~Before(n, m) /\ ~Before(m, n)} \ {m} = {}
      BY <1>4, <2>4
    <3> QED
      BY <2>2, <3>1
  <2>7. (\A n \in measurements' : n.value = m.value => n.timestamp <= m.timestamp)
        /\ (\A n, o \in measurements' : n.value > m.value /\ o.value = n.value => n = o)
    BY <1>4, <2>3, Zenon DEF IsNewest, SingleAbove
  <2>8. status'[c] # "exhausted"
    BY <1>5
  <2> QED
    BY <1>5, <2>1, <2>5, <2>6, <2>7, <2>8
       DEF FoundBetween, Between, IsNewest, SingleAbove, offset, m
<1>10. ~(\A d \in Cell : status'[d] = "absent")
  BY <1>5
<1> QED
  BY <1>1, <1>2, <1>5, <1>6, <1>7, <1>8, <1>9, <1>10 DEF QueryInv

(* What has been destroyed is not looked at any more. *)
LEMMA DestroyKeepsInv ==
  ASSUME QueryInv, NEW c \in Cell, Neighborhood_destroy(c)
  PROVE  QueryInv'
<1>1. /\ leftPosition' = [leftPosition EXCEPT ![c] = NULL]
      /\ rightPosition' = [rightPosition EXCEPT ![c] = NULL]
      /\ start' = [start EXCEPT ![c] = NULL]
      /\ status' = [status EXCEPT ![c] = "destroyed"]
      /\ leaves' = leaves /\ timeset' = timeset
  BY DEF Neighborhood_destroy
<1>2. /\ leaves \in Tree /\ status \in [Cell -> Status]
      /\ DOMAIN leftPosition = Cell /\ DOMAIN rightPosition = Cell /\ DOMAIN start = Cell
      /\ \A d \in Cell : IsPlaced(d)
  BY DEF QueryInv
<1>3. \A d \in Cell : measurementOf(d)' = measurementOf(d)
  BY <1>1, SameChain
<1>4. /\ status'[c] = "destroyed"
      /\ \A d \in Cell \ {c} : /\ leftPosition'[d] = leftPosition[d]
                               /\ rightPosition'[d] = rightPosition[d]
                               /\ start'[d] = start[d] /\ status'[d] = status[d]
      /\ status' \in [Cell -> Status]
      /\ DOMAIN leftPosition' = Cell /\ DOMAIN rightPosition' = Cell /\ DOMAIN start' = Cell
  BY <1>1, <1>2 DEF Status
<1>5. IsPlaced(c)'
  BY <1>4 DEF IsPlaced, IsActive
<1>6. ASSUME NEW d \in Cell \ {c}
      PROVE  IsPlaced(d)'
  BY <1>1, <1>2, <1>3, <1>4
     DEF IsPlaced, IsActive, IsPosition, ringAt, ring, numOfKeys, At, key
<1>7. ASSUME NEW d \in Cell \ {c}
      PROVE  HasFound(d)'
  <2>1. status'[c] # "absent"
    BY <1>4
  <2> QED
    BY <2>1 DEF HasFound, isAlone
<1>8. HasFound(c)'
  BY <1>4 DEF HasFound, IsActive
<1>9. ~(\A d \in Cell : status'[d] = "absent")
  BY <1>4
<1> QED
  BY <1>1, <1>2, <1>4, <1>5, <1>6, <1>7, <1>8, <1>9 DEF QueryInv

(* A call to grow moves the positions to measurements, and one that is     *)
(* alone has then found all between them.                                  *)
LEMMA GrowKeepsInv ==
  ASSUME QueryInv, NEW c \in Cell, Neighborhood_grow(c)
  PROVE  QueryInv'
<1>1. /\ leaves \in Tree /\ status \in [Cell -> Status]
      /\ DOMAIN leftPosition = Cell /\ DOMAIN rightPosition = Cell /\ DOMAIN start = Cell
      /\ \A d \in Cell : IsPlaced(d)
      /\ \A d \in Cell : HasFound(d)
  BY DEF QueryInv
<1>2. /\ IsActive(c) /\ leaves' = leaves /\ start' = start
      /\ \/ /\ status' = [status EXCEPT ![c] = "nullRead"]
            /\ UNCHANGED <<leftPosition, rightPosition, timeset>>
         \/ Answers(c)
  BY GrowByName
<1>3. measurements' = measurements /\ \A d \in Cell : measurementOf(d)' = measurementOf(d)
  BY <1>2, SameChain
<1>4. /\ IsPosition(leftPosition[c]) /\ IsPosition(rightPosition[c])
      /\ start[c] = measurementOf(c)
  BY <1>1, <1>2 DEF IsPlaced, IsActive
<1>5. CASE /\ status' = [status EXCEPT ![c] = "nullRead"]
           /\ UNCHANGED <<leftPosition, rightPosition, timeset>>
  <2>1. status'[c] = "nullRead" /\ \A d \in Cell \ {c} : status'[d] = status[d]
    BY <1>1, <1>5
  <2>2. status' \in [Cell -> Status]
    BY <1>1, <1>5 DEF Status
  <2>3. IsPlaced(c)'
    BY <1>2, <1>4, <1>5, <2>1
       DEF IsPlaced, IsActive, IsPosition, ringAt, ring, numOfKeys
  <2>4. ASSUME NEW d \in Cell \ {c}
        PROVE  IsPlaced(d)'
    BY <1>1, <1>2, <1>3, <1>5, <2>1
       DEF IsPlaced, IsActive, IsPosition, ringAt, ring, numOfKeys, At, key
  <2>5. \A d \in Cell : HasFound(d)'
    <3>1. HasFound(c)'
      BY <2>1 DEF HasFound, IsActive
    <3>2. \A d \in Cell \ {c} : ~isAlone(d)'
      BY <2>1 DEF isAlone
    <3> QED
      BY <3>1, <3>2 DEF HasFound
  <2>6. ~(\A d \in Cell : status'[d] = "absent")
    BY <2>1
  <2> QED
    BY <1>1, <1>2, <1>5, <2>2, <2>3, <2>4, <2>5, <2>6 DEF QueryInv
<1>6. CASE Answers(c)
  <2>1. /\ IsNull(Left(c)) \/ IsPosition(Left(c))
        /\ IsNull(Left(c)) => Left(c) = FirstLeft(c)
        /\ IsNull(Right(c)) \/ IsPosition(Right(c))
        /\ IsNull(Right(c)) => Right(c) = FirstRight(c)
        /\ TakesLeft(c) => ~IsNull(Left(c))
        /\ TakesRight(c) => ~IsNull(Right(c))
    BY <1>1, <1>4, <1>6, GrowWalks
  <2>2. /\ leftPosition'[c] =
             IF TakesLeft(c) \/ Left(c) # FirstLeft(c) THEN Left(c) ELSE leftPosition[c]
        /\ rightPosition'[c] =
             IF TakesRight(c) \/ Right(c) # FirstRight(c) THEN Right(c) ELSE rightPosition[c]
        /\ status'[c] \in {"grown", "exhausted"}
    BY <1>1, <1>6 DEF Answers
  <2>3. /\ \A d \in Cell \ {c} : /\ leftPosition'[d] = leftPosition[d]
                                 /\ rightPosition'[d] = rightPosition[d]
                                 /\ status'[d] = status[d]
        /\ status' \in [Cell -> Status]
        /\ DOMAIN leftPosition' = Cell /\ DOMAIN rightPosition' = Cell
    BY <1>1, <1>6 DEF Answers, Status
  <2>4. IsPosition(leftPosition'[c]) /\ IsPosition(rightPosition'[c])
    BY <1>4, <2>1, <2>2
  <2>5. IsPlaced(c)'
    BY <1>2, <1>3, <1>4, <2>2, <2>4
       DEF IsPlaced, IsActive, IsPosition, ringAt, ring, numOfKeys
  <2>6. ASSUME NEW d \in Cell \ {c}
        PROVE  IsPlaced(d)'
    BY <1>1, <1>2, <1>3, <2>3
       DEF IsPlaced, IsActive, IsPosition, ringAt, ring, numOfKeys, At, key
  <2>7. \A d \in Cell \ {c} : HasFound(d)'
    <3>1. status'[c] # "absent"
      BY <2>2
    <3> QED
      BY <3>1 DEF HasFound, isAlone
  <2>8. HasFound(c)'
    <3> SUFFICES ASSUME isAlone(c)', isSingleOnTheRight(c)'
                 PROVE  FoundBetween(c, At(leftPosition[c]), At(rightPosition[c]))'
      BY DEF HasFound
    <3>1. isAlone(c) /\ isSingleOnTheRight(c)
      BY <1>2, <1>3, <2>3 DEF isAlone, isSingleOnTheRight
    <3>2. FoundBetween(c, At(leftPosition[c]), At(rightPosition[c]))
      BY <1>1, <1>2, <3>1 DEF HasFound
    <3>3. start[c] \in measurements
      BY <1>1, <1>4, PatternInSeries
    <3>4. c \in DOMAIN status
      BY <1>1
    <3> DEFINE low == At(NewLeft(c))
               high == At(NewRight(c))
    <3>5. /\ timeset' = {m.timestamp + offset(c) : m \in Between(low, high) \ {start[c]}}
          /\ ~Before(start[c], low) /\ ~Before(high, start[c])
          /\ IsNewest(high) /\ SingleAbove(high.value)
          /\ status'[c] = "exhausted" =>
               \A m \in measurements : ~Before(m, low) /\ ~Before(high, m)
      BY <1>1, <1>4, <1>6, <3>2, <3>3, <3>4, GrowKeepsFound
    <3>6. leftPosition'[c] = NewLeft(c) /\ rightPosition'[c] = NewRight(c)
      BY <1>1, <1>4, <1>6, <2>2, <3>2, AloneWalks DEF NewLeft, NewRight
    <3>7. At(leftPosition[c])' = low /\ At(rightPosition[c])' = high
      BY <1>2, <3>6 DEF At, key
    <3> HIDE DEF low, high
    <3>8. /\ \A n \in measurements' : n.value = high.value => n.timestamp <= high.timestamp
          /\ \A n, o \in measurements' : n.value > high.value /\ o.value = n.value => n = o
      BY <1>3, <3>5, Zenon DEF IsNewest, SingleAbove
    <3>9. timeset' = {m.timestamp + offset(c) :
                        m \in {m \in measurements' : ~Before(m, low) /\ ~Before(high, m)} \ {start[c]}}
      BY <1>3, <3>5, Zenon DEF Between
    <3> QED
      BY <1>2, <1>3, <3>5, <3>7, <3>8, <3>9
         DEF FoundBetween, Between, IsNewest, SingleAbove, offset
  <2>9. ~(\A d \in Cell : status'[d] = "absent")
    BY <2>2
  <2> QED
    BY <1>1, <1>2, <2>3, <2>5, <2>6, <2>7, <2>8, <2>9 DEF QueryInv
<1> QED
  BY <1>2, <1>5, <1>6

LEMMA QueryInvStep == QueryInv /\ [QueryNext]_queryVars => QueryInv'
<1> SUFFICES ASSUME QueryInv, [QueryNext]_queryVars
             PROVE  QueryInv'
  OBVIOUS
<1>1. CASE UNCHANGED queryVars
  <2>1. UNCHANGED <<leaves, leftPosition, rightPosition, start, status, timeset>>
    BY <1>1 DEF queryVars
  <2>2. measurements' = measurements /\ \A d \in Cell : measurementOf(d)' = measurementOf(d)
    BY <2>1, SameChain
  <2>3. ASSUME NEW d \in Cell
        PROVE  IsPlaced(d)'
    BY <2>1, <2>2
       DEF QueryInv, IsPlaced, IsActive, IsPosition, ringAt, ring, numOfKeys, At, key
  <2>4. ASSUME NEW d \in Cell
        PROVE  HasFound(d)'
    <3>1. HasFound(d)
      BY Zenon DEF QueryInv
    <3>2. /\ IsActive(d)' <=> IsActive(d)
          /\ isAlone(d)' <=> isAlone(d)
          /\ isSingleOnTheRight(d)' <=> isSingleOnTheRight(d)
      BY <2>1, <2>2, Zenon DEF IsActive, isAlone, isSingleOnTheRight
    <3>3. ASSUME NEW left, NEW right
          PROVE  FoundBetween(d, left, right)' <=> FoundBetween(d, left, right)
      BY <2>1, <2>2, Zenon DEF FoundBetween, Between, IsNewest, SingleAbove, offset
    <3>4. /\ At(leftPosition[d])' = At(leftPosition[d])
          /\ At(rightPosition[d])' = At(rightPosition[d])
      BY <2>1, Zenon DEF At, key
    <3> QED
      BY <3>1, <3>2, <3>3, <3>4, Zenon DEF HasFound
  <2> QED
    BY <2>1, <2>3, <2>4 DEF QueryInv
<1>2. ASSUME NEW c \in Cell, Neighborhood_new(c) \/ Neighborhood_grow(c) \/ Neighborhood_destroy(c)
      PROVE  QueryInv'
  BY <1>2, NewKeepsInv, GrowKeepsInv, DestroyKeepsInv
<1> QED
  BY <1>1, <1>2 DEF QueryNext

LEMMA QueryInvHolds == QuerySpec => []QueryInv
BY QueryStarts, QueryInvStep, PTL DEF QuerySpec

-----------------------------------------------------------------------------
(*                                  Theorems                               *)

(* Whatever the calls and the chain, both positions of a Neighborhood lead *)
(* to a measurement: leaf, index and ListValue belong together.            *)
THEOREM PositionsLeadToMeasurements == QuerySpec => []QueryTypeOK
<1>1. QueryInv => QueryTypeOK
  BY DEF QueryInv, IsPlaced, QueryTypeOK
<1> QED
  BY <1>1, QueryInvHolds, PTL

(* A Neighborhood starts at the measurement of the pattern it is made for: *)
(* patternLength steps are enough to find it in its ring.                  *)
THEOREM NewStartsAtTheMeasurement == QuerySpec => []StartsAtTheMeasurement
<1>1. QueryInv => StartsAtTheMeasurement
  <2> SUFFICES ASSUME QueryInv, NEW c \in Cell, status[c] = "new"
               PROVE  /\ rightPosition[c] = leftPosition[c]
                      /\ At(leftPosition[c]) = measurementOf(c)
    BY Zenon DEF StartsAtTheMeasurement, At
  <2> QED
    BY DEF QueryInv, IsPlaced, IsActive
<1> QED
  BY <1>1, QueryInvHolds, PTL

(* What grow answers was not seen before, so that it is not found twice,   *)
(* by however many Neighborhoods: both walks end at a time point that is   *)
(* not in the set, or at the end of the chain.                             *)
THEOREM GrowFindsUnseenTimes == QuerySpec => AnswersAreNew
<1>1. ASSUME QueryInv, NEW c \in Cell, Neighborhood_grow(c), status'[c] = "grown"
      PROVE  timeset' # timeset
  <2>1. /\ leaves \in Tree /\ c \in DOMAIN status
        /\ IsPlaced(c)
    BY <1>1 DEF QueryInv
  <2>2. /\ IsActive(c)
        /\ status' = [status EXCEPT ![c] = "nullRead"] \/ Answers(c)
    BY <1>1, GrowByName
  <2>3. Answers(c)
    BY <1>1, <2>1, <2>2
  <2>4. IsPosition(leftPosition[c]) /\ IsPosition(rightPosition[c])
    BY <2>1, <2>2 DEF IsPlaced, IsActive
  <2>5. timeset' = timeset \union Found(c) /\ Found(c) # {}
    BY <1>1, <2>1, <2>3 DEF Answers
  <2>6. /\ ~isSeen(c, Left(c)) /\ ~isSeen(c, Right(c))
        /\ TakesLeft(c) => ~IsNull(Left(c))
        /\ TakesRight(c) => ~IsNull(Right(c))
    BY <2>1, <2>3, <2>4, GrowWalks
  <2>7. CASE TakesLeft(c)
    BY <2>5, <2>6, <2>7 DEF Found, isSeen
  <2>8. CASE ~TakesLeft(c) /\ TakesRight(c)
    BY <2>5, <2>6, <2>8 DEF Found, isSeen
  <2>9. TakesLeft(c) \/ TakesRight(c)
    BY <2>5 DEF Found
  <2> QED
    BY <2>7, <2>8, <2>9
<1>2. QueryInv /\ [QueryNext]_queryVars
      => [\A c \in Cell :
            Neighborhood_grow(c) /\ status'[c] = "grown" => timeset' # timeset]_queryVars
  BY <1>1
<1> QED
  BY <1>2, QueryInvHolds, PTL DEF QuerySpec, AnswersAreNew

(* A Neighborhood that is alone, on a chain whose values to its right were *)
(* measured once, answers false only when it has returned every            *)
(* measurement but its own.                                                *)
THEOREM AloneNothingIsLeft == QuerySpec => []AloneItFindsAll
<1>1. ASSUME QueryInv, NEW c \in Cell,
             status[c] = "exhausted", isAlone(c), isSingleOnTheRight(c)
      PROVE  unseen(c) = {}
  <2>1. leaves \in Tree /\ FoundBetween(c, At(leftPosition[c]), At(rightPosition[c]))
    BY <1>1 DEF QueryInv, HasFound, IsActive
  <2> DEFINE F == Between(At(leftPosition[c]), At(rightPosition[c])) \ {start[c]}
  <2>2. F \in SUBSET measurements /\ timeset = {m.timestamp + offset(c) : m \in F}
    BY <2>1 DEF FoundBetween, Between
  <2>3. measurements \ {start[c]} \subseteq F
    BY <1>1, <2>1 DEF FoundBetween, Between
  <2> HIDE DEF F
  <2>4. \A m \in measurements \ {start[c]} : m.timestamp + offset(c) \in timeset
    BY <2>2, <2>3
  <2> QED
    BY <2>4 DEF unseen
<1>2. QueryInv => AloneItFindsAll
  BY <1>1 DEF AloneItFindsAll
<1> QED
  BY <1>2, QueryInvHolds, PTL

-----------------------------------------------------------------------------
(*                                Nearest first                            *)

(* Distances that are compared after they were truncated. *)
LEMMA TruncatedDistances ==
  ASSUME NEW u \in Nat \ {0}, NEW a \in Nat, NEW b \in Nat
  PROVE  /\ a \div u <= b \div u => a < b + u
         /\ ~(a \div u <= b \div u) => b < a
<1> DEFINE p == a \div u
           q == b \div u
<1>1. /\ p \in Nat /\ q \in Nat
      /\ u * p <= a /\ a < u * p + u
      /\ u * q <= b /\ b < u * q + u
  OBVIOUS
<1>2. p <= q => u * p <= u * q
  BY <1>1
<1>3. q < p => u * q + u <= u * p
  <2> SUFFICES ASSUME q < p
               PROVE  u * q + u <= u * p
    OBVIOUS
  <2>1. q + 1 <= p /\ q + 1 \in Nat /\ u * (q + 1) = u * q + u
    BY <1>1
  <2>2. u * (q + 1) <= u * p
    BY <1>1, <2>1
  <2> QED
    BY <2>1, <2>2
<1> DEFINE x == u * p
           y == u * q
<1>4. /\ x \in Nat /\ y \in Nat /\ p \in Nat /\ q \in Nat
      /\ x <= a /\ a < x + u /\ y <= b /\ b < y + u
      /\ p <= q => x <= y
      /\ q < p => y + u <= x
  BY <1>1, <1>2, <1>3
<1> HIDE DEF x, y, p, q
<1>5. p <= q => a < b + u
  BY <1>4
<1>6. ~(p <= q) => b < a
  BY <1>4
<1> QED
  BY <1>5, <1>6 DEF p, q

(* Farther from the start on the same side is a larger distance. *)
LEMMA Farther ==
  ASSUME NEW c, start[c].value \in Int, NEW v \in Int, NEW w \in Int
  PROVE  /\ distance(c, v) \in Nat /\ distance(c, w) \in Nat
         /\ start[c].value <= v /\ v <= w => distance(c, v) <= distance(c, w)
         /\ v <= start[c].value /\ w <= v => distance(c, v) <= distance(c, w)
<1> DEFINE s == start[c].value
<1>1. /\ distance(c, v) = IF v < s THEN s - v ELSE v - s
      /\ distance(c, w) = IF w < s THEN s - w ELSE w - s
  BY DEF distance
<1> HIDE DEF s
<1>2. s \in Int
  BY DEF s
<1>3. distance(c, v) \in Nat /\ distance(c, w) \in Nat
  BY <1>1, <1>2
<1>4. s <= v /\ v <= w => distance(c, v) <= distance(c, w)
  BY <1>1, <1>2
<1>5. v <= s /\ w <= v => distance(c, v) <= distance(c, w)
  BY <1>1, <1>2
<1> QED
  BY <1>3, <1>4, <1>5 DEF s

(* An answer of a Neighborhood that is alone: the measurement taken is     *)
(* nearer than one beyond either position, up to a difference of 1.0.      *)
LEMMA TakenIsNearest ==
  ASSUME leaves \in Tree, NEW c \in Cell, start[c] \in measurements,
         IsPosition(leftPosition[c]), IsPosition(rightPosition[c]), Answers(c),
         FoundBetween(c, At(leftPosition[c]), At(rightPosition[c])),
         NEW m \in measurements,
         m \notin Between(At(leftPosition[c]), At(rightPosition[c])),
         m \in Between(At(NewLeft(c)), At(NewRight(c))),
         NEW other \in measurements,
         other \notin Between(At(NewLeft(c)), At(NewRight(c)))
  PROVE  distance(c, m.value) < distance(c, other.value) + Unit
<1> DEFINE low == At(leftPosition[c])
           high == At(rightPosition[c])
           l == At(Left(c))
           r == At(Right(c))
           s == start[c]
<1>1. /\ low \in measurements /\ high \in measurements /\ s \in measurements
      /\ ~Before(s, low) /\ ~Before(high, s)
  BY PositionIsMeasurement DEF FoundBetween
<1>2. /\ \A n, o \in measurements : Before(n, o) \/ Before(o, n) \/ n = o
      /\ \A n \in measurements : ~Before(n, n)
      /\ \A n, o \in measurements : Before(n, o) => ~Before(o, n)
      /\ \A n, o, p \in measurements : Before(n, o) /\ Before(o, p) => Before(n, p)
  BY MeasurementOrder
<1>3. /\ \/ /\ ~IsNull(Left(c)) /\ l \in measurements /\ Before(l, low)
            /\ \A n \in measurements : ~(Before(l, n) /\ Before(n, low))
         \/ IsNull(Left(c)) /\ \A n \in measurements : ~Before(n, low)
      /\ \/ /\ ~IsNull(Right(c)) /\ r \in measurements /\ Before(high, r)
            /\ \A n \in measurements : ~(Before(high, n) /\ Before(n, r))
         \/ IsNull(Right(c)) /\ \A n \in measurements : ~Before(high, n)
  BY AloneWalks
<1>4. \A n, o \in measurements : Before(n, o) => n.value <= o.value
  BY MeasurementTyped DEF Before
<1>5. \A n, o \in measurements : ~Before(o, n) => n.value <= o.value
  BY <1>2, <1>4, MeasurementTyped
<1>6. /\ difference(c, Left(c)) = distance(c, l.value) \div Unit
      /\ difference(c, Right(c)) = distance(c, r.value) \div Unit
  BY DEF difference, At, Measurement
<1>7. TakesLeft(c) /\ ~IsNull(Right(c)) => difference(c, Left(c)) <= difference(c, Right(c))
  BY DEF TakesLeft, leftIsNext
<1>8. TakesRight(c) /\ ~IsNull(Left(c)) => ~(difference(c, Left(c)) <= difference(c, Right(c)))
  BY DEF TakesRight, TakesLeft, leftIsNext
<1>9. /\ Before(m, low) \/ Before(high, m)
      /\ ~Before(m, At(NewLeft(c))) /\ ~Before(At(NewRight(c)), m)
      /\ Before(other, At(NewLeft(c))) \/ Before(At(NewRight(c)), other)
  BY DEF Between
<1>10. Unit \in Nat \ {0}
  BY UnitAssumption
<1>11. \A n \in measurements : distance(c, n.value) \in Nat /\ n.value \in Int
  BY <1>1, Farther, MeasurementTyped
<1>12. \A n, o \in measurements :
         \/ s.value <= n.value /\ n.value <= o.value
         \/ n.value <= s.value /\ o.value <= n.value
         => distance(c, n.value) <= distance(c, o.value)
  BY <1>1, Farther, MeasurementTyped
<1>13. TakesLeft(c) => ~IsNull(Left(c)) /\ At(NewLeft(c)) = l /\ At(NewRight(c)) = high
  BY GrowWalks DEF NewLeft, NewRight, TakesRight
<1>14. TakesRight(c) => ~IsNull(Right(c)) /\ At(NewRight(c)) = r /\ At(NewLeft(c)) = low
  BY GrowWalks DEF NewLeft, NewRight, TakesRight
<1>15. ~TakesLeft(c) /\ ~TakesRight(c) => At(NewLeft(c)) = low /\ At(NewRight(c)) = high
  BY DEF NewLeft, NewRight
<1> HIDE DEF low, high, l, r, s
<1>16. s.value <= high.value /\ low.value <= s.value
  BY <1>1, <1>5
<1>17. CASE TakesLeft(c)
  <2>1. /\ ~IsNull(Left(c)) /\ l \in measurements /\ Before(l, low)
        /\ \A n \in measurements : ~(Before(l, n) /\ Before(n, low))
    BY <1>3, <1>13, <1>17
  <2>2. m = l
    BY <1>2, <1>9, <1>13, <1>17, <2>1
  <2>3. l.value <= s.value
    <3>1. l.value <= low.value
      BY <1>1, <1>4, <2>1
    <3> QED
      BY <1>1, <1>11, <1>16, <2>1, <3>1
  <2>4. CASE Before(other, l)
    <3>1. other.value <= l.value
      BY <1>4, <2>1, <2>4
    <3>2. distance(c, l.value) <= distance(c, other.value)
      BY <1>12, <2>1, <2>3, <3>1
    <3> QED
      BY <1>10, <1>11, <2>1, <2>2, <3>2
  <2>5. CASE Before(high, other)
    <3>1. /\ ~IsNull(Right(c)) /\ r \in measurements /\ Before(high, r)
          /\ ~Before(other, r)
      BY <1>3, <2>5
    <3>2. s.value <= r.value /\ r.value <= other.value
      <4>1. high.value <= r.value /\ r.value <= other.value
        BY <1>1, <1>4, <1>5, <3>1
      <4> QED
        BY <1>1, <1>11, <1>16, <3>1, <4>1
    <3>3. distance(c, r.value) <= distance(c, other.value)
      BY <1>12, <3>1, <3>2
    <3>4. distance(c, l.value) < distance(c, r.value) + Unit
      <4>1. distance(c, l.value) \div Unit <= distance(c, r.value) \div Unit
        BY <1>6, <1>7, <1>17, <3>1
      <4> QED
        BY <1>10, <1>11, <2>1, <3>1, <4>1, TruncatedDistances
    <3> QED
      BY <1>10, <1>11, <2>1, <2>2, <3>1, <3>3, <3>4
  <2> QED
    BY <1>9, <1>13, <1>17, <2>4, <2>5
<1>18. CASE TakesRight(c)
  <2>1. /\ ~IsNull(Right(c)) /\ r \in measurements /\ Before(high, r)
        /\ \A n \in measurements : ~(Before(high, n) /\ Before(n, r))
    BY <1>3, <1>14, <1>18
  <2>2. m = r
    BY <1>2, <1>9, <1>14, <1>18, <2>1
  <2>3. s.value <= r.value
    <3>1. high.value <= r.value
      BY <1>1, <1>4, <2>1
    <3> QED
      BY <1>1, <1>11, <1>16, <2>1, <3>1
  <2>4. CASE Before(r, other)
    <3>1. r.value <= other.value
      BY <1>4, <2>1, <2>4
    <3>2. distance(c, r.value) <= distance(c, other.value)
      BY <1>12, <2>1, <2>3, <3>1
    <3> QED
      BY <1>10, <1>11, <2>1, <2>2, <3>2
  <2>5. CASE Before(other, low)
    <3>1. /\ ~IsNull(Left(c)) /\ l \in measurements /\ Before(l, low)
          /\ ~Before(l, other)
      BY <1>3, <2>5
    <3>2. l.value <= s.value /\ other.value <= l.value
      <4>1. l.value <= low.value /\ other.value <= l.value
        BY <1>1, <1>4, <1>5, <3>1
      <4> QED
        BY <1>1, <1>11, <1>16, <3>1, <4>1
    <3>3. distance(c, l.value) <= distance(c, other.value)
      BY <1>12, <3>1, <3>2
    <3>4. distance(c, r.value) < distance(c, l.value)
      <4>1. ~(distance(c, l.value) \div Unit <= distance(c, r.value) \div Unit)
        BY <1>6, <1>8, <1>18, <3>1
      <4> QED
        BY <1>10, <1>11, <2>1, <3>1, <4>1, TruncatedDistances
    <3> QED
      BY <1>10, <1>11, <2>1, <2>2, <3>1, <3>3, <3>4
  <2> QED
    BY <1>9, <1>14, <1>18, <2>4, <2>5
<1>19. CASE ~TakesLeft(c) /\ ~TakesRight(c)
  BY <1>9, <1>15, <1>19
<1> QED
  BY <1>17, <1>18, <1>19

(* Nearest value first: what one that is alone returns is nearer than all  *)
(* that it has not returned, but for less than 1.0.                        *)
THEOREM NearestIsReturnedFirst == QuerySpec => NearestFirst
<1> DEFINE Near(c) ==
             \A m \in unseen(c) \ unseen(c)', other \in unseen(c)' :
               distance(c, m.value) < distance(c, other.value) + Unit
<1>1. ASSUME QueryInv, QueryNext, NEW c \in Cell, status[c] \in {"new", "grown"},
             status'[c] = "grown", isAlone(c), isSingleOnTheRight(c)
      PROVE  Near(c)
  <2>1. /\ leaves \in Tree /\ status \in [Cell -> Status] /\ DOMAIN start = Cell
        /\ IsPlaced(c) /\ HasFound(c)
    BY <1>1 DEF QueryInv
  <2>2. PICK d \in Cell : Neighborhood_new(d) \/ Neighborhood_grow(d) \/ Neighborhood_destroy(d)
    BY <1>1 DEF QueryNext
  <2>3. CASE d # c
    <3>1. status[d] = "absent"
      BY <1>1, <2>3 DEF isAlone
    <3>2. Neighborhood_new(d)
      BY <2>2, <3>1 DEF Neighborhood_grow, Neighborhood_destroy
    <3>3. leaves' = leaves /\ timeset' = timeset /\ start'[c] = start[c]
      BY <2>1, <2>3, <3>2 DEF Neighborhood_new
    <3>4. measurements' = measurements
      BY <3>3, SameChain
    <3>5. unseen(c)' = unseen(c)
      BY <3>3, <3>4 DEF unseen, offset
    <3> QED
      BY <3>5
  <2>4. CASE d = c
    <3>1. Neighborhood_grow(c)
      <4>1. ~Neighborhood_new(c)
        BY <1>1 DEF Neighborhood_new
      <4>2. ~Neighborhood_destroy(c)
        BY <1>1, <2>1 DEF Neighborhood_destroy
      <4> QED
        BY <2>2, <2>4, <4>1, <4>2
    <3>2. leaves' = leaves /\ start' = start /\ Answers(c)
      BY <1>1, <2>1, <3>1, GrowByName
    <3>3. /\ IsPosition(leftPosition[c]) /\ IsPosition(rightPosition[c])
          /\ start[c] \in measurements
      BY <1>1, <2>1, PatternInSeries DEF IsPlaced, IsActive
    <3>4. FoundBetween(c, At(leftPosition[c]), At(rightPosition[c]))
      BY <1>1, <2>1 DEF HasFound, IsActive
    <3> DEFINE F == Between(At(leftPosition[c]), At(rightPosition[c])) \ {start[c]}
               G == Between(At(NewLeft(c)), At(NewRight(c))) \ {start[c]}
               times(M) == {m.timestamp + offset(c) : m \in M}
    <3>5. timeset = times(F) /\ F \in SUBSET measurements
      BY <3>4 DEF FoundBetween, Between
    <3>6. timeset' = times(G) /\ G \in SUBSET measurements
      BY <2>1, <3>2, <3>3, <3>4, GrowKeepsFound DEF Between
    <3>7. measurements' = measurements
      BY <3>2, SameChain
    <3>8. unseen(c)' = {m \in measurements \ {start[c]} : m.timestamp + offset(c) \notin times(G)}
      BY <3>2, <3>6, <3>7 DEF unseen, offset
    <3> SUFFICES ASSUME NEW m \in unseen(c), m \notin unseen(c)', NEW other \in unseen(c)'
                 PROVE  distance(c, m.value) < distance(c, other.value) + Unit
      OBVIOUS
    <3>9. /\ m \in measurements \ {start[c]} /\ m.timestamp + offset(c) \notin times(F)
          /\ m.timestamp + offset(c) \in times(G)
      BY <3>5, <3>8 DEF unseen
    <3>10. other \in measurements \ {start[c]} /\ other.timestamp + offset(c) \notin times(G)
      BY <3>8
    <3>11. m \notin F
      BY <3>9
    <3>12. other \notin G
      BY <3>10
    <3>13. m \in G
      <4>1. PICK n \in G : n.timestamp + offset(c) = m.timestamp + offset(c)
        BY <3>9
      <4>2. n \in measurements /\ n.timestamp \in Nat /\ m.timestamp \in Nat
        BY <2>1, <3>6, <3>9, MeasurementTyped
      <4>3. offset(c) \in Int
        BY PatternAssumption, UnitAssumption DEF offset
      <4>4. n.timestamp = m.timestamp
        BY <4>1, <4>2, <4>3
      <4> QED
        BY <2>1, <3>9, <4>2, <4>4, OneMeasurementPerTime
    <3> QED
      BY <2>1, <3>2, <3>3, <3>4, <3>9, <3>10, <3>11, <3>12, <3>13, TakenIsNearest
  <2> QED
    BY <2>3, <2>4
<1>2. QueryInv /\ [QueryNext]_queryVars
      => [\A c \in Cell :
            /\ status[c] \in {"new", "grown"} /\ status'[c] = "grown"
            /\ isAlone(c) /\ isSingleOnTheRight(c)
            => Near(c)]_queryVars
  BY <1>1
<1> QED
  BY <1>2, QueryInvHolds, PTL DEF QuerySpec, NearestFirst
=============================================================================
