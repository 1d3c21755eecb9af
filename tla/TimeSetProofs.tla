---------------------------- MODULE TimeSetProofs ----------------------------
(***************************************************************************)
(* The set of time points on its hash table, for every set of keys, hash   *)
(* function, threshold and initial number of buckets.                      *)
(*                                                                         *)
(* The invariant: the items are linked in the order they were added or     *)
(* sorted, and those of a bucket in its chain; the buckets have all items  *)
(* with their counts; and, unless expansion is inhibited, the buckets have *)
(* room.  The first part is what lists of links are, how they are walked   *)
(* and changed; then come the sort, the macros of uthash one by one, and   *)
(* the operations of timeset.c.                                            *)
(***************************************************************************)
EXTENDS TimeSet, SequenceTheorems, FiniteSetTheorems, TLAPS

(* Induction over the natural numbers, for sets instead of operators: the  *)
(* library's theorems take an operator.                                    *)
(* Every set of natural numbers has a least one, as the intervals from 0   *)
(* are well-founded by inclusion.                                          *)
LEMMA LeastNatural ==
  ASSUME NEW T \in SUBSET Nat, T # {}
  PROVE  \E x \in T : \A y \in T : x <= y
<1> DEFINE below == {0..x : x \in T}
<1>1. below \subseteq FiniteSubsetsOf(Nat) /\ below # {}
  <2>1. \A x \in T : 0..x \in SUBSET Nat /\ IsFiniteSet(0..x)
    BY FS_Interval
  <2> QED
    BY <2>1 DEF FiniteSubsetsOf
<1>2. PICK b \in below : \A c \in below : <<c, b>> \notin StrictSubsetOrdering(Nat)
  <2> HIDE DEF below
  <2> QED BY <1>1, WFMin, FS_StrictSubsetOrderingWellFounded
<1>3. PICK x \in T : b = 0..x
  BY <1>2
<1>4. ASSUME NEW y \in T, y < x
      PROVE  FALSE
  <2>1. /\ <<0..y, 0..x>> \in (SUBSET Nat) \X (SUBSET Nat)
        /\ 0..y \subseteq 0..x
        /\ x \in 0..x /\ x \notin 0..y
    BY <1>4
  <2>2. <<0..y, 0..x>> \in StrictSubsetOrdering(Nat)
    BY <2>1, Zenon DEF StrictSubsetOrdering
  <2> QED
    BY <1>2, <1>3, <2>2
<1> QED
  BY <1>4

(* A set with m that has, with any number below n, the next one has all    *)
(* numbers from m to n.                                                    *)
LEMMA IntervalInduction ==
  ASSUME NEW m \in Int, NEW n \in Int, NEW T, m \in T,
         \A k \in m..(n - 1) : k \in T => k + 1 \in T
  PROVE  \A k \in m..n : k \in T
<1> SUFFICES ASSUME NEW k \in m..n, k \notin T
             PROVE  FALSE
  OBVIOUS
<1> DEFINE missing == {d \in Nat : m + d <= n /\ m + d \notin T}
<1>1. missing \in SUBSET Nat /\ k - m \in missing
  OBVIOUS
<1>2. PICK d \in missing : \A e \in missing : d <= e
  <2> HIDE DEF missing
  <2> QED
    BY <1>1, LeastNatural
<1>3. d - 1 \in Nat /\ d - 1 \notin missing
  BY <1>2
<1>4. m + (d - 1) \in m..(n - 1) /\ (m + (d - 1)) + 1 = m + d
  BY <1>2, <1>3
<1>5. m + (d - 1) \in T
  BY <1>3, <1>4
<1> QED
  BY <1>2, <1>4, <1>5

(* No item twice. *)
Distinct(s) == \A i, j \in 1..Len(s) : s[i] = s[j] => i = j

(* The items of s are linked in its order: from first along next, and back *)
(* along prev.                                                             *)
Linked(s, first, prev, next) ==
  /\ first = IF Len(s) = 0 THEN NULL ELSE s[1]
  /\ \A i \in 1..Len(s) : prev[s[i]] = IF i = 1 THEN NULL ELSE s[i - 1]
  /\ \A i \in 1..Len(s) : next[s[i]] = IF i = Len(s) THEN NULL ELSE s[i + 1]

(* A time is an unsigned long: there are finitely many. *)
LEMMA KeysAreFinite == IsFiniteSet(Key) /\ Cardinality(Key) \in Nat
<1>1. 0 \in Int /\ LongModulus - 1 \in Int
  BY OrderAssumption
<1>2. IsFiniteSet(0..(LongModulus - 1))
  BY <1>1, FS_Interval
<1> QED
  BY <1>2, TimeSetAssumption, FS_Subset, FS_CardinalityType

(* A sequence without repetition is as long as its set of items is large.  *)
LEMMA DistinctLength ==
  ASSUME NEW s \in Seq(Key), Distinct(s)
  PROVE  /\ IsFiniteSet(ToSet(s))
         /\ Cardinality(ToSet(s)) = Len(s)
         /\ Len(s) <= Cardinality(Key)
<1>1. Len(s) \in Nat /\ DOMAIN s = 1..Len(s) /\ ToSet(s) \subseteq Key
  BY DEF ToSet
<1>2. s \in Bijection(1..Len(s), ToSet(s))
  BY <1>1 DEF ToSet, Distinct, Bijection, Injection, Surjection, IsInjective
<1>3. IsFiniteSet(ToSet(s))
  BY <1>1, KeysAreFinite, FS_Subset
<1>4. Cardinality(ToSet(s)) = Len(s)
  BY <1>1, <1>2, <1>3, FS_CountingElements DEF ExistsBijection
<1>5. Cardinality(ToSet(s)) <= Cardinality(Key)
  BY <1>1, KeysAreFinite, FS_Subset
<1> QED
  BY <1>3, <1>4, <1>5

take(s, n) == [i \in 1..n |-> s[i]]

(* The first n items of a sequence, and one more. *)
LEMMA TakeOneMore ==
  ASSUME NEW S, NEW s \in Seq(S), NEW n \in 0..(Len(s) - 1)
  PROVE  /\ take(s, n) \in Seq(S) /\ Len(take(s, n)) = n
         /\ n > 0 => take(s, n) # <<>> /\ Last(take(s, n)) = s[n]
         /\ Append(take(s, n), s[n + 1]) = take(s, n + 1)
<1>1. /\ Len(s) \in Nat /\ n \in Nat /\ \A i \in 1..Len(s) : s[i] \in S
      /\ n + 1 \in 1..Len(s)
  OBVIOUS
<1>2. take(s, n) \in Seq(S) /\ Len(take(s, n)) = n
  BY <1>1 DEF take
<1>3. n > 0 => take(s, n) # <<>> /\ Last(take(s, n)) = s[n]
  BY <1>1, <1>2 DEF take, Last
<1>4. take(s, n + 1) \in Seq(S) /\ Len(take(s, n + 1)) = n + 1
  BY <1>1 DEF take
<1>5. /\ Append(take(s, n), s[n + 1]) \in Seq(S)
      /\ Len(Append(take(s, n), s[n + 1])) = n + 1
      /\ \A i \in 1..(n + 1) : Append(take(s, n), s[n + 1])[i] = s[i]
  BY <1>1, <1>2 DEF take
<1>6. \A i \in 1..(n + 1) : take(s, n + 1)[i] = s[i]
  BY DEF take
<1> DEFINE a == Append(take(s, n), s[n + 1])
           b == take(s, n + 1)
<1>7. a \in Seq(S) /\ b \in Seq(S) /\ Len(a) = Len(b) /\ \A i \in 1..Len(a) : a[i] = b[i]
  BY <1>4, <1>5, <1>6
<1>8. a = b
  <2> HIDE DEF a, b
  <2> QED
    BY <1>7, SeqEqual
<1> QED
  BY <1>2, <1>3, <1>8

(* What is met from first along next is the sequence that is linked so.    *)
LEMMA FollowMeetsAll ==
  ASSUME NEW s \in Seq(Key), Distinct(s), NEW first, NEW prev, NEW next,
         Linked(s, first, prev, next)
  PROVE  Follow(first, next) = s
<1> DEFINE N == Cardinality(Key) + 1
           step(before) ==
             LET k == IF before = <<>> THEN first ELSE next[Last(before)]
             IN  IF k = NULL THEN before ELSE Append(before, k)
           Recursion(f) ==
             f = [n \in 0..N |-> IF n = 0 THEN <<>> ELSE step(f[n - 1])]
           upto(n) == IF n <= Len(s) THEN n ELSE Len(s)
           w == [n \in 0..N |-> take(s, upto(n))]
           met == CHOOSE f : Recursion(f)
<1>0. /\ Len(s) \in Nat /\ N \in Nat /\ Len(s) < N
      /\ \A i \in 1..Len(s) : s[i] \in Key /\ s[i] # NULL
  BY DistinctLength, KeysAreFinite, HashAssumption
<1>1. take(s, 0) = <<>>
  BY DEF take
<1>2. take(s, Len(s)) = s
  BY <1>0 DEF take
<1>3. ASSUME NEW n \in 1..N
      PROVE  take(s, upto(n)) = step(take(s, upto(n - 1)))
  <2>1. CASE n <= Len(s)
    <3> DEFINE m == n - 1
               k == IF m = 0 THEN first ELSE next[s[m]]
    <3>1. m \in 0..(Len(s) - 1) /\ m + 1 = n /\ upto(n - 1) = m /\ upto(n) = m + 1 /\ m \in Nat
      BY <1>0, <2>1
    <3>2. /\ Len(take(s, m)) = m
          /\ m > 0 => take(s, m) # <<>> /\ Last(take(s, m)) = s[m]
          /\ Append(take(s, m), s[m + 1]) = take(s, m + 1)
      BY <3>1, TakeOneMore
    <3>3. k = s[m + 1] /\ k # NULL
      <4>1. CASE m = 0
        BY <1>0, <2>1, <3>1, <4>1 DEF Linked
      <4>2. CASE m # 0
        <5>1. m \in 1..Len(s) /\ m # Len(s) /\ m + 1 \in 1..Len(s)
          BY <1>0, <3>1, <4>2
        <5> HIDE DEF m
        <5> QED
          BY <1>0, <4>2, <5>1 DEF Linked
      <4> QED
        BY <4>1, <4>2
    <3>4. step(take(s, m)) = Append(take(s, m), k)
      <4>1. CASE m = 0
        BY <3>3, <4>1, <1>1
      <4>2. CASE m # 0
        <5>1. take(s, m) # <<>> /\ Last(take(s, m)) = s[m]
          BY <3>1, <3>2, <4>2
        <5> HIDE DEF m
        <5> QED
          BY <3>3, <4>2, <5>1
      <4> QED
        BY <4>1, <4>2
    <3> HIDE DEF step, m, k, upto
    <3> QED
      BY <3>1, <3>2, <3>3, <3>4
  <2>2. CASE n > Len(s)
    <3>1. upto(n) = Len(s) /\ upto(n - 1) = Len(s)
      BY <1>0, <2>2
    <3>2. step(s) = s
      <4>1. CASE Len(s) = 0
        <5>1. s = <<>>
          BY <4>1, EmptySeq
        <5>2. first = NULL
          BY <4>1 DEF Linked
        <5> QED
          BY <5>1, <5>2
      <4>2. CASE Len(s) # 0
        <5>1. s # <<>> /\ Last(s) = s[Len(s)] /\ Len(s) \in 1..Len(s)
          BY <1>0, <4>2 DEF Last
        <5>2. next[s[Len(s)]] = NULL
          BY <5>1 DEF Linked
        <5> QED
          BY <5>1, <5>2
      <4> QED
        BY <4>1, <4>2
    <3> HIDE DEF step, upto
    <3> QED
      BY <1>2, <3>1, <3>2
  <2> QED
    BY <1>0, <2>1, <2>2
<1>4. Recursion(w)
  <2>1. \A n \in 0..N : take(s, upto(n)) = IF n = 0 THEN <<>> ELSE step(w[n - 1])
    <3> SUFFICES ASSUME NEW n \in 0..N
                 PROVE  take(s, upto(n)) = IF n = 0 THEN <<>> ELSE step(w[n - 1])
      OBVIOUS
    <3>1. CASE n = 0
      BY <1>0, <1>1, <3>1
    <3>2. CASE n # 0
      <4>1. n \in 1..N /\ n - 1 \in 0..N
        BY <1>0, <3>2
      <4>2. w[n - 1] = take(s, upto(n - 1))
        BY <4>1
      <4> HIDE DEF w, step, upto, N
      <4> QED
        BY <1>3, <3>2, <4>1, <4>2
    <3> QED
      BY <3>1, <3>2
  <2> HIDE DEF step, upto, N
  <2> QED
    BY <2>1
<1>5. Recursion(met)
  <2> HIDE DEF Recursion, w
  <2> QED
    BY <1>4
<1>6. \A n \in 0..N : met[n] = w[n]
  <2> DEFINE T == {n \in 0..N : met[n] = w[n]}
  <2>1. 0 \in T
    <3> HIDE DEF step, upto, met, w
    <3> QED
    BY <1>0, <1>4, <1>5
  <2>2. ASSUME NEW n \in 0..(N - 1), n \in T
        PROVE  n + 1 \in T
    <3>1. n + 1 \in 0..N /\ n + 1 # 0 /\ (n + 1) - 1 = n
      BY <1>0
    <3> HIDE DEF step, upto, met, w
    <3> QED
      BY <1>4, <1>5, <2>2, <3>1
  <2>3. \A n \in 0..N : n \in T
    <3> HIDE DEF T, N
    <3>1. 0 \in Int /\ N \in Int
      BY <1>0
    <3> QED
      BY <2>1, <2>2, <3>1, IntervalInduction
  <2> QED
    BY <2>3
<1>7. Follow(first, next) = met[N]
  BY Zenon DEF Follow, met, N, step
<1>8. w[N] = s
  BY <1>0, <1>2
<1> HIDE DEF met, w, N
<1> QED
  BY <1>0, <1>6, <1>7, <1>8

-----------------------------------------------------------------------------
(*                         Sequences of sequences                          *)

(* F[i] is the first i sequences, one after the other.                     *)
Flattens(F, S, seqs, B) ==
  /\ F \in [0..B -> Seq(S)]
  /\ F[0] = <<>>
  /\ \A i \in 1..B : F[i] = F[i - 1] \o seqs[i]
  /\ F[B] = FlattenSeq(seqs)

(* FlattenSeq is concatenation step by step. *)
LEMMA FlattenIsStepwise ==
  ASSUME NEW S, NEW B \in Nat, NEW seqs \in [1..B -> Seq(S)]
  PROVE  \E F : Flattens(F, S, seqs, B)
<1>0. Len(seqs) = B /\ <<>> \in Seq(S)
  OBVIOUS
<1>1. CASE B = 0
  <2> DEFINE F == [i \in 0..B |-> <<>>]
  <2>1. seqs = <<>>
    BY <1>1
  <2>2. FlattenSeq(seqs) = seqs
    BY <1>0, <1>1 DEF FlattenSeq
  <2>3. Flattens(F, S, seqs, B)
    BY <1>0, <1>1, <2>1, <2>2 DEF Flattens
  <2> QED
    BY <2>3
<1>2. CASE B # 0
  <2> DEFINE Recursion(f, n) ==
               f = [i \in 1..n |-> IF i = 1 THEN seqs[i] ELSE f[i - 1] \o seqs[i]]
             T == {n \in 1..B : \E f : Recursion(f, n)}
  <2>1. \A n \in 1..B : n \in T
    <3>1. 1 \in T
      <4>1. Recursion([i \in 1..1 |-> seqs[1]], 1)
        OBVIOUS
      <4>2. 1 \in 1..B
        BY <1>2
      <4> HIDE DEF Recursion
      <4> QED
        BY <4>1, <4>2
    <3>2. ASSUME NEW n \in 1..(B - 1), n \in T
          PROVE  n + 1 \in T
      <4>1. PICK f : Recursion(f, n)
        BY <3>2
      <4> DEFINE h == [i \in 1..(n + 1) |-> IF i = n + 1 THEN f[n] \o seqs[n + 1] ELSE f[i]]
      <4>2. h = [i \in 1..(n + 1) |-> IF i = 1 THEN seqs[i] ELSE h[i - 1] \o seqs[i]]
        <5> SUFFICES ASSUME NEW i \in 1..(n + 1)
                     PROVE  h[i] = IF i = 1 THEN seqs[i] ELSE h[i - 1] \o seqs[i]
          OBVIOUS
        <5>1. CASE i = n + 1
          <6>1. i # 1 /\ i - 1 = n /\ n # n + 1 /\ n \in 1..(n + 1) /\ n + 1 \in 1..(n + 1)
            BY <5>1
          <6>2. h[n + 1] = f[n] \o seqs[n + 1]
            BY <6>1
          <6>3. h[n] = f[n]
            BY <6>1
          <6> HIDE DEF h
          <6> QED
            BY <5>1, <6>1, <6>2, <6>3
        <5>2. CASE i # n + 1
          <6>1. i \in 1..n
            BY <5>2
          <6>2. CASE i = 1
            BY <4>1, <5>2, <6>1, <6>2
          <6>3. CASE i # 1
            <7>1. i - 1 \in 1..(n + 1) /\ i - 1 # n + 1
              BY <6>1, <6>3
            <7>2. h[i] = f[i] /\ h[i - 1] = f[i - 1]
              BY <5>2, <7>1
            <7>3. f[i] = f[i - 1] \o seqs[i]
              <8> HIDE DEF h
              <8> QED
                BY <4>1, <6>1, <6>3
            <7> HIDE DEF h, Recursion
            <7> QED
              BY <6>3, <7>2, <7>3
          <6> QED
            BY <6>2, <6>3
        <5> QED
          BY <5>1, <5>2
      <4>3. n + 1 \in 1..B
        OBVIOUS
      <4>4. Recursion(h, n + 1)
        BY <4>2
      <4> HIDE DEF Recursion, h
      <4> QED
        BY <4>3, <4>4
    <3>3. 1 \in Int /\ B \in Int
      OBVIOUS
    <3> HIDE DEF T
    <3> QED
      BY <3>1, <3>2, <3>3, IntervalInduction
  <2> DEFINE flatten == CHOOSE f : Recursion(f, B)
             F == [i \in 0..B |-> IF i = 0 THEN <<>> ELSE flatten[i]]
  <2>2. Recursion(flatten, B)
    <3>0. B \in 1..B
      BY <1>2
    <3>1. \E f : Recursion(f, B)
      <4> HIDE DEF Recursion
      <4> QED
        BY <2>1, <3>0
    <3> HIDE DEF Recursion
    <3> QED
      BY <3>1
  <2>3. FlattenSeq(seqs) = flatten[B]
    <3>1. FlattenSeq(seqs) =
            LET fl[i \in 1..Len(seqs)] == IF i = 1 THEN seqs[i] ELSE fl[i-1] \o seqs[i]
            IN  fl[Len(seqs)]
      BY <1>0, <1>2, Zenon DEF FlattenSeq
    <3> QED
      BY <1>0, <3>1, Zenon DEF flatten, Recursion
  <2> HIDE DEF flatten
  <2>4. ASSUME NEW i \in 1..B
        PROVE  flatten[i] = IF i = 1 THEN seqs[i] ELSE flatten[i - 1] \o seqs[i]
    BY <2>2
  <2> HIDE DEF Recursion
  <2>5. \A i \in 1..B : F[i] = F[i - 1] \o seqs[i]
    <3> SUFFICES ASSUME NEW i \in 1..B
                 PROVE  F[i] = F[i - 1] \o seqs[i]
      OBVIOUS
    <3>1. CASE i = 1
      BY <2>4, <3>1, ConcatEmptySeq
    <3>2. CASE i # 1
      <4>1. i - 1 \in 0..B /\ i \in 0..B /\ i # 0 /\ i - 1 # 0
        BY <3>2
      <4>2. F[i] = flatten[i] /\ F[i - 1] = flatten[i - 1]
        BY <4>1
      <4> HIDE DEF F
      <4> QED
        BY <2>4, <3>2, <4>2
    <3> QED
      BY <3>1, <3>2
  <2>6. \A i \in 0..B : F[i] \in Seq(S)
    <3> DEFINE U == {i \in 0..B : F[i] \in Seq(S)}
    <3>1. 0 \in U
      BY <1>0
    <3>2. ASSUME NEW i \in 0..(B - 1), i \in U
          PROVE  i + 1 \in U
      <4>1. i + 1 \in 1..B /\ (i + 1) - 1 = i
        OBVIOUS
      <4>2. F[i + 1] = F[i] \o seqs[i + 1]
        BY <2>5, <4>1
      <4>3. F[i] \in Seq(S) /\ seqs[i + 1] \in Seq(S)
        BY <3>2, <4>1
      <4> HIDE DEF F
      <4>4. F[i + 1] \in Seq(S)
        BY <4>2, <4>3, ConcatProperties
      <4>5. i + 1 \in 0..B
        BY <4>1
      <4> QED
        BY <4>4, <4>5
    <3>3. 0 \in Int /\ B \in Int
      OBVIOUS
    <3>4. \A i \in 0..B : i \in U
      <4> HIDE DEF U
      <4> QED
        BY <3>1, <3>2, <3>3, IntervalInduction
    <3> HIDE DEF F
    <3> QED
      BY <3>4
  <2>7. F[0] = <<>> /\ F[B] = FlattenSeq(seqs)
    BY <1>2, <2>3
  <2>8. Flattens(F, S, seqs, B)
    <3>1. F \in [0..B -> Seq(S)]
      BY <2>6
    <3> HIDE DEF F
    <3> QED
      BY <2>5, <2>7, <3>1 DEF Flattens
  <2> HIDE DEF F
  <2> QED
    BY <2>8
<1> QED
  BY <1>1, <1>2

(* The items of the first i sequences, one after the other, are the items  *)
(* of these sequences, each once if no item is in two of them or twice in  *)
(* one.                                                                    *)
AllOf(F, seqs, i) ==
  /\ \A x \in 1..Len(F[i]) : \E j \in 1..i : \E y \in 1..Len(seqs[j]) : F[i][x] = seqs[j][y]
  /\ \A j \in 1..i : \A y \in 1..Len(seqs[j]) : \E x \in 1..Len(F[i]) : F[i][x] = seqs[j][y]
  /\ Distinct(F[i])

(* If no item is in two of the sequences, all are listed once. *)
LEMMA FlattenHasAll ==
  ASSUME NEW S, NEW B \in Nat, NEW seqs \in [1..B -> Seq(S)], NEW F,
         Flattens(F, S, seqs, B),
         \A i \in 1..B : Distinct(seqs[i]),
         \A i, j \in 1..B : \A x \in 1..Len(seqs[i]), y \in 1..Len(seqs[j]) :
           seqs[i][x] = seqs[j][y] => i = j
  PROVE  \A i \in 0..B : AllOf(F, seqs, i)
<1> DEFINE T == {i \in 0..B : AllOf(F, seqs, i)}
<1>1. 0 \in T
  BY DEF AllOf, Flattens, Distinct
<1>2. ASSUME NEW i \in 0..(B - 1), i \in T
      PROVE  i + 1 \in T
  <2> DEFINE n == i + 1
             p == F[i]
             q == seqs[n]
  <2>1. n \in 1..B /\ n - 1 = i /\ i \in 0..B /\ n \in 0..B /\ n \in Nat /\ n = i + 1
    OBVIOUS
  <2>0. AllOf(F, seqs, i)
    BY <1>2
  <2> HIDE DEF n
  <2>2. p \in Seq(S) /\ q \in Seq(S) /\ F[n] = p \o q
    BY <2>1 DEF Flattens
  <2> HIDE DEF p, q
  <2>3. /\ Len(F[n]) = Len(p) + Len(q) /\ Len(p) \in Nat /\ Len(q) \in Nat
        /\ \A x \in 1..Len(p) + Len(q) : F[n][x] = IF x <= Len(p) THEN p[x] ELSE q[x - Len(p)]
    BY <2>2, ConcatProperties
  <2>4. AllOf(F, seqs, i)
    BY <2>0
  <2>5. ASSUME NEW x \in 1..Len(F[n])
        PROVE  \E j \in 1..n : \E y \in 1..Len(seqs[j]) : F[n][x] = seqs[j][y]
    <3>1. CASE x <= Len(p)
      <4>1. x \in 1..Len(p) /\ F[n][x] = p[x]
        <5>1. x \in 1..(Len(p) + Len(q)) /\ x \in 1..Len(p)
          BY <2>3, <3>1
        <5>2. F[n][x] = IF x <= Len(p) THEN p[x] ELSE q[x - Len(p)]
          BY <2>3, <5>1, Zenon
        <5> QED
          BY <3>1, <5>1, <5>2, Zenon
      <4>2. PICK j \in 1..i : \E y \in 1..Len(seqs[j]) : p[x] = seqs[j][y]
        BY <2>4, <4>1 DEF AllOf, p
      <4>3. j \in 1..n
        BY <2>1
      <4> QED
        BY <4>1, <4>2, <4>3
    <3>2. CASE x > Len(p)
      <4>1. x - Len(p) \in 1..Len(q) /\ F[n][x] = q[x - Len(p)]
        <5>1. x \in 1..(Len(p) + Len(q)) /\ x - Len(p) \in 1..Len(q) /\ ~(x <= Len(p))
          BY <2>3, <3>2
        <5>2. F[n][x] = IF x <= Len(p) THEN p[x] ELSE q[x - Len(p)]
          BY <2>3, <5>1, Zenon
        <5> QED
          BY <5>1, <5>2, Zenon
      <4>2. n \in 1..n
        BY <2>1
      <4> QED
        BY <4>1, <4>2 DEF q
    <3> QED
      BY <2>3, <3>1, <3>2
  <2>6. ASSUME NEW j \in 1..n, NEW y \in 1..Len(seqs[j])
        PROVE  \E x \in 1..Len(F[n]) : F[n][x] = seqs[j][y]
    <3>1. CASE j = n
      <4>1. y \in 1..Len(q) /\ seqs[j][y] = q[y]
        BY <3>1 DEF q
      <4>2. Len(p) + y \in 1..Len(F[n]) /\ F[n][Len(p) + y] = q[y]
        <5> DEFINE x == Len(p) + y
        <5>1. x \in 1..(Len(p) + Len(q)) /\ x - Len(p) = y /\ ~(x <= Len(p))
          BY <2>3, <4>1
        <5> HIDE DEF x
        <5>2. x \in 1..Len(F[n]) /\ F[n][x] = q[y]
          BY <2>3, <5>1
        <5> QED
          BY <5>2 DEF x
      <4> QED
        BY <4>1, <4>2
    <3>2. CASE j # n
      <4>1. j \in 1..i
        BY <2>1, <3>2
      <4>2. PICK x \in 1..Len(p) : p[x] = seqs[j][y]
        BY <2>4, <4>1 DEF AllOf, p
      <4>3. x \in 1..Len(F[n]) /\ F[n][x] = p[x]
        <5>1. x \in 1..(Len(p) + Len(q)) /\ x <= Len(p)
          BY <2>3
        <5> QED
          BY <2>3, <5>1
      <4> QED
        BY <4>2, <4>3
    <3> QED
      BY <3>1, <3>2
  <2>7. Distinct(F[n])
    <3>1. Distinct(p) /\ Distinct(q)
      BY <2>1, <2>4 DEF AllOf, p, q
    <3>2. \A x \in 1..Len(p), y \in 1..Len(q) : p[x] # q[y]
      <4> SUFFICES ASSUME NEW x \in 1..Len(p), NEW y \in 1..Len(q), p[x] = q[y]
                   PROVE  FALSE
        OBVIOUS
      <4>1. PICK j \in 1..i : \E z \in 1..Len(seqs[j]) : p[x] = seqs[j][z]
        BY <2>4 DEF AllOf, p
      <4>2. PICK z \in 1..Len(seqs[j]) : p[x] = seqs[j][z]
        BY <4>1
      <4>3. j \in 1..B /\ j # n
        BY <2>1
      <4>4. y \in 1..Len(seqs[n]) /\ seqs[n][y] = seqs[j][z]
        BY <4>2 DEF q
      <4> QED
        BY <2>1, <4>3, <4>4
    <3> QED
      <4> SUFFICES ASSUME NEW x \in 1..Len(F[n]), NEW y \in 1..Len(F[n]), F[n][x] = F[n][y]
                   PROVE  x = y
        BY DEF Distinct
      <4>1. CASE x <= Len(p) /\ y <= Len(p)
        BY <2>3, <3>1, <4>1 DEF Distinct
      <4>2. CASE x > Len(p) /\ y > Len(p)
        <5>1. /\ x - Len(p) \in 1..Len(q) /\ y - Len(p) \in 1..Len(q)
              /\ q[x - Len(p)] = q[y - Len(p)]
          <6>1. /\ x \in 1..Len(p) + Len(q) /\ y \in 1..Len(p) + Len(q)
                /\ Len(p) \in Nat /\ Len(q) \in Nat
            BY <2>3, Zenon
          <6>2. x - Len(p) \in 1..Len(q) /\ y - Len(p) \in 1..Len(q)
            BY <4>2, <6>1
          <6>3. ~(x <= Len(p)) /\ ~(y <= Len(p))
            BY <4>2, <6>1
          <6>4. F[n][x] = q[x - Len(p)] /\ F[n][y] = q[y - Len(p)]
            BY <2>3, <6>1, <6>3, Zenon
          <6> QED
            BY <6>2, <6>4
        <5>2. x - Len(p) = y - Len(p)
          BY <3>1, <5>1 DEF Distinct
        <5> QED
          BY <2>3, <5>2
      <4>3. CASE x <= Len(p) /\ y > Len(p)
        <5>1. x \in 1..Len(p) /\ y - Len(p) \in 1..Len(q) /\ p[x] = q[y - Len(p)]
          BY <2>3, <4>3
        <5> QED
          BY <3>2, <5>1
      <4>4. CASE x > Len(p) /\ y <= Len(p)
        <5>1. y \in 1..Len(p) /\ x - Len(p) \in 1..Len(q) /\ p[y] = q[x - Len(p)]
          BY <2>3, <4>4
        <5> QED
          BY <3>2, <5>1
      <4> QED
        BY <2>3, <4>1, <4>2, <4>3, <4>4
  <2>8. AllOf(F, seqs, n)
    BY <2>5, <2>6, <2>7 DEF AllOf
  <2>9. n \in T
    BY <2>1, <2>8
  <2> QED
    BY <2>1, <2>9
<1>3. \A i \in 0..B : i \in T
  <2>1. 0 \in Int /\ B \in Int
    OBVIOUS
  <2> HIDE DEF T
  <2> QED
    BY <1>1, <1>2, <2>1, IntervalInduction
<1> QED
  BY <1>3

-----------------------------------------------------------------------------
(*                        The comparison functions                         *)

(* Division of a number given by its quotient and remainder. *)
LEMMA QuotientAndRemainder ==
  ASSUME NEW b \in Nat \ {0}, NEW q \in Int, NEW r \in 0..(b - 1)
  PROVE  (q * b + r) \div b = q /\ (q * b + r) % b = r
OBVIOUS

(* Every integer can be written with its quotient and remainder.           *)
LEMMA DivisionHolds ==
  ASSUME NEW a \in Int, NEW b \in Nat \ {0}
  PROVE  \E q \in Int, r \in 0..(b - 1) : a = q * b + r
<1>1. a - b * (a \div b) = a % b
  BY SMTT(30)
<1>2. a \div b \in Int /\ a % b \in 0..(b - 1)
  OBVIOUS
<1> DEFINE q == a \div b
           r == a % b
<1>3. q \in Int /\ r \in 0..(b - 1) /\ a - b * q = r
  BY <1>1, <1>2
<1> HIDE DEF q, r
<1>4. a = q * b + r
  BY <1>3
<1> QED
  BY <1>3, <1>4

(* Narrowing an unsigned long to an int keeps the low bits. *)
LEMMA LowBits ==
  ASSUME NEW z \in Int
  PROVE  (z % LongModulus) % IntModulus = z % IntModulus
<1>1. LongModulus \in Nat \ {0} /\ IntModulus \in Nat \ {0} /\ LongModulus \in Int
  BY OrderAssumption
<1>2. PICK k \in Int : LongModulus = k * IntModulus
  <2>1. PICK q \in Int, r \in 0..(IntModulus - 1) : LongModulus = q * IntModulus + r
    BY <1>1, DivisionHolds
  <2>2. r = 0
    BY <1>1, <2>1, QuotientAndRemainder, OrderAssumption
  <2>3. LongModulus = q * IntModulus
    BY <1>1, <2>1, <2>2
  <2> QED
    BY <2>3
<1>3. PICK d \in Int, r \in 0..(LongModulus - 1) : z = d * LongModulus + r
  BY <1>1, DivisionHolds
<1>4. PICK e \in Int, s \in 0..(IntModulus - 1) : r = e * IntModulus + s
  <2>1. r \in Int
    BY <1>1
  <2> QED
    BY <1>1, <2>1, DivisionHolds
<1>5. z % LongModulus = r
  BY <1>1, <1>3, QuotientAndRemainder
<1>6. r % IntModulus = s
  BY <1>1, <1>4, QuotientAndRemainder
<1>7. z = (d * k + e) * IntModulus + s
  <2>1. z = d * (k * IntModulus) + (e * IntModulus + s)
    BY <1>2, <1>3, <1>4
  <2> QED
    BY <1>1, <2>1
<1>8. z % IntModulus = s
  <2> DEFINE c == d * k + e
  <2>1. c \in Int /\ z = c * IntModulus + s
    BY <1>7
  <2> HIDE DEF c
  <2> QED
    BY <1>1, <2>1, QuotientAndRemainder
<1> QED
  BY <1>5, <1>6, <1>8

(* A difference that an int holds is returned as it is; of two differences *)
(* in opposite directions not both are returned as positive.               *)
LEMMA NarrowedDifference ==
  ASSUME NEW z \in Int
  PROVE  /\ ToInt(z % LongModulus) \in Int
         /\ Abs(z) < IntModulus \div 2 => ToInt(z % LongModulus) = z
         /\ ToInt(z % LongModulus) > 0 => ToInt((-z) % LongModulus) <= 0
<1>1. IntModulus \in Nat \ {0}
  BY OrderAssumption
<1> DEFINE half == IntModulus \div 2
           s == z % IntModulus
<1>2. half \in Nat /\ 2 * half <= IntModulus
  BY <1>1
<1>3. s \in 0..(IntModulus - 1)
  BY <1>1
<1>4. (-z) \in Int
  OBVIOUS
<1>5. /\ ToInt(z % LongModulus) = IF s < half THEN s ELSE s - IntModulus
      /\ ToInt((-z) % LongModulus) =
           IF (-z) % IntModulus < half THEN (-z) % IntModulus
           ELSE ((-z) % IntModulus) - IntModulus
  BY <1>4, LowBits, Zenon DEF ToInt
<1>6. PICK d \in Int, r \in 0..(IntModulus - 1) : z = d * IntModulus + r
  BY <1>1, DivisionHolds
<1>7. s = r
  BY <1>1, <1>6, QuotientAndRemainder
<1>8. s > 0 => (-z) % IntModulus = IntModulus - s
  <2> SUFFICES ASSUME s > 0
               PROVE  (-z) % IntModulus = IntModulus - s
    OBVIOUS
  <2> DEFINE c == -d - 1
             t == IntModulus - r
  <2>1. c \in Int /\ t \in 0..(IntModulus - 1) /\ -z = c * IntModulus + t
    BY <1>1, <1>3, <1>6, <1>7
  <2> HIDE DEF c, t
  <2>2. (-z) % IntModulus = t
    BY <1>1, <2>1, QuotientAndRemainder
  <2> QED
    BY <1>7, <2>2 DEF t
<1>9. Abs(z) < half => ToInt(z % LongModulus) = z
  <2> SUFFICES ASSUME Abs(z) < half
               PROVE  ToInt(z % LongModulus) = z
    OBVIOUS
  <2>1. CASE z >= 0
    <3>1. z \in 0..(IntModulus - 1) /\ z < half
      BY <1>1, <1>2, <2>1 DEF Abs
    <3>2. z = 0 * IntModulus + z
      BY <1>1
    <3>3. s = z
      BY <1>1, <3>1, <3>2, QuotientAndRemainder
    <3> HIDE DEF s, half
    <3> QED
      BY <1>5, <3>1, <3>3
  <2>2. CASE z < 0
    <3>1. z + IntModulus \in 0..(IntModulus - 1) /\ ~(z + IntModulus < half)
      BY <1>1, <1>2, <2>2 DEF Abs
    <3>2. z = (-1) * IntModulus + (z + IntModulus)
      BY <1>1
    <3>3. s = z + IntModulus
      <4> DEFINE t == z + IntModulus
                 c == -1
      <4>1. c \in Int /\ t \in 0..(IntModulus - 1) /\ z = c * IntModulus + t
        BY <3>1, <3>2
      <4> HIDE DEF c, t
      <4>2. s = t
        BY <1>1, <4>1, QuotientAndRemainder
      <4> QED
        BY <4>2 DEF t
    <3> HIDE DEF s, half
    <3> QED
      BY <1>1, <1>5, <3>1, <3>3
  <2> QED
    BY <2>1, <2>2
<1> HIDE DEF s, half
<1>10. ToInt(z % LongModulus) \in Int
  BY <1>1, <1>3, <1>5
<1>11. ToInt(z % LongModulus) > 0 => ToInt((-z) % LongModulus) <= 0
  BY <1>1, <1>2, <1>3, <1>5, <1>8
<1> QED
  BY <1>9, <1>10, <1>11 DEF half

Item == [time : Int, error : Int]

(* Although neither comparison is an order, an item that does not compare  *)
(* as less than or equal to another is not less than or equal by it the    *)
(* other way round.                                                        *)
LEMMA ComparedBothWays ==
  ASSUME NEW by, NEW x \in Item, NEW y \in Item
  PROVE  /\ cmpfcn(by, x, y) \in Int
         /\ ~(cmpfcn(by, x, y) <= 0) => cmpfcn(by, y, x) <= 0
<1>1. x.time \in Int /\ y.time \in Int /\ x.error \in Int /\ y.error \in Int
  BY DEF Item
<1>2. CASE by = "time"
  <2> DEFINE z == x.time - y.time
  <2>1. z \in Int /\ y.time - x.time = -z
    BY <1>1
  <2>2. cmpfcn(by, x, y) = ToInt(z % LongModulus)
    BY <1>2 DEF cmpfcn, TimeSetItem_cmp_by_time
  <2>3. cmpfcn(by, y, x) = ToInt((-z) % LongModulus)
    BY <1>2, <2>1 DEF cmpfcn, TimeSetItem_cmp_by_time
  <2> HIDE DEF z
  <2>4. ToInt(z % LongModulus) \in Int
    BY <2>1, NarrowedDifference
  <2>5. ToInt(z % LongModulus) > 0 => ToInt((-z) % LongModulus) <= 0
    BY <2>1, NarrowedDifference
  <2> QED
    BY <2>2, <2>3, <2>4, <2>5
<1>3. CASE by # "time"
  <2>1. Tolerance \in Nat
    BY OrderAssumption
  <2> QED
    BY <1>1, <1>3, <2>1 DEF cmpfcn, TimeSetItem_cmp_by_error, Abs
<1> QED
  BY <1>2, <1>3

(* Times that an int can hold the distance of are compared as numbers.     *)
LEMMA CloseTimesCompared ==
  ASSUME NEW x \in Item, NEW y \in Item, Abs(x.time - y.time) < IntModulus \div 2
  PROVE  cmpfcn("time", x, y) = x.time - y.time
<1>1. x.time - y.time \in Int
  BY DEF Item
<1> QED
  BY <1>1, NarrowedDifference DEF cmpfcn, TimeSetItem_cmp_by_time

-----------------------------------------------------------------------------
(*                                 Merging                                 *)

(* Each item compares with the next as not greater. *)
InOrder(by, s) == \A i \in 1..(Len(s) - 1) : cmpfcn(by, s[i], s[i + 1]) <= 0

(* r has the items of p and of q and no others, each once. *)
HasBoth(r, p, q) ==
  /\ Distinct(r)
  /\ \A x \in 1..Len(r) : (\E i \in 1..Len(p) : r[x] = p[i]) \/ (\E j \in 1..Len(q) : r[x] = q[j])
  /\ \A i \in 1..Len(p) : \E x \in 1..Len(r) : r[x] = p[i]
  /\ \A j \in 1..Len(q) : \E x \in 1..Len(r) : r[x] = q[j]

(* What has been merged when the next items are p[a] and q[b]. *)
Merged(by, p, q, s, a, b, n) ==
  /\ s \in Seq(Item) /\ Len(s) = n
  /\ a \in 1..(Len(p) + 1) /\ b \in 1..(Len(q) + 1) /\ a + b = n + 2
  /\ Distinct(s)
  /\ \A x \in 1..n : (\E i \in 1..(a - 1) : s[x] = p[i]) \/ (\E j \in 1..(b - 1) : s[x] = q[j])
  /\ \A i \in 1..(a - 1) : \E x \in 1..n : s[x] = p[i]
  /\ \A j \in 1..(b - 1) : \E x \in 1..n : s[x] = q[j]
  /\ InOrder(by, s)
  /\ n > 0 /\ a <= Len(p) => cmpfcn(by, s[n], p[a]) <= 0
  /\ n > 0 /\ b <= Len(q) => cmpfcn(by, s[n], q[b]) <= 0

(* A new item that the last does not exceed goes to the end. *)
LEMMA AppendInOrder ==
  ASSUME NEW by, NEW s \in Seq(Item), NEW e \in Item, Distinct(s), InOrder(by, s),
         \A x \in 1..Len(s) : s[x] # e,
         Len(s) > 0 => cmpfcn(by, s[Len(s)], e) <= 0
  PROVE  /\ Append(s, e) \in Seq(Item) /\ Len(Append(s, e)) = Len(s) + 1
         /\ \A x \in 1..Len(s) : Append(s, e)[x] = s[x]
         /\ Append(s, e)[Len(s) + 1] = e
         /\ Distinct(Append(s, e))
         /\ InOrder(by, Append(s, e))
<1> DEFINE n == Len(s)
           t == Append(s, e)
<1>1. /\ n \in Nat /\ t \in Seq(Item) /\ Len(t) = n + 1
      /\ \A x \in 1..n : t[x] = s[x]
      /\ t[n + 1] = e
  OBVIOUS
<1>2. /\ \A i, j \in 1..n : s[i] = s[j] => i = j
      /\ \A x \in 1..n : s[x] # e
      /\ \A i \in 1..(n - 1) : cmpfcn(by, s[i], s[i + 1]) <= 0
      /\ n > 0 => cmpfcn(by, s[n], e) <= 0
  BY DEF Distinct, InOrder
<1> HIDE DEF n, t
<1>3. Distinct(t)
  <2> SUFFICES ASSUME NEW i \in 1..(n + 1), NEW j \in 1..(n + 1), t[i] = t[j]
               PROVE  i = j
    BY <1>1 DEF Distinct
  <2>1. CASE i \in 1..n /\ j \in 1..n
    BY <1>1, <1>2, <2>1
  <2>2. CASE i = n + 1 /\ j \in 1..n
    BY <1>1, <1>2, <2>2
  <2>3. CASE j = n + 1 /\ i \in 1..n
    BY <1>1, <1>2, <2>3
  <2> QED
    BY <1>1, <2>1, <2>2, <2>3
<1>4. InOrder(by, t)
  <2> SUFFICES ASSUME NEW i \in 1..n
               PROVE  cmpfcn(by, t[i], t[i + 1]) <= 0
    BY <1>1 DEF InOrder
  <2>1. CASE i = n
    <3>1. t[i] = s[n] /\ t[i + 1] = e /\ n > 0
      BY <1>1, <2>1
    <3> QED
      BY <1>2, <3>1
  <2>2. CASE i # n
    <3>1. i \in 1..(n - 1) /\ i + 1 \in 1..n
      BY <1>1, <2>2
    <3>2. t[i] = s[i] /\ t[i + 1] = s[i + 1]
      BY <1>1, <3>1
    <3> QED
      BY <1>2, <3>1, <3>2
  <2> QED
    BY <2>1, <2>2
<1> QED
  BY <1>1, <1>3, <1>4 DEF n, t

(* Taking the next item of p, if the next of q is not less. *)
LEMMA TakesFromFirst ==
  ASSUME NEW by, NEW p \in Seq(Item), NEW q \in Seq(Item), NEW s, NEW a, NEW b, NEW n \in Nat,
         Merged(by, p, q, s, a, b, n), Distinct(p), InOrder(by, p),
         \A i \in 1..Len(p), j \in 1..Len(q) : p[i] # q[j],
         a <= Len(p),
         b <= Len(q) => cmpfcn(by, p[a], q[b]) <= 0
  PROVE  Merged(by, p, q, Append(s, p[a]), a + 1, b, n + 1)
<1> DEFINE t == Append(s, p[a])
<1>1. /\ Len(p) \in Nat /\ Len(q) \in Nat /\ a \in 1..Len(p) /\ b \in 1..(Len(q) + 1)
      /\ a + b = n + 2 /\ s \in Seq(Item) /\ Len(s) = n /\ p[a] \in Item
  BY DEF Merged
<1>2. /\ \A x \in 1..n : (\E i \in 1..(a - 1) : s[x] = p[i]) \/ (\E j \in 1..(b - 1) : s[x] = q[j])
      /\ \A i \in 1..(a - 1) : \E x \in 1..n : s[x] = p[i]
      /\ \A j \in 1..(b - 1) : \E x \in 1..n : s[x] = q[j]
  BY DEF Merged
<1>3. \A x \in 1..n : s[x] # p[a]
  <2> SUFFICES ASSUME NEW x \in 1..n, s[x] = p[a]
               PROVE  FALSE
    OBVIOUS
  <2>1. CASE \E i \in 1..(a - 1) : s[x] = p[i]
    <3>1. PICK i \in 1..(a - 1) : p[a] = p[i]
      BY <2>1
    <3>2. i \in 1..Len(p) /\ i # a
      BY <1>1
    <3> QED
      BY <1>1, <3>1, <3>2 DEF Distinct
  <2>2. CASE \E j \in 1..(b - 1) : s[x] = q[j]
    <3>1. PICK j \in 1..(b - 1) : p[a] = q[j]
      BY <2>2
    <3>2. j \in 1..Len(q)
      BY <1>1
    <3> QED
      BY <1>1, <3>1, <3>2
  <2> QED
    BY <1>2, <2>1, <2>2
<1>4. /\ t \in Seq(Item) /\ Len(t) = n + 1
      /\ \A x \in 1..n : t[x] = s[x]
      /\ t[n + 1] = p[a]
      /\ Distinct(t)
      /\ InOrder(by, t)
  <2>1. Distinct(s) /\ InOrder(by, s) /\ (Len(s) > 0 => cmpfcn(by, s[Len(s)], p[a]) <= 0)
    BY <1>1 DEF Merged
  <2> QED
    BY <1>1, <1>3, <2>1, AppendInOrder
<1> HIDE DEF t
<1>5. ASSUME NEW x \in 1..(n + 1)
      PROVE  (\E i \in 1..((a + 1) - 1) : t[x] = p[i]) \/ (\E j \in 1..(b - 1) : t[x] = q[j])
  <2>1. CASE x = n + 1
    <3>1. a \in 1..((a + 1) - 1) /\ t[x] = p[a]
      BY <1>1, <1>4, <2>1
    <3> QED
      BY <3>1
  <2>2. CASE x # n + 1
    <3>1. x \in 1..n /\ t[x] = s[x]
      BY <1>4, <2>2
    <3>2. \A i \in 1..(a - 1) : i \in 1..((a + 1) - 1)
      BY <1>1
    <3> QED
      BY <1>2, <3>1, <3>2
  <2> QED
    BY <2>1, <2>2
<1>6. ASSUME NEW i \in 1..((a + 1) - 1)
      PROVE  \E x \in 1..(n + 1) : t[x] = p[i]
  <2>1. CASE i = a
    <3>1. n + 1 \in 1..(n + 1)
      OBVIOUS
    <3> QED
      BY <1>4, <2>1, <3>1
  <2>2. CASE i # a
    <3>1. i \in 1..(a - 1)
      BY <1>1, <2>2
    <3>2. PICK x \in 1..n : s[x] = p[i]
      BY <1>2, <3>1
    <3>3. x \in 1..(n + 1) /\ t[x] = p[i]
      BY <1>4, <3>2
    <3> QED
      BY <3>3
  <2> QED
    BY <2>1, <2>2
<1>7. ASSUME NEW j \in 1..(b - 1)
      PROVE  \E x \in 1..(n + 1) : t[x] = q[j]
  <2>1. PICK x \in 1..n : s[x] = q[j]
    BY <1>2
  <2>2. x \in 1..(n + 1) /\ t[x] = q[j]
    BY <1>4, <2>1
  <2> QED
    BY <2>2
<1>8. a + 1 <= Len(p) => cmpfcn(by, t[n + 1], p[a + 1]) <= 0
  <2> SUFFICES ASSUME a + 1 <= Len(p)
               PROVE  cmpfcn(by, p[a], p[a + 1]) <= 0
    BY <1>4
  <2>1. a \in 1..(Len(p) - 1)
    BY <1>1
  <2> QED
    BY <2>1 DEF InOrder
<1>9. b <= Len(q) => cmpfcn(by, t[n + 1], q[b]) <= 0
  BY <1>4
<1>10. a + 1 \in 1..(Len(p) + 1) /\ b \in 1..(Len(q) + 1) /\ (a + 1) + b = (n + 1) + 2
  BY <1>1
<1>11. Merged(by, p, q, t, a + 1, b, n + 1)
  BY <1>4, <1>5, <1>6, <1>7, <1>8, <1>9, <1>10 DEF Merged
<1> QED
  BY <1>11 DEF t

(* The two runs are alike, but for which is taken from when items are equal. *)
LEMMA MergedSymmetric ==
  ASSUME NEW by, NEW p \in Seq(Item), NEW q \in Seq(Item), NEW s, NEW a, NEW b, NEW n \in Nat,
         Merged(by, p, q, s, a, b, n)
  PROVE  Merged(by, q, p, s, b, a, n)
<1>1. a + b = b + a
  BY DEF Merged
<1>2. \A x \in 1..n : (\E j \in 1..(b - 1) : s[x] = q[j]) \/ (\E i \in 1..(a - 1) : s[x] = p[i])
  BY DEF Merged
<1> QED
  BY <1>1, <1>2 DEF Merged

(* The recursive function of Merge. *)
mergeStep(by, p, q, m) ==
  IF m.a <= Len(p) /\ (m.b > Len(q) \/ takesFirst(cmpfcn(by, p[m.a], q[m.b])))
  THEN [list |-> Append(m.list, p[m.a]), a |-> m.a + 1, b |-> m.b]
  ELSE [list |-> Append(m.list, q[m.b]), a |-> m.a, b |-> m.b + 1]

Merging(by, p, q, f, n) ==
  f = [i \in 0..n |-> IF i = 0 THEN [list |-> <<>>, a |-> 1, b |-> 1]
                      ELSE mergeStep(by, p, q, f[i - 1])]

(* The recursion of Merge has a solution. *)
LEMMA MergingExists ==
  ASSUME NEW by, NEW p, NEW q, NEW N \in Nat
  PROVE  \E f : Merging(by, p, q, f, N)
<1> DEFINE T == {n \in 0..N : \E f : Merging(by, p, q, f, n)}
<1>1. 0 \in T
  <2>1. Merging(by, p, q, [i \in 0..0 |-> [list |-> <<>>, a |-> 1, b |-> 1]], 0)
    BY DEF Merging
  <2> QED
    BY <2>1
<1>2. ASSUME NEW n \in 0..(N - 1), n \in T
      PROVE  n + 1 \in T
  <2>1. PICK f : Merging(by, p, q, f, n)
    BY <1>2
  <2> DEFINE h == [i \in 0..(n + 1) |-> IF i = n + 1 THEN mergeStep(by, p, q, f[n]) ELSE f[i]]
  <2>2. ASSUME NEW i \in 0..(n + 1)
        PROVE  h[i] = IF i = 0 THEN [list |-> <<>>, a |-> 1, b |-> 1]
                      ELSE mergeStep(by, p, q, h[i - 1])
    <3>1. CASE i = n + 1
      <4>1. i # 0 /\ i - 1 = n /\ n # n + 1 /\ n \in 0..(n + 1) /\ n + 1 \in 0..(n + 1)
        BY <3>1
      <4>2. h[n + 1] = mergeStep(by, p, q, f[n]) /\ h[n] = f[n]
        BY <4>1
      <4> HIDE DEF h
      <4> QED
        BY <3>1, <4>1, <4>2
    <3>2. CASE i # n + 1
      <4>1. i \in 0..n
        BY <3>2
      <4>2. h[i] = f[i]
        BY <3>2
      <4>3. i # 0 => h[i - 1] = f[i - 1]
        BY <4>1
      <4> HIDE DEF h
      <4> QED
        BY <2>1, <4>1, <4>2, <4>3 DEF Merging
    <3> QED
      BY <3>1, <3>2
  <2>3. Merging(by, p, q, h, n + 1)
    <3>1. h = [i \in 0..(n + 1) |-> h[i]]
      OBVIOUS
    <3> HIDE DEF h
    <3> QED
      BY <2>2, <3>1 DEF Merging
  <2> HIDE DEF h
  <2> QED
    BY <2>3
<1>3. \A n \in 0..N : n \in T
  <2>1. 0 \in Int /\ N \in Int
    OBVIOUS
  <2> HIDE DEF T
  <2> QED
    BY <1>1, <1>2, <2>1, IntervalInduction
<1> QED
  BY <1>3

(* Two runs that are in order are merged to one that is in order.          *)
LEMMA MergeIsInOrder ==
  ASSUME NEW by, NEW p \in Seq(Item), NEW q \in Seq(Item),
         Distinct(p), Distinct(q), InOrder(by, p), InOrder(by, q),
         \A i \in 1..Len(p), j \in 1..Len(q) : p[i] # q[j]
  PROVE  /\ Merge(by, p, q) \in Seq(Item)
         /\ Len(Merge(by, p, q)) = Len(p) + Len(q)
         /\ HasBoth(Merge(by, p, q), p, q)
         /\ InOrder(by, Merge(by, p, q))
<1> DEFINE N == Len(p) + Len(q)
           f == CHOOSE g : Merging(by, p, q, g, N)
           Inv(n) == Merged(by, p, q, f[n].list, f[n].a, f[n].b, n)
<1>0. Len(p) \in Nat /\ Len(q) \in Nat /\ N \in Nat
  OBVIOUS
<1>1. Merging(by, p, q, f, N)
  BY <1>0, MergingExists
<1>2. Merge(by, p, q) = f[N].list
  BY Zenon DEF Merge, Merging, mergeStep
<1> HIDE DEF f, N
<1>3. f[0] = [list |-> <<>>, a |-> 1, b |-> 1]
  BY <1>0, <1>1 DEF Merging
<1>4. \A n \in 1..N : f[n] = mergeStep(by, p, q, f[n - 1])
  BY <1>0, <1>1 DEF Merging
<1>5. Inv(0)
  <2>1. /\ <<>> \in Seq(Item) /\ Len(<<>>) = 0 /\ Distinct(<<>>) /\ InOrder(by, <<>>)
    BY DEF Distinct, InOrder
  <2>2. f[0].list = <<>> /\ f[0].a = 1 /\ f[0].b = 1
    BY <1>3
  <2>3. Merged(by, p, q, <<>>, 1, 1, 0)
    BY <1>0, <2>1 DEF Merged
  <2> QED
    BY <2>2, <2>3
<1>6. ASSUME NEW n \in 0..(N - 1), Inv(n)
      PROVE  Inv(n + 1)
  <2> DEFINE s == f[n].list
             a == f[n].a
             b == f[n].b
             first == a <= Len(p) /\ (b > Len(q) \/ takesFirst(cmpfcn(by, p[a], q[b])))
  <2>1. Merged(by, p, q, s, a, b, n) /\ n \in Nat
    BY <1>0, <1>6
  <2>2. f[n + 1] = IF first THEN [list |-> Append(s, p[a]), a |-> a + 1, b |-> b]
                   ELSE [list |-> Append(s, q[b]), a |-> a, b |-> b + 1]
    <3>1. n + 1 \in 1..N /\ (n + 1) - 1 = n
      BY <1>0
    <3>2. f[n + 1] = mergeStep(by, p, q, f[n])
      BY <1>4, <3>1
    <3> QED
      BY <3>2 DEF mergeStep
  <2>3. a \in 1..(Len(p) + 1) /\ b \in 1..(Len(q) + 1) /\ a + b = n + 2
    BY <2>1 DEF Merged
  <2>4. CASE first
    <3>1. b <= Len(q) => cmpfcn(by, p[a], q[b]) <= 0
      BY <1>0, <2>3, <2>4 DEF takesFirst
    <3>2. /\ f[n + 1].list = Append(s, p[a])
          /\ f[n + 1].a = a + 1
          /\ f[n + 1].b = b
      BY <2>2, <2>4
    <3>3. a <= Len(p)
      BY <2>4
    <3> HIDE DEF s, a, b, first
    <3>4. Merged(by, p, q, Append(s, p[a]), a + 1, b, n + 1)
      BY <2>1, <3>1, <3>3, TakesFromFirst
    <3> QED
      BY <3>2, <3>4
  <2>5. CASE ~first
    <3>1. b <= Len(q)
      BY <1>0, <2>3, <2>5 DEF N
    <3>2. a <= Len(p) => cmpfcn(by, q[b], p[a]) <= 0
      <4> SUFFICES ASSUME a <= Len(p)
                   PROVE  cmpfcn(by, q[b], p[a]) <= 0
        OBVIOUS
      <4>1. p[a] \in Item /\ q[b] \in Item
        BY <1>0, <2>3, <3>1
      <4>2. ~(cmpfcn(by, p[a], q[b]) <= 0)
        BY <2>5 DEF takesFirst
      <4> HIDE DEF a, b
      <4> QED
        BY <4>1, <4>2, ComparedBothWays
    <3>3. /\ f[n + 1].list = Append(s, q[b])
          /\ f[n + 1].a = a
          /\ f[n + 1].b = b + 1
      BY <2>2, <2>5
    <3> HIDE DEF s, a, b, first
    <3>4. Merged(by, q, p, s, b, a, n)
      BY <2>1, MergedSymmetric
    <3>5. \A i \in 1..Len(q), j \in 1..Len(p) : q[i] # p[j]
      OBVIOUS
    <3>6. Merged(by, q, p, Append(s, q[b]), b + 1, a, n + 1)
      BY <2>1, <3>1, <3>2, <3>4, <3>5, TakesFromFirst
    <3>7. n + 1 \in Nat
      BY <2>1
    <3>8. Merged(by, p, q, Append(s, q[b]), a, b + 1, n + 1)
      BY <3>6, <3>7, MergedSymmetric
    <3> QED
      BY <3>3, <3>8
  <2> QED
    BY <2>4, <2>5
<1>7. Inv(N)
  <2> DEFINE T == {n \in 0..N : Inv(n)}
  <2>1. 0 \in T
    BY <1>0, <1>5
  <2>2. ASSUME NEW n \in 0..(N - 1), n \in T
        PROVE  n + 1 \in T
    <3>1. Inv(n)
      BY <2>2
    <3>2. n + 1 \in 0..N
      BY <1>0
    <3> HIDE DEF Inv
    <3> QED
      BY <1>6, <3>1, <3>2
  <2>3. \A n \in 0..N : n \in T
    <3>1. 0 \in Int /\ N \in Int
      BY <1>0
    <3> HIDE DEF T
    <3> QED
      BY <2>1, <2>2, <3>1, IntervalInduction
  <2>4. N \in 0..N
    BY <1>0
  <2> HIDE DEF Inv
  <2> QED
    BY <2>3, <2>4
<1> DEFINE r == f[N].list
<1>8. /\ r \in Seq(Item) /\ Len(r) = N /\ Distinct(r) /\ InOrder(by, r)
      /\ f[N].a = Len(p) + 1 /\ f[N].b = Len(q) + 1
  BY <1>0, <1>7 DEF Merged, N
<1>9. HasBoth(r, p, q)
  <2>1. (Len(p) + 1) - 1 = Len(p) /\ (Len(q) + 1) - 1 = Len(q)
    BY <1>0
  <2>2. Merged(by, p, q, r, Len(p) + 1, Len(q) + 1, N)
    BY <1>7, <1>8
  <2> HIDE DEF r
  <2> QED
    BY <1>8, <2>1, <2>2 DEF Merged, HasBoth
<1> HIDE DEF r
<1> QED
  BY <1>2, <1>8, <1>9 DEF r, N

-----------------------------------------------------------------------------
(*                                The passes                               *)

(* s consists of runs of w items in order, the last one perhaps shorter.   *)
RunsInOrder(by, s, w) ==
  \A i \in 1..(Len(s) - 1) : i % w # 0 => cmpfcn(by, s[i], s[i + 1]) <= 0

(* r has the items of s, in any order. *)
Permutes(r, s) ==
  /\ Len(r) = Len(s)
  /\ Distinct(r)
  /\ \A x \in 1..Len(r) : \E i \in 1..Len(s) : r[x] = s[i]
  /\ \A i \in 1..Len(s) : \E x \in 1..Len(r) : r[x] = s[i]

runOf(s, w, first) ==
  SubSeq(s, first, IF first + w - 1 < Len(s) THEN first + w - 1 ELSE Len(s))

(* How many of the items after the first z are in a run of w.              *)
runLength(s, w, z) == IF z + w <= Len(s) THEN w ELSE IF z <= Len(s) THEN Len(s) - z ELSE 0

(* Position z + 1 begins a run of w. *)
BeginsRun(w, z) == \A i \in 0..(w - 1) : (z + i) % w = i

(* The run after the first z items is in order. *)
IsRun(by, s, w, z) ==
  /\ runOf(s, w, z + 1) \in Seq(Item)
  /\ Len(runOf(s, w, z + 1)) = runLength(s, w, z)
  /\ \A i \in 1..runLength(s, w, z) : z + i \in 1..Len(s) /\ runOf(s, w, z + 1)[i] = s[z + i]
  /\ Distinct(runOf(s, w, z + 1))
  /\ InOrder(by, runOf(s, w, z + 1))

(* A run that begins at a multiple of its length is in order. *)
LEMMA RunIsInOrder ==
  ASSUME NEW by, NEW s \in Seq(Item), NEW w \in Nat \ {0}, NEW z \in Nat,
         BeginsRun(w, z), Distinct(s), RunsInOrder(by, s, w)
  PROVE  IsRun(by, s, w, z)
<1> DEFINE N == Len(s)
           L == runLength(s, w, z)
           end == IF (z + 1) + w - 1 < N THEN (z + 1) + w - 1 ELSE N
           r == SubSeq(s, z + 1, end)
<1>0. N \in Nat /\ w \in Nat /\ w > 0
  OBVIOUS
<1>a. /\ L = IF z + w <= N THEN w ELSE IF z <= N THEN N - z ELSE 0
      /\ end = IF (z + 1) + w - 1 < N THEN (z + 1) + w - 1 ELSE N
  BY DEF runLength
<1>1. /\ N \in Nat /\ L \in Nat /\ L <= w /\ end \in Int /\ z + 1 \in Int
      /\ L = (IF z + 1 <= end THEN end - (z + 1) + 1 ELSE 0)
      /\ \A i \in 1..L : z + i \in 1..N /\ (z + 1) + i - 1 = z + i
      /\ end - (z + 1) + 1 <= L
      /\ \A i \in (z + 1)..end : i \in 1..N
  <2> HIDE DEF N, L, end
  <2>1. CASE z + w < N
    BY <1>0, <1>a, <2>1
  <2>2. CASE ~(z + w < N)
    BY <1>0, <1>a, <2>2
  <2> QED
    BY <2>1, <2>2
<1>2. \A i \in (z + 1)..end : s[i] \in Item
  BY <1>1
<1>3. r = runOf(s, w, z + 1)
  BY DEF runOf
<1> HIDE DEF L, end
<1>4. /\ r \in Seq(Item)
      /\ Len(r) = (IF z + 1 <= end THEN end - (z + 1) + 1 ELSE 0)
      /\ \A i \in 1..(end - (z + 1) + 1) : r[i] = s[(z + 1) + i - 1]
  BY <1>1, <1>2, SubSeqProperties
<1>5. Len(r) = L
  BY <1>1, <1>4
<1>6. \A i \in 1..L : z + i \in 1..N /\ r[i] = s[z + i]
  <2> SUFFICES ASSUME NEW i \in 1..L
               PROVE  z + i \in 1..N /\ r[i] = s[z + i]
    OBVIOUS
  <2>1. i \in 1..(end - (z + 1) + 1)
    BY <1>1
  <2>2. r[i] = s[(z + 1) + i - 1] /\ (z + 1) + i - 1 = z + i /\ z + i \in 1..N
    BY <1>1, <1>4, <2>1
  <2> HIDE DEF r
  <2> QED
    BY <2>2
<1> HIDE DEF r
<1>7. Distinct(r)
  <2> SUFFICES ASSUME NEW i \in 1..L, NEW j \in 1..L, r[i] = r[j]
               PROVE  i = j
    BY <1>5 DEF Distinct
  <2>1. s[z + i] = s[z + j] /\ z + i \in 1..N /\ z + j \in 1..N
    BY <1>6
  <2>2. z + i = z + j
    BY <2>1 DEF Distinct
  <2> QED
    BY <1>1, <2>2
<1>8. InOrder(by, r)
  <2> SUFFICES ASSUME NEW i \in 1..(L - 1)
               PROVE  cmpfcn(by, r[i], r[i + 1]) <= 0
    BY <1>5 DEF InOrder
  <2>1. i \in 1..L /\ i + 1 \in 1..L /\ i \in 0..(w - 1) /\ i # 0
    BY <1>1
  <2>2. r[i] = s[z + i] /\ r[i + 1] = s[z + (i + 1)] /\ z + i \in 1..N /\ z + (i + 1) \in 1..N
    BY <1>6, <2>1
  <2>3. (z + i) % w = i
    BY <2>1 DEF BeginsRun
  <2> DEFINE k == z + i
  <2>4. k % w # 0 /\ k \in 1..(N - 1) /\ z + (i + 1) = k + 1
    BY <1>1, <2>1, <2>2, <2>3
  <2>5. cmpfcn(by, s[k], s[k + 1]) <= 0
    <3> HIDE DEF k
    <3> QED
      BY <2>4 DEF RunsInOrder
  <2> QED
    BY <2>2, <2>4, <2>5
<1> QED
  BY <1>3, <1>4, <1>5, <1>6, <1>7, <1>8 DEF L, IsRun

(* Merging two neighbouring runs, the first of which is not empty, gives   *)
(* their items in order.                                                   *)
twoRuns(by, s, w, z) == Merge(by, runOf(s, w, z + 1), runOf(s, w, z + 1 + w))

twoRunsLength(s, w, z) == IF z + 2 * w < Len(s) THEN 2 * w ELSE Len(s) - z

(* r has the L items after the first z, in order. *)
IsTwoRuns(by, s, z, r, L) ==
  /\ r \in Seq(Item) /\ Len(r) = L
  /\ Distinct(r) /\ InOrder(by, r)
  /\ \A x \in 1..L : \E i \in 1..L : r[x] = s[z + i]
  /\ \A i \in 1..L : \E x \in 1..L : r[x] = s[z + i]

(* What one merge of a pass makes of two runs. *)
LEMMA TwoRunsInOrder ==
  ASSUME NEW by, NEW s \in Seq(Item), NEW w \in Nat \ {0}, NEW z \in Nat,
         BeginsRun(w, z), BeginsRun(w, z + w), z < Len(s), Distinct(s), RunsInOrder(by, s, w),
         NEW r, r = twoRuns(by, s, w, z), NEW L, L = twoRunsLength(s, w, z)
  PROVE  IsTwoRuns(by, s, z, r, L)
<1> DEFINE N == Len(s)
           p == runOf(s, w, z + 1)
           q == runOf(s, w, (z + w) + 1)
           m == runLength(s, w, z)
           n == runLength(s, w, z + w)
<1>1. /\ p \in Seq(Item) /\ Len(p) = m
      /\ \A i \in 1..m : z + i \in 1..N /\ p[i] = s[z + i]
      /\ Distinct(p) /\ InOrder(by, p)
  <2>1. IsRun(by, s, w, z)
    BY RunIsInOrder
  <2> QED
    BY <2>1, Zenon DEF IsRun
<1>2. /\ q \in Seq(Item) /\ Len(q) = n
      /\ \A i \in 1..n : (z + w) + i \in 1..N /\ q[i] = s[(z + w) + i]
      /\ Distinct(q) /\ InOrder(by, q)
  <2> DEFINE y == z + w
  <2>1. y \in Nat /\ BeginsRun(w, y)
    OBVIOUS
  <2> HIDE DEF y
  <2>2. IsRun(by, s, w, y)
    BY <2>1, RunIsInOrder
  <2> QED
    BY <2>2, Zenon DEF y, IsRun
<1>3. (z + w) + 1 = z + 1 + w
  OBVIOUS
<1>4. /\ N \in Nat /\ m \in Nat /\ n \in Nat /\ L \in Nat /\ m <= w /\ (n > 0 => m = w)
      /\ L = m + n
  <2>1. N \in Nat /\ w \in Nat /\ w > 0 /\ z < N
    OBVIOUS
  <2>2. /\ m = IF z + w <= N THEN w ELSE IF z <= N THEN N - z ELSE 0
        /\ n = IF (z + w) + w <= N THEN w ELSE IF z + w <= N THEN N - (z + w) ELSE 0
        /\ L = IF z + 2 * w < N THEN 2 * w ELSE N - z
    BY Zenon DEF runLength, twoRunsLength
  <2> HIDE DEF N, m, n
  <2> QED
    BY <2>1, <2>2
<1> HIDE DEF p, q, m, n
<1>5. \A i \in 1..Len(p), j \in 1..Len(q) : p[i] # q[j]
  <2> SUFFICES ASSUME NEW i \in 1..m, NEW j \in 1..n
               PROVE  p[i] # q[j]
    BY <1>1, <1>2
  <2>1. z + i \in 1..N /\ (z + w) + j \in 1..N /\ z + i # (z + w) + j
    BY <1>1, <1>2, <1>4
  <2>2. p[i] = s[z + i] /\ q[j] = s[(z + w) + j]
    BY <1>1, <1>2
  <2> DEFINE x == z + i
             y == (z + w) + j
  <2> HIDE DEF x, y
  <2>3. s[x] # s[y]
    BY <2>1 DEF Distinct, x, y
  <2> QED
    BY <2>2, <2>3 DEF x, y
<1>6. r = Merge(by, p, q)
  BY <1>3 DEF twoRuns, p, q
<1>7. /\ r \in Seq(Item) /\ Len(r) = m + n /\ HasBoth(r, p, q) /\ InOrder(by, r)
  <2> DEFINE t == Merge(by, p, q)
  <2>1. /\ p \in Seq(Item) /\ Distinct(p) /\ InOrder(by, p)
        /\ q \in Seq(Item) /\ Distinct(q) /\ InOrder(by, q)
    BY <1>1, <1>2, Zenon
  <2>2. Len(p) = m /\ Len(q) = n
    BY <1>1, <1>2, Zenon
  <2>3. t \in Seq(Item) /\ Len(t) = Len(p) + Len(q) /\ HasBoth(t, p, q) /\ InOrder(by, t)
    BY <1>5, <2>1, MergeIsInOrder
  <2>4. r = t
    BY <1>6 DEF t
  <2> HIDE DEF t
  <2> QED
    BY <2>2, <2>3, <2>4
<1>8. ASSUME NEW x \in 1..L
      PROVE  \E i \in 1..L : r[x] = s[z + i]
  <2>1. (\E i \in 1..m : r[x] = p[i]) \/ (\E j \in 1..n : r[x] = q[j])
    <3>1. x \in 1..Len(r)
      BY <1>4, <1>7
    <3>2. Len(p) = m /\ Len(q) = n /\ HasBoth(r, p, q)
      BY <1>1, <1>2, <1>7
    <3> QED
      BY <3>1, <3>2 DEF HasBoth
  <2>2. CASE \E i \in 1..m : r[x] = p[i]
    <3>1. PICK i \in 1..m : r[x] = p[i]
      BY <2>2
    <3>2. i \in 1..L /\ r[x] = s[z + i]
      BY <1>1, <1>4, <3>1
    <3> QED
      BY <3>2
  <2>3. CASE \E j \in 1..n : r[x] = q[j]
    <3>1. PICK j \in 1..n : r[x] = q[j]
      BY <2>3
    <3>2. w + j \in 1..L /\ z + (w + j) = (z + w) + j
      BY <1>4
    <3>3. r[x] = s[z + (w + j)]
      BY <1>2, <3>1, <3>2
    <3> DEFINE i == w + j
    <3>4. i \in 1..L /\ r[x] = s[z + i]
      BY <3>2, <3>3
    <3> HIDE DEF i
    <3> QED
      BY <3>4
  <2> QED
    BY <2>1, <2>2, <2>3
<1>9. ASSUME NEW i \in 1..L
      PROVE  \E x \in 1..L : r[x] = s[z + i]
  <2>1. CASE i <= m
    <3>1. i \in 1..m
      BY <1>4, <2>1
    <3>2. PICK x \in 1..Len(r) : r[x] = p[i]
      BY <1>1, <1>7, <3>1 DEF HasBoth
    <3> QED
      BY <1>1, <1>4, <1>7, <3>1, <3>2
  <2>2. CASE i > m
    <3>1. i - m \in 1..n /\ m = w /\ (z + w) + (i - m) = z + i
      BY <1>4, <2>2
    <3>2. PICK x \in 1..Len(r) : r[x] = q[i - m]
      BY <1>2, <1>7, <3>1 DEF HasBoth
    <3>3. q[i - m] = s[z + i]
      BY <1>2, <3>1
    <3> QED
      BY <1>4, <1>7, <3>2, <3>3
  <2> QED
    BY <1>4, <2>1, <2>2
<1>10. Distinct(r)
  BY <1>7 DEF HasBoth
<1> QED
  BY <1>4, <1>7, <1>8, <1>9, <1>10 DEF IsTwoRuns

(* t has the first n items of s, in runs of w. *)
SortedPrefix(by, s, w, n, t) ==
  /\ t \in Seq(Item) /\ Len(t) = n
  /\ Distinct(t)
  /\ \A x \in 1..n : \E k \in 1..n : t[x] = s[k]
  /\ \A k \in 1..n : \E x \in 1..n : t[x] = s[k]
  /\ RunsInOrder(by, t, w)

(* With the next two runs merged, more of the list is in longer runs. *)
LEMMA PrefixGrows ==
  ASSUME NEW by, NEW s \in Seq(Item), NEW w \in Nat \ {0}, NEW z \in Nat, NEW L \in Nat,
         Distinct(s), z % w = 0, z + L <= Len(s),
         NEW t, SortedPrefix(by, s, w, z, t), NEW r, IsTwoRuns(by, s, z, r, L)
  PROVE  SortedPrefix(by, s, w, z + L, t \o r)
<1> DEFINE u == t \o r
           n == z + L
<1>1. /\ t \in Seq(Item) /\ Len(t) = z /\ Distinct(t)
      /\ \A x \in 1..z : \E k \in 1..z : t[x] = s[k]
      /\ \A k \in 1..z : \E x \in 1..z : t[x] = s[k]
      /\ \A i \in 1..(z - 1) : i % w # 0 => cmpfcn(by, t[i], t[i + 1]) <= 0
  BY DEF SortedPrefix, RunsInOrder
<1>2. /\ r \in Seq(Item) /\ Len(r) = L /\ Distinct(r)
      /\ \A x \in 1..L : \E i \in 1..L : r[x] = s[z + i]
      /\ \A i \in 1..L : \E x \in 1..L : r[x] = s[z + i]
      /\ \A i \in 1..(L - 1) : cmpfcn(by, r[i], r[i + 1]) <= 0
  BY DEF IsTwoRuns, InOrder
<1>3. n \in Nat /\ Len(s) \in Nat
  OBVIOUS
<1>a. t \in Seq(Item) /\ r \in Seq(Item) /\ Len(t) = z /\ Len(r) = L
  BY <1>1, <1>2
<1>b. \A x \in 1..Len(t) + Len(r) : u[x] = IF x <= Len(t) THEN t[x] ELSE r[x - Len(t)]
  BY <1>a, ConcatProperties
<1>4. u \in Seq(Item) /\ Len(u) = n
  BY <1>1, <1>2, ConcatProperties
<1>5. \A x \in 1..z : u[x] = t[x] /\ x \in 1..n
  <2> HIDE DEF u
  <2> SUFFICES ASSUME NEW x \in 1..z
               PROVE  u[x] = t[x] /\ x \in 1..n
    OBVIOUS
  <2>1. x \in 1..(z + L) /\ x <= z
    OBVIOUS
  <2> QED
    BY <1>a, <1>b, <2>1
<1>6. \A i \in 1..L : u[z + i] = r[i] /\ z + i \in 1..n
  <2> HIDE DEF u
  <2> SUFFICES ASSUME NEW i \in 1..L
               PROVE  u[z + i] = r[i] /\ z + i \in 1..n
    OBVIOUS
  <2> DEFINE x == z + i
  <2>2. x \in 1..(z + L) /\ ~(x <= z) /\ x - z = i
    OBVIOUS
  <2> HIDE DEF x
  <2>3. u[x] = r[i]
    BY <1>a, <1>b, <2>2
  <2> QED
    BY <2>2, <2>3 DEF x
<1>7. \A x \in 1..n : x \in 1..z \/ (x - z \in 1..L /\ x = z + (x - z))
  BY <1>3
<1> HIDE DEF u, n
<1>8. ASSUME NEW x \in 1..n
      PROVE  \E k \in 1..n : u[x] = s[k]
  <2>1. CASE x \in 1..z
    <3>1. PICK k \in 1..z : t[x] = s[k]
      BY <1>1, <2>1
    <3>2. k \in 1..n /\ u[x] = s[k]
      BY <1>5, <2>1, <3>1
    <3> QED
      BY <3>2
  <2>2. CASE x - z \in 1..L /\ x = z + (x - z)
    <3>1. u[x] = r[x - z]
      BY <1>6, <2>2
    <3>2. PICK i \in 1..L : r[x - z] = s[z + i]
      BY <1>2, <2>2
    <3>3. z + i \in 1..n
      BY <1>6
    <3> QED
      BY <3>1, <3>2, <3>3
  <2> QED
    BY <1>7, <2>1, <2>2
<1>9. ASSUME NEW k \in 1..n
      PROVE  \E x \in 1..n : u[x] = s[k]
  <2>1. CASE k \in 1..z
    <3>1. PICK x \in 1..z : t[x] = s[k]
      BY <1>1, <2>1
    <3>2. x \in 1..n /\ u[x] = s[k]
      BY <1>5, <3>1
    <3> QED
      BY <3>2
  <2>2. CASE k - z \in 1..L /\ k = z + (k - z)
    <3> DEFINE i == k - z
    <3>0. i \in 1..L /\ z + i = k
      BY <2>2
    <3> HIDE DEF i
    <3>1. PICK x \in 1..L : r[x] = s[k]
      BY <1>2, <3>0
    <3>2. z + x \in 1..n /\ u[z + x] = s[k]
      BY <1>6, <3>1
    <3> QED
      BY <3>2
  <2> QED
    BY <1>7, <2>1, <2>2
<1>10. Distinct(u)
  <2>1. ASSUME NEW x \in 1..z, NEW y \in 1..L
        PROVE  t[x] # r[y]
    <3>1. PICK k \in 1..z : t[x] = s[k]
      BY <1>1
    <3>2. PICK i \in 1..L : r[y] = s[z + i]
      BY <1>2
    <3> DEFINE j == z + i
    <3>3. k \in 1..Len(s) /\ j \in 1..Len(s) /\ k # j
      BY <1>3
    <3>4. r[y] = s[j]
      BY <3>2
    <3> HIDE DEF j
    <3> QED
      BY <3>1, <3>3, <3>4 DEF Distinct
  <2> SUFFICES ASSUME NEW x \in 1..n, NEW y \in 1..n, u[x] = u[y]
               PROVE  x = y
    BY <1>4 DEF Distinct
  <2>2. CASE x \in 1..z /\ y \in 1..z
    <3>1. t[x] = t[y] /\ Distinct(t)
      BY <1>1, <1>5, <2>2
    <3> QED
      BY <1>a, <2>2, <3>1 DEF Distinct
  <2>3. CASE x \in 1..z /\ (y - z \in 1..L /\ y = z + (y - z))
    <3>1. u[x] = t[x] /\ u[y] = r[y - z]
      BY <1>5, <1>6, <2>3
    <3> QED
      BY <2>1, <2>3, <3>1
  <2>4. CASE y \in 1..z /\ (x - z \in 1..L /\ x = z + (x - z))
    <3>1. u[y] = t[y] /\ u[x] = r[x - z]
      BY <1>5, <1>6, <2>4
    <3> QED
      BY <2>1, <2>4, <3>1
  <2>5. CASE (x - z \in 1..L /\ x = z + (x - z)) /\ (y - z \in 1..L /\ y = z + (y - z))
    <3>1. r[x - z] = r[y - z]
      BY <1>6, <2>5
    <3>2. x - z = y - z
      BY <1>2, <2>5, <3>1 DEF Distinct
    <3> QED
      BY <1>3, <3>2
  <2> QED
    BY <1>7, <2>2, <2>3, <2>4, <2>5
<1>11. RunsInOrder(by, u, w)
  <2> SUFFICES ASSUME NEW i \in 1..(n - 1), i % w # 0
               PROVE  cmpfcn(by, u[i], u[i + 1]) <= 0
    BY <1>4 DEF RunsInOrder
  <2>1. i # z
    OBVIOUS
  <2>2. CASE i < z
    <3>1. i \in 1..(z - 1) /\ i \in 1..z /\ i + 1 \in 1..z
      BY <1>3, <2>2
    <3>2. u[i] = t[i] /\ u[i + 1] = t[i + 1]
      BY <1>5, <3>1
    <3> QED
      BY <1>1, <3>1, <3>2
  <2>3. CASE i > z
    <3> DEFINE j == i - z
    <3>1. j \in 1..(L - 1) /\ j \in 1..L /\ j + 1 \in 1..L /\ i = z + j /\ i + 1 = z + (j + 1)
      BY <1>3, <2>3 DEF n
    <3> HIDE DEF j
    <3>2. u[i] = r[j] /\ u[i + 1] = r[j + 1]
      BY <1>6, <3>1
    <3> QED
      BY <1>2, <3>1, <3>2
  <2> QED
    BY <1>3, <2>1, <2>2, <2>3
<1> QED
  BY <1>4, <1>8, <1>9, <1>10, <1>11 DEF SortedPrefix, n, u

(* Of two multiples the one of the greater number is greater. *)
LEMMA MultiplesGrow ==
  ASSUME NEW w \in Nat, NEW a \in Int, NEW b \in Int, a <= b
  PROVE  a * w <= b * w
<1>1. (b - a) * w >= 0
  OBVIOUS
<1>2. (b - a) * w = b * w - a * w
  OBVIOUS
<1>3. a * w \in Int /\ b * w \in Int
  OBVIOUS
<1> QED
  BY <1>1, <1>2, <1>3

(* The merges of a pass begin before the end of the list, and go as far.   *)
LEMMA MergesCoverTheList ==
  ASSUME NEW N \in Nat, NEW W \in Nat \ {0}, NEW M, M = (N + W - 1) \div W
  PROVE  /\ M \in Nat
         /\ \A i \in 0..(M - 1) : i * W \in Nat /\ i * W < N
         /\ M * W >= N
<1>1. N + W - 1 \in Int
  OBVIOUS
<1>2. PICK q \in Int, r \in 0..(W - 1) : N + W - 1 = q * W + r
  <2> DEFINE a == N + W - 1
  <2>1. a \in Int
    OBVIOUS
  <2> HIDE DEF a
  <2>2. \E q \in Int, r \in 0..(W - 1) : a = q * W + r
    BY <2>1, DivisionHolds
  <2> QED
    BY <2>2 DEF a
<1>3. M = q
  BY <1>2, QuotientAndRemainder
<1> DEFINE p == q * W
<1>4. p \in Int /\ p = N + W - 1 - r
  BY <1>2
<1>5. p >= N
  <2> HIDE DEF p
  <2> QED
    BY <1>4
<1>6. q \in Nat
  <2> SUFFICES ASSUME q <= -1
               PROVE  FALSE
    OBVIOUS
  <2>1. q * W <= (-1) * W
    BY MultiplesGrow
  <2>2. (-1) * W < 0
    OBVIOUS
  <2> HIDE DEF p
  <2> QED
    BY <1>4, <1>5, <2>1, <2>2 DEF p
<1>7. ASSUME NEW i \in 0..(q - 1)
      PROVE  i * W \in Nat /\ i * W < N
  <2>1. i * W <= (q - 1) * W
    BY <1>6, MultiplesGrow
  <2>2. (q - 1) * W = p - W
    OBVIOUS
  <2>3. i * W \in Nat
    BY <1>6
  <2> DEFINE x == i * W
             y == (q - 1) * W
  <2>4. x <= y /\ y = p - W /\ x \in Nat
    BY <2>1, <2>2, <2>3
  <2> HIDE DEF p, x, y
  <2>5. x < N
    BY <1>4, <2>4
  <2> QED
    BY <2>3, <2>5 DEF x
<1> QED
  BY <1>3, <1>5, <1>6, <1>7

(* Runs begin at the multiples of their length. *)
LEMMA MultipleBeginsRun ==
  ASSUME NEW w \in Nat \ {0}, NEW c \in Int
  PROVE  BeginsRun(w, c * w)
<1> SUFFICES ASSUME NEW i \in 0..(w - 1)
             PROVE  (c * w + i) % w = i
  BY DEF BeginsRun
<1> QED
  BY QuotientAndRemainder

(* A pass doubles the length of the runs that are in order. *)
LEMMA PassIsInOrder ==
  ASSUME NEW by, NEW s \in Seq(Item), NEW w \in Nat \ {0}, Distinct(s), RunsInOrder(by, s, w)
  PROVE  SortedPrefix(by, s, 2 * w, Len(s), Pass(by, s, w))
<1> DEFINE N == Len(s)
           W == 2 * w
           M == nmerges(s, w)
           z(i) == i * W
           upto(i) == IF z(i) < N THEN z(i) ELSE N
           seqs == [m \in 1..M |-> twoRuns(by, s, w, 2 * (m - 1) * w)]
<1>0. N \in Nat /\ W \in Nat \ {0} /\ W \in Nat /\ W > 0
  OBVIOUS
<1>1. /\ M \in Nat
      /\ \A i \in 0..(M - 1) : z(i) \in Nat /\ z(i) < N
      /\ z(M) >= N
  <2>1. M = (N + W - 1) \div W
    BY DEF nmerges
  <2> HIDE DEF M, N, W
  <2> QED
    BY <1>0, <2>1, MergesCoverTheList
<1>2. ASSUME NEW i \in 0..(M - 1)
      PROVE  /\ seqs[i + 1] = twoRuns(by, s, w, z(i))
             /\ IsTwoRuns(by, s, z(i), seqs[i + 1], twoRunsLength(s, w, z(i)))
  <2>1. z(i) \in Nat /\ z(i) < N
    BY <1>1
  <2>2. 2 * ((i + 1) - 1) * w = z(i)
    BY <1>1
  <2>3. i + 1 \in 1..M
    BY <1>1
  <2>4. seqs[i + 1] = twoRuns(by, s, w, z(i))
    BY <2>2, <2>3
  <2>5. z(i) = (2 * i) * w /\ z(i) + w = (2 * i + 1) * w
    BY <1>1
  <2>6. BeginsRun(w, z(i)) /\ BeginsRun(w, z(i) + w)
    <3>1. BeginsRun(w, (2 * i) * w) /\ BeginsRun(w, (2 * i + 1) * w)
      <4> DEFINE c == 2 * i
                 d == 2 * i + 1
      <4>1. c \in Int /\ d \in Int
        BY <1>1
      <4> HIDE DEF c, d
      <4>2. BeginsRun(w, c * w) /\ BeginsRun(w, d * w)
        BY <4>1, MultipleBeginsRun
      <4> QED
        BY <4>2 DEF c, d
    <3> QED
      BY <2>5, <3>1
  <2> HIDE DEF seqs, M, z
  <2>7. IsTwoRuns(by, s, z(i), seqs[i + 1], twoRunsLength(s, w, z(i)))
    BY <2>1, <2>4, <2>6, TwoRunsInOrder
  <2> QED
    BY <2>4, <2>7
<1>3. Pass(by, s, w) = FlattenSeq(seqs)
  BY Zenon DEF Pass, from, twoRuns, runOf
<1>4. seqs \in [1..M -> Seq(Item)]
  <2> SUFFICES ASSUME NEW m \in 1..M
               PROVE  seqs[m] \in Seq(Item)
    OBVIOUS
  <2>1. m - 1 \in 0..(M - 1) /\ (m - 1) + 1 = m
    BY <1>1
  <2> HIDE DEF seqs, M, z
  <2> QED
    BY <1>2, <2>1 DEF IsTwoRuns
<1> HIDE DEF seqs, M
<1>5. PICK F : Flattens(F, Item, seqs, M)
  BY <1>1, <1>4, FlattenIsStepwise
<1> DEFINE T == {i \in 0..M : SortedPrefix(by, s, W, upto(i), F[i])}
<1>6. 0 \in T
  <2>0. F[0] = <<>>
    BY <1>5 DEF Flattens
  <2>a. z(0) = 0
    OBVIOUS
  <2>1. F[0] = <<>> /\ z(0) = 0
    BY <2>0, <2>a
  <2>2. upto(0) = 0
    BY <1>0, <2>1
  <2>3. SortedPrefix(by, s, W, 0, <<>>)
    BY DEF SortedPrefix, Distinct, RunsInOrder
  <2> HIDE DEF upto
  <2> QED
    BY <1>1, <2>1, <2>2, <2>3
<1>7. ASSUME NEW i \in 0..(M - 1), i \in T
      PROVE  i + 1 \in T
  <2> DEFINE L == twoRunsLength(s, w, z(i))
  <2>1. /\ i + 1 \in 1..M /\ (i + 1) - 1 = i /\ z(i) \in Nat /\ z(i) < N /\ i + 1 \in 0..M
        /\ i \in Int
    BY <1>1
  <2>2. upto(i) = z(i)
    BY <2>1
  <2>3. z(i + 1) = z(i) + W /\ z(i + 1) \in Nat
    BY <2>1
  <2>4. L \in Nat /\ upto(i + 1) = z(i) + L /\ z(i) + L <= N
    <3>1. L = IF z(i) + W < N THEN W ELSE N - z(i)
      BY DEF twoRunsLength
    <3> HIDE DEF z, N, W, L
    <3> QED
      BY <1>0, <2>1, <2>3, <3>1
  <2>5. z(i) % W = 0
    <3> HIDE DEF W
    <3>0. i \in Int /\ W \in Nat \ {0} /\ 0 \in 0..(W - 1)
      BY <1>0, <2>1
    <3>1. (i * W + 0) % W = 0
      BY <3>0, QuotientAndRemainder
    <3>2. i * W + 0 = i * W
      BY <3>0
    <3> QED
      BY <3>1, <3>2
  <2>6. F[i + 1] = F[i] \o seqs[i + 1]
    <3> DEFINE n == i + 1
    <3>1. n \in 1..M /\ n - 1 = i
      BY <2>1
    <3> HIDE DEF n
    <3>2. F[n] = F[n - 1] \o seqs[n]
      BY <1>5, <3>1 DEF Flattens
    <3> QED
      BY <3>1, <3>2 DEF n
  <2>7. SortedPrefix(by, s, W, z(i), F[i])
    BY <1>7, <2>2
  <2>8. IsTwoRuns(by, s, z(i), seqs[i + 1], L)
    BY <1>2
  <2> HIDE DEF z, W, L, upto
  <2>9. SortedPrefix(by, s, W, z(i) + L, F[i] \o seqs[i + 1])
    BY <1>0, <2>1, <2>4, <2>5, <2>7, <2>8, PrefixGrows
  <2> QED
    BY <2>1, <2>4, <2>6, <2>9
<1>8. \A i \in 0..M : i \in T
  <2>1. 0 \in Int /\ M \in Int
    BY <1>1
  <2> HIDE DEF T
  <2> QED
    BY <1>6, <1>7, <2>1, IntervalInduction
<1>9. upto(M) = N
  <2>1. z(M) \in Int
    BY <1>0, <1>1
  <2> HIDE DEF z
  <2> QED
    BY <1>0, <1>1, <2>1
<1>10. M \in 0..M
  BY <1>1
<1>11. SortedPrefix(by, s, W, N, F[M])
  <2> HIDE DEF upto, W, N
  <2> QED
    BY <1>8, <1>9, <1>10
<1>12. F[M] = Pass(by, s, w)
  BY <1>3, <1>5 DEF Flattens
<1> QED
  BY <1>11, <1>12

(* The recursive function of HASH_SRT. *)
sortStep(by, before) ==
  IF before.looping
  THEN [list |-> Pass(by, before.list, before.insize),
        insize |-> 2 * before.insize,
        looping |-> ~isLast(nmerges(before.list, before.insize))]
  ELSE before

Sorting(by, items, f, n) ==
  f = [i \in 0..n |-> IF i = 0 THEN [list |-> items, insize |-> 1, looping |-> TRUE]
                      ELSE sortStep(by, f[i - 1])]

(* The recursion of HASH_SRT has a solution. *)
LEMMA SortingExists ==
  ASSUME NEW by, NEW items, NEW N \in Nat
  PROVE  \E f : Sorting(by, items, f, N)
<1> DEFINE T == {n \in 0..N : \E f : Sorting(by, items, f, n)}
           start == [list |-> items, insize |-> 1, looping |-> TRUE]
<1>1. 0 \in T
  <2>1. Sorting(by, items, [i \in 0..0 |-> start], 0)
    BY DEF Sorting
  <2> QED
    BY <2>1
<1>2. ASSUME NEW n \in 0..(N - 1), n \in T
      PROVE  n + 1 \in T
  <2>1. PICK f : Sorting(by, items, f, n)
    BY <1>2
  <2> DEFINE h == [i \in 0..(n + 1) |-> IF i = n + 1 THEN sortStep(by, f[n]) ELSE f[i]]
  <2>2. ASSUME NEW i \in 0..(n + 1)
        PROVE  h[i] = IF i = 0 THEN start ELSE sortStep(by, h[i - 1])
    <3>1. CASE i = n + 1
      <4>1. i # 0 /\ i - 1 = n /\ n # n + 1 /\ n \in 0..(n + 1) /\ n + 1 \in 0..(n + 1)
        BY <3>1
      <4>2. h[n + 1] = sortStep(by, f[n]) /\ h[n] = f[n]
        BY <4>1
      <4> HIDE DEF h, start
      <4> QED
        BY <3>1, <4>1, <4>2
    <3>2. CASE i # n + 1
      <4>1. i \in 0..n
        BY <3>2
      <4>2. h[i] = f[i]
        BY <3>2
      <4>3. i # 0 => h[i - 1] = f[i - 1]
        BY <4>1
      <4> HIDE DEF h
      <4> QED
        BY <2>1, <4>1, <4>2, <4>3 DEF Sorting
    <3> QED
      BY <3>1, <3>2
  <2>3. Sorting(by, items, h, n + 1)
    <3>1. h = [i \in 0..(n + 1) |-> h[i]]
      OBVIOUS
    <3> HIDE DEF h
    <3> QED
      BY <2>2, <3>1 DEF Sorting
  <2> HIDE DEF h
  <2> QED
    BY <2>3
<1>3. \A n \in 0..N : n \in T
  <2>1. 0 \in Int /\ N \in Int
    OBVIOUS
  <2> HIDE DEF T
  <2> QED
    BY <1>1, <1>2, <2>1, IntervalInduction
<1> QED
  BY <1>3

(* Sorting what was sorted leaves the same items. *)
LEMMA SortedOfSorted ==
  ASSUME NEW by, NEW s, NEW n, NEW t, NEW r, NEW v, NEW w,
         SortedPrefix(by, s, v, n, t), SortedPrefix(by, t, w, n, r)
  PROVE  SortedPrefix(by, s, w, n, r)
<1>1. /\ \A x \in 1..n : \E k \in 1..n : t[x] = s[k]
      /\ \A k \in 1..n : \E x \in 1..n : t[x] = s[k]
  BY DEF SortedPrefix
<1>2. /\ \A x \in 1..n : \E k \in 1..n : r[x] = t[k]
      /\ \A k \in 1..n : \E x \in 1..n : r[x] = t[k]
  BY DEF SortedPrefix
<1>3. ASSUME NEW x \in 1..n
      PROVE  \E k \in 1..n : r[x] = s[k]
  <2>1. PICK j \in 1..n : r[x] = t[j]
    BY <1>2
  <2>2. PICK k \in 1..n : t[j] = s[k]
    BY <1>1
  <2> QED
    BY <2>1, <2>2
<1>4. ASSUME NEW k \in 1..n
      PROVE  \E x \in 1..n : r[x] = s[k]
  <2>1. PICK j \in 1..n : t[j] = s[k]
    BY <1>1
  <2>2. PICK x \in 1..n : r[x] = t[j]
    BY <1>2
  <2> QED
    BY <2>1, <2>2
<1> QED
  BY <1>3, <1>4 DEF SortedPrefix

(* Whatever the comparison function, the sort ends with the same items in  *)
(* an order in which each compares with the next as not greater.           *)
LEMMA SortIsInOrder ==
  ASSUME NEW by, NEW items \in Seq(Item), Distinct(items)
  PROVE  /\ HASH_SRT(by, items) \in Seq(Item)
         /\ Permutes(HASH_SRT(by, items), items)
         /\ InOrder(by, HASH_SRT(by, items))
<1> DEFINE N == Len(items)
           f == CHOOSE g : Sorting(by, items, g, N)
           Inv(n) ==
             /\ SortedPrefix(by, items, f[n].insize, N, f[n].list)
             /\ f[n].insize \in Nat \ {0}
             /\ f[n].looping \in BOOLEAN
             /\ f[n].looping => f[n].insize > n
             /\ ~f[n].looping => f[n].insize >= N
           T == {n \in 0..N : Inv(n)}
<1>0. N \in Nat
  OBVIOUS
<1>1. Sorting(by, items, f, N)
  BY <1>0, SortingExists
<1>2. HASH_SRT(by, items) = f[N].list
  BY Zenon DEF HASH_SRT, Sorting, sortStep
<1> HIDE DEF f, N
<1>3. f[0] = [list |-> items, insize |-> 1, looping |-> TRUE]
  BY <1>0, <1>1 DEF Sorting
<1>4. \A n \in 1..N : f[n] = sortStep(by, f[n - 1])
  <2> SUFFICES ASSUME NEW n \in 1..N
               PROVE  f[n] = sortStep(by, f[n - 1])
    OBVIOUS
  <2>1. n \in 0..N /\ n # 0
    BY <1>0
  <2> QED
    BY <1>1, <2>1 DEF Sorting
<1>5. 0 \in T
  <2>1. RunsInOrder(by, items, 1)
    BY DEF RunsInOrder
  <2>2. SortedPrefix(by, items, 1, N, items)
    BY <1>0, <2>1 DEF SortedPrefix, N
  <2>3. f[0].list = items /\ f[0].insize = 1 /\ f[0].looping = TRUE
    BY <1>3
  <2>4. Inv(0)
    <3>1. SortedPrefix(by, items, f[0].insize, N, f[0].list)
      BY <2>2, <2>3, Zenon
    <3>2. f[0].insize \in Nat \ {0} /\ f[0].insize > 0
      BY <2>3
    <3>3. f[0].looping /\ f[0].looping \in BOOLEAN
      BY <2>3, Zenon
    <3> QED
      BY <3>1, <3>2, <3>3, Zenon
  <2> HIDE DEF Inv
  <2> QED
    BY <1>0, <2>4
<1>6. ASSUME NEW n \in 0..(N - 1), n \in T
      PROVE  n + 1 \in T
  <2>0. n + 1 \in 1..N /\ (n + 1) - 1 = n /\ n + 1 \in 0..N /\ n \in Nat
    BY <1>0
  <2>1. f[n + 1] = sortStep(by, f[n])
    BY <1>4, <2>0
  <2>2. Inv(n)
    BY <1>6
  <2>3. CASE f[n].looping
    <3> DEFINE s == f[n].list
               w == f[n].insize
               W == 2 * w
               M == nmerges(s, w)
    <3>1. SortedPrefix(by, items, w, N, s) /\ w \in Nat \ {0} /\ w > n
      BY <2>2, <2>3
    <3>2. s \in Seq(Item) /\ Distinct(s) /\ Len(s) = N /\ RunsInOrder(by, s, w)
      BY <3>1 DEF SortedPrefix
    <3>3. /\ f[n + 1].list = Pass(by, s, w)
          /\ f[n + 1].insize = W
          /\ f[n + 1].looping = ~(M <= 1)
      BY <2>1, <2>3 DEF sortStep, isLast
    <3>4. M = (N + W - 1) \div W
      BY <3>2 DEF nmerges
    <3> HIDE DEF s, w
    <3>5. SortedPrefix(by, s, W, N, Pass(by, s, w))
      BY <3>1, <3>2, PassIsInOrder
    <3>6. SortedPrefix(by, items, W, N, Pass(by, s, w))
      BY <3>1, <3>5, SortedOfSorted
    <3>7. W \in Nat \ {0} /\ W > n + 1
      BY <2>0, <3>1
    <3>8. M <= 1 => W >= N
      <4> HIDE DEF W, M
      <4>1. M \in Nat /\ M * W >= N
        BY <1>0, <3>4, <3>7, MergesCoverTheList
      <4>2. M <= 1 => M * W <= 1 * W
        BY <3>7, <4>1, MultiplesGrow
      <4>3. 1 * W = W /\ M * W \in Int
        BY <3>7, <4>1
      <4> DEFINE x == M * W
      <4> HIDE DEF x
      <4> QED
        BY <1>0, <3>7, <4>1, <4>2, <4>3 DEF x
    <3> HIDE DEF W, M
    <3>9. Inv(n + 1)
      BY <3>3, <3>6, <3>7, <3>8
    <3> QED
      BY <2>0, <3>9
  <2>4. CASE ~f[n].looping
    <3>1. f[n + 1] = f[n]
      BY <2>1, <2>4 DEF sortStep
    <3>2. Inv(n + 1)
      BY <2>2, <2>4, <3>1
    <3> QED
      BY <2>0, <3>2
  <2> QED
    BY <2>3, <2>4
<1>7. Inv(N)
  <2>1. \A n \in 0..N : n \in T
    <3>1. 0 \in Int /\ N \in Int
      BY <1>0
    <3> HIDE DEF T
    <3> QED
      BY <1>5, <1>6, <3>1, IntervalInduction
  <2>2. N \in 0..N
    BY <1>0
  <2> HIDE DEF Inv
  <2> QED
    BY <2>1, <2>2
<1> DEFINE r == f[N].list
           w == f[N].insize
<1>8. SortedPrefix(by, items, w, N, r) /\ w \in Nat \ {0} /\ w >= N
  BY <1>0, <1>7
<1> HIDE DEF r, w
<1>9. r \in Seq(Item) /\ Len(r) = N
  BY <1>8 DEF SortedPrefix
<1>10. Permutes(r, items)
  BY <1>8, <1>9 DEF SortedPrefix, Permutes, N
<1>11. InOrder(by, r)
  <2> SUFFICES ASSUME NEW i \in 1..(N - 1)
               PROVE  cmpfcn(by, r[i], r[i + 1]) <= 0
    BY <1>9 DEF InOrder
  <2>1. i \in 0..(w - 1) /\ i # 0 /\ i = 0 * w + i
    BY <1>0, <1>8
  <2>2. i % w = i
    BY <1>8, <2>1, QuotientAndRemainder
  <2> QED
    BY <1>8, <1>9, <2>1, <2>2 DEF SortedPrefix, RunsInOrder
<1> QED
  BY <1>2, <1>9, <1>10, <1>11 DEF r

(* Numbers each of which is less than the next are sorted. *)
LEMMA StepsToOrder ==
  ASSUME NEW n \in Nat, NEW v, \A i \in 1..n : v[i] \in Int,
         \A i \in 1..(n - 1) : v[i] < v[i + 1]
  PROVE  \A j, k \in 1..n : j < k => v[j] < v[k]
<1> SUFFICES ASSUME NEW j \in 1..n
             PROVE  \A k \in (j + 1)..n : v[j] < v[k]
  OBVIOUS
<1> DEFINE T == {k \in (j + 1)..n : v[j] < v[k]}
<1>1. CASE j = n
  BY <1>1
<1>2. CASE j < n
  <2>1. j + 1 \in T
    BY <1>2
  <2>2. ASSUME NEW k \in (j + 1)..(n - 1), k \in T
        PROVE  k + 1 \in T
    <3>1. k \in 1..(n - 1) /\ k + 1 \in 1..n /\ k \in 1..n
      OBVIOUS
    <3>2. v[k] < v[k + 1] /\ v[j] < v[k] /\ v[j] \in Int /\ v[k] \in Int /\ v[k + 1] \in Int
      BY <2>2, <3>1
    <3> QED
      BY <3>1, <3>2
  <2>3. \A k \in (j + 1)..n : k \in T
    <3>1. j + 1 \in Int /\ n \in Int
      OBVIOUS
    <3> HIDE DEF T
    <3> QED
      BY <2>1, <2>2, <3>1, IntervalInduction
  <2> QED
    BY <2>3
<1> QED
  BY <1>1, <1>2

-----------------------------------------------------------------------------
(*                               Linked lists                              *)

(* The items of s are those of K, each once. *)
Lists(s, K) ==
  /\ s \in Seq(K)
  /\ Distinct(s)
  /\ \A k \in K : \E i \in 1..Len(s) : s[i] = k

pushed(s, k) == [i \in 1..(Len(s) + 1) |-> IF i = 1 THEN k ELSE s[i - 1]]

(* k is linked before the first item of K; prev2 and next2 are the links   *)
(* then.                                                                   *)
LinksFirst(K, k, first, prev, next, prev2, next2) ==
  /\ prev2[k] = NULL
  /\ next2[k] = first
  /\ \A j \in K : prev2[j] = IF j = first THEN k ELSE prev[j]
  /\ \A j \in K : next2[j] = next[j]

(* A new first item. *)
LEMMA PushLinks ==
  ASSUME NEW K, NEW s, Lists(s, K), NEW k, k \notin K, NEW first, NEW prev, NEW next,
         Linked(s, first, prev, next),
         NEW prev2, NEW next2, LinksFirst(K, k, first, prev, next, prev2, next2)
  PROVE  /\ Lists(pushed(s, k), K \union {k})
         /\ Len(pushed(s, k)) = Len(s) + 1
         /\ Linked(pushed(s, k), k, prev2, next2)
<1> USE DEF LinksFirst
<1> DEFINE n == Len(s)
           t == pushed(s, k)
<1>1. /\ s \in Seq(K) /\ n \in Nat /\ \A i \in 1..n : s[i] \in K /\ s[i] # k
      /\ \A i, j \in 1..n : s[i] = s[j] => i = j
      /\ \A j \in K : \E i \in 1..n : s[i] = j
  BY DEF Lists, Distinct
<1>2. /\ t \in Seq(K \union {k}) /\ Len(t) = n + 1
      /\ \A i \in 1..(n + 1) : t[i] = IF i = 1 THEN k ELSE s[i - 1]
  <2>1. \A i \in 1..(n + 1) : (IF i = 1 THEN k ELSE s[i - 1]) \in K \union {k}
    <3> SUFFICES ASSUME NEW i \in 1..(n + 1), i # 1
                 PROVE  s[i - 1] \in K
      OBVIOUS
    <3>1. i - 1 \in 1..n
      BY <1>1
    <3> QED
      BY <1>1, <3>1
  <2> HIDE DEF n
  <2> QED
    BY <1>1, <2>1 DEF pushed, n
<1>3. \A i \in 1..(n + 1) : i = 1 \/ (i # 1 /\ i - 1 \in 1..n)
  BY <1>1
<1> HIDE DEF n, t
<1>4. Distinct(t)
  <2> SUFFICES ASSUME NEW i \in 1..(n + 1), NEW j \in 1..(n + 1), t[i] = t[j]
               PROVE  i = j
    BY <1>2 DEF Distinct
  <2>1. CASE i = 1 /\ j = 1
    BY <2>1
  <2>2. CASE i = 1 /\ j # 1
    <3>1. t[i] = k /\ t[j] = s[j - 1] /\ j - 1 \in 1..n
      BY <1>2, <1>3, <2>2
    <3> QED
      BY <1>1, <3>1
  <2>3. CASE i # 1 /\ j = 1
    <3>1. t[j] = k /\ t[i] = s[i - 1] /\ i - 1 \in 1..n
      BY <1>2, <1>3, <2>3
    <3> QED
      BY <1>1, <3>1
  <2>4. CASE i # 1 /\ j # 1
    <3>1. s[i - 1] = s[j - 1] /\ i - 1 \in 1..n /\ j - 1 \in 1..n
      BY <1>2, <1>3, <2>4
    <3>2. i - 1 = j - 1
      BY <1>1, <3>1
    <3> QED
      BY <1>1, <3>2
  <2> QED
    BY <2>1, <2>2, <2>3, <2>4
<1>5. ASSUME NEW j \in K \union {k}
      PROVE  \E i \in 1..Len(t) : t[i] = j
  <2>1. CASE j = k
    <3>1. 1 \in 1..(n + 1) /\ t[1] = k
      BY <1>1, <1>2
    <3> QED
      BY <1>2, <2>1, <3>1
  <2>2. CASE j # k
    <3>1. PICK i \in 1..n : s[i] = j
      BY <1>1, <2>2
    <3> DEFINE x == i + 1
    <3>2. x \in 1..(n + 1) /\ x # 1 /\ x - 1 = i
      BY <1>1
    <3> HIDE DEF x
    <3>3. t[x] = j
      BY <1>2, <3>1, <3>2
    <3> QED
      BY <1>2, <3>2, <3>3
  <2> QED
    BY <2>1, <2>2
<1>6. Linked(t, k, prev2, next2)
  <2>1. k = IF Len(t) = 0 THEN NULL ELSE t[1]
    <3>1. 1 \in 1..(n + 1) /\ n + 1 # 0
      BY <1>1
    <3> QED
      BY <1>2, <3>1
  <2>2. /\ first = IF n = 0 THEN NULL ELSE s[1]
        /\ \A i \in 1..n : prev[s[i]] = IF i = 1 THEN NULL ELSE s[i - 1]
        /\ \A i \in 1..n : next[s[i]] = IF i = n THEN NULL ELSE s[i + 1]
    BY DEF Linked, n
  <2>3. ASSUME NEW i \in 1..(n + 1)
        PROVE  prev2[t[i]] = IF i = 1 THEN NULL ELSE t[i - 1]
    <3>1. CASE i = 1
      BY <1>2, <3>1
    <3>2. CASE i = 2
      <4>1. 1 \in 1..n /\ n # 0 /\ 1 \in 1..(n + 1) /\ 2 - 1 = 1
        BY <1>1, <3>2
      <4>2. t[2] = s[1] /\ t[1] = k /\ s[1] = first /\ s[1] \in K
        BY <1>1, <1>2, <2>2, <3>2, <4>1
      <4> QED
        BY <3>2, <4>1, <4>2
    <3>3. CASE i # 1 /\ i # 2
      <4> DEFINE j == i - 1
      <4>1. j \in 1..n /\ j # 1 /\ j \in 1..(n + 1) /\ j - 1 \in 1..n /\ 1 \in 1..n /\ n # 0 /\ i - 1 = j
        BY <1>1, <3>3
      <4> HIDE DEF j
      <4>2. t[i] = s[j] /\ t[j] = s[j - 1] /\ s[j] \in K
        BY <1>1, <1>2, <3>3, <4>1
      <4>3. s[j] # first
        BY <1>1, <2>2, <4>1
      <4>4. prev[s[j]] = s[j - 1]
        BY <2>2, <4>1
      <4> QED
        BY <3>3, <4>1, <4>2, <4>3, <4>4
    <3> QED
      BY <3>1, <3>2, <3>3
  <2>4. ASSUME NEW i \in 1..(n + 1)
        PROVE  next2[t[i]] = IF i = n + 1 THEN NULL ELSE t[i + 1]
    <3>1. CASE i = 1
      <4>1. t[1] = k /\ next2[t[1]] = first
        BY <1>2, <3>1
      <4>2. CASE n = 0
        BY <2>2, <3>1, <4>1, <4>2
      <4>3. CASE n # 0
        <5>1. 2 \in 1..(n + 1) /\ 2 # 1 /\ 2 - 1 = 1 /\ 1 # n + 1 /\ 1 + 1 = 2
          BY <1>1, <4>3
        <5>2. t[2] = s[1]
          BY <1>2, <5>1
        <5> QED
          BY <2>2, <3>1, <4>1, <4>3, <5>1, <5>2
      <4> QED
        BY <4>2, <4>3
    <3>2. CASE i # 1
      <4> DEFINE j == i - 1
      <4>1. j \in 1..n /\ i = j + 1 /\ (i = n + 1 <=> j = n)
        BY <1>1, <3>2
      <4> HIDE DEF j
      <4>2. t[i] = s[j] /\ s[j] \in K
        BY <1>1, <1>2, <3>2, <4>1
      <4>3. next2[t[i]] = IF j = n THEN NULL ELSE s[j + 1]
        BY <2>2, <4>1, <4>2
      <4>4. j # n => t[i + 1] = s[j + 1]
        <5> SUFFICES ASSUME j # n
                     PROVE  t[i + 1] = s[j + 1]
          OBVIOUS
        <5> DEFINE x == i + 1
        <5>1. x \in 1..(n + 1) /\ x # 1 /\ x - 1 = j + 1
          BY <1>1, <4>1
        <5> HIDE DEF x
        <5>2. t[x] = s[j + 1]
          BY <1>2, <5>1
        <5> QED
          BY <5>2 DEF x
      <4> QED
        BY <4>1, <4>3, <4>4
    <3> QED
      BY <3>1, <3>2
  <2> QED
    BY <1>2, <2>1, <2>3, <2>4 DEF Linked
<1>7. Lists(t, K \union {k})
  BY <1>2, <1>4, <1>5 DEF Lists
<1> QED
  BY <1>2, <1>6, <1>7 DEF n, t

(* k is linked after the last item of s. *)
LinksLast(K, s, k, first, prev, next, first2, prev2, next2) ==
  /\ first2 = IF Len(s) = 0 THEN k ELSE first
  /\ next2[k] = NULL
  /\ prev2[k] = IF Len(s) = 0 THEN NULL ELSE s[Len(s)]
  /\ \A j \in K : prev2[j] = prev[j]
  /\ \A i \in 1..Len(s) : next2[s[i]] = IF i = Len(s) THEN k ELSE next[s[i]]

(* A new last item. *)
LEMMA AppendLinks ==
  ASSUME NEW K, NEW s, Lists(s, K), NEW k, k \notin K, NEW first, NEW prev, NEW next,
         Linked(s, first, prev, next),
         NEW first2, NEW prev2, NEW next2,
         LinksLast(K, s, k, first, prev, next, first2, prev2, next2)
  PROVE  /\ Lists(Append(s, k), K \union {k})
         /\ Len(Append(s, k)) = Len(s) + 1
         /\ Append(s, k)[Len(s) + 1] = k
         /\ Linked(Append(s, k), first2, prev2, next2)
<1> USE DEF LinksLast
<1> DEFINE n == Len(s)
           t == Append(s, k)
<1>1. /\ s \in Seq(K) /\ n \in Nat /\ \A i \in 1..n : s[i] \in K /\ s[i] # k
      /\ \A i, j \in 1..n : s[i] = s[j] => i = j
      /\ \A j \in K : \E i \in 1..n : s[i] = j
  BY DEF Lists, Distinct
<1>a. s \in Seq(K \union {k})
  BY <1>1, SeqMonotonic
<1>2. /\ t \in Seq(K \union {k}) /\ Len(t) = n + 1
      /\ \A i \in 1..n : t[i] = s[i]
      /\ t[n + 1] = k
  BY <1>a
<1>3. \A i \in 1..(n + 1) : i = n + 1 \/ (i # n + 1 /\ i \in 1..n)
  BY <1>1
<1> HIDE DEF n, t
<1>4. Distinct(t)
  <2> SUFFICES ASSUME NEW i \in 1..(n + 1), NEW j \in 1..(n + 1), t[i] = t[j]
               PROVE  i = j
    BY <1>2 DEF Distinct
  <2>1. CASE i \in 1..n /\ j \in 1..n
    BY <1>1, <1>2, <2>1
  <2>2. CASE i = n + 1 /\ j \in 1..n
    BY <1>1, <1>2, <2>2
  <2>3. CASE j = n + 1 /\ i \in 1..n
    BY <1>1, <1>2, <2>3
  <2> QED
    BY <1>3, <2>1, <2>2, <2>3
<1>5. ASSUME NEW j \in K \union {k}
      PROVE  \E i \in 1..Len(t) : t[i] = j
  <2>1. CASE j = k
    <3>1. n + 1 \in 1..(n + 1)
      BY <1>1
    <3> QED
      BY <1>2, <2>1, <3>1
  <2>2. CASE j # k
    <3>1. PICK i \in 1..n : s[i] = j
      BY <1>1, <2>2
    <3>2. i \in 1..(n + 1) /\ t[i] = j
      BY <1>1, <1>2, <3>1
    <3> QED
      BY <1>2, <3>2
  <2> QED
    BY <2>1, <2>2
<1>6. Linked(t, first2, prev2, next2)
  <2>2. /\ first = IF n = 0 THEN NULL ELSE s[1]
        /\ \A i \in 1..n : prev[s[i]] = IF i = 1 THEN NULL ELSE s[i - 1]
        /\ \A i \in 1..n : next[s[i]] = IF i = n THEN NULL ELSE s[i + 1]
    BY DEF Linked, n
  <2>a. /\ first2 = IF n = 0 THEN k ELSE first
        /\ prev2[k] = IF n = 0 THEN NULL ELSE s[n]
        /\ \A i \in 1..n : next2[s[i]] = IF i = n THEN k ELSE next[s[i]]
    BY DEF n
  <2>1. first2 = IF Len(t) = 0 THEN NULL ELSE t[1]
    <3>1. CASE n = 0
      BY <1>2, <2>a, <3>1
    <3>2. CASE n # 0
      <4>1. 1 \in 1..n /\ n + 1 # 0
        BY <1>1, <3>2
      <4> QED
        BY <1>2, <2>2, <2>a, <3>2, <4>1
    <3> QED
      BY <3>1, <3>2
  <2>3. ASSUME NEW i \in 1..(n + 1)
        PROVE  prev2[t[i]] = IF i = 1 THEN NULL ELSE t[i - 1]
    <3>1. CASE i = n + 1
      <4>1. prev2[t[i]] = IF n = 0 THEN NULL ELSE s[n]
        BY <1>2, <2>a, <3>1
      <4>2. i - 1 = n /\ (i = 1 <=> n = 0) /\ (n # 0 => n \in 1..n)
        BY <1>1, <3>1
      <4> QED
        BY <1>2, <4>1, <4>2
    <3>2. CASE i \in 1..n
      <4>1. t[i] = s[i] /\ s[i] \in K
        BY <1>1, <1>2, <3>2
      <4>2. i # 1 => i - 1 \in 1..n
        BY <1>1, <3>2
      <4>3. i # 1 => t[i - 1] = s[i - 1]
        BY <1>2, <4>2
      <4>4. prev2[s[i]] = prev[s[i]]
        BY <4>1
      <4> QED
        BY <2>2, <3>2, <4>1, <4>3, <4>4
    <3> QED
      BY <1>3, <3>1, <3>2
  <2>4. ASSUME NEW i \in 1..(n + 1)
        PROVE  next2[t[i]] = IF i = n + 1 THEN NULL ELSE t[i + 1]
    <3>1. CASE i = n + 1
      BY <1>2, <3>1
    <3>2. CASE i = n /\ i \in 1..n
      <4>1. i # n + 1 /\ i + 1 = n + 1
        BY <1>1, <3>2
      <4> QED
        BY <1>2, <2>a, <3>2, <4>1
    <3>3. CASE i # n /\ i \in 1..n
      <4>1. i + 1 \in 1..n /\ i # n + 1
        BY <1>1, <3>3
      <4>2. t[i] = s[i] /\ t[i + 1] = s[i + 1]
        BY <1>2, <3>3, <4>1
      <4> QED
        BY <2>2, <2>a, <3>3, <4>1, <4>2
    <3> QED
      BY <1>3, <3>1, <3>2, <3>3
  <2> QED
    BY <1>2, <2>1, <2>3, <2>4 DEF Linked
<1>7. Lists(t, K \union {k})
  BY <1>2, <1>4, <1>5 DEF Lists
<1> QED
  BY <1>2, <1>6, <1>7 DEF n, t

without(s, p) == [i \in 1..(Len(s) - 1) |-> IF i < p THEN s[i] ELSE s[i + 1]]

(* The item k of K leaves; its neighbours are linked. *)
LinksAcross(K, k, first, prev, next, first2, prev2, next2) ==
  /\ first2 = IF first = k THEN next[k] ELSE first
  /\ \A j \in K \ {k} : prev2[j] = IF j = next[k] THEN prev[k] ELSE prev[j]
  /\ \A j \in K \ {k} : next2[j] = IF j = prev[k] THEN next[k] ELSE next[j]

(* An item is taken out of a linked list. *)
LEMMA RemoveLinks ==
  ASSUME NEW K, NULL \notin K, NEW s, Lists(s, K), NEW k, NEW p \in 1..Len(s), s[p] = k,
         NEW first, NEW prev, NEW next,
         Linked(s, first, prev, next),
         NEW first2, NEW prev2, NEW next2,
         LinksAcross(K, k, first, prev, next, first2, prev2, next2)
  PROVE  /\ Lists(without(s, p), K \ {k})
         /\ Len(without(s, p)) = Len(s) - 1
         /\ Linked(without(s, p), first2, prev2, next2)
<1> USE DEF LinksAcross
<1> DEFINE n == Len(s)
           t == without(s, p)
           at(i) == IF i < p THEN i ELSE i + 1
<1>1. /\ s \in Seq(K) /\ n \in Nat /\ n > 0 /\ p \in 1..n
      /\ \A i, j \in 1..n : s[i] = s[j] => i = j
      /\ \A j \in K : \E i \in 1..n : s[i] = j
  BY DEF Lists, Distinct
<1>1a. \A i \in 1..n : s[i] \in K /\ s[i] # NULL
  BY <1>1
<1>2. /\ first = s[1]
      /\ \A i \in 1..n : prev[s[i]] = IF i = 1 THEN NULL ELSE s[i - 1]
      /\ \A i \in 1..n : next[s[i]] = IF i = n THEN NULL ELSE s[i + 1]
  BY <1>1 DEF Linked, n
<1>3. \A i \in 1..(n - 1) : at(i) \in 1..n /\ at(i) # p
  BY <1>1
<1>4. /\ t = [i \in 1..(n - 1) |-> s[at(i)]]
      /\ \A i \in 1..(n - 1) : s[at(i)] \in K \ {k}
  <2>1. \A i \in 1..(n - 1) : s[at(i)] = IF i < p THEN s[i] ELSE s[i + 1]
    OBVIOUS
  <2>2. t = [i \in 1..(n - 1) |-> s[at(i)]]
    <3> HIDE DEF at
    <3> QED
      BY <2>1 DEF without
  <2>3. ASSUME NEW i \in 1..(n - 1)
        PROVE  s[at(i)] \in K \ {k}
    <3> DEFINE a == at(i)
    <3>1. a \in 1..n /\ a # p
      BY <1>3
    <3> HIDE DEF a
    <3> QED
      BY <1>1, <1>1a, <3>1 DEF a
  <2> HIDE DEF at, t
  <2> QED
    BY <2>2, <2>3
<1>5. t \in Seq(K \ {k}) /\ Len(t) = n - 1 /\ \A i \in 1..(n - 1) : t[i] = s[at(i)]
  <2> DEFINE m == n - 1
  <2>1. m \in Nat
    BY <1>1
  <2> HIDE DEF at, t, n, m
  <2>2. t = [i \in 1..m |-> s[at(i)]] /\ \A i \in 1..m : s[at(i)] \in K \ {k}
    BY <1>4 DEF m
  <2>3. t \in [1..m -> K \ {k}]
    BY <2>2
  <2>4. t \in Seq(K \ {k}) /\ Len(t) = m
    BY <2>1, <2>3
  <2>5. \A i \in 1..m : t[i] = s[at(i)]
    BY <2>2, Zenon
  <2> QED
    BY <2>4, <2>5 DEF m
<1> HIDE DEF t, n
<1>6. Distinct(t)
  <2> SUFFICES ASSUME NEW i \in 1..(n - 1), NEW j \in 1..(n - 1), t[i] = t[j]
               PROVE  i = j
    BY <1>5 DEF Distinct
  <2> DEFINE a == at(i)
             b == at(j)
  <2>1. s[a] = s[b] /\ a \in 1..n /\ b \in 1..n
    BY <1>3, <1>5
  <2>2. a = b
    <3> HIDE DEF a, b
    <3> QED
      BY <1>1, <2>1
  <2> QED
    BY <1>1, <2>2
<1>7. ASSUME NEW j \in K \ {k}
      PROVE  \E i \in 1..Len(t) : t[i] = j
  <2>1. PICK x \in 1..n : s[x] = j
    BY <1>1
  <2>2. x # p
    BY <2>1
  <2> DEFINE i == IF x < p THEN x ELSE x - 1
  <2>3. i \in 1..(n - 1) /\ at(i) = x
    BY <1>1, <2>2
  <2> HIDE DEF i, at
  <2>4. t[i] = j
    BY <1>5, <2>1, <2>3
  <2> QED
    BY <1>5, <2>3, <2>4
(* The neighbours of position i are those of at(i), but across p. *)
<1>8. /\ p # 1 => p - 1 \in 1..n
      /\ p # n => p + 1 \in 1..n
  BY <1>1
<1>9. /\ prev[k] = IF p = 1 THEN NULL ELSE s[p - 1]
      /\ next[k] = IF p = n THEN NULL ELSE s[p + 1]
  BY <1>2, <1>1
<1>10. ASSUME NEW i \in 1..(n - 1)
       PROVE  prev2[t[i]] = IF i = 1 THEN NULL ELSE t[i - 1]
  <2> DEFINE a == at(i)
  <2>1. /\ a \in 1..n /\ a # p /\ t[i] = s[a] /\ s[a] \in K \ {k}
        /\ a = IF i < p THEN i ELSE i + 1
    BY <1>3, <1>4, <1>5
  <2>2. i # 1 => t[i - 1] = s[at(i - 1)] /\ i - 1 \in 1..(n - 1)
    <3> SUFFICES ASSUME i # 1
                 PROVE  t[i - 1] = s[at(i - 1)] /\ i - 1 \in 1..(n - 1)
      OBVIOUS
    <3> DEFINE y == i - 1
    <3>1. y \in 1..(n - 1)
      BY <1>1
    <3> HIDE DEF y, at
    <3>2. t[y] = s[at(y)]
      BY <1>5, <3>1
    <3> QED
      BY <3>1, <3>2 DEF y
  <2> HIDE DEF a
  <2>3. CASE a = p + 1
    <3>1. next[k] = s[a]
      BY <1>1, <1>9, <2>1, <2>3
    <3>2. prev2[t[i]] = prev[k]
      BY <2>1, <3>1
    <3>3. i = p
      BY <1>1, <2>1, <2>3
    <3>4. i # 1 => at(i - 1) = p - 1
      BY <1>1, <3>3
    <3> HIDE DEF at
    <3> QED
      BY <1>9, <2>2, <3>2, <3>3, <3>4
  <2>4. CASE a # p + 1
    <3>1. s[a] # next[k]
      <4>1. CASE p = n
        BY <1>1a, <1>9, <2>1, <4>1
      <4>2. CASE p # n
        <5>1. next[k] = s[p + 1] /\ p + 1 \in 1..n
          BY <1>8, <1>9, <4>2
        <5> QED
          BY <1>1, <2>1, <2>4, <5>1
      <4> QED
        BY <4>1, <4>2
    <3>2. prev2[t[i]] = prev[s[a]]
      BY <2>1, <3>1
    <3>3. prev[s[a]] = IF a = 1 THEN NULL ELSE s[a - 1]
      BY <1>2, <2>1
    <3>4. (a = 1 <=> i = 1) /\ (i # 1 => at(i - 1) = a - 1)
      BY <1>1, <2>1, <2>4
    <3> HIDE DEF at
    <3> QED
      BY <2>2, <3>2, <3>3, <3>4
  <2> QED
    BY <2>3, <2>4
<1>11. ASSUME NEW i \in 1..(n - 1)
       PROVE  next2[t[i]] = IF i = n - 1 THEN NULL ELSE t[i + 1]
  <2> DEFINE a == at(i)
  <2>1. /\ a \in 1..n /\ a # p /\ t[i] = s[a] /\ s[a] \in K \ {k}
        /\ a = IF i < p THEN i ELSE i + 1
    BY <1>3, <1>4, <1>5
  <2>2. i # n - 1 => t[i + 1] = s[at(i + 1)] /\ i + 1 \in 1..(n - 1)
    <3> SUFFICES ASSUME i # n - 1
                 PROVE  t[i + 1] = s[at(i + 1)] /\ i + 1 \in 1..(n - 1)
      OBVIOUS
    <3> DEFINE y == i + 1
    <3>1. y \in 1..(n - 1)
      BY <1>1
    <3> HIDE DEF y, at
    <3>2. t[y] = s[at(y)]
      BY <1>5, <3>1
    <3> QED
      BY <3>1, <3>2 DEF y
  <2> HIDE DEF a
  <2>3. CASE a = p - 1
    <3>1. prev[k] = s[a]
      BY <1>1, <1>9, <2>1, <2>3
    <3>2. next2[t[i]] = next[k]
      BY <2>1, <3>1
    <3>3. i = p - 1 /\ (p = n <=> i = n - 1)
      BY <1>1, <2>1, <2>3
    <3>4. at(i + 1) = p + 1
      BY <1>1, <3>3
    <3> HIDE DEF at
    <3> QED
      BY <1>9, <2>2, <3>2, <3>3, <3>4
  <2>4. CASE a # p - 1
    <3>1. s[a] # prev[k]
      <4>1. CASE p = 1
        BY <1>1a, <1>9, <2>1, <4>1
      <4>2. CASE p # 1
        <5>1. prev[k] = s[p - 1] /\ p - 1 \in 1..n
          BY <1>8, <1>9, <4>2
        <5> QED
          BY <1>1, <2>1, <2>4, <5>1
      <4> QED
        BY <4>1, <4>2
    <3>2. next2[t[i]] = next[s[a]]
      BY <2>1, <3>1
    <3>3. next[s[a]] = IF a = n THEN NULL ELSE s[a + 1]
      BY <1>2, <2>1
    <3>4. (a = n <=> i = n - 1) /\ (i # n - 1 => at(i + 1) = a + 1)
      BY <1>1, <2>1, <2>4
    <3> HIDE DEF at
    <3> QED
      BY <2>2, <3>2, <3>3, <3>4
  <2> QED
    BY <2>3, <2>4
<1>12. first2 = IF n - 1 = 0 THEN NULL ELSE t[1]
  <2>1. CASE p = 1
    <3>1. first2 = next[k]
      BY <1>2, <2>1
    <3>2. n - 1 # 0 => t[1] = s[2]
      <4>1. n - 1 # 0 => 1 \in 1..(n - 1) /\ at(1) = 2
        BY <1>1, <2>1
      <4> HIDE DEF at
      <4> QED
        BY <1>5, <4>1
    <3>3. p = n <=> n - 1 = 0
      BY <1>1, <2>1
    <3>4. p + 1 = 2
      BY <2>1
    <3> QED
      BY <1>9, <3>1, <3>2, <3>3, <3>4
  <2>2. CASE p # 1
    <3>1. 1 \in 1..n /\ n - 1 # 0 /\ 1 \in 1..(n - 1) /\ at(1) = 1
      BY <1>1, <2>2
    <3>2. first # k
      BY <1>1, <1>2, <2>2, <3>1
    <3> HIDE DEF at
    <3> QED
      BY <1>2, <1>5, <3>1, <3>2
  <2> QED
    BY <2>1, <2>2
<1>13. Linked(t, first2, prev2, next2)
  <2> HIDE DEF at
  <2> QED
    BY <1>5, <1>10, <1>11, <1>12 DEF Linked
<1>14. Lists(t, K \ {k})
  BY <1>5, <1>6, <1>7 DEF Lists
<1> QED
  BY <1>5, <1>13, <1>14 DEF n, t

(* Links that are set from a sequence link it. *)
LinksIn(K, s, prev2, next2) ==
  \A k \in K :
    LET i == CHOOSE n \in DOMAIN s : s[n] = k
    IN  /\ prev2[k] = IF i = 1 THEN NULL ELSE s[i - 1]
        /\ next2[k] = IF i = Len(s) THEN NULL ELSE s[i + 1]

(* Links that are set from a sequence link it. *)
LEMMA RelinkedLinks ==
  ASSUME NEW K, NEW s, Lists(s, K), Len(s) # 0, NEW prev2, NEW next2,
         LinksIn(K, s, prev2, next2)
  PROVE  Linked(s, s[1], prev2, next2)
<1>1. /\ s \in Seq(K) /\ DOMAIN s = 1..Len(s) /\ \A i \in 1..Len(s) : s[i] \in K
      /\ \A i, j \in 1..Len(s) : s[i] = s[j] => i = j
  <2>1. s \in Seq(K) /\ \A i, j \in 1..Len(s) : s[i] = s[j] => i = j
    BY Zenon DEF Lists, Distinct
  <2>2. \A t \in Seq(K) : DOMAIN t = 1..Len(t) /\ \A i \in 1..Len(t) : t[i] \in K
    OBVIOUS
  <2> QED
    BY <2>1, <2>2, Zenon
<1>2. ASSUME NEW i \in 1..Len(s)
      PROVE  /\ prev2[s[i]] = IF i = 1 THEN NULL ELSE s[i - 1]
             /\ next2[s[i]] = IF i = Len(s) THEN NULL ELSE s[i + 1]
  <2> DEFINE x == CHOOSE n \in DOMAIN s : s[n] = s[i]
  <2>1. x \in DOMAIN s /\ s[x] = s[i]
    <3>1. i \in DOMAIN s
      BY <1>1
    <3> QED
      BY <3>1
  <2>2. x = i
    <3> HIDE DEF x
    <3> QED
      BY <1>1, <2>1
  <2>3. s[i] \in K
    BY <1>1
  <2>4. /\ prev2[s[i]] = IF x = 1 THEN NULL ELSE s[x - 1]
        /\ next2[s[i]] = IF x = Len(s) THEN NULL ELSE s[x + 1]
    BY <2>3 DEF LinksIn
  <2> HIDE DEF x
  <2> QED
    BY <2>2, <2>4
<1> QED
  BY <1>2 DEF Linked

-----------------------------------------------------------------------------
(*                                The table                                *)

(* A table with the items D and B buckets. *)
HashRecord(D, B) == [head : Link, tbl : UT_hash_table(B), hh : [D -> UT_hash_handle]]

nexts(h) == [k \in DOMAIN h.hh |-> h.hh[k].next]
prevs(h) == [k \in DOMAIN h.hh |-> h.hh[k].prev]
hhNexts(h) == [k \in DOMAIN h.hh |-> h.hh[k].hh_next]
hhPrevs(h) == [k \in DOMAIN h.hh |-> h.hh[k].hh_prev]

(* a and h differ in their buckets only. *)
Keeps(a, h) ==
  /\ a.head = h.head
  /\ prevs(a) = prevs(h)
  /\ nexts(a) = nexts(h)
  /\ a.tbl.num_buckets = h.tbl.num_buckets
  /\ a.tbl.num_items = h.tbl.num_items
  /\ a.tbl.tail = h.tbl.tail
  /\ a.tbl.ideal_chain_maxlen = h.tbl.ideal_chain_maxlen
  /\ a.tbl.ineff_expands = h.tbl.ineff_expands
  /\ a.tbl.noexpand = h.tbl.noexpand

(* k came before the first item of bucket b, and nothing else changed.     *)
IsAtHead(a, h, D, B, b, k) ==
  LET second == h.tbl.buckets[b].hh_head
  IN  /\ a \in HashRecord(D, B)
      /\ Keeps(a, h)
      /\ a.tbl.nonideal_items = h.tbl.nonideal_items
      /\ a.tbl.buckets[b].hh_head = k
      /\ a.tbl.buckets[b].count = h.tbl.buckets[b].count + 1
      /\ \A c \in 0..(B - 1) :
           a.tbl.buckets[c].expand_mult = h.tbl.buckets[c].expand_mult
      /\ \A c \in (0..(B - 1)) \ {b} : a.tbl.buckets[c] = h.tbl.buckets[c]
      /\ hhPrevs(a)[k] = NULL /\ hhNexts(a)[k] = second
      /\ \A i \in D \ {k} : hhPrevs(a)[i] = IF i = second THEN k ELSE hhPrevs(h)[i]
      /\ \A i \in D \ {k} : hhNexts(a)[i] = hhNexts(h)[i]

(* g is h with another bucket b. *)
IsWithBucket(g, h, D, B, b, y) ==
  /\ g \in HashRecord(D, B)
  /\ g.head = h.head /\ g.hh = h.hh
  /\ g.tbl.num_buckets = h.tbl.num_buckets /\ g.tbl.num_items = h.tbl.num_items
  /\ g.tbl.tail = h.tbl.tail /\ g.tbl.ideal_chain_maxlen = h.tbl.ideal_chain_maxlen
  /\ g.tbl.nonideal_items = h.tbl.nonideal_items
  /\ g.tbl.ineff_expands = h.tbl.ineff_expands /\ g.tbl.noexpand = h.tbl.noexpand
  /\ g.tbl.buckets[b] = y
  /\ \A c \in (0..(B - 1)) \ {b} : g.tbl.buckets[c] = h.tbl.buckets[c]

(* Setting a bucket sets nothing else. *)
LEMMA WithBucket ==
  ASSUME NEW D, NEW B \in Nat \ {0}, NEW h \in HashRecord(D, B),
         NEW b \in 0..(B - 1), NEW y \in UT_hash_bucket
  PROVE  IsWithBucket([h EXCEPT !.tbl.buckets[b] = y], h, D, B, b, y)
<1> DEFINE tbl == h.tbl
           f == [tbl.buckets EXCEPT ![b] = y]
           x == [tbl EXCEPT !.buckets = f]
           g == [h EXCEPT !.tbl = x]
<1>1. tbl \in UT_hash_table(B)
  BY DEF HashRecord
<1>2. tbl.buckets \in [0..(B - 1) -> UT_hash_bucket]
  BY <1>1 DEF UT_hash_table
<1>3. /\ f \in [0..(B - 1) -> UT_hash_bucket]
      /\ f[b] = y
      /\ \A c \in (0..(B - 1)) \ {b} : f[c] = tbl.buckets[c]
  BY <1>2
<1> HIDE DEF f
<1>4. /\ x \in UT_hash_table(B)
      /\ x.buckets = f
      /\ x.num_buckets = tbl.num_buckets /\ x.num_items = tbl.num_items
      /\ x.tail = tbl.tail /\ x.ideal_chain_maxlen = tbl.ideal_chain_maxlen
      /\ x.nonideal_items = tbl.nonideal_items
      /\ x.ineff_expands = tbl.ineff_expands
  BY <1>1, <1>3 DEF UT_hash_table
<1>5. x.noexpand = tbl.noexpand
  BY <1>1 DEF UT_hash_table
<1> HIDE DEF x, tbl
<1>6. g \in HashRecord(D, B) /\ g.head = h.head /\ g.hh = h.hh /\ g.tbl = x
  BY <1>4 DEF HashRecord
<1>7. IsWithBucket(g, h, D, B, b, y)
  <2> HIDE DEF g
  <2> QED
    BY <1>3, <1>4, <1>5, <1>6, Zenon DEF IsWithBucket, tbl
<1> QED
  BY <1>7 DEF g, x, f, tbl

(* The fields of a bucket, and what they are after one was set.            *)
LEMMA BucketFields ==
  ASSUME NEW y \in UT_hash_bucket
  PROVE  y.hh_head \in Link /\ y.count \in Nat /\ y.expand_mult \in Nat
  BY DEF UT_hash_bucket

(* Setting the first item of a bucket. *)
LEMMA SetHead ==
  ASSUME NEW y \in UT_hash_bucket, NEW k \in Link
  PROVE  /\ [y EXCEPT !.hh_head = k] \in UT_hash_bucket
         /\ [y EXCEPT !.hh_head = k].hh_head = k
         /\ [y EXCEPT !.hh_head = k].count = y.count
         /\ [y EXCEPT !.hh_head = k].expand_mult = y.expand_mult
  BY DEF UT_hash_bucket

(* Setting the count of a bucket. *)
LEMMA SetCount ==
  ASSUME NEW y \in UT_hash_bucket, NEW c \in Nat
  PROVE  /\ [y EXCEPT !.count = c] \in UT_hash_bucket
         /\ [y EXCEPT !.count = c].hh_head = y.hh_head
         /\ [y EXCEPT !.count = c].count = c
         /\ [y EXCEPT !.count = c].expand_mult = y.expand_mult
  BY DEF UT_hash_bucket

(* Setting the multiplier of a bucket. *)
LEMMA SetMult ==
  ASSUME NEW y \in UT_hash_bucket, NEW m \in Nat
  PROVE  /\ [y EXCEPT !.expand_mult = m] \in UT_hash_bucket
         /\ [y EXCEPT !.expand_mult = m].hh_head = y.hh_head
         /\ [y EXCEPT !.expand_mult = m].count = y.count
         /\ [y EXCEPT !.expand_mult = m].expand_mult = m
  BY DEF UT_hash_bucket

(* What atHead changes. *)
LEMMA AtHeadParts ==
  ASSUME NEW D \in SUBSET Key, NEW B \in Nat \ {0}, NEW h \in HashRecord(D, B),
         NEW b \in 0..(B - 1), NEW k \in D, k # h.tbl.buckets[b].hh_head
  PROVE  IsAtHead(atHead(h, b, k), h, D, B, b, k)
<1> DEFINE a == atHead(h, b, k)
           y0 == h.tbl.buckets[b]
           second == y0.hh_head
           y1 == [y0 EXCEPT !.hh_head = k]
           h1 == [h EXCEPT !.tbl.buckets[b] = y1]
           y2 == [h1.tbl.buckets[b] EXCEPT !.count = y0.count + 1]
           h2 == [h1 EXCEPT !.tbl.buckets[b] = y2]
           handle(i) ==
             CASE i = k -> [h.hh[i] EXCEPT !.hh_prev = NULL, !.hh_next = second]
               [] i = second -> [h.hh[i] EXCEPT !.hh_prev = k]
               [] OTHER -> h.hh[i]
<1>1. a = [h2 EXCEPT !.hh = [i \in DOMAIN h.hh |-> handle(i)]]
  BY Zenon DEF atHead
<1>2. k \in Link /\ y0 \in UT_hash_bucket
  BY DEF HashRecord, UT_hash_table, Link
<1>a. k # second
  OBVIOUS
<1> HIDE DEF y0
<1>3. /\ y1 \in UT_hash_bucket /\ y1.hh_head = k /\ y1.count = y0.count
      /\ y1.expand_mult = y0.expand_mult /\ second \in Link /\ y0.count \in Nat
  BY <1>2, BucketFields, SetHead
<1> HIDE DEF y1
<1>4. IsWithBucket(h1, h, D, B, b, y1)
  BY <1>3, WithBucket
<1> HIDE DEF h1
<1>5. h1.tbl.buckets[b] = y1
  BY <1>4, Zenon DEF IsWithBucket
<1>6. /\ y2 \in UT_hash_bucket /\ y2.hh_head = k /\ y2.count = y0.count + 1
      /\ y2.expand_mult = y0.expand_mult
  <2> DEFINE c == y1.count + 1
  <2>1. c \in Nat /\ c = y0.count + 1 /\ y2 = [y1 EXCEPT !.count = c]
    BY <1>3, <1>5
  <2> HIDE DEF c, y2
  <2> QED
    BY <1>3, <2>1, SetCount
<1> HIDE DEF y2
<1>7. h1 \in HashRecord(D, B)
  BY <1>4 DEF IsWithBucket
<1>8. IsWithBucket(h2, h1, D, B, b, y2)
  BY <1>6, <1>7, WithBucket
<1> HIDE DEF h2
<1>9. /\ h2 \in HashRecord(D, B) /\ h2.hh = h.hh /\ h.hh \in [D -> UT_hash_handle]
  BY <1>4, <1>8 DEF IsWithBucket, HashRecord
<1> DEFINE hh == [i \in D |-> handle(i)]
<1>10. DOMAIN h.hh = D
  BY <1>9
<1>11. ASSUME NEW i \in D
       PROVE  /\ handle(i) \in UT_hash_handle
              /\ handle(i).prev = h.hh[i].prev /\ handle(i).next = h.hh[i].next
              /\ handle(i).hh_prev = IF i = k THEN NULL ELSE IF i = second THEN k ELSE h.hh[i].hh_prev
              /\ handle(i).hh_next = IF i = k THEN second ELSE h.hh[i].hh_next
  <2>1. h.hh[i] \in UT_hash_handle /\ NULL \in Link
    BY <1>9 DEF Link
  <2>2. CASE i = k
    BY <1>2, <1>3, <1>a, <2>1, <2>2 DEF UT_hash_handle
  <2>3. CASE i # k /\ i = second
    BY <1>2, <1>3, <1>a, <2>1, <2>3 DEF UT_hash_handle
  <2>4. CASE i # k /\ i # second
    BY <1>2, <1>3, <2>1, <2>4 DEF UT_hash_handle
  <2> QED
    BY <2>2, <2>3, <2>4
<1> HIDE DEF handle
<1>12. a = [h2 EXCEPT !.hh = hh] /\ hh \in [D -> UT_hash_handle]
  BY <1>1, <1>10, <1>11
<1>13. \A i \in D : hh[i] = handle(i)
  OBVIOUS
<1> HIDE DEF a, hh
<1>14. a \in HashRecord(D, B) /\ a.head = h2.head /\ a.tbl = h2.tbl /\ a.hh = hh
  BY <1>9, <1>12 DEF HashRecord
<1>15. DOMAIN a.hh = D /\ DOMAIN h.hh = D
  BY <1>9, <1>12, <1>14
<1>16. prevs(a) = prevs(h) /\ nexts(a) = nexts(h)
  BY <1>11, <1>13, <1>14, <1>15 DEF prevs, nexts
<1>17. /\ hhPrevs(a)[k] = NULL /\ hhNexts(a)[k] = second
       /\ \A i \in D \ {k} : hhPrevs(a)[i] = IF i = second THEN k ELSE hhPrevs(h)[i]
       /\ \A i \in D \ {k} : hhNexts(a)[i] = hhNexts(h)[i]
  BY <1>11, <1>13, <1>14, <1>15 DEF hhPrevs, hhNexts
<1>18. Keeps(a, h) /\ a.tbl.nonideal_items = h.tbl.nonideal_items
  BY <1>4, <1>8, <1>14, <1>16, Zenon DEF Keeps, IsWithBucket
<1>19. /\ a.tbl.buckets[b] = y2
       /\ \A c \in (0..(B - 1)) \ {b} : a.tbl.buckets[c] = h.tbl.buckets[c]
  BY <1>4, <1>8, <1>14, Zenon DEF IsWithBucket
<1>20. \A c \in 0..(B - 1) : a.tbl.buckets[c].expand_mult = h.tbl.buckets[c].expand_mult
  BY <1>6, <1>19 DEF y0
<1> QED
  BY <1>6, <1>14, <1>17, <1>18, <1>19, <1>20 DEF IsAtHead, a, y0

InBucket(hf, S, B, b) == {k \in S : hf[k] % B = b}

(* s is the chain of bucket b, of those of the items S that belong there.  *)
IsChain(hf, h, B, S, b, s) ==
  /\ Lists(s, InBucket(hf, S, B, b))
  /\ Linked(s, h.tbl.buckets[b].hh_head, hhPrevs(h), hhNexts(h))
  /\ h.tbl.buckets[b].count = Len(s)

ChainsOf(hf, h, B, S, chains) ==
  \A b \in 0..(B - 1) : IsChain(hf, h, B, S, b, chains[b])

HasHashes(hf) == hf \in [Key -> Nat]

(* Every key has a bucket. *)
LEMMA BucketExists ==
  ASSUME NEW hf, HasHashes(hf), NEW B \in Nat \ {0}, NEW k \in Key
  PROVE  hf[k] % B \in 0..(B - 1)
<1>1. hf[k] \in Nat
  BY DEF HasHashes
<1> QED
  BY <1>1

(* An item of another bucket is not in a chain. *)
LEMMA ChainItems ==
  ASSUME NEW hf, NEW h, NEW B, NEW S, NEW b, NEW s, IsChain(hf, h, B, S, b, s), NULL \notin S
  PROVE  /\ \A i \in 1..Len(s) : s[i] \in S /\ hf[s[i]] % B = b
         /\ h.tbl.buckets[b].hh_head # NULL =>
              /\ h.tbl.buckets[b].hh_head \in S
              /\ hf[h.tbl.buckets[b].hh_head] % B = b
<1>1. s \in Seq(InBucket(hf, S, B, b))
  BY DEF IsChain, Lists
<1>2. \A i \in 1..Len(s) : s[i] \in InBucket(hf, S, B, b)
  BY <1>1
<1>3. \A i \in 1..Len(s) : s[i] \in S /\ hf[s[i]] % B = b
  BY <1>2 DEF InBucket
<1>4. h.tbl.buckets[b].hh_head = IF Len(s) = 0 THEN NULL ELSE s[1]
  BY DEF IsChain, Linked
<1>5. Len(s) # 0 => 1 \in 1..Len(s)
  BY <1>1
<1> QED
  BY <1>3, <1>4, <1>5

(* atHead makes k the first of its chain and leaves the other chains. *)
LEMMA AtHead ==
  ASSUME NEW hf, HasHashes(hf), NEW D \in SUBSET Key, NEW B \in Nat \ {0},
         NEW h \in HashRecord(D, B), NEW S \in SUBSET D, NEW chains,
         ChainsOf(hf, h, B, S, chains),
         NEW k \in D \ S, NEW b, b = hf[k] % B
  PROVE  /\ IsAtHead(atHead(h, b, k), h, D, B, b, k)
         /\ \E more : ChainsOf(hf, atHead(h, b, k), B, S \union {k}, more)
<1> DEFINE a == atHead(h, b, k)
           second == h.tbl.buckets[b].hh_head
           more == [c \in 0..(B - 1) |-> IF c = b THEN pushed(chains[b], k) ELSE chains[c]]
<1>0. b \in 0..(B - 1) /\ NULL \notin D /\ k # NULL /\ NULL \notin S
  BY BucketExists, HashAssumption
<1>1. \A c \in 0..(B - 1) : IsChain(hf, h, B, S, c, chains[c])
  BY DEF ChainsOf
<1>2. second = NULL \/ (second \in S /\ hf[second] % B = b)
  BY <1>0, <1>1, ChainItems
<1>3. k # second
  BY <1>0, <1>2
<1>4. IsAtHead(a, h, D, B, b, k)
  BY <1>0, <1>3, AtHeadParts
<1> HIDE DEF a
<1>5. /\ a.tbl.buckets[b].hh_head = k
      /\ a.tbl.buckets[b].count = h.tbl.buckets[b].count + 1
      /\ \A c \in (0..(B - 1)) \ {b} : a.tbl.buckets[c] = h.tbl.buckets[c]
      /\ hhPrevs(a)[k] = NULL /\ hhNexts(a)[k] = second
      /\ \A i \in D \ {k} : hhPrevs(a)[i] = IF i = second THEN k ELSE hhPrevs(h)[i]
      /\ \A i \in D \ {k} : hhNexts(a)[i] = hhNexts(h)[i]
  BY <1>4, Zenon DEF IsAtHead, second
<1>6. IsChain(hf, a, B, S \union {k}, b, pushed(chains[b], k))
  <2> DEFINE K == InBucket(hf, S, B, b)
             s == chains[b]
             p == hhPrevs(h)
             q == hhNexts(h)
             p2 == hhPrevs(a)
             q2 == hhNexts(a)
  <2>1. /\ Lists(s, K) /\ Linked(s, second, hhPrevs(h), hhNexts(h))
        /\ h.tbl.buckets[b].count = Len(s)
    BY <1>0, <1>1, Zenon DEF IsChain
  <2>2. k \notin K /\ \A j \in K : j \in D \ {k}
    BY DEF InBucket
  <2>3. K \union {k} = InBucket(hf, S \union {k}, B, b)
    BY DEF InBucket
  <2> HIDE DEF K, s, second
  <2>4. /\ \A j \in K : hhPrevs(a)[j] = IF j = second THEN k ELSE hhPrevs(h)[j]
        /\ \A j \in K : hhNexts(a)[j] = hhNexts(h)[j]
    BY <1>5, <2>2
  <2>5. /\ Lists(pushed(s, k), K \union {k})
        /\ Len(pushed(s, k)) = Len(s) + 1
        /\ Linked(pushed(s, k), k, p2, q2)
    <3>1. LinksFirst(K, k, second, p, q, p2, q2)
      BY <1>5, <2>4, Zenon DEF LinksFirst
    <3>2. Lists(s, K) /\ Linked(s, second, p, q) /\ k \notin K
      BY <2>1, <2>2
    <3> HIDE DEF p, q, p2, q2
    <3> QED
      BY <3>1, <3>2, PushLinks
  <2> QED
    BY <1>5, <2>1, <2>3, <2>5, Zenon DEF IsChain, s
<1>7. ASSUME NEW c \in 0..(B - 1), c # b
      PROVE  IsChain(hf, a, B, S \union {k}, c, chains[c])
  <2> DEFINE s == chains[c]
             head == h.tbl.buckets[c].hh_head
  <2>1. InBucket(hf, S \union {k}, B, c) = InBucket(hf, S, B, c)
    BY <1>7 DEF InBucket
  <2>2. /\ Lists(s, InBucket(hf, S, B, c)) /\ Linked(s, head, hhPrevs(h), hhNexts(h))
        /\ h.tbl.buckets[c].count = Len(s)
    BY <1>1, Zenon DEF IsChain
  <2>3. \A i \in 1..Len(s) : s[i] \in S /\ hf[s[i]] % B = c
    BY <1>0, <1>1, ChainItems
  <2> HIDE DEF s, second
  <2>4. ASSUME NEW i \in 1..Len(s)
        PROVE  hhPrevs(a)[s[i]] = hhPrevs(h)[s[i]] /\ hhNexts(a)[s[i]] = hhNexts(h)[s[i]]
    <3>1. s[i] \in D \ {k} /\ s[i] # second
      BY <1>0, <1>2, <1>7, <2>3
    <3> QED
      BY <1>5, <3>1
  <2>5. Linked(s, head, hhPrevs(a), hhNexts(a))
    BY <2>2, <2>4, Zenon DEF Linked
  <2>6. a.tbl.buckets[c] = h.tbl.buckets[c]
    BY <1>5, <1>7
  <2> QED
    BY <2>1, <2>2, <2>5, <2>6, Zenon DEF IsChain, s
<1>8. ChainsOf(hf, a, B, S \union {k}, more)
  BY <1>6, <1>7 DEF ChainsOf
<1> HIDE DEF more
<1> QED
  BY <1>4, <1>8 DEF a

(* Following the links of bucket b meets s, the items that belong there.   *)
Follows(hf, D, B, h, b, s) ==
  /\ ChainOf(h, b) = s
  /\ s \in Seq(Key) /\ Distinct(s)
  /\ h.tbl.buckets[b].count = Len(s)
  /\ \A i \in 1..Len(s) : s[i] \in D /\ hf[s[i]] % B = b
  /\ \A k \in D : hf[k] % B = b => \E i \in 1..Len(s) : s[i] = k

(* Following the links of a bucket meets its chain. *)
LEMMA ChainsAreFollowed ==
  ASSUME NEW hf, NEW D \in SUBSET Key, NEW B \in Nat \ {0}, NEW h, NEW chains,
         ChainsOf(hf, h, B, D, chains), NEW b \in 0..(B - 1)
  PROVE  Follows(hf, D, B, h, b, chains[b])
<1> DEFINE s == chains[b]
<1>1. IsChain(hf, h, B, D, b, s)
  BY DEF ChainsOf
<1>2. /\ Lists(s, InBucket(hf, D, B, b))
      /\ Linked(s, h.tbl.buckets[b].hh_head, hhPrevs(h), hhNexts(h))
      /\ h.tbl.buckets[b].count = Len(s)
  BY <1>1, Zenon DEF IsChain
<1> HIDE DEF s
<1>3. /\ s \in Seq(InBucket(hf, D, B, b)) /\ Distinct(s)
      /\ \A k \in InBucket(hf, D, B, b) : \E i \in 1..Len(s) : s[i] = k
  BY <1>2, Zenon DEF Lists
<1>4. s \in Seq(Key)
  <2>1. InBucket(hf, D, B, b) \subseteq Key
    BY DEF InBucket
  <2> QED
    BY <1>3, <2>1, SeqMonotonic
<1>5. ChainOf(h, b) = s
  BY <1>2, <1>3, <1>4, FollowMeetsAll, Zenon DEF ChainOf, hhNexts
<1>6. NULL \notin D
  BY HashAssumption
<1>7. \A i \in 1..Len(s) : s[i] \in D /\ hf[s[i]] % B = b
  BY <1>1, <1>6, ChainItems
<1>8. \A k \in D : hf[k] % B = b => \E i \in 1..Len(s) : s[i] = k
  BY <1>3 DEF InBucket
<1> QED
  BY <1>2, <1>3, <1>4, <1>5, <1>7, <1>8 DEF Follows, s

(* L[i] is how many items the first i buckets have, n of them in all.      *)
Sums(L, h, B, n) ==
  /\ L \in [0..B -> Nat]
  /\ L[0] = 0
  /\ \A i \in 1..B : L[i] = L[i - 1] + h.tbl.buckets[i - 1].count
  /\ L[B] = n

bucketOrder(h, B) == FlattenSeq([b \in 1..B |-> ChainOf(h, b - 1)])

(* Bucket by bucket, all items are met, each once. *)
LEMMA BucketsHaveAll ==
  ASSUME NEW hf, NEW D \in SUBSET Key, NEW B \in Nat \ {0}, NEW h, NEW chains,
         HasHashes(hf), ChainsOf(hf, h, B, D, chains)
  PROVE  /\ Lists(bucketOrder(h, B), D)
         /\ \E L : Sums(L, h, B, Len(bucketOrder(h, B)))
<1> DEFINE seqs == [b \in 1..B |-> ChainOf(h, b - 1)]
           order == bucketOrder(h, B)
<1>1. ASSUME NEW i \in 1..B
      PROVE  /\ seqs[i] = chains[i - 1]
             /\ seqs[i] \in Seq(Key) /\ Distinct(seqs[i])
             /\ h.tbl.buckets[i - 1].count = Len(seqs[i])
             /\ \A x \in 1..Len(seqs[i]) : seqs[i][x] \in D /\ hf[seqs[i][x]] % B = i - 1
             /\ \A k \in D : hf[k] % B = i - 1 => \E x \in 1..Len(seqs[i]) : seqs[i][x] = k
  <2> DEFINE b == i - 1
  <2>1. b \in 0..(B - 1) /\ seqs[i] = ChainOf(h, b)
    OBVIOUS
  <2> HIDE DEF b, seqs
  <2>2. Follows(hf, D, B, h, b, chains[b])
    BY <2>1, ChainsAreFollowed
  <2> QED
    BY <2>1, <2>2, Zenon DEF Follows, b
<1>2. seqs \in [1..B -> Seq(Key)]
  BY <1>1
<1>3. order = FlattenSeq(seqs)
  BY DEF bucketOrder
<1>4. \A i \in 1..B : Distinct(seqs[i])
  BY <1>1
<1>5. \A i, j \in 1..B : \A x \in 1..Len(seqs[i]), y \in 1..Len(seqs[j]) :
         seqs[i][x] = seqs[j][y] => i = j
  <2> SUFFICES ASSUME NEW i \in 1..B, NEW j \in 1..B,
                      NEW x \in 1..Len(seqs[i]), NEW y \in 1..Len(seqs[j]),
                      seqs[i][x] = seqs[j][y]
               PROVE  i = j
    BY Zenon
  <2>1. hf[seqs[i][x]] % B = i - 1 /\ hf[seqs[j][y]] % B = j - 1
    BY <1>1, Zenon
  <2>2. i - 1 = j - 1
    BY <2>1
  <2> QED
    BY <2>2
<1> HIDE DEF seqs, order
<1>6. PICK F : Flattens(F, Key, seqs, B)
  BY <1>2, FlattenIsStepwise
<1>7. AllOf(F, seqs, B)
  <2>1. \A i \in 0..B : AllOf(F, seqs, i)
    BY <1>2, <1>4, <1>5, <1>6, FlattenHasAll
  <2> QED
    BY <2>1
<1>8. /\ F \in [0..B -> Seq(Key)] /\ F[0] = <<>> /\ F[B] = order
      /\ \A i \in 1..B : F[i] = F[i - 1] \o seqs[i]
  BY <1>3, <1>6 DEF Flattens
<1>9. /\ order \in Seq(Key) /\ Distinct(order)
      /\ \A x \in 1..Len(order) :
           \E j \in 1..B : \E y \in 1..Len(seqs[j]) : order[x] = seqs[j][y]
      /\ \A j \in 1..B : \A y \in 1..Len(seqs[j]) :
           \E x \in 1..Len(order) : order[x] = seqs[j][y]
  <2>1. F[B] = order
    BY <1>8
  <2>2. B \in 0..B
    OBVIOUS
  <2>3. order \in Seq(Key)
    BY <1>8, <2>1, <2>2, Zenon
  <2>4. /\ \A x \in 1..Len(F[B]) :
             \E j \in 1..B : \E y \in 1..Len(seqs[j]) : F[B][x] = seqs[j][y]
        /\ \A j \in 1..B : \A y \in 1..Len(seqs[j]) :
             \E x \in 1..Len(F[B]) : F[B][x] = seqs[j][y]
        /\ Distinct(F[B])
    BY <1>7, Zenon DEF AllOf
  <2> QED
    BY <2>1, <2>3, <2>4, Zenon
<1>10. ASSUME NEW x \in 1..Len(order)
       PROVE  order[x] \in D
  <2>1. PICK j \in 1..B : \E y \in 1..Len(seqs[j]) : order[x] = seqs[j][y]
    BY <1>9, Zenon
  <2>2. PICK y \in 1..Len(seqs[j]) : order[x] = seqs[j][y]
    BY <2>1
  <2>3. seqs[j][y] \in D
    BY <1>1, Zenon
  <2> QED
    BY <2>2, <2>3
<1>11. ASSUME NEW k \in D
       PROVE  \E x \in 1..Len(order) : order[x] = k
  <2> DEFINE j == (hf[k] % B) + 1
  <2>1. j \in 1..B /\ hf[k] % B = j - 1
    BY BucketExists
  <2> HIDE DEF j
  <2>2. PICK y \in 1..Len(seqs[j]) : seqs[j][y] = k
    BY <1>1, <2>1
  <2>3. PICK x \in 1..Len(order) : order[x] = seqs[j][y]
    BY <1>9, <2>1
  <2> QED
    BY <2>2, <2>3
<1>12. order \in Seq(D)
  BY <1>9, <1>10
<1>13. Lists(order, D)
  BY <1>9, <1>11, <1>12 DEF Lists
<1> DEFINE L == [i \in 0..B |-> Len(F[i])]
<1>14. Sums(L, h, B, Len(order))
  <2>1. L \in [0..B -> Nat] /\ L[0] = 0 /\ L[B] = Len(order)
    BY <1>8
  <2>2. ASSUME NEW i \in 1..B
        PROVE  L[i] = L[i - 1] + h.tbl.buckets[i - 1].count
    <3> DEFINE p == i - 1
    <3>1. p \in 0..B /\ i \in 0..B
      OBVIOUS
    <3>2. F[i] = F[p] \o seqs[i] /\ F[p] \in Seq(Key) /\ seqs[i] \in Seq(Key)
      BY <1>1, <1>8, <3>1
    <3>3. h.tbl.buckets[p].count = Len(seqs[i])
      BY <1>1
    <3> HIDE DEF p
    <3>4. L[i] = Len(F[i]) /\ L[p] = Len(F[p])
      BY <3>1
    <3>5. Len(F[p] \o seqs[i]) = Len(F[p]) + Len(seqs[i])
      BY <3>2
    <3> HIDE DEF L
    <3>6. L[i] = L[p] + h.tbl.buckets[p].count
      BY <3>2, <3>3, <3>4, <3>5
    <3> QED
      BY <3>6 DEF p
  <2> QED
    BY <2>1, <2>2 DEF Sums
<1> QED
  BY <1>13, <1>14 DEF order

(* The load of a bucket is at least its multiplier; lf[i] is at least the  *)
(* load of the first i buckets, and the load of all is no more than there  *)
(* are buckets.                                                            *)
Loads(load, lf, h, B) ==
  /\ load \in [0..(B - 1) -> Nat]
  /\ \A b \in 0..(B - 1) : h.tbl.buckets[b].expand_mult <= load[b]
  /\ lf \in [0..B -> Nat]
  /\ lf[0] = 0
  /\ \A i \in 1..B : lf[i] >= lf[i - 1] + load[i - 1]
  /\ lf[B] <= B

CountsFit(h, load, B) ==
  \A b \in 0..(B - 1) : h.tbl.buckets[b].count <= (load[b] + 1) * Threshold

CountsAre(h, B) ==
  \A b \in 0..(B - 1) :
    h.tbl.buckets[b].count \in Nat /\ h.tbl.buckets[b].expand_mult \in Nat

(* Then twice as many buckets have room for all items below the threshold. *)
LEMMA FewItems ==
  ASSUME NEW B \in Nat \ {0}, NEW h, CountsAre(h, B), NEW L, NEW n, Sums(L, h, B, n),
         NEW load, NEW lf, Loads(load, lf, h, B), CountsFit(h, load, B)
  PROVE  n \in Nat /\ n <= (2 * B) * Threshold
<1> DEFINE T == Threshold
           U == {i \in 0..B : L[i] <= (lf[i] + i) * T}
<1>0. T \in Nat \ {0}
  BY HashAssumption
<1>1. 0 \in U
  BY <1>0 DEF Sums, Loads
<1>2. ASSUME NEW i \in 0..(B - 1), i \in U
      PROVE  i + 1 \in U
  <2> DEFINE j == i + 1
             c == h.tbl.buckets[i].count
             m == load[i]
             p == lf[i]
             q == lf[j]
             l == L[i]
             r == L[j]
  <2>1. i \in Nat /\ j \in 1..B /\ j \in 0..B /\ i \in 0..B /\ j - 1 = i
    OBVIOUS
  <2>2. c \in Nat /\ m \in Nat /\ c <= (m + 1) * T
    BY DEF CountsAre, CountsFit, Loads
  <2> HIDE DEF j
  <2>3. p \in Nat /\ q \in Nat /\ l \in Nat
    BY <2>1 DEF Sums, Loads
  <2>4. q >= p + m /\ r = l + c
    BY <2>1 DEF Sums, Loads
  <2>5. l <= (p + i) * T
    BY <1>2
  <2> HIDE DEF c, m, p, q, l, r, T
  <2>6. r <= (p + i) * T + (m + 1) * T
    BY <1>0, <2>1, <2>2, <2>3, <2>4, <2>5
  <2>7. (p + i) * T + (m + 1) * T = ((p + m) + (i + 1)) * T
    BY <1>0, <2>1, <2>2, <2>3
  <2>8. ((p + m) + (i + 1)) * T <= (q + (i + 1)) * T
    <3> DEFINE x == (p + m) + (i + 1)
               y == q + (i + 1)
    <3>1. x \in Nat /\ y \in Nat /\ x <= y
      BY <2>1, <2>2, <2>3, <2>4
    <3> HIDE DEF x, y
    <3>2. x * T <= y * T
      BY <1>0, <3>1
    <3> QED
      BY <3>2 DEF x, y
  <2>9. r \in Int /\ (p + i) * T + (m + 1) * T \in Int /\ (q + (i + 1)) * T \in Int
    BY <1>0, <2>1, <2>2, <2>3, <2>4
  <2>10. r <= (q + (i + 1)) * T
    BY <2>6, <2>7, <2>8, <2>9
  <2> QED
    BY <2>1, <2>10 DEF T, r, q, j
<1>3. \A i \in 0..B : i \in U
  <2> HIDE DEF U
  <2>1. 0 \in Int /\ B \in Int
    OBVIOUS
  <2> QED
    BY <1>1, <1>2, <2>1, IntervalInduction
<1>4. n <= (lf[B] + B) * T
  <2>1. B \in 0..B
    OBVIOUS
  <2> QED
    BY <1>3, <2>1 DEF Sums
<1>5. n \in Nat /\ lf[B] \in Nat /\ lf[B] <= B
  BY DEF Sums, Loads
<1> DEFINE x == lf[B] + B
           y == 2 * B
<1>6. x \in Nat /\ y \in Nat /\ x <= y
  BY <1>5
<1> HIDE DEF x, y, T
<1>7. x * T <= y * T
  BY <1>0, <1>6
<1> QED
  BY <1>0, <1>4, <1>5, <1>6, <1>7 DEF x, y, T

(* The multipliers are the counts by what is ideal, or none. *)
MultsAre(h, B, max) ==
  \A b \in 0..(B - 1) :
    LET bucket == h.tbl.buckets[b]
    IN  IF bucket.count <= max THEN bucket.expand_mult = 0
        ELSE bucket.expand_mult = bucket.count \div max

(* The quotient of a sum is at least the sum of the quotients. *)
LEMMA QuotientsAdd ==
  ASSUME NEW a \in Nat, NEW c \in Nat, NEW max \in Nat \ {0}
  PROVE  /\ a \div max \in Nat /\ c \div max \in Nat
         /\ (a + c) \div max >= a \div max + c \div max
<1>1. /\ a \div max \in Nat /\ a >= (a \div max) * max
  OBVIOUS
<1>2. /\ c \div max \in Nat /\ c >= (c \div max) * max
  OBVIOUS
<1> DEFINE p == a \div max
           q == c \div max
           s == a + c
           z == s \div max
<1>3. z \in Int /\ s < (z + 1) * max /\ s \in Nat
  OBVIOUS
<1> HIDE DEF p, q, z
<1>4. (p + q) * max <= s
  BY <1>1, <1>2 DEF p, q
<1>5. (p + q) * max < (z + 1) * max
  BY <1>1, <1>2, <1>3, <1>4 DEF p, q
<1>6. p + q < z + 1
  BY <1>1, <1>2, <1>3, <1>5 DEF p, q
<1> QED
  BY <1>1, <1>2, <1>3, <1>6 DEF p, q, z

quotients(h, B, max) == [b \in 0..(B - 1) |-> h.tbl.buckets[b].count \div max]

(* After an expansion the loads are the counts by what is ideal. *)
LEMMA NewLoads ==
  ASSUME NEW B \in Nat \ {0}, NEW h, CountsAre(h, B), NEW L, NEW n, Sums(L, h, B, n),
         NEW max \in Nat \ {0}, n <= B * max, MultsAre(h, B, max)
  PROVE  \E lf : Loads(quotients(h, B, max), lf, h, B)
<1> DEFINE lf == [i \in 0..B |-> L[i] \div max]
           load == quotients(h, B, max)
<1>1. L \in [0..B -> Nat] /\ L[0] = 0 /\ L[B] = n
  BY DEF Sums
<1>2. lf \in [0..B -> Nat] /\ lf[0] = 0
  <2>1. \A i \in 0..B : L[i] \div max \in Nat
    BY <1>1
  <2>2. 0 \div max = 0
    OBVIOUS
  <2> QED
    BY <1>1, <2>1, <2>2
<1>a. ASSUME NEW b \in 0..(B - 1)
      PROVE  /\ load[b] = h.tbl.buckets[b].count \div max
             /\ load[b] \in Nat
             /\ h.tbl.buckets[b].expand_mult <= load[b]
  <2> DEFINE c == h.tbl.buckets[b].count
             m == h.tbl.buckets[b].expand_mult
             q == c \div max
  <2>1. c \in Nat /\ m \in Nat /\ load[b] = q
    BY DEF CountsAre, quotients
  <2>2. m = 0 \/ m = q
    BY DEF MultsAre
  <2> HIDE DEF c, m
  <2>3. q \in Nat
    BY <2>1
  <2> QED
    BY <2>1, <2>2, <2>3 DEF c, m
<1>3. ASSUME NEW i \in 1..B
      PROVE  lf[i] >= lf[i - 1] + load[i - 1]
  <2> DEFINE j == i - 1
             c == h.tbl.buckets[j].count
  <2>1. j \in 0..(B - 1) /\ j \in 0..B /\ i \in 0..B
    OBVIOUS
  <2>2. L[i] = L[j] + c
    BY DEF Sums
  <2> HIDE DEF j
  <2>3. L[j] \in Nat /\ c \in Nat
    BY <1>1, <2>1 DEF CountsAre
  <2>4. load[j] = c \div max
    BY <1>a, <2>1
  <2>5. lf[i] = (L[j] + c) \div max /\ lf[j] = L[j] \div max
    BY <2>1, <2>2
  <2> DEFINE a == L[j]
  <2> HIDE DEF c, lf, a
  <2>6. (a + c) \div max >= a \div max + c \div max
    BY <2>3, QuotientsAdd DEF a
  <2>7. lf[i] >= lf[j] + load[j]
    BY <2>4, <2>5, <2>6 DEF a
  <2> QED
    BY <2>7 DEF j
<1>4. lf[B] <= B
  <2>1. n \in Nat /\ lf[B] = n \div max
    BY <1>1
  <2> DEFINE q == n \div max
  <2>2. q \in Nat /\ q * max <= n
    BY <2>1
  <2>3. q * max <= B * max
    BY <2>1, <2>2
  <2> HIDE DEF q
  <2>4. q <= B
    BY <2>2, <2>3
  <2> QED
    BY <2>1, <2>4 DEF q
<1>5. load \in [0..(B - 1) -> Nat]
  <2>1. load = [b \in 0..(B - 1) |-> load[b]]
    BY DEF quotients
  <2> HIDE DEF load
  <2> QED
    BY <1>a, <2>1
<1>6. Loads(load, lf, h, B)
  <2> HIDE DEF load, lf
  <2> QED
    BY <1>2, <1>a, <1>3, <1>4, <1>5 DEF Loads
<1> QED
  BY <1>6

(* The buckets then have fewer items than their loads allow, and no more   *)
(* than their multipliers allow.                                           *)
HasRoom(h, load, B) ==
  \A b \in 0..(B - 1) :
    LET bucket == h.tbl.buckets[b]
    IN  /\ bucket.count < (load[b] + 1) * Threshold
        /\ bucket.count <= (bucket.expand_mult + 1) * Threshold

(* After an expansion no bucket is at its capacity. *)
LEMMA NewRoom ==
  ASSUME NEW B \in Nat \ {0}, NEW h, CountsAre(h, B),
         NEW max \in Nat \ {0}, max <= Threshold, MultsAre(h, B, max)
  PROVE  HasRoom(h, quotients(h, B, max), B)
<1> SUFFICES ASSUME NEW b \in 0..(B - 1)
             PROVE  /\ h.tbl.buckets[b].count < (quotients(h, B, max)[b] + 1) * Threshold
                    /\ h.tbl.buckets[b].count <= (h.tbl.buckets[b].expand_mult + 1) * Threshold
  BY Zenon DEF HasRoom
<1> DEFINE T == Threshold
           c == h.tbl.buckets[b].count
           m == h.tbl.buckets[b].expand_mult
           q == c \div max
           l == quotients(h, B, max)[b]
<1>1. T \in Nat \ {0} /\ c \in Nat /\ m \in Nat /\ l = q
  BY HashAssumption DEF CountsAre, quotients
<1>2. IF c <= max THEN m = 0 ELSE m = q
  BY DEF MultsAre
<1> HIDE DEF c, m, l, T
<1>3. q \in Nat /\ c < (q + 1) * max
  BY <1>1
<1> DEFINE y == q + 1
<1>4. y \in Nat
  BY <1>3
<1> HIDE DEF q, y
<1>5. y * max <= y * T
  <2>1. \A a \in Nat, d \in Nat : a <= d => y * a <= y * d
    BY <1>4
  <2> QED
    BY <1>1, <2>1 DEF T
<1>6. c < y * max /\ y * max \in Nat /\ y * T \in Nat
  BY <1>1, <1>3, <1>4 DEF y
<1>7. c < y * T
  BY <1>1, <1>5, <1>6
<1>8. c <= (m + 1) * T
  <2>1. CASE c <= max
    <3>1. m = 0 /\ (0 + 1) * T = T /\ max <= T
      BY <1>1, <1>2, <2>1 DEF T
    <3> QED
      BY <1>1, <2>1, <3>1
  <2>2. CASE ~(c <= max)
    <3>1. m + 1 = y
      BY <1>2, <2>2 DEF y
    <3> QED
      BY <1>1, <1>6, <1>7, <3>1
  <2> QED
    BY <2>1, <2>2
<1> QED
  BY <1>1, <1>7, <1>8 DEF y, c, m, l, T

(* The chains depend on the links, the first items and the counts only.    *)
LEMMA SameChains ==
  ASSUME NEW hf, NEW B, NEW S, NEW a, NEW m, NEW chains, a.hh = m.hh,
         \A b \in 0..(B - 1) :
           /\ a.tbl.buckets[b].hh_head = m.tbl.buckets[b].hh_head
           /\ a.tbl.buckets[b].count = m.tbl.buckets[b].count,
         ChainsOf(hf, m, B, S, chains)
  PROVE  ChainsOf(hf, a, B, S, chains)
<1>1. hhPrevs(a) = hhPrevs(m) /\ hhNexts(a) = hhNexts(m)
  BY DEF hhPrevs, hhNexts
<1> SUFFICES ASSUME NEW b \in 0..(B - 1)
             PROVE  IsChain(hf, a, B, S, b, chains[b])
  BY DEF ChainsOf
<1>2. IsChain(hf, m, B, S, b, chains[b])
  BY DEF ChainsOf
<1>3. /\ a.tbl.buckets[b].hh_head = m.tbl.buckets[b].hh_head
      /\ a.tbl.buckets[b].count = m.tbl.buckets[b].count
  OBVIOUS
<1> QED
  BY <1>1, <1>2, <1>3, Zenon DEF IsChain

(* One item more that is not where it ideally would be. *)
LEMMA OneMoreNonideal ==
  ASSUME NEW D, NEW B \in Nat \ {0}, NEW h \in HashRecord(D, B)
  PROVE  LET g == [h EXCEPT !.tbl.nonideal_items = h.tbl.nonideal_items + 1]
         IN  /\ g \in HashRecord(D, B)
             /\ g.hh = h.hh
             /\ Keeps(g, h)
             /\ g.tbl.buckets = h.tbl.buckets
<1> DEFINE tbl == h.tbl
           x == [tbl EXCEPT !.nonideal_items = tbl.nonideal_items + 1]
           g == [h EXCEPT !.tbl = x]
<1>1. tbl \in UT_hash_table(B)
  BY DEF HashRecord
<1>2. /\ x \in UT_hash_table(B)
      /\ x.buckets = tbl.buckets
      /\ x.num_buckets = tbl.num_buckets /\ x.num_items = tbl.num_items
      /\ x.tail = tbl.tail /\ x.ideal_chain_maxlen = tbl.ideal_chain_maxlen
      /\ x.ineff_expands = tbl.ineff_expands
  <2> HIDE DEF tbl
  <2> QED
    BY <1>1 DEF UT_hash_table
<1>3. x.noexpand = tbl.noexpand
  <2> HIDE DEF tbl
  <2> QED
    BY <1>1 DEF UT_hash_table
<1> HIDE DEF x, tbl
<1>4. g \in HashRecord(D, B) /\ g.head = h.head /\ g.hh = h.hh /\ g.tbl = x
  BY <1>2 DEF HashRecord
<1>5. prevs(g) = prevs(h) /\ nexts(g) = nexts(h)
  BY <1>4 DEF prevs, nexts
<1>6. /\ g \in HashRecord(D, B) /\ g.hh = h.hh /\ Keeps(g, h)
      /\ g.tbl.buckets = h.tbl.buckets
  <2> HIDE DEF g
  <2> QED
    BY <1>2, <1>3, <1>4, <1>5, Zenon DEF Keeps, tbl
<1> QED
  BY <1>6 DEF x, tbl

(* Nothing but buckets changes in two such steps. *)
LEMMA KeepsIsTransitive ==
  ASSUME NEW a, NEW b, NEW c, Keeps(a, b), Keeps(b, c)
  PROVE  Keeps(a, c)
  BY Zenon DEF Keeps

(* While the buckets of g are filled anew, a has the items S.              *)
Moving(hf, a, g, D, B, S, max) ==
  /\ a \in HashRecord(D, B)
  /\ Keeps(a, g)
  /\ \E chains : ChainsOf(hf, a, B, S, chains)
  /\ MultsAre(a, B, max)

(* One item is moved to its bucket among twice as many. *)
LEMMA MoveItem ==
  ASSUME HasHashes(hashOf), NEW D \in SUBSET Key, NEW B \in Nat \ {0}, NEW g, NEW a,
         NEW S \in SUBSET D, NEW k \in D \ S, NEW max \in Nat \ {0},
         2 * g.tbl.num_buckets = B, g.tbl.ideal_chain_maxlen = max,
         Moving(hashOf, a, g, D, B, S, max)
  PROVE  Moving(hashOf, moveItem(a, k), g, D, B, S \union {k}, max)
<1> DEFINE b == HASH_TO_BKT(k, 2 * a.tbl.num_buckets)
           m == atHead(a, b, k)
           count == m.tbl.buckets[b].count
           e == expandMult(count, a.tbl.ideal_chain_maxlen)
           n1 == [m EXCEPT !.tbl.nonideal_items = m.tbl.nonideal_items + 1]
           y == [n1.tbl.buckets[b] EXCEPT !.expand_mult = e]
           n2 == [n1 EXCEPT !.tbl.buckets[b] = y]
<1>1. moveItem(a, k) = IF count <= a.tbl.ideal_chain_maxlen THEN m ELSE n2
  BY Zenon DEF moveItem
<1>2. /\ a \in HashRecord(D, B) /\ Keeps(a, g) /\ MultsAre(a, B, max)
      /\ a.tbl.num_buckets = g.tbl.num_buckets /\ a.tbl.ideal_chain_maxlen = max
  BY DEF Moving, Keeps
<1>3. PICK chains : ChainsOf(hashOf, a, B, S, chains)
  BY DEF Moving
<1>4. b = hashOf[k] % B /\ b \in 0..(B - 1)
  BY <1>2, BucketExists DEF HASH_TO_BKT, hashv
<1>5. IsAtHead(m, a, D, B, b, k) /\ \E more : ChainsOf(hashOf, m, B, S \union {k}, more)
  <2> HIDE DEF b
  <2> QED
    BY <1>2, <1>3, <1>4, AtHead
<1> HIDE DEF b, m
<1>6. PICK more : ChainsOf(hashOf, m, B, S \union {k}, more)
  BY <1>5
<1>7. /\ m \in HashRecord(D, B) /\ Keeps(m, a)
      /\ count = a.tbl.buckets[b].count + 1
      /\ \A c \in 0..(B - 1) : m.tbl.buckets[c].expand_mult = a.tbl.buckets[c].expand_mult
      /\ \A c \in (0..(B - 1)) \ {b} : m.tbl.buckets[c] = a.tbl.buckets[c]
  BY <1>5, Zenon DEF IsAtHead
<1>8. Keeps(m, g)
  BY <1>2, <1>7, KeepsIsTransitive
<1>9. m.tbl.buckets[b] \in UT_hash_bucket /\ a.tbl.buckets[b] \in UT_hash_bucket
  BY <1>2, <1>4, <1>7 DEF HashRecord, UT_hash_table
<1>10. count \in Nat /\ a.tbl.buckets[b].count \in Nat
  BY <1>9, BucketFields
<1>11. \A c \in (0..(B - 1)) \ {b} :
          IF m.tbl.buckets[c].count <= max THEN m.tbl.buckets[c].expand_mult = 0
          ELSE m.tbl.buckets[c].expand_mult = m.tbl.buckets[c].count \div max
  BY <1>2, <1>7 DEF MultsAre
<1>12. CASE count <= max
  <2>1. moveItem(a, k) = m
    BY <1>1, <1>2, <1>12
  <2>2. m.tbl.buckets[b].expand_mult = 0
    <3>1. a.tbl.buckets[b].count <= max
      BY <1>7, <1>10, <1>12
    <3> QED
      BY <1>2, <1>4, <1>7, <3>1 DEF MultsAre
  <2>3. MultsAre(m, B, max)
    BY <1>11, <1>12, <2>2 DEF MultsAre
  <2> QED
    BY <1>6, <1>7, <1>8, <2>1, <2>3 DEF Moving
<1>13. CASE ~(count <= max)
  <2>1. moveItem(a, k) = n2
    BY <1>1, <1>2, <1>13
  <2>2. /\ n1 \in HashRecord(D, B) /\ n1.hh = m.hh /\ Keeps(n1, m)
        /\ n1.tbl.buckets = m.tbl.buckets
    BY <1>7, OneMoreNonideal
  <2>3. e = count \div max /\ e \in Nat
    BY <1>2, <1>10 DEF expandMult
  <2> HIDE DEF n1, e
  <2>4. /\ y \in UT_hash_bucket /\ y.hh_head = m.tbl.buckets[b].hh_head
        /\ y.count = count /\ y.expand_mult = e
    BY <1>9, <2>2, <2>3, SetMult
  <2> HIDE DEF y
  <2>5. IsWithBucket(n2, n1, D, B, b, y)
    BY <1>4, <2>2, <2>4, WithBucket
  <2> HIDE DEF n2, count
  <2>6. /\ n2 \in HashRecord(D, B) /\ n2.hh = m.hh /\ n2.head = n1.head
        /\ n2.tbl.buckets[b] = y
        /\ \A c \in (0..(B - 1)) \ {b} : n2.tbl.buckets[c] = m.tbl.buckets[c]
    BY <2>2, <2>5, Zenon DEF IsWithBucket
  <2>7. prevs(n2) = prevs(n1) /\ nexts(n2) = nexts(n1)
    BY <2>2, <2>6 DEF prevs, nexts
  <2>8. Keeps(n2, n1)
    BY <2>5, <2>7, Zenon DEF IsWithBucket, Keeps
  <2>9. Keeps(n2, g)
    BY <1>8, <2>2, <2>8, KeepsIsTransitive
  <2>10. \A c \in 0..(B - 1) :
            /\ n2.tbl.buckets[c].hh_head = m.tbl.buckets[c].hh_head
            /\ n2.tbl.buckets[c].count = m.tbl.buckets[c].count
    BY <2>4, <2>6 DEF count
  <2>11. ChainsOf(hashOf, n2, B, S \union {k}, more)
    BY <1>6, <2>6, <2>10, SameChains
  <2>12. n2.tbl.buckets[b].expand_mult = count \div max /\ n2.tbl.buckets[b].count = count
    BY <2>3, <2>4, <2>6
  <2>13. MultsAre(n2, B, max)
    BY <1>11, <1>13, <2>6, <2>12 DEF MultsAre
  <2> QED
    BY <2>1, <2>6, <2>9, <2>11, <2>13 DEF Moving
<1> QED
  BY <1>12, <1>13

(* A table of uthash by its fields. *)
table(buckets, n, items, tail, max, nonideal, ineff, noexpand) ==
  [buckets |-> buckets, num_buckets |-> n, num_items |-> items, tail |-> tail,
   ideal_chain_maxlen |-> max, nonideal_items |-> nonideal, ineff_expands |-> ineff,
   noexpand |-> noexpand]

record(head, tbl, hh) == [head |-> head, tbl |-> tbl, hh |-> hh]

(* A table is the record of its fields. *)
LEMMA RecordForm ==
  ASSUME NEW D, NEW B, NEW h \in HashRecord(D, B)
  PROVE  /\ h.tbl = table(h.tbl.buckets, h.tbl.num_buckets, h.tbl.num_items, h.tbl.tail,
                          h.tbl.ideal_chain_maxlen, h.tbl.nonideal_items,
                          h.tbl.ineff_expands, h.tbl.noexpand)
         /\ h = record(h.head, h.tbl, h.hh)
<1>1. h.tbl \in UT_hash_table(B)
  BY DEF HashRecord
<1>2. h.tbl = table(h.tbl.buckets, h.tbl.num_buckets, h.tbl.num_items, h.tbl.tail,
                    h.tbl.ideal_chain_maxlen, h.tbl.nonideal_items,
                    h.tbl.ineff_expands, h.tbl.noexpand)
  BY <1>1 DEF UT_hash_table, table
<1>3. h = record(h.head, h.tbl, h.hh)
  BY DEF HashRecord, record
<1> QED
  BY <1>2, <1>3

(* A record of well-typed fields is a table. *)
LEMMA IsRecord ==
  ASSUME NEW D, NEW B,
         NEW b \in [0..(B - 1) -> UT_hash_bucket], NEW n \in Nat \ {0}, NEW i \in Nat,
         NEW t \in Link, NEW m \in Nat, NEW d \in Nat, NEW f \in Nat, NEW x \in BOOLEAN,
         NEW head \in Link, NEW hh \in [D -> UT_hash_handle]
  PROVE  record(head, table(b, n, i, t, m, d, f, x), hh) \in HashRecord(D, B)
<1>1. table(b, n, i, t, m, d, f, x) \in UT_hash_table(B)
  BY DEF table, UT_hash_table
<1> QED
  BY <1>1 DEF record, HashRecord

FieldTypes(h, D, B) ==
  /\ h.tbl.buckets \in [0..(B - 1) -> UT_hash_bucket] /\ h.tbl.num_buckets \in Nat \ {0}
  /\ h.tbl.num_items \in Nat /\ h.tbl.tail \in Link /\ h.tbl.ideal_chain_maxlen \in Nat
  /\ h.tbl.nonideal_items \in Nat /\ h.tbl.ineff_expands \in Nat
  /\ h.head \in Link /\ h.hh \in [D -> UT_hash_handle]

(* The fields of a table are well typed. *)
LEMMA TypesOf ==
  ASSUME NEW D, NEW B, NEW h \in HashRecord(D, B)
  PROVE  FieldTypes(h, D, B) /\ h.tbl.noexpand \in BOOLEAN
<1>1. h.tbl \in UT_hash_table(B) /\ h.head \in Link /\ h.hh \in [D -> UT_hash_handle]
  BY DEF HashRecord
<1>2. h.tbl.noexpand \in BOOLEAN
  BY <1>1, Zenon DEF UT_hash_table
<1> QED
  BY <1>1, <1>2 DEF FieldTypes, UT_hash_table

(* The table at the beginning of an expansion to B buckets. *)
IsCleared(g, h, D, B) ==
  /\ g \in HashRecord(D, B)
  /\ g.head = h.head /\ g.hh = h.hh
  /\ g.tbl.buckets = [b \in 0..(B - 1) |-> emptyBucket]
  /\ g.tbl.num_buckets = h.tbl.num_buckets
  /\ g.tbl.num_items = h.tbl.num_items
  /\ g.tbl.tail = h.tbl.tail
  /\ g.tbl.ideal_chain_maxlen = ideal(h.tbl.num_items, B)
  /\ g.tbl.ineff_expands = h.tbl.ineff_expands
  /\ g.tbl.noexpand = h.tbl.noexpand

(* All of the new buckets are empty. *)
LEMMA EmptyBuckets ==
  ASSUME NEW B \in Nat
  PROVE  /\ emptyBuckets(B) = [b \in 0..(B - 1) |-> emptyBucket]
         /\ emptyBuckets(B) \in [0..(B - 1) -> UT_hash_bucket]
<1> DEFINE f == [b \in 0..(B - 1) |-> emptyBucket]
           e == emptyBuckets(B)
<1>1. emptyBucket \in UT_hash_bucket
  BY DEF emptyBucket, UT_hash_bucket, Link
<1>2. f \in [0..(B - 1) -> {emptyBucket}]
  OBVIOUS
<1>3. e \in [0..(B - 1) -> {emptyBucket}]
  <2> HIDE DEF f
  <2> QED
    BY <1>2 DEF emptyBuckets
<1> HIDE DEF e
<1>4. e = f
  BY <1>3
<1> QED
  BY <1>1, <1>4 DEF e

(* The ideal chain length is enough for all items, and at most the threshold*)
(* if there are few.                                                       *)
LEMMA IdealBounds ==
  ASSUME NEW n \in Nat, NEW B \in Nat \ {0}
  PROVE  /\ ideal(n, B) \in Nat
         /\ n <= B * ideal(n, B)
         /\ n > 0 => ideal(n, B) > 0
         /\ \A T \in Nat : n <= B * T => ideal(n, B) <= T
<1> DEFINE x == n + B - 1
           q == x \div B
           r == x % B
<1>1. x \in Nat /\ q \in Nat /\ r \in 0..(B - 1) /\ x = B * q + r
  OBVIOUS
<1> DEFINE p == B * q
<1>2. p \in Nat
  BY <1>1
<1>3. n <= p
  BY <1>1, <1>2
<1>4. n > 0 => q > 0
  <2> SUFFICES ASSUME n > 0, q = 0
               PROVE  FALSE
    BY <1>1
  <2>1. p = 0
    OBVIOUS
  <2> QED
    BY <1>3, <2>1
<1>5. ASSUME NEW T \in Nat, n <= B * T
      PROVE  q <= T
  <2> SUFFICES ASSUME q >= T + 1
               PROVE  FALSE
    BY <1>1
  <2> DEFINE u == B * T
             w == B * (T + 1)
  <2>1. w = u + B /\ u \in Nat
    OBVIOUS
  <2>2. p >= w
    <3> HIDE DEF x, q, r
    <3>1. \A a \in Nat, c \in Nat : a >= c => B * a >= B * c
      OBVIOUS
    <3> QED
      BY <1>1, <1>5, <3>1
  <2> HIDE DEF u, w, p, q, r
  <2> QED
    BY <1>1, <1>2, <1>5, <2>1, <2>2 DEF u, p, x
<1> QED
  BY <1>1, <1>3, <1>4, <1>5 DEF ideal

cleared(h, B) ==
  [h EXCEPT !.tbl.buckets = emptyBuckets(B),
            !.tbl.ideal_chain_maxlen = ideal(h.tbl.num_items, B),
            !.tbl.nonideal_items = 0]

(* The table before an expansion moves the first item. *)
LEMMA ClearedTable ==
  ASSUME NEW D, NEW C, NEW h \in HashRecord(D, C), NEW B \in Nat \ {0}
  PROVE  IsCleared(cleared(h, B), h, D, B)
<1> DEFINE b == h.tbl.buckets
           n == h.tbl.num_buckets
           i == h.tbl.num_items
           t == h.tbl.tail
           m == h.tbl.ideal_chain_maxlen
           d == h.tbl.nonideal_items
           f == h.tbl.ineff_expands
           x == h.tbl.noexpand
           head == h.head
           hh == h.hh
           e == emptyBuckets(B)
           max == ideal(i, B)
           g0 == record(head, table(b, n, i, t, m, d, f, x), hh)
           g1 == record(head, table(e, n, i, t, m, d, f, x), hh)
           g2 == record(head, table(e, n, i, t, max, d, f, x), hh)
           g3 == record(head, table(e, n, i, t, max, 0, f, x), hh)
<1>1. h = g0
  BY RecordForm
<1>2. /\ b \in [0..(C - 1) -> UT_hash_bucket] /\ n \in Nat \ {0} /\ i \in Nat /\ t \in Link
      /\ m \in Nat /\ d \in Nat /\ f \in Nat /\ x \in BOOLEAN
      /\ head \in Link /\ hh \in [D -> UT_hash_handle]
  BY TypesOf, Zenon DEF FieldTypes
<1>3. cleared(h, B) =
        [[[h EXCEPT !.tbl.buckets = e] EXCEPT !.tbl.ideal_chain_maxlen = max]
         EXCEPT !.tbl.nonideal_items = 0]
  BY Zenon DEF cleared
<1> HIDE DEF b, n, i, t, m, d, f, x, head, hh, e, max
<1>4. cleared(h, B) = g3
  <2>1. [h EXCEPT !.tbl.buckets = e] = g1
    BY <1>1 DEF record, table
  <2>2. [g1 EXCEPT !.tbl.ideal_chain_maxlen = max] = g2
    BY DEF record, table
  <2>3. [g2 EXCEPT !.tbl.nonideal_items = 0] = g3
    BY DEF record, table
  <2> QED
    BY <1>3, <2>1, <2>2, <2>3, Zenon
<1>5. /\ e = [c \in 0..(B - 1) |-> emptyBucket]
      /\ e \in [0..(B - 1) -> UT_hash_bucket]
  BY EmptyBuckets DEF e
<1>6. max \in Nat
  BY <1>2, IdealBounds DEF max
<1>7. g3 \in HashRecord(D, B)
  BY <1>2, <1>5, <1>6, IsRecord
<1>8. /\ g3.head = head /\ g3.hh = hh /\ g3.tbl.buckets = e /\ g3.tbl.num_buckets = n
      /\ g3.tbl.num_items = i /\ g3.tbl.tail = t /\ g3.tbl.ideal_chain_maxlen = max
      /\ g3.tbl.ineff_expands = f /\ g3.tbl.noexpand = x
  BY DEF record, table
<1> HIDE DEF g3
<1> QED
  BY <1>4, <1>5, <1>7, <1>8, Zenon DEF IsCleared, n, i, t, f, x, head, hh, max

(* The table at the end of an expansion. *)
closed(a, ineff) ==
  [a EXCEPT !.tbl.num_buckets = 2 * @,
            !.tbl.ineff_expands = ineff,
            !.tbl.noexpand = @ \/ ineff > 1]

IsClosed(g, h, D, B) ==
  /\ g \in HashRecord(D, B)
  /\ g.head = h.head /\ g.hh = h.hh
  /\ g.tbl.buckets = h.tbl.buckets
  /\ g.tbl.num_buckets = 2 * h.tbl.num_buckets
  /\ g.tbl.num_items = h.tbl.num_items
  /\ g.tbl.tail = h.tbl.tail

(* The table after an expansion has moved the last item. *)
LEMMA ClosedTable ==
  ASSUME NEW D, NEW B, NEW a \in HashRecord(D, B), NEW ineff \in Nat
  PROVE  IsClosed(closed(a, ineff), a, D, B)
<1> DEFINE b == a.tbl.buckets
           n == a.tbl.num_buckets
           i == a.tbl.num_items
           t == a.tbl.tail
           m == a.tbl.ideal_chain_maxlen
           d == a.tbl.nonideal_items
           f == a.tbl.ineff_expands
           x == a.tbl.noexpand
           head == a.head
           hh == a.hh
           n2 == 2 * n
           x2 == x \/ ineff > 1
           g0 == record(head, table(b, n, i, t, m, d, f, x), hh)
           g1 == record(head, table(b, n2, i, t, m, d, f, x), hh)
           g2 == record(head, table(b, n2, i, t, m, d, ineff, x), hh)
           g3 == record(head, table(b, n2, i, t, m, d, ineff, x2), hh)
<1>1. a = g0
  BY RecordForm
<1>2. /\ b \in [0..(B - 1) -> UT_hash_bucket] /\ n \in Nat \ {0} /\ i \in Nat /\ t \in Link
      /\ m \in Nat /\ d \in Nat /\ f \in Nat /\ x \in BOOLEAN
      /\ head \in Link /\ hh \in [D -> UT_hash_handle]
  BY TypesOf, Zenon DEF FieldTypes
<1>3. closed(a, ineff) =
        [[[a EXCEPT !.tbl.num_buckets = n2] EXCEPT !.tbl.ineff_expands = ineff]
         EXCEPT !.tbl.noexpand = x2]
  BY Zenon DEF closed
<1>4. n2 \in Nat \ {0}
  BY <1>2
<1>5. x2 \in BOOLEAN
  OBVIOUS
<1> HIDE DEF b, n, i, t, m, d, f, x, head, hh, n2, x2
<1>6. closed(a, ineff) = g3
  <2>1. [a EXCEPT !.tbl.num_buckets = n2] = g1
    BY <1>1 DEF record, table
  <2>2. [g1 EXCEPT !.tbl.ineff_expands = ineff] = g2
    BY DEF record, table
  <2>3. [g2 EXCEPT !.tbl.noexpand = x2] = g3
    BY DEF record, table
  <2> QED
    BY <1>3, <2>1, <2>2, <2>3, Zenon
<1>7. g3 \in HashRecord(D, B)
  BY <1>2, <1>4, <1>5, IsRecord
<1>8. /\ g3.head = head /\ g3.hh = hh /\ g3.tbl.buckets = b /\ g3.tbl.num_buckets = n2
      /\ g3.tbl.num_items = i /\ g3.tbl.tail = t
  BY DEF record, table
<1> HIDE DEF g3
<1> QED
  BY <1>6, <1>7, <1>8, Zenon DEF IsClosed, b, n, i, t, head, hh, n2

(* The recursive function of HASH_EXPAND_BUCKETS. *)
Moves(g, order, f, n) ==
  f = [i \in 0..n |-> IF i = 0 THEN g ELSE moveItem(f[i - 1], order[i])]

(* The recursion of HASH_EXPAND_BUCKETS has a solution. *)
LEMMA MovesExist ==
  ASSUME NEW g, NEW order, NEW N \in Nat
  PROVE  \E f : Moves(g, order, f, N)
<1> DEFINE T == {n \in 0..N : \E f : Moves(g, order, f, n)}
<1>1. 0 \in T
  <2>1. Moves(g, order, [i \in 0..0 |-> g], 0)
    BY DEF Moves
  <2> QED
    BY <2>1
<1>2. ASSUME NEW n \in 0..(N - 1), n \in T
      PROVE  n + 1 \in T
  <2>1. PICK f : Moves(g, order, f, n)
    BY <1>2
  <2> DEFINE h == [i \in 0..(n + 1) |-> IF i = n + 1 THEN moveItem(f[n], order[n + 1]) ELSE f[i]]
  <2>2. ASSUME NEW i \in 0..(n + 1)
        PROVE  h[i] = IF i = 0 THEN g ELSE moveItem(h[i - 1], order[i])
    <3>1. CASE i = n + 1
      <4>1. i # 0 /\ i - 1 = n /\ n # n + 1 /\ n \in 0..(n + 1) /\ n + 1 \in 0..(n + 1)
        BY <3>1
      <4>2. h[n + 1] = moveItem(f[n], order[n + 1]) /\ h[n] = f[n]
        BY <4>1
      <4> HIDE DEF h
      <4> QED
        BY <3>1, <4>1, <4>2
    <3>2. CASE i # n + 1
      <4>1. i \in 0..n
        BY <3>2
      <4>2. h[i] = f[i]
        BY <3>2
      <4>3. i # 0 => h[i - 1] = f[i - 1]
        BY <4>1
      <4> HIDE DEF h
      <4> QED
        BY <2>1, <4>1, <4>2, <4>3 DEF Moves
    <3> QED
      BY <3>1, <3>2
  <2>3. Moves(g, order, h, n + 1)
    <3>1. h = [i \in 0..(n + 1) |-> h[i]]
      OBVIOUS
    <3> HIDE DEF h
    <3> QED
      BY <2>2, <3>1 DEF Moves
  <2> HIDE DEF h
  <2> QED
    BY <2>3
<1>3. \A n \in 0..N : n \in T
  <2>1. 0 \in Int /\ N \in Int
    OBVIOUS
  <2> HIDE DEF T
  <2> QED
    BY <1>1, <1>2, <2>1, IntervalInduction
<1> QED
  BY <1>3

(* A table of B buckets in which every item of D is in its chain. *)
Sound(hf, h, D, B) ==
  /\ h \in HashRecord(D, B)
  /\ h.tbl.num_buckets = B
  /\ \E chains : ChainsOf(hf, h, B, D, chains)

Roomy(h, B) == \E load, lf : Loads(load, lf, h, B) /\ HasRoom(h, load, B)

(* All links in the order of addition are the same. *)
SameItems(a, h) ==
  /\ a.head = h.head
  /\ prevs(a) = prevs(h)
  /\ nexts(a) = nexts(h)
  /\ a.tbl.num_items = h.tbl.num_items
  /\ a.tbl.tail = h.tbl.tail

(* The counts and multipliers of a table are numbers. *)
LEMMA CountsOf ==
  ASSUME NEW D, NEW B, NEW h \in HashRecord(D, B)
  PROVE  CountsAre(h, B)
<1>1. h.tbl.buckets \in [0..(B - 1) -> UT_hash_bucket]
  BY TypesOf DEF FieldTypes
<1>2. \A b \in 0..(B - 1) : h.tbl.buckets[b] \in UT_hash_bucket
  BY <1>1
<1> QED
  BY <1>2, BucketFields DEF CountsAre

(* An expansion moves every item to its bucket among twice as many.        *)
LEMMA AllMove ==
  ASSUME HasHashes(hashOf), NEW D \in SUBSET Key, NEW B \in Nat \ {0}, NEW g, NEW max \in Nat \ {0},
         2 * g.tbl.num_buckets = B, g.tbl.ideal_chain_maxlen = max,
         Moving(hashOf, g, g, D, B, {}, max),
         NEW order, Lists(order, D), NEW f, Moves(g, order, f, Len(order))
  PROVE  Moving(hashOf, f[Len(order)], g, D, B, D, max)
<1> DEFINE N == Len(order)
           first(n) == {order[i] : i \in 1..n}
           T == {n \in 0..N : Moving(hashOf, f[n], g, D, B, first(n), max)}
<1>0. /\ N \in Nat /\ \A i \in 1..N : order[i] \in D
      /\ \A i, j \in 1..N : order[i] = order[j] => i = j
      /\ \A k \in D : \E i \in 1..N : order[i] = k
  BY DEF Lists, Distinct
<1>1. f[0] = g
  BY <1>0 DEF Moves
<1>2. \A n \in 1..N : f[n] = moveItem(f[n - 1], order[n])
  <2> SUFFICES ASSUME NEW n \in 1..N
               PROVE  f[n] = moveItem(f[n - 1], order[n])
    OBVIOUS
  <2>1. n \in 0..N /\ n # 0
    BY <1>0
  <2> HIDE DEF N
  <2> QED
    BY <2>1 DEF Moves, N
<1> HIDE DEF N
<1>3. 0 \in T
  <2>1. first(0) = {}
    OBVIOUS
  <2>2. 0 \in 0..N
    BY <1>0
  <2>3. Moving(hashOf, f[0], g, D, B, first(0), max)
    BY <1>1, <2>1, Zenon
  <2> HIDE DEF first
  <2> QED
    BY <2>2, <2>3
<1>4. ASSUME NEW n \in 0..(N - 1), n \in T
      PROVE  n + 1 \in T
  <2> DEFINE m == n + 1
             S == first(n)
             k == order[m]
  <2>1. m \in 1..N /\ m - 1 = n /\ m \in 0..N
    BY <1>0
  <2> HIDE DEF m
  <2>2. S \in SUBSET D
    BY <1>0
  <2>3. k \in D /\ k \notin S
    <3>1. ASSUME NEW i \in 1..n, order[i] = k
          PROVE  FALSE
      <4>1. i \in 1..N /\ i # m
        BY <1>0, <2>1
      <4> QED
        BY <1>0, <2>1, <3>1, <4>1
    <3> QED
      BY <1>0, <2>1, <3>1
  <2>4. first(m) = S \union {k}
    <3>1. \A i : i \in 1..m <=> (i \in 1..n \/ i = m)
      BY <2>1
    <3> QED
      BY <3>1
  <2>5. Moving(hashOf, f[n], g, D, B, S, max)
    BY <1>4
  <2> HIDE DEF S, k, first
  <2>6. Moving(hashOf, moveItem(f[n], k), g, D, B, S \union {k}, max)
    BY <2>2, <2>3, <2>5, MoveItem
  <2>7. f[m] = moveItem(f[n], k)
    BY <1>2, <2>1 DEF k
  <2>8. Moving(hashOf, f[m], g, D, B, first(m), max)
    BY <2>4, <2>6, <2>7
  <2> QED
    BY <2>1, <2>8 DEF m
<1>5. \A n \in 0..N : n \in T
  <2>1. 0 \in Int /\ N \in Int
    BY <1>0
  <2> HIDE DEF T
  <2> QED
    BY <1>3, <1>4, <2>1, IntervalInduction
<1>6. first(N) = D
  BY <1>0
<1>7. N \in 0..N
  BY <1>0
<1> QED
  BY <1>5, <1>6, <1>7 DEF N

(* As many items are listed as there are. *)
LEMMA ListsAll ==
  ASSUME NEW K \in SUBSET Key, NEW s, Lists(s, K)
  PROVE  s \in Seq(Key) /\ Distinct(s) /\ ToSet(s) = K /\ Len(s) = Cardinality(K)
<1>1. /\ s \in Seq(K) /\ Distinct(s)
      /\ \A k \in K : \E i \in 1..Len(s) : s[i] = k
  BY DEF Lists
<1>2. s \in Seq(Key)
  BY <1>1, SeqMonotonic
<1>3. DOMAIN s = 1..Len(s) /\ \A i \in 1..Len(s) : s[i] \in K
  BY <1>1
<1>4. ToSet(s) = K
  BY <1>1, <1>3 DEF ToSet
<1> QED
  BY <1>1, <1>2, <1>4, DistinctLength

(* A doubled table is sound, and has room again. *)
LEMMA Expanded ==
  ASSUME HasHashes(hashOf), NEW D \in SUBSET Key, NEW B \in Nat \ {0}, NEW h,
         Sound(hashOf, h, D, B), h.tbl.num_items > 0,
         NEW items, Lists(items, D), Len(items) = h.tbl.num_items,
         NEW load, NEW lf, Loads(load, lf, h, B), CountsFit(h, load, B)
  PROVE  /\ Sound(hashOf, HASH_EXPAND_BUCKETS(h), D, 2 * B)
         /\ Roomy(HASH_EXPAND_BUCKETS(h), 2 * B)
         /\ SameItems(HASH_EXPAND_BUCKETS(h), h)
<1> DEFINE C == 2 * B
           nb == h.tbl.num_buckets
           order == bucketOrder(h, nb)
           N == Len(order)
           g == cleared(h, 2 * nb)
           max == ideal(h.tbl.num_items, 2 * nb)
           f == CHOOSE x : Moves(g, order, x, N)
           all == f[N]
           ineff == IF all.tbl.nonideal_items > h.tbl.num_items \div 2
                    THEN h.tbl.ineff_expands + 1 ELSE 0
           e == HASH_EXPAND_BUCKETS(h)
<1>1. /\ h \in HashRecord(D, B) /\ h.tbl.num_buckets = B
      /\ \E chains : ChainsOf(hashOf, h, B, D, chains)
  BY DEF Sound
<1>2. PICK chains : ChainsOf(hashOf, h, B, D, chains)
  BY <1>1
<1>3. e = closed(all, ineff)
  BY Zenon DEF HASH_EXPAND_BUCKETS, Moves, cleared, bucketOrder, closed
<1>a. /\ order = bucketOrder(h, B) /\ g = cleared(h, C)
      /\ max = ideal(h.tbl.num_items, C)
  BY <1>1
<1>4. Lists(order, D) /\ \E L : Sums(L, h, B, N)
  BY <1>2, <1>a, BucketsHaveAll
<1> HIDE DEF order, e
<1>5. N \in Nat
  BY <1>4 DEF Lists
<1>6. Moves(g, order, f, N)
  <2> HIDE DEF g, N
  <2> QED
    BY <1>5, MovesExist
<1> HIDE DEF f, N
<1>7. N = h.tbl.num_items /\ h.tbl.num_items \in Nat
  <2>1. Len(order) = Cardinality(D) /\ Len(items) = Cardinality(D)
    BY <1>4, ListsAll
  <2> QED
    BY <1>5, <2>1 DEF N
<1>8. PICK L : Sums(L, h, B, N)
  BY <1>4
<1>9. CountsAre(h, B)
  BY <1>1, CountsOf
<1>10. N <= C * Threshold
  BY <1>8, <1>9, FewItems
<1>11. C \in Nat \ {0} /\ C * Threshold \in Nat
  BY HashAssumption
<1> HIDE DEF C
<1>12. /\ max \in Nat \ {0} /\ N <= C * max /\ max <= Threshold
  <2> HIDE DEF max
  <2>1. Threshold \in Nat
    BY HashAssumption
  <2>2. max \in Nat /\ N <= C * max
    BY <1>7, <1>a, <1>11, IdealBounds
  <2>3. max > 0
    BY <1>7, <1>a, <1>11, IdealBounds
  <2>4. max <= Threshold
    BY <1>7, <1>10, <1>a, <1>11, <2>1, IdealBounds
  <2> QED
    BY <2>2, <2>3, <2>4
<1>13. IsCleared(g, h, D, C)
  BY <1>1, <1>a, <1>11, ClearedTable
<1> HIDE DEF g, max, nb
<1>14. /\ g \in HashRecord(D, C) /\ g.head = h.head /\ g.hh = h.hh
       /\ g.tbl.buckets = [b \in 0..(C - 1) |-> emptyBucket]
       /\ g.tbl.num_buckets = B /\ g.tbl.num_items = h.tbl.num_items
       /\ g.tbl.tail = h.tbl.tail /\ g.tbl.ideal_chain_maxlen = max
  BY <1>1, <1>13, <1>a, Zenon DEF IsCleared
<1>15. Moving(hashOf, g, g, D, C, {}, max)
  <2> DEFINE none == [b \in 0..(C - 1) |-> <<>>]
  <2>1. ASSUME NEW b \in 0..(C - 1)
        PROVE  g.tbl.buckets[b].hh_head = NULL /\ g.tbl.buckets[b].count = 0
               /\ g.tbl.buckets[b].expand_mult = 0
    BY <1>14 DEF emptyBucket
  <2>2. ChainsOf(hashOf, g, C, {}, none)
    <3> SUFFICES ASSUME NEW b \in 0..(C - 1)
                 PROVE  IsChain(hashOf, g, C, {}, b, none[b])
      BY Zenon DEF ChainsOf
    <3>1. none[b] = <<>> /\ Len(<<>>) = 0
      OBVIOUS
    <3>2. Lists(<<>>, InBucket(hashOf, {}, C, b))
      BY DEF Lists, Distinct, InBucket
    <3>3. Linked(<<>>, NULL, hhPrevs(g), hhNexts(g))
      BY DEF Linked
    <3> HIDE DEF none
    <3> QED
      BY <2>1, <3>1, <3>2, <3>3, Zenon DEF IsChain
  <2>3. MultsAre(g, C, max)
    BY <1>12, <2>1 DEF MultsAre
  <2>4. Keeps(g, g)
    BY DEF Keeps
  <2> HIDE DEF none
  <2> QED
    BY <1>14, <2>2, <2>3, <2>4 DEF Moving
<1>16. Moving(hashOf, all, g, D, C, D, max)
  <2>1. 2 * g.tbl.num_buckets = C
    BY <1>14 DEF C
  <2>2. Moves(g, order, f, Len(order))
    BY <1>6 DEF N
  <2>3. Moving(hashOf, f[Len(order)], g, D, C, D, max)
    BY <1>4, <1>11, <1>12, <1>14, <1>15, <2>1, <2>2, AllMove
  <2> QED
    BY <2>3 DEF N
<1> HIDE DEF all
<1>17. PICK moved : ChainsOf(hashOf, all, C, D, moved)
  BY <1>16 DEF Moving
<1>18. /\ all \in HashRecord(D, C) /\ Keeps(all, g) /\ MultsAre(all, C, max)
  BY <1>16 DEF Moving
<1>19. ineff \in Nat
  <2>1. h.tbl.ineff_expands \in Nat
    BY <1>1, TypesOf DEF FieldTypes
  <2> QED
    BY <2>1
<1> HIDE DEF ineff
<1>20. IsClosed(e, all, D, C)
  BY <1>3, <1>18, <1>19, ClosedTable
<1>21. /\ e \in HashRecord(D, C) /\ e.head = all.head /\ e.hh = all.hh
       /\ e.tbl.buckets = all.tbl.buckets
       /\ e.tbl.num_buckets = 2 * all.tbl.num_buckets
       /\ e.tbl.num_items = all.tbl.num_items
       /\ e.tbl.tail = all.tbl.tail
  BY <1>20, Zenon DEF IsClosed
<1>22. ChainsOf(hashOf, e, C, D, moved)
  BY <1>17, <1>21, SameChains
<1>23. e.tbl.num_buckets = C
  BY <1>14, <1>18, <1>21 DEF Keeps, C
<1>24. Sound(hashOf, e, D, C)
  BY <1>21, <1>22, <1>23 DEF Sound
<1>25. SameItems(e, h)
  <2>1. prevs(e) = prevs(all) /\ nexts(e) = nexts(all)
    BY <1>21 DEF prevs, nexts
  <2>2. prevs(g) = prevs(h) /\ nexts(g) = nexts(h)
    BY <1>14 DEF prevs, nexts
  <2> QED
    BY <1>14, <1>18, <1>21, <2>1, <2>2, Zenon DEF Keeps, SameItems
<1>26. Roomy(e, C)
  <2> DEFINE load2 == quotients(e, C, max)
  <2>1. CountsAre(e, C)
    BY <1>21, CountsOf
  <2>2. MultsAre(e, C, max)
    BY <1>18, <1>21 DEF MultsAre
  <2>3. PICK L2 : Sums(L2, e, C, N)
    <3>1. Lists(bucketOrder(e, C), D) /\ \E L2 : Sums(L2, e, C, Len(bucketOrder(e, C)))
      BY <1>11, <1>22, BucketsHaveAll
    <3>2. Len(bucketOrder(e, C)) = N
      BY <1>4, <3>1, ListsAll DEF N
    <3> QED
      BY <3>1, <3>2
  <2>4. \E lf2 : Loads(load2, lf2, e, C)
    BY <1>11, <1>12, <2>1, <2>2, <2>3, NewLoads
  <2>5. HasRoom(e, load2, C)
    BY <1>11, <1>12, <2>1, <2>2, NewRoom
  <2> HIDE DEF load2
  <2> QED
    BY <2>4, <2>5 DEF Roomy
<1> QED
  BY <1>24, <1>25, <1>26 DEF e, C

(* The items of the table in the order they were added. *)
ItemsAre(h, D, items) ==
  /\ Lists(items, D)
  /\ Len(items) > 0
  /\ Linked(items, h.head, prevs(h), nexts(h))
  /\ h.tbl.tail = items[Len(items)]
  /\ h.tbl.num_items = Len(items)

Table(hf, h, D, B, items) ==
  /\ Sound(hf, h, D, B)
  /\ ItemsAre(h, D, items)
  /\ ~h.tbl.noexpand => Roomy(h, B)

(* The table with the items D: none, or one that is sound. *)
IsTable(hf, h, D) ==
  IF D = {} THEN h = emptyTable
  ELSE \E B \in Nat \ {0} : \E items : Table(hf, h, D, B, items)

(* k is already linked as the last item, and not yet in its bucket. *)
Counted(hf, h, D, k, B, items) ==
  /\ h \in HashRecord(D \union {k}, B)
  /\ h.tbl.num_buckets = B
  /\ \E chains : ChainsOf(hf, h, B, D, chains)
  /\ ItemsAre(h, D \union {k}, items)
  /\ ~h.tbl.noexpand => Roomy(h, B)

(* The items in the order of addition depend on their links only. *)
LEMMA SameItemsAre ==
  ASSUME NEW a, NEW h, NEW D, NEW items, SameItems(a, h), ItemsAre(h, D, items)
  PROVE  ItemsAre(a, D, items)
  BY Zenon DEF SameItems, ItemsAre

(* The loads depend on the multipliers only. *)
LEMMA SameLoads ==
  ASSUME NEW a, NEW h, NEW B, NEW load, NEW lf, Loads(load, lf, h, B),
         \A c \in 0..(B - 1) : a.tbl.buckets[c].expand_mult = h.tbl.buckets[c].expand_mult
  PROVE  Loads(load, lf, a, B)
<1>1. \A c \in 0..(B - 1) : a.tbl.buckets[c].expand_mult <= load[c]
  <2> SUFFICES ASSUME NEW c \in 0..(B - 1)
               PROVE  a.tbl.buckets[c].expand_mult <= load[c]
    OBVIOUS
  <2>1. h.tbl.buckets[c].expand_mult <= load[c]
    BY DEF Loads
  <2>2. a.tbl.buckets[c].expand_mult = h.tbl.buckets[c].expand_mult
    OBVIOUS
  <2> QED
    BY <2>1, <2>2, Zenon
<1>2. /\ load \in [0..(B - 1) -> Nat] /\ lf \in [0..B -> Nat] /\ lf[0] = 0 /\ lf[B] <= B
      /\ \A i \in 1..B : lf[i] >= lf[i - 1] + load[i - 1]
  BY Zenon DEF Loads
<1> QED
  BY <1>1, <1>2, Zenon DEF Loads

(* HASH_ADD_TO_BKT keeps the table sound, whether or not it expands it. *)
LEMMA ToBucket ==
  ASSUME HasHashes(hashOf), NEW D \in SUBSET Key, NEW k \in Key \ D, NEW B \in Nat \ {0},
         NEW h, NEW items, Counted(hashOf, h, D, k, B, items), NEW b, b = hashOf[k] % B
  PROVE  IsTable(hashOf, HASH_ADD_TO_BKT(h, b, k), D \union {k})
<1> DEFINE a == atHead(h, b, k)
           E == D \union {k}
           bucket == a.tbl.buckets[b]
           r == HASH_ADD_TO_BKT(h, b, k)
<1>1. r = IF isAtCapacity(bucket) /\ ~h.tbl.noexpand THEN HASH_EXPAND_BUCKETS(a) ELSE a
  BY Zenon DEF HASH_ADD_TO_BKT
<1>2. /\ h \in HashRecord(E, B) /\ h.tbl.num_buckets = B /\ ItemsAre(h, E, items)
      /\ ~h.tbl.noexpand => Roomy(h, B)
  BY DEF Counted
<1>3. PICK chains : ChainsOf(hashOf, h, B, D, chains)
  BY DEF Counted
<1>4. E \in SUBSET Key /\ D \in SUBSET E /\ k \in E \ D /\ E # {}
  OBVIOUS
<1>5. b \in 0..(B - 1)
  BY BucketExists
<1> HIDE DEF E
<1>6. IsAtHead(a, h, E, B, b, k) /\ \E more : ChainsOf(hashOf, a, B, D \union {k}, more)
  BY <1>2, <1>3, <1>4, AtHead
<1> HIDE DEF a, r
<1>7. PICK more : ChainsOf(hashOf, a, B, E, more)
  BY <1>6 DEF E
<1>8. /\ a \in HashRecord(E, B) /\ Keeps(a, h)
      /\ bucket.count = h.tbl.buckets[b].count + 1
      /\ \A c \in 0..(B - 1) : a.tbl.buckets[c].expand_mult = h.tbl.buckets[c].expand_mult
      /\ \A c \in (0..(B - 1)) \ {b} : a.tbl.buckets[c] = h.tbl.buckets[c]
  BY <1>6, Zenon DEF IsAtHead
<1>9. SameItems(a, h) /\ a.tbl.num_buckets = B /\ a.tbl.noexpand = h.tbl.noexpand
  BY <1>2, <1>8, Zenon DEF Keeps, SameItems
<1>10. ItemsAre(a, E, items)
  BY <1>2, <1>9, SameItemsAre
<1>11. Sound(hashOf, a, E, B)
  BY <1>7, <1>8, <1>9 DEF Sound
<1>12. CountsAre(h, B) /\ CountsAre(a, B)
  BY <1>2, <1>8, CountsOf
<1>13. Threshold \in Nat \ {0}
  BY HashAssumption
<1>14. CASE isAtCapacity(bucket) /\ ~h.tbl.noexpand
  <2>1. r = HASH_EXPAND_BUCKETS(a)
    BY <1>1, <1>14
  <2>2. PICK load, lf : Loads(load, lf, h, B) /\ HasRoom(h, load, B)
    BY <1>2, <1>14 DEF Roomy
  <2>3. Loads(load, lf, a, B)
    BY <1>8, <2>2, SameLoads
  <2>4. CountsFit(a, load, B)
    <3> SUFFICES ASSUME NEW c \in 0..(B - 1)
                 PROVE  a.tbl.buckets[c].count <= (load[c] + 1) * Threshold
      BY DEF CountsFit
    <3> DEFINE x == a.tbl.buckets[c].count
               y == h.tbl.buckets[c].count
               z == (load[c] + 1) * Threshold
    <3>1. x \in Nat /\ y \in Nat
      BY <1>12 DEF CountsAre
    <3>2. y < z
      BY <2>2 DEF HasRoom
    <3>3. load[c] \in Nat
      BY <2>2 DEF Loads
    <3>4. z \in Nat
      BY <1>13, <3>3
    <3>5. x = y \/ x = y + 1
      BY <1>8
    <3> HIDE DEF x, y, z
    <3>6. x <= z
      BY <3>1, <3>2, <3>4, <3>5
    <3> QED
      BY <3>6 DEF x, z
  <2>5. Lists(items, E) /\ Len(items) = a.tbl.num_items /\ a.tbl.num_items > 0
    BY <1>10 DEF ItemsAre
  <2> DEFINE e == HASH_EXPAND_BUCKETS(a)
             C == 2 * B
  <2>6. Sound(hashOf, e, E, C) /\ Roomy(e, C) /\ SameItems(e, a)
    <3> HIDE DEF e
    <3> QED
      BY <1>4, <1>11, <2>3, <2>4, <2>5, Expanded DEF e
  <2>7. C \in Nat \ {0}
    OBVIOUS
  <2> HIDE DEF e, C
  <2>8. ItemsAre(e, E, items)
    BY <1>10, <2>6, SameItemsAre
  <2>9. Table(hashOf, e, E, C, items)
    BY <2>6, <2>8, Zenon DEF Table
  <2> QED
    BY <1>4, <2>1, <2>7, <2>9 DEF IsTable, e, r, E
<1>15. CASE ~(isAtCapacity(bucket) /\ ~h.tbl.noexpand)
  <2>1. r = a
    BY <1>1, <1>15
  <2>2. ASSUME ~a.tbl.noexpand
        PROVE  Roomy(a, B)
    <3>1. ~h.tbl.noexpand
      BY <1>9, <2>2, Zenon
    <3>2. ~isAtCapacity(bucket)
      BY <1>15, <3>1, Zenon
    <3>3. PICK load, lf : Loads(load, lf, h, B) /\ HasRoom(h, load, B)
      BY <1>2, <3>1 DEF Roomy
    <3>4. Loads(load, lf, a, B)
      BY <1>8, <3>3, SameLoads
    <3>5. HasRoom(a, load, B)
      <4> SUFFICES ASSUME NEW c \in 0..(B - 1)
                   PROVE  /\ a.tbl.buckets[c].count < (load[c] + 1) * Threshold
                          /\ a.tbl.buckets[c].count <= (a.tbl.buckets[c].expand_mult + 1) * Threshold
        BY Zenon DEF HasRoom
      <4>1. CASE c = b
        <5> DEFINE x == a.tbl.buckets[c].count
                   m == a.tbl.buckets[c].expand_mult
                   l == load[c]
                   p == m + 1
                   q == l + 1
        <5>1. x \in Nat /\ m \in Nat /\ l \in Nat /\ m <= l
          BY <1>12, <3>4 DEF CountsAre, Loads
        <5>2. ~(x >= p * Threshold)
          BY <3>2, <4>1 DEF isAtCapacity
        <5>3. p \in Nat /\ q \in Nat /\ p <= q
          BY <5>1
        <5> HIDE DEF x, m, l, p, q
        <5>4. p * Threshold <= q * Threshold /\ p * Threshold \in Nat /\ q * Threshold \in Nat
          BY <1>13, <5>3
        <5>5. x < q * Threshold /\ x <= p * Threshold
          BY <5>1, <5>2, <5>4
        <5> QED
          BY <5>5 DEF x, m, l, p, q
      <4>2. CASE c # b
        <5>1. a.tbl.buckets[c] = h.tbl.buckets[c]
          BY <1>8, <4>2
        <5> QED
          BY <3>3, <5>1 DEF HasRoom
      <4> QED
        BY <4>1, <4>2
    <3> QED
      BY <3>4, <3>5 DEF Roomy
  <2>3. Table(hashOf, a, E, B, items)
    BY <1>10, <1>11, <2>2, Zenon DEF Table
  <2> QED
    BY <1>4, <2>1, <2>3 DEF IsTable, r, E
<1> QED
  BY <1>14, <1>15

(* Nor do the chains depend on the links of other items. *)
LEMMA KeptChains ==
  ASSUME NEW hf, NEW B, NEW S, NEW a, NEW m, NEW chains,
         \A j \in S : hhPrevs(a)[j] = hhPrevs(m)[j] /\ hhNexts(a)[j] = hhNexts(m)[j],
         \A b \in 0..(B - 1) :
           /\ a.tbl.buckets[b].hh_head = m.tbl.buckets[b].hh_head
           /\ a.tbl.buckets[b].count = m.tbl.buckets[b].count,
         ChainsOf(hf, m, B, S, chains)
  PROVE  ChainsOf(hf, a, B, S, chains)
<1> SUFFICES ASSUME NEW b \in 0..(B - 1)
             PROVE  IsChain(hf, a, B, S, b, chains[b])
  BY DEF ChainsOf
<1> DEFINE s == chains[b]
           head == m.tbl.buckets[b].hh_head
<1>1. /\ Lists(s, InBucket(hf, S, B, b)) /\ Linked(s, head, hhPrevs(m), hhNexts(m))
      /\ m.tbl.buckets[b].count = Len(s)
  BY Zenon DEF ChainsOf, IsChain
<1>2. \A i \in 1..Len(s) : s[i] \in S
  <2>1. s \in Seq(InBucket(hf, S, B, b))
    BY <1>1 DEF Lists
  <2> HIDE DEF s
  <2>2. \A i \in 1..Len(s) : s[i] \in InBucket(hf, S, B, b)
    BY <2>1
  <2> QED
    BY <2>2 DEF InBucket
<1>3. Linked(s, head, hhPrevs(a), hhNexts(a))
  <2> HIDE DEF s, head
  <2> QED
    BY <1>1, <1>2, Zenon DEF Linked
<1>4. a.tbl.buckets[b].hh_head = head /\ a.tbl.buckets[b].count = Len(s)
  BY <1>1
<1> QED
  BY <1>1, <1>3, <1>4, Zenon DEF IsChain

(* Empty buckets have no items. *)
LEMMA EmptyChains ==
  ASSUME NEW hf, NEW h, NEW B \in Nat,
         \A b \in 0..(B - 1) :
           h.tbl.buckets[b].hh_head = NULL /\ h.tbl.buckets[b].count = 0
  PROVE  \E chains : ChainsOf(hf, h, B, {}, chains)
<1> DEFINE none == [b \in 0..(B - 1) |-> <<>>]
<1>1. ChainsOf(hf, h, B, {}, none)
  <2> SUFFICES ASSUME NEW b \in 0..(B - 1)
               PROVE  IsChain(hf, h, B, {}, b, none[b])
    BY Zenon DEF ChainsOf
  <2>1. none[b] = <<>> /\ Len(<<>>) = 0
    OBVIOUS
  <2>2. Lists(<<>>, InBucket(hf, {}, B, b))
    BY DEF Lists, Distinct, InBucket
  <2>3. Linked(<<>>, NULL, hhPrevs(h), hhNexts(h))
    BY DEF Linked
  <2>4. h.tbl.buckets[b].hh_head = NULL /\ h.tbl.buckets[b].count = 0
    OBVIOUS
  <2> HIDE DEF none
  <2> QED
    BY <2>1, <2>2, <2>3, <2>4, Zenon DEF IsChain
<1> HIDE DEF none
<1> QED
  BY <1>1

(* HASH_ADD until the item is to go to its bucket. *)
lastOf(h) == IF h.head = NULL THEN NULL ELSE h.tbl.tail

newHandle(last) == [prev |-> last, next |-> NULL, hh_prev |-> NULL, hh_next |-> NULL]

handlesWith(h, k) ==
  [i \in DOMAIN h.hh \union {k} |->
    CASE i = k -> newHandle(lastOf(h))
      [] i = lastOf(h) -> [h.hh[i] EXCEPT !.next = k]
      [] OTHER -> h.hh[i]]

linkedWith(h, k) ==
  IF h.head = NULL
  THEN [head |-> k, tbl |-> HASH_MAKE_TABLE(k), hh |-> handlesWith(h, k)]
  ELSE [h EXCEPT !.hh = handlesWith(h, k), !.tbl.tail = k]

countedWith(h, k) == [linkedWith(h, k) EXCEPT !.tbl.num_items = linkedWith(h, k).tbl.num_items + 1]

(* HASH_ADD is its parts. *)
LEMMA AddToBucket ==
  ASSUME NEW h, NEW k
  PROVE  HASH_ADD(h, k)
           = HASH_ADD_TO_BKT(countedWith(h, k), HASH_TO_BKT(k, countedWith(h, k).tbl.num_buckets), k)
  BY Zenon DEF HASH_ADD, countedWith, linkedWith, handlesWith, newHandle, lastOf

(* The first item makes a table. *)
firstTable(k) ==
  record(k, table(emptyBuckets(InitialBuckets), InitialBuckets, 1, k, 0, 0, 0, FALSE),
         [i \in {k} |-> newHandle(NULL)])

(* Adding the first item. *)
LEMMA FirstItem ==
  ASSUME HasHashes(hashOf), NEW k \in Key
  PROVE  IsTable(hashOf, HASH_ADD(emptyTable, k), {k})
<1> DEFINE c == firstTable(k)
           B == InitialBuckets
           items == <<k>>
           f == emptyBuckets(B)
           hh == [i \in {k} |-> newHandle(NULL)]
           counted == countedWith(emptyTable, k)
<1>1. k # NULL /\ B \in Nat \ {0} /\ Threshold \in Nat \ {0}
  BY HashAssumption
<1>2. emptyTable.head = NULL /\ DOMAIN emptyTable.hh = {}
  BY DEF emptyTable
<1>3. handlesWith(emptyTable, k) = hh
  <2>1. lastOf(emptyTable) = NULL
    BY <1>2 DEF lastOf
  <2> QED
    BY <1>1, <1>2, <2>1 DEF handlesWith
<1>4. HASH_ADD(emptyTable, k)
        = HASH_ADD_TO_BKT(counted, HASH_TO_BKT(k, counted.tbl.num_buckets), k)
  BY AddToBucket, Zenon
<1>5. counted = c
  <2> DEFINE x == FALSE
             r == record(k, table(f, B, 0, k, 0, 0, 0, x), hh)
             s == record(k, table(f, B, 1, k, 0, 0, 0, x), hh)
  <2>1. linkedWith(emptyTable, k) = r
    BY <1>2, <1>3, Zenon DEF linkedWith, HASH_MAKE_TABLE, record, table
  <2>2. c = s
    BY Zenon DEF firstTable
  <2> HIDE DEF f, hh, x, c
  <2>3. r.tbl.num_items + 1 = 1
    BY DEF record, table
  <2>4. [r EXCEPT !.tbl.num_items = 1] = s
    BY DEF record, table
  <2> HIDE DEF r, s
  <2> QED
    BY <2>1, <2>2, <2>3, <2>4, Zenon DEF countedWith
<1> HIDE DEF counted
<1>6. /\ c.head = k /\ c.hh = hh /\ c.tbl.buckets = f /\ c.tbl.num_buckets = B
      /\ c.tbl.num_items = 1 /\ c.tbl.tail = k
  BY DEF firstTable, record, table
<1>7. hh \in [{k} -> UT_hash_handle]
  BY DEF newHandle, UT_hash_handle, Link
<1>8. f = [b \in 0..(B - 1) |-> emptyBucket] /\ f \in [0..(B - 1) -> UT_hash_bucket]
  BY <1>1, EmptyBuckets
<1>9. c \in HashRecord({k}, B)
  <2> HIDE DEF hh, f
  <2>1. k \in Link /\ 0 \in Nat /\ 1 \in Nat /\ FALSE \in BOOLEAN
    BY DEF Link
  <2>2. c = record(k, table(f, B, 1, k, 0, 0, 0, FALSE), hh)
    BY DEF firstTable, f, hh
  <2> HIDE DEF c
  <2> QED
    BY <1>1, <1>7, <1>8, <2>1, <2>2, IsRecord
<1> HIDE DEF c
<1>10. ASSUME NEW b \in 0..(B - 1)
       PROVE  /\ c.tbl.buckets[b].hh_head = NULL /\ c.tbl.buckets[b].count = 0
              /\ c.tbl.buckets[b].expand_mult = 0
  BY <1>6, <1>8 DEF emptyBucket
<1>11. \E chains : ChainsOf(hashOf, c, B, {}, chains)
  BY <1>1, <1>10, EmptyChains
<1>12. ItemsAre(c, {k}, items)
  <2>1. Lists(items, {k}) /\ Len(items) = 1 /\ items[1] = k
    BY DEF Lists, Distinct
  <2>2. prevs(c)[k] = NULL /\ nexts(c)[k] = NULL
    BY <1>6 DEF prevs, nexts, newHandle
  <2>3. Linked(items, k, prevs(c), nexts(c))
    BY <2>1, <2>2 DEF Linked
  <2> HIDE DEF items
  <2> QED
    BY <1>6, <2>1, <2>3 DEF ItemsAre
<1>13. Roomy(c, B)
  <2> DEFINE load == [b \in 0..(B - 1) |-> 0]
             lf == [i \in 0..B |-> 0]
  <2>1. Loads(load, lf, c, B)
    <3>1. \A b \in 0..(B - 1) : c.tbl.buckets[b].expand_mult <= load[b]
      BY <1>10
    <3>2. /\ load \in [0..(B - 1) -> Nat] /\ lf \in [0..B -> Nat] /\ lf[0] = 0 /\ lf[B] <= B
      BY <1>1
    <3>3. \A i \in 1..B : lf[i] >= lf[i - 1] + load[i - 1]
      BY <1>1
    <3> HIDE DEF load, lf
    <3> QED
      BY <3>1, <3>2, <3>3 DEF Loads
  <2>2. HasRoom(c, load, B)
    BY <1>1, <1>10 DEF HasRoom
  <2> HIDE DEF load, lf
  <2> QED
    BY <2>1, <2>2 DEF Roomy
<1>14. Counted(hashOf, c, {}, k, B, items)
  <2>1. {} \union {k} = {k}
    OBVIOUS
  <2> HIDE DEF items
  <2> QED
    BY <1>6, <1>9, <1>11, <1>12, <1>13, <2>1 DEF Counted
<1> DEFINE bkt == HASH_TO_BKT(k, c.tbl.num_buckets)
<1>15. bkt = hashOf[k] % B
  BY <1>6 DEF HASH_TO_BKT, hashv
<1> HIDE DEF bkt, items
<1>16. IsTable(hashOf, HASH_ADD_TO_BKT(c, bkt, k), {} \union {k})
  BY <1>1, <1>14, <1>15, ToBucket
<1>17. {} \union {k} = {k}
  OBVIOUS
<1> QED
  BY <1>4, <1>5, <1>16, <1>17, Zenon DEF bkt

(* Adding any other item. *)
LEMMA NextItem ==
  ASSUME HasHashes(hashOf), NEW D \in SUBSET Key, NEW k \in Key \ D, NEW B \in Nat \ {0},
         NEW h, NEW items, Table(hashOf, h, D, B, items)
  PROVE  IsTable(hashOf, HASH_ADD(h, k), D \union {k})
<1> DEFINE b == h.tbl.buckets
           n == h.tbl.num_buckets
           i == h.tbl.num_items
           t == h.tbl.tail
           m == h.tbl.ideal_chain_maxlen
           d == h.tbl.nonideal_items
           f == h.tbl.ineff_expands
           x == h.tbl.noexpand
           head == h.head
           hh == h.hh
           hh2 == handlesWith(h, k)
           j == i + 1
           g0 == record(head, table(b, n, i, t, m, d, f, x), hh)
           g1 == record(head, table(b, n, i, t, m, d, f, x), hh2)
           g2 == record(head, table(b, n, i, k, m, d, f, x), hh2)
           g3 == record(head, table(b, n, j, k, m, d, f, x), hh2)
           E == D \union {k}
<1>1. /\ Sound(hashOf, h, D, B) /\ ItemsAre(h, D, items)
      /\ ~h.tbl.noexpand => Roomy(h, B)
  BY Zenon DEF Table
<1>2. h \in HashRecord(D, B) /\ n = B
  BY <1>1 DEF Sound
<1>3. PICK chains : ChainsOf(hashOf, h, B, D, chains)
  BY <1>1 DEF Sound
<1>4. /\ Lists(items, D) /\ Len(items) > 0 /\ Linked(items, h.head, prevs(h), nexts(h))
      /\ t = items[Len(items)] /\ i = Len(items)
  BY <1>1 DEF ItemsAre
<1>5. /\ items \in Seq(D) /\ Len(items) \in Nat /\ Len(items) # 0
      /\ \A y \in 1..Len(items) : items[y] \in D
      /\ \A y, z \in 1..Len(items) : items[y] = items[z] => y = z
  BY <1>4 DEF Lists, Distinct
<1>6. NULL \notin Key
  BY HashAssumption
<1>7. t \in D /\ head # NULL /\ k # t /\ k \in Link
  <2>1. Len(items) \in 1..Len(items) /\ 1 \in 1..Len(items)
    BY <1>5
  <2>2. head = items[1]
    BY <1>4, <1>5 DEF Linked
  <2> QED
    BY <1>4, <1>5, <1>6, <2>1, <2>2 DEF Link
<1>8. lastOf(h) = t
  BY <1>7 DEF lastOf
<1>9. h = g0
  BY <1>2, RecordForm
<1>10. /\ b \in [0..(B - 1) -> UT_hash_bucket] /\ n \in Nat \ {0} /\ i \in Nat /\ t \in Link
       /\ m \in Nat /\ d \in Nat /\ f \in Nat /\ x \in BOOLEAN
       /\ head \in Link /\ hh \in [D -> UT_hash_handle]
  BY <1>2, TypesOf, Zenon DEF FieldTypes
<1>11. linkedWith(h, k) = [[h EXCEPT !.hh = hh2] EXCEPT !.tbl.tail = k]
  BY <1>7, Zenon DEF linkedWith
<1>12. j \in Nat /\ E \in SUBSET Key
  BY <1>10
<1>13. hh2 \in [E -> UT_hash_handle]
  <2> DEFINE H(y) == CASE y = k -> newHandle(t)
                       [] y = t -> [hh[y] EXCEPT !.next = k]
                       [] OTHER -> hh[y]
  <2>1. hh2 = [y \in E |-> H(y)]
    BY <1>8, <1>10 DEF handlesWith
  <2>2. ASSUME NEW y \in E
        PROVE  H(y) \in UT_hash_handle
    <3>1. CASE y = k
      BY <1>7, <1>10, <3>1 DEF newHandle, UT_hash_handle, Link
    <3>2. CASE y = t /\ y # k
      <4>1. hh[y] \in UT_hash_handle
        BY <1>10, <3>2
      <4>2. [hh[y] EXCEPT !.next = k] \in UT_hash_handle
        <5> DEFINE z == hh[y]
        <5> HIDE DEF z, hh
        <5> QED
          BY <1>7, <4>1 DEF UT_hash_handle, z
      <4> QED
        BY <3>2, <4>2
    <3>3. CASE y # t /\ y # k
      BY <1>10, <3>3
    <3> QED
      BY <3>1, <3>2, <3>3
  <2> HIDE DEF H, hh2
  <2> QED
    BY <2>1, <2>2
<1>14. ASSUME NEW y \in D
       PROVE  /\ hh2[y].prev = hh[y].prev
              /\ hh2[y].next = IF y = t THEN k ELSE hh[y].next
              /\ hh2[y].hh_prev = hh[y].hh_prev
              /\ hh2[y].hh_next = hh[y].hh_next
  <2>1. hh[y] \in UT_hash_handle /\ DOMAIN hh = D /\ y # k
    BY <1>10
  <2>2. hh2[y] = IF y = t THEN [hh[y] EXCEPT !.next = k] ELSE hh[y]
    BY <1>8, <2>1 DEF handlesWith
  <2> DEFINE z == hh[y]
  <2>3. /\ [z EXCEPT !.next = k].prev = z.prev
        /\ [z EXCEPT !.next = k].next = k
        /\ [z EXCEPT !.next = k].hh_prev = z.hh_prev
        /\ [z EXCEPT !.next = k].hh_next = z.hh_next
    <3> HIDE DEF z
    <3> QED
      BY <2>1 DEF UT_hash_handle, z
  <2> HIDE DEF hh2, hh
  <2> QED
    BY <2>2, <2>3
<1>15. hh2[k] = newHandle(t)
  BY <1>7, <1>8, <1>10 DEF handlesWith
<1> HIDE DEF b, n, i, m, d, f, x, head, hh, hh2, j, t
<1>16. countedWith(h, k) = g3
  <2>1. [h EXCEPT !.hh = hh2] = g1
    BY <1>9 DEF record, table
  <2>2. [g1 EXCEPT !.tbl.tail = k] = g2
    BY DEF record, table
  <2>3. linkedWith(h, k) = g2
    BY <1>11, <2>1, <2>2, Zenon
  <2>4. g2.tbl.num_items + 1 = j
    BY DEF record, table, j
  <2>5. [g2 EXCEPT !.tbl.num_items = j] = g3
    BY DEF record, table
  <2> HIDE DEF g2, g3
  <2> QED
    BY <2>3, <2>4, <2>5, Zenon DEF countedWith
<1> DEFINE c == countedWith(h, k)
<1>17. c \in HashRecord(E, B)
  <2> HIDE DEF E, c
  <2>1. g3 \in HashRecord(E, B)
    BY <1>7, <1>10, <1>12, <1>13, IsRecord
  <2> QED
    BY <1>16, <2>1 DEF c
<1>18. /\ c.head = head /\ c.hh = hh2 /\ c.tbl.buckets = b /\ c.tbl.num_buckets = n
       /\ c.tbl.num_items = j /\ c.tbl.tail = k /\ c.tbl.noexpand = x
  BY <1>16 DEF record, table
<1> HIDE DEF c, E
<1>19. DOMAIN c.hh = E /\ D \subseteq E /\ k \in E
  BY <1>13, <1>18 DEF E
<1>20. h.hh = hh /\ DOMAIN hh = D
  BY <1>10 DEF hh
<1>21. \A y \in D : hhPrevs(c)[y] = hhPrevs(h)[y] /\ hhNexts(c)[y] = hhNexts(h)[y]
  BY <1>14, <1>18, <1>19, <1>20 DEF hhPrevs, hhNexts
<1>22. \A y \in D : prevs(c)[y] = prevs(h)[y] /\ nexts(c)[y] = IF y = t THEN k ELSE nexts(h)[y]
  BY <1>14, <1>18, <1>19, <1>20 DEF prevs, nexts
<1>23. prevs(c)[k] = t /\ nexts(c)[k] = NULL
  BY <1>15, <1>18, <1>19 DEF prevs, nexts, newHandle
<1>24. ChainsOf(hashOf, c, B, D, chains)
  <2>1. c.tbl.buckets = h.tbl.buckets
    BY <1>18 DEF b
  <2> QED
    BY <1>3, <1>21, <2>1, KeptChains
<1> DEFINE items2 == Append(items, k)
           prev == prevs(h)
           next == nexts(h)
           prev2 == prevs(c)
           next2 == nexts(c)
<1>25. /\ Lists(items2, E) /\ Len(items2) = Len(items) + 1 /\ items2[Len(items) + 1] = k
       /\ Linked(items2, head, prev2, next2)
  <2>1. LinksLast(D, items, k, head, prev, next, head, prev2, next2)
    <3>1. \A y \in 1..Len(items) : next2[items[y]] = IF y = Len(items) THEN k ELSE next[items[y]]
      <4> SUFFICES ASSUME NEW y \in 1..Len(items)
                   PROVE  next2[items[y]] = IF y = Len(items) THEN k ELSE next[items[y]]
        OBVIOUS
      <4>1. items[y] \in D /\ (items[y] = t <=> y = Len(items))
        BY <1>4, <1>5
      <4> HIDE DEF next, next2
      <4> QED
        BY <1>22, <4>1 DEF next, next2
    <3>2. \A y \in D : prev2[y] = prev[y]
      BY <1>22
    <3>3. prev2[k] = items[Len(items)] /\ next2[k] = NULL
      BY <1>4, <1>23
    <3> HIDE DEF prev, next, prev2, next2
    <3> QED
      BY <1>5, <3>1, <3>2, <3>3, Zenon DEF LinksLast
  <2>2. Lists(items, D) /\ Linked(items, head, prev, next) /\ k \notin D
    BY <1>4 DEF head
  <2> HIDE DEF prev, next, prev2, next2
  <2> QED
    BY <2>1, <2>2, AppendLinks DEF E
<1>26. ItemsAre(c, E, items2)
  <2>1. Len(items2) > 0 /\ c.tbl.num_items = Len(items2)
    BY <1>4, <1>5, <1>18, <1>25 DEF j
  <2>2. c.tbl.tail = items2[Len(items2)]
    BY <1>18, <1>25
  <2> HIDE DEF items2
  <2> QED
    BY <1>18, <1>25, <2>1, <2>2 DEF ItemsAre
<1>27. ASSUME ~c.tbl.noexpand
       PROVE  Roomy(c, B)
  <2>1. ~h.tbl.noexpand
    BY <1>18, <1>27, Zenon DEF x
  <2>2. PICK load, lf : Loads(load, lf, h, B) /\ HasRoom(h, load, B)
    BY <1>1, <2>1 DEF Roomy
  <2>3. c.tbl.buckets = h.tbl.buckets
    BY <1>18 DEF b
  <2>4. Loads(load, lf, c, B)
    BY <2>2, <2>3, SameLoads
  <2>5. HasRoom(c, load, B)
    BY <2>2, <2>3, Zenon DEF HasRoom
  <2> QED
    BY <2>4, <2>5 DEF Roomy
<1>28. Counted(hashOf, c, D, k, B, items2)
  <2>1. c.tbl.num_buckets = B
    BY <1>2, <1>18
  <2> HIDE DEF items2
  <2> QED
    BY <1>17, <1>24, <1>26, <1>27, <2>1 DEF Counted, E
<1> DEFINE bkt == HASH_TO_BKT(k, c.tbl.num_buckets)
<1>29. bkt = hashOf[k] % B
  BY <1>2, <1>18 DEF HASH_TO_BKT, hashv
<1> HIDE DEF bkt, items2
<1>30. IsTable(hashOf, HASH_ADD_TO_BKT(c, bkt, k), D \union {k})
  BY <1>28, <1>29, ToBucket
<1> QED
  BY <1>30, AddToBucket, Zenon DEF bkt, c

(* HASH_ADD adds its item. *)
LEMMA ItemAdded ==
  ASSUME HasHashes(hashOf), NEW D \in SUBSET Key, NEW k \in Key \ D,
         NEW h, IsTable(hashOf, h, D)
  PROVE  IsTable(hashOf, HASH_ADD(h, k), D \union {k})
<1>1. CASE D = {}
  <2>1. h = emptyTable /\ D \union {k} = {k}
    BY <1>1 DEF IsTable
  <2> QED
    BY <2>1, FirstItem
<1>2. CASE D # {}
  <2>1. PICK B \in Nat \ {0} : \E items : Table(hashOf, h, D, B, items)
    BY <1>2 DEF IsTable
  <2>2. PICK items : Table(hashOf, h, D, B, items)
    BY <2>1
  <2> QED
    BY <2>2, NextItem
<1> QED
  BY <1>1, <1>2

(* The loads depend on the buckets only. *)
LEMMA SameRoom ==
  ASSUME NEW a, NEW h, NEW B, a.tbl.buckets = h.tbl.buckets, Roomy(h, B)
  PROVE  Roomy(a, B)
<1>1. PICK load, lf : Loads(load, lf, h, B) /\ HasRoom(h, load, B)
  BY DEF Roomy
<1>2. Loads(load, lf, a, B)
  BY <1>1, SameLoads
<1>3. HasRoom(a, load, B)
  BY <1>1, Zenon DEF HasRoom
<1> QED
  BY <1>2, <1>3 DEF Roomy

(* Relinking the items in another order. *)
LEMMA Relinked ==
  ASSUME NEW hf, NEW D \in SUBSET Key, NEW B \in Nat \ {0}, NEW h, NEW items,
         Table(hf, h, D, B, items), NEW order, Lists(order, D)
  PROVE  Table(hf, relinked(h, order), D, B, order)
<1> DEFINE b == h.tbl.buckets
           n == h.tbl.num_buckets
           i == h.tbl.num_items
           t == h.tbl.tail
           m == h.tbl.ideal_chain_maxlen
           d == h.tbl.nonideal_items
           f == h.tbl.ineff_expands
           x == h.tbl.noexpand
           head == h.head
           hh == h.hh
           at(k) == CHOOSE y \in DOMAIN order : order[y] = k
           before(k) == IF at(k) = 1 THEN NULL ELSE order[at(k) - 1]
           after(k) == IF at(k) = Len(order) THEN NULL ELSE order[at(k) + 1]
           handle(k) == [hh[k] EXCEPT !.prev = before(k), !.next = after(k)]
           hh2 == [k \in DOMAIN hh |-> handle(k)]
           head2 == order[1]
           t2 == Last(order)
           g0 == record(head, table(b, n, i, t, m, d, f, x), hh)
           g1 == record(head2, table(b, n, i, t, m, d, f, x), hh)
           g2 == record(head2, table(b, n, i, t2, m, d, f, x), hh)
           g3 == record(head2, table(b, n, i, t2, m, d, f, x), hh2)
           r == relinked(h, order)
<1>1. /\ Sound(hf, h, D, B) /\ ItemsAre(h, D, items)
      /\ ~h.tbl.noexpand => Roomy(h, B)
  BY Zenon DEF Table
<1>2. h \in HashRecord(D, B) /\ n = B
  BY <1>1 DEF Sound
<1>3. PICK chains : ChainsOf(hf, h, B, D, chains)
  BY <1>1 DEF Sound
<1>4. Lists(items, D) /\ Len(items) > 0 /\ i = Len(items)
  BY <1>1 DEF ItemsAre
<1>5. Len(order) = Len(items)
  BY <1>4, ListsAll
<1>6. /\ order \in Seq(D) /\ Len(order) \in Nat /\ Len(order) > 0 /\ DOMAIN order = 1..Len(order)
      /\ \A y \in 1..Len(order) : order[y] \in D
      /\ \A y, z \in 1..Len(order) : order[y] = order[z] => y = z
      /\ \A k \in D : \E y \in 1..Len(order) : order[y] = k
  <2>1. order \in Seq(D)
    BY Zenon DEF Lists
  <2>2. \A y, z \in 1..Len(order) : order[y] = order[z] => y = z
    BY Zenon DEF Lists, Distinct
  <2>3. \A k \in D : \E y \in 1..Len(order) : order[y] = k
    BY Zenon DEF Lists
  <2>4. \A s \in Seq(D) :
           Len(s) \in Nat /\ DOMAIN s = 1..Len(s) /\ \A y \in 1..Len(s) : s[y] \in D
    OBVIOUS
  <2>5. /\ Len(order) \in Nat /\ DOMAIN order = 1..Len(order)
        /\ \A y \in 1..Len(order) : order[y] \in D
    BY <2>1, <2>4, Zenon
  <2> QED
    BY <2>1, <2>2, <2>3, <2>5, <1>4, <1>5
<1>7. h = g0
  BY <1>2, RecordForm
<1>8. /\ b \in [0..(B - 1) -> UT_hash_bucket] /\ n \in Nat \ {0} /\ i \in Nat /\ t \in Link
      /\ m \in Nat /\ d \in Nat /\ f \in Nat /\ x \in BOOLEAN
      /\ head \in Link /\ hh \in [D -> UT_hash_handle]
  BY <1>2, TypesOf, Zenon DEF FieldTypes
<1>9. r = [[[h EXCEPT !.head = head2] EXCEPT !.tbl.tail = t2] EXCEPT !.hh = hh2]
  BY Zenon DEF relinked
<1>10. head2 \in Link /\ t2 \in Link /\ t2 = order[Len(order)]
  BY <1>6 DEF Link, Last
<1>11. ASSUME NEW k \in D
       PROVE  /\ before(k) \in Link /\ after(k) \in Link
              /\ handle(k) \in UT_hash_handle
              /\ handle(k).prev = before(k) /\ handle(k).next = after(k)
              /\ handle(k).hh_prev = hh[k].hh_prev /\ handle(k).hh_next = hh[k].hh_next
  <2>1. at(k) \in 1..Len(order)
    BY <1>6
  <2> HIDE DEF at
  <2>2. before(k) \in Link
    <3>1. at(k) # 1 => at(k) - 1 \in 1..Len(order)
      BY <1>6, <2>1
    <3> QED
      BY <1>6, <3>1 DEF Link
  <2>3. after(k) \in Link
    <3>1. at(k) # Len(order) => at(k) + 1 \in 1..Len(order)
      BY <1>6, <2>1
    <3> QED
      BY <1>6, <3>1 DEF Link
  <2>4. hh[k] \in UT_hash_handle
    BY <1>8
  <2> DEFINE z == hh[k]
             p == before(k)
             q == after(k)
  <2> HIDE DEF z, p, q, hh
  <2>5. LET e == [z EXCEPT !.prev = p, !.next = q]
        IN  /\ e \in UT_hash_handle /\ e.prev = p /\ e.next = q
            /\ e.hh_prev = z.hh_prev /\ e.hh_next = z.hh_next
    BY <2>2, <2>3, <2>4 DEF UT_hash_handle, z, p, q
  <2> QED
    BY <2>2, <2>3, <2>5 DEF z, p, q
<1>12. DOMAIN hh = D
  BY <1>8
<1>13. hh2 \in [D -> UT_hash_handle] /\ \A k \in D : hh2[k] = handle(k)
  <2> HIDE DEF handle, hh
  <2> QED
    BY <1>11, <1>12
<1> HIDE DEF b, n, i, m, d, f, x, head, hh, hh2, t, head2, t2, handle
<1>14. r = g3
  <2>1. [h EXCEPT !.head = head2] = g1
    BY <1>7 DEF record, table
  <2>2. [g1 EXCEPT !.tbl.tail = t2] = g2
    BY DEF record, table
  <2>3. [g2 EXCEPT !.hh = hh2] = g3
    BY DEF record, table
  <2> HIDE DEF g1, g2, g3
  <2> QED
    BY <1>9, <2>1, <2>2, <2>3, Zenon
<1>15. r \in HashRecord(D, B)
  <2>1. g3 \in HashRecord(D, B)
    BY <1>8, <1>10, <1>13, IsRecord
  <2> QED
    BY <1>14, <2>1
<1>16. /\ r.head = head2 /\ r.hh = hh2 /\ r.tbl.buckets = b /\ r.tbl.num_buckets = n
       /\ r.tbl.num_items = i /\ r.tbl.tail = t2 /\ r.tbl.noexpand = x
  BY <1>14 DEF record, table
<1> HIDE DEF r
<1>17. DOMAIN r.hh = D /\ h.hh = hh
  BY <1>13, <1>16 DEF hh
<1>18. \A k \in D : hhPrevs(r)[k] = hhPrevs(h)[k] /\ hhNexts(r)[k] = hhNexts(h)[k]
  BY <1>11, <1>12, <1>13, <1>16, <1>17 DEF hhPrevs, hhNexts
<1>19. ChainsOf(hf, r, B, D, chains)
  <2>1. r.tbl.buckets = h.tbl.buckets
    BY <1>16 DEF b
  <2> QED
    BY <1>3, <1>18, <2>1, KeptChains
<1> HIDE DEF before, after
<1>20. \A k \in D : prevs(r)[k] = before(k) /\ nexts(r)[k] = after(k)
  BY <1>11, <1>12, <1>13, <1>16, <1>17 DEF prevs, nexts
<1>21. LinksIn(D, order, prevs(r), nexts(r))
  BY <1>20, Zenon DEF LinksIn, before, after, at
<1>22. Linked(order, head2, prevs(r), nexts(r))
  <2> DEFINE p == prevs(r)
             q == nexts(r)
  <2>1. LinksIn(D, order, p, q)
    BY <1>21
  <2> HIDE DEF p, q
  <2>2. Linked(order, order[1], p, q)
    BY <1>6, <2>1, RelinkedLinks
  <2> QED
    BY <2>2 DEF p, q, head2
<1>23. ItemsAre(r, D, order)
  BY <1>4, <1>5, <1>6, <1>10, <1>16, <1>22 DEF ItemsAre
<1>24. Sound(hf, r, D, B)
  BY <1>2, <1>15, <1>16, <1>19 DEF Sound
<1>25. ASSUME ~r.tbl.noexpand
       PROVE  Roomy(r, B)
  <2>1. ~h.tbl.noexpand
    BY <1>16, <1>25, Zenon DEF x
  <2>2. r.tbl.buckets = h.tbl.buckets
    BY <1>16 DEF b
  <2> QED
    BY <1>1, <2>1, <2>2, SameRoom
<1> QED
  BY <1>23, <1>24, <1>25, Zenon DEF Table, r

(* The neighbours of k: two items of K other than k, or none at an end.    *)
AreNeighbours(K, k, before, after) ==
  /\ before \in K \union {NULL} /\ before # k
  /\ after \in K \union {NULL} /\ after # k
  /\ before = after => before = NULL

(* The links of an item of a linked list. *)
LEMMA NeighboursOf ==
  ASSUME NEW K, NULL \notin K, NEW s, Lists(s, K), NEW k, NEW p \in 1..Len(s), s[p] = k,
         NEW first, NEW prev, NEW next,
         Linked(s, first, prev, next)
  PROVE  /\ AreNeighbours(K, k, prev[k], next[k])
         /\ prev[k] = NULL <=> p = 1
         /\ next[k] = NULL <=> p = Len(s)
         /\ first = k <=> p = 1
         /\ next[k] = IF p = Len(s) THEN NULL ELSE s[p + 1]
<1> DEFINE n == Len(s)
<1>1. /\ s \in Seq(K) /\ \A i, j \in 1..n : s[i] = s[j] => i = j
  BY Zenon DEF Lists, Distinct
<1>2. \A t \in Seq(K) : Len(t) \in Nat /\ \A i \in 1..Len(t) : t[i] \in K
  OBVIOUS
<1>3. /\ first = IF n = 0 THEN NULL ELSE s[1]
      /\ prev[k] = IF p = 1 THEN NULL ELSE s[p - 1]
      /\ next[k] = IF p = n THEN NULL ELSE s[p + 1]
  BY DEF Linked
<1>4. n \in Nat /\ p \in 1..n /\ \A i \in 1..n : s[i] \in K /\ s[i] # NULL
  BY <1>1, <1>2
<1> HIDE DEF n
<1>5. /\ p # 1 => p - 1 \in 1..n /\ p - 1 # p
      /\ p # n => p + 1 \in 1..n /\ p + 1 # p
      /\ p - 1 # p + 1
      /\ n # 0 /\ 1 \in 1..n
  BY <1>4
<1> DEFINE a == p - 1
           c == p + 1
<1>6. /\ p # 1 => s[a] \in K /\ s[a] # k /\ s[a] # NULL
      /\ p # n => s[c] \in K /\ s[c] # k /\ s[c] # NULL
      /\ p # 1 /\ p # n => s[a] # s[c]
      /\ s[1] = k <=> p = 1
  <2> HIDE DEF a, c
  <2>1. /\ p # 1 => a \in 1..n /\ a # p
        /\ p # n => c \in 1..n /\ c # p
        /\ a # c
    BY <1>5 DEF a, c
  <2> QED
    BY <1>1, <1>4, <1>5, <2>1 DEF n
<1> HIDE DEF a, c
<1>7. /\ first = s[1]
      /\ prev[k] = IF p = 1 THEN NULL ELSE s[a]
      /\ next[k] = IF p = n THEN NULL ELSE s[c]
  BY <1>3, <1>5 DEF a, c
<1>8. AreNeighbours(K, k, prev[k], next[k])
  BY <1>4, <1>6, <1>7 DEF AreNeighbours
<1> QED
  BY <1>3, <1>6, <1>7, <1>8 DEF n

(* The neighbours of k are linked across it, in one of the two orders.     *)
across(hh, before, after) ==
  [i \in DOMAIN hh |->
    CASE i = before -> [hh[i] EXCEPT !.next = after]
      [] i = after -> [hh[i] EXCEPT !.prev = before]
      [] OTHER -> hh[i]]

hhAcross(hh, before, after) ==
  [i \in DOMAIN hh |->
    CASE i = before -> [hh[i] EXCEPT !.hh_next = after]
      [] i = after -> [hh[i] EXCEPT !.hh_prev = before]
      [] OTHER -> hh[i]]

IsAcross(f, hh, D, before, after) ==
  /\ f \in [D -> UT_hash_handle]
  /\ \A i \in D : /\ f[i].prev = IF i = after THEN before ELSE hh[i].prev
                  /\ f[i].next = IF i = before THEN after ELSE hh[i].next
                  /\ f[i].hh_prev = hh[i].hh_prev
                  /\ f[i].hh_next = hh[i].hh_next

IsHhAcross(f, hh, D, before, after) ==
  /\ f \in [D -> UT_hash_handle]
  /\ \A i \in D : /\ f[i].hh_prev = IF i = after THEN before ELSE hh[i].hh_prev
                  /\ f[i].hh_next = IF i = before THEN after ELSE hh[i].hh_next
                  /\ f[i].prev = hh[i].prev
                  /\ f[i].next = hh[i].next

(* Linking across an item in the order of addition. *)
LEMMA Across ==
  ASSUME NEW D \in SUBSET Key, NEW hh \in [D -> UT_hash_handle], NEW k, NEW K \in SUBSET Key,
         NEW before, NEW after, AreNeighbours(K, k, before, after)
  PROVE  IsAcross(across(hh, before, after), hh, D, before, after)
<1> DEFINE f == across(hh, before, after)
<1>0. /\ DOMAIN hh = D /\ before \in Link /\ after \in Link /\ NULL \notin D
      /\ before = after => before = NULL
  BY HashAssumption DEF AreNeighbours, Link
<1>1. ASSUME NEW i \in D
      PROVE  /\ f[i] \in UT_hash_handle
             /\ f[i].prev = IF i = after THEN before ELSE hh[i].prev
             /\ f[i].next = IF i = before THEN after ELSE hh[i].next
             /\ f[i].hh_prev = hh[i].hh_prev
             /\ f[i].hh_next = hh[i].hh_next
  <2> DEFINE e == hh[i]
  <2>1. e \in UT_hash_handle
    OBVIOUS
  <2>2. f[i] = CASE i = before -> [e EXCEPT !.next = after]
                 [] i = after -> [e EXCEPT !.prev = before]
                 [] OTHER -> e
    BY <1>0 DEF across
  <2> HIDE DEF f, e
  <2>3. CASE i = before
    <3>1. f[i] = [e EXCEPT !.next = after] /\ i # after
      BY <1>0, <2>2, <2>3
    <3> QED
      BY <1>0, <2>1, <2>3, <3>1 DEF UT_hash_handle, e
  <2>4. CASE i # before /\ i = after
    <3>1. f[i] = [e EXCEPT !.prev = before]
      BY <2>2, <2>4
    <3> QED
      BY <1>0, <2>1, <2>4, <3>1 DEF UT_hash_handle, e
  <2>5. CASE i # before /\ i # after
    BY <2>1, <2>2, <2>5 DEF e
  <2> QED
    BY <2>3, <2>4, <2>5
<1>2. f = [i \in D |-> f[i]]
  BY <1>0 DEF across
<1> HIDE DEF f
<1>3. f \in [D -> UT_hash_handle]
  BY <1>1, <1>2
<1>4. IsAcross(f, hh, D, before, after)
  BY <1>1, <1>3 DEF IsAcross
<1> QED
  BY <1>4 DEF f

(* Linking across an item in its chain. *)
LEMMA HhAcross ==
  ASSUME NEW D \in SUBSET Key, NEW hh \in [D -> UT_hash_handle], NEW k, NEW K \in SUBSET Key,
         NEW before, NEW after, AreNeighbours(K, k, before, after)
  PROVE  IsHhAcross(hhAcross(hh, before, after), hh, D, before, after)
<1> DEFINE f == hhAcross(hh, before, after)
<1>0. /\ DOMAIN hh = D /\ before \in Link /\ after \in Link /\ NULL \notin D
      /\ before = after => before = NULL
  BY HashAssumption DEF AreNeighbours, Link
<1>1. ASSUME NEW i \in D
      PROVE  /\ f[i] \in UT_hash_handle
             /\ f[i].hh_prev = IF i = after THEN before ELSE hh[i].hh_prev
             /\ f[i].hh_next = IF i = before THEN after ELSE hh[i].hh_next
             /\ f[i].prev = hh[i].prev
             /\ f[i].next = hh[i].next
  <2> DEFINE e == hh[i]
  <2>1. e \in UT_hash_handle
    OBVIOUS
  <2>2. f[i] = CASE i = before -> [e EXCEPT !.hh_next = after]
                 [] i = after -> [e EXCEPT !.hh_prev = before]
                 [] OTHER -> e
    BY <1>0 DEF hhAcross
  <2> HIDE DEF f, e
  <2>3. CASE i = before
    <3>1. f[i] = [e EXCEPT !.hh_next = after] /\ i # after
      BY <1>0, <2>2, <2>3
    <3> QED
      BY <1>0, <2>1, <2>3, <3>1 DEF UT_hash_handle, e
  <2>4. CASE i # before /\ i = after
    <3>1. f[i] = [e EXCEPT !.hh_prev = before]
      BY <2>2, <2>4
    <3> QED
      BY <1>0, <2>1, <2>4, <3>1 DEF UT_hash_handle, e
  <2>5. CASE i # before /\ i # after
    BY <2>1, <2>2, <2>5 DEF e
  <2> QED
    BY <2>3, <2>4, <2>5
<1>2. f = [i \in D |-> f[i]]
  BY <1>0 DEF hhAcross
<1> HIDE DEF f
<1>3. f \in [D -> UT_hash_handle]
  BY <1>1, <1>2
<1>4. IsHhAcross(f, hh, D, before, after)
  BY <1>1, <1>3 DEF IsHhAcross
<1> QED
  BY <1>4 DEF f

(* HASH_DELETE until the item is to leave its bucket. *)
unlinkedFrom(h, k) ==
  [h EXCEPT !.head = IF h.hh[k].prev = NULL THEN h.hh[k].next ELSE h.head,
            !.hh = across(h.hh, h.hh[k].prev, h.hh[k].next),
            !.tbl.tail = tailWithout(h, k),
            !.tbl.num_items = h.tbl.num_items - 1]

(* HASH_DELETE is its parts, unless the item is the only one. *)
LEMMA DeleteInBucket ==
  ASSUME NEW h, NEW k, ~isTheOnly(h, k)
  PROVE  HASH_DELETE(h, k)
           = HASH_DEL_IN_BKT(unlinkedFrom(h, k), HASH_TO_BKT(k, h.tbl.num_buckets), k)
  BY Zenon DEF HASH_DELETE, unlinkedFrom, across

(* HASH_DEL_IN_BKT is its parts. *)
LEMMA BucketDeletes ==
  ASSUME NEW h, NEW b, NEW k
  PROVE  HASH_DEL_IN_BKT(h, b, k)
           = [h EXCEPT !.tbl.buckets[b].count = h.tbl.buckets[b].count - 1,
                       !.tbl.buckets[b].hh_head =
                         IF h.tbl.buckets[b].hh_head = k THEN h.hh[k].hh_next
                         ELSE h.tbl.buckets[b].hh_head,
                       !.hh = hhAcross(h.hh, h.hh[k].hh_prev, h.hh[k].hh_next)]
  BY Zenon DEF HASH_DEL_IN_BKT, hhAcross

(* r is h without the item k of bucket q. *)
IsWithout(r, h, D, B, k, q) ==
  /\ r \in HashRecord(D \ {k}, B)
  /\ r.tbl.num_buckets = h.tbl.num_buckets
  /\ r.tbl.num_items = h.tbl.num_items - 1
  /\ r.tbl.tail = IF h.tbl.tail = k THEN h.hh[k].prev ELSE h.tbl.tail
  /\ r.tbl.noexpand = h.tbl.noexpand
  /\ r.tbl.buckets[q].count = h.tbl.buckets[q].count - 1
  /\ \A c \in 0..(B - 1) : r.tbl.buckets[c].expand_mult = h.tbl.buckets[c].expand_mult
  /\ \A c \in (0..(B - 1)) \ {q} : r.tbl.buckets[c] = h.tbl.buckets[c]
  /\ LinksAcross(D, k, h.head, prevs(h), nexts(h), r.head, prevs(r), nexts(r))
  /\ LinksAcross(D, k, h.tbl.buckets[q].hh_head, hhPrevs(h), hhNexts(h),
                 r.tbl.buckets[q].hh_head, hhPrevs(r), hhNexts(r))

(* b2 is b with another first item and another count of bucket q. *)
IsBucketWith(b2, b, B, q, c, e) ==
  /\ b2 \in [0..(B - 1) -> UT_hash_bucket]
  /\ b2[q].hh_head = e /\ b2[q].count = c
  /\ \A a \in 0..(B - 1) : b2[a].expand_mult = b[a].expand_mult
  /\ \A a \in (0..(B - 1)) \ {q} : b2[a] = b[a]

(* Setting the first item and the count of a bucket. *)
LEMMA BucketWithout ==
  ASSUME NEW B \in Nat \ {0}, NEW b \in [0..(B - 1) -> UT_hash_bucket], NEW q \in 0..(B - 1),
         NEW c \in Nat, NEW e \in Link
  PROVE  IsBucketWith([[b EXCEPT ![q].count = c] EXCEPT ![q].hh_head = e], b, B, q, c, e)
<1> DEFINE y0 == b[q]
           y1 == [y0 EXCEPT !.count = c]
           y2 == [y1 EXCEPT !.hh_head = e]
           b1 == [b EXCEPT ![q].count = c]
           b2 == [b1 EXCEPT ![q].hh_head = e]
<1>1. y0 \in UT_hash_bucket
  OBVIOUS
<1>2. /\ y1 \in UT_hash_bucket /\ y1.count = c /\ y1.expand_mult = y0.expand_mult
  <2> HIDE DEF y0
  <2> QED
    BY <1>1, SetCount
<1>3. /\ y2 \in UT_hash_bucket /\ y2.hh_head = e /\ y2.count = c
      /\ y2.expand_mult = y0.expand_mult
  <2> HIDE DEF y1
  <2> QED
    BY <1>2, SetHead
<1>4. b1 = [b EXCEPT ![q] = y1]
  OBVIOUS
<1>5. b1 \in [0..(B - 1) -> UT_hash_bucket] /\ b1[q] = y1
      /\ \A a \in (0..(B - 1)) \ {q} : b1[a] = b[a]
  <2> HIDE DEF y1, b1
  <2> QED
    BY <1>2, <1>4
<1>6. b2 = [b1 EXCEPT ![q] = y2]
  <2> HIDE DEF y1, b1
  <2>1. b2 = [b1 EXCEPT ![q] = [b1[q] EXCEPT !.hh_head = e]]
    OBVIOUS
  <2> QED
    BY <1>5, <2>1
<1>7. b2 \in [0..(B - 1) -> UT_hash_bucket] /\ b2[q] = y2
      /\ \A a \in (0..(B - 1)) \ {q} : b2[a] = b[a]
  <2> HIDE DEF y2, b1, b2
  <2> QED
    BY <1>3, <1>5, <1>6
<1> HIDE DEF y2, b2
<1>8. \A a \in 0..(B - 1) : b2[a].expand_mult = b[a].expand_mult
  BY <1>3, <1>7
<1>9. IsBucketWith(b2, b, B, q, c, e)
  BY <1>3, <1>7, <1>8 DEF IsBucketWith
<1> QED
  BY <1>9 DEF b2

(* What deleting and freeing an item changes. *)
LEMMA Without ==
  ASSUME NEW D \in SUBSET Key, NEW B \in Nat \ {0}, NEW h \in HashRecord(D, B),
         NEW k \in D, NEW q \in 0..(B - 1), HASH_TO_BKT(k, h.tbl.num_buckets) = q,
         AreNeighbours(D, k, h.hh[k].prev, h.hh[k].next),
         AreNeighbours(D, k, h.hh[k].hh_prev, h.hh[k].hh_next),
         ~isTheOnly(h, k),
         h.hh[k].prev = NULL <=> h.head = k,
         h.tbl.num_items > 0, h.tbl.buckets[q].count > 0
  PROVE  IsWithout(FreeItem(HASH_DELETE(h, k), k), h, D, B, k, q)
<1> DEFINE b == h.tbl.buckets
           n == h.tbl.num_buckets
           i == h.tbl.num_items
           t == h.tbl.tail
           m == h.tbl.ideal_chain_maxlen
           d == h.tbl.nonideal_items
           f == h.tbl.ineff_expands
           x == h.tbl.noexpand
           head == h.head
           hh == h.hh
           before == hh[k].prev
           after == hh[k].next
           hhBefore == hh[k].hh_prev
           hhAfter == hh[k].hh_next
           head2 == IF before = NULL THEN after ELSE head
           hh2 == across(hh, before, after)
           t2 == tailWithout(h, k)
           i2 == i - 1
           c == b[q].count - 1
           e == IF b[q].hh_head = k THEN hhAfter ELSE b[q].hh_head
           b1 == [b EXCEPT ![q].count = c]
           b2 == [b1 EXCEPT ![q].hh_head = e]
           hh3 == hhAcross(hh2, hhBefore, hhAfter)
           hh4 == [j \in D \ {k} |-> hh3[j]]
           g0 == record(head, table(b, n, i, t, m, d, f, x), hh)
           g1 == record(head2, table(b, n, i, t, m, d, f, x), hh)
           g2 == record(head2, table(b, n, i, t, m, d, f, x), hh2)
           g3 == record(head2, table(b, n, i, t2, m, d, f, x), hh2)
           g4 == record(head2, table(b, n, i2, t2, m, d, f, x), hh2)
           g5 == record(head2, table(b1, n, i2, t2, m, d, f, x), hh2)
           g6 == record(head2, table(b2, n, i2, t2, m, d, f, x), hh2)
           g7 == record(head2, table(b2, n, i2, t2, m, d, f, x), hh3)
           g8 == record(head2, table(b2, n, i2, t2, m, d, f, x), hh4)
           r == FreeItem(HASH_DELETE(h, k), k)
<1>1. h = g0
  BY RecordForm
<1>2. /\ b \in [0..(B - 1) -> UT_hash_bucket] /\ n \in Nat \ {0} /\ i \in Nat /\ t \in Link
      /\ m \in Nat /\ d \in Nat /\ f \in Nat /\ x \in BOOLEAN
      /\ head \in Link /\ hh \in [D -> UT_hash_handle]
  BY TypesOf, Zenon DEF FieldTypes
<1>3. /\ before \in Link /\ after \in Link /\ hhBefore \in Link /\ hhAfter \in Link
  BY DEF AreNeighbours, Link
<1>4. IsAcross(hh2, hh, D, before, after)
  <2>1. AreNeighbours(D, k, before, after)
    OBVIOUS
  <2> HIDE DEF hh, before, after
  <2> QED
    BY <1>2, <2>1, Across
<1>5. unlinkedFrom(h, k) = g4
  <2>1. unlinkedFrom(h, k) = [[[[h EXCEPT !.head = head2] EXCEPT !.hh = hh2]
                                  EXCEPT !.tbl.tail = t2] EXCEPT !.tbl.num_items = i2]
    BY Zenon DEF unlinkedFrom
  <2> HIDE DEF b, n, i, t, m, d, f, x, head, hh, head2, hh2, t2, i2
  <2>2. [h EXCEPT !.head = head2] = g1
    BY <1>1 DEF record, table
  <2>3. [g1 EXCEPT !.hh = hh2] = g2
    BY DEF record, table
  <2>4. [g2 EXCEPT !.tbl.tail = t2] = g3
    BY DEF record, table
  <2>5. [g3 EXCEPT !.tbl.num_items = i2] = g4
    BY DEF record, table
  <2> HIDE DEF g1, g2, g3, g4
  <2> QED
    BY <2>1, <2>2, <2>3, <2>4, <2>5, Zenon
<1>6. hh2[k].hh_prev = hhBefore /\ hh2[k].hh_next = hhAfter
  BY <1>4 DEF IsAcross
<1>7. HASH_DEL_IN_BKT(g4, q, k) = g7
  <2> DEFINE u == g4
  <2>1. u.tbl.buckets = b /\ u.hh = hh2
    BY DEF record, table
  <2> HIDE DEF b, n, i, t, m, d, f, x, head, hh, head2, hh2, t2, i2, u, hhBefore, hhAfter, hh3
  <2>2. HASH_DEL_IN_BKT(u, q, k)
          = [u EXCEPT !.tbl.buckets[q].count = u.tbl.buckets[q].count - 1,
                      !.tbl.buckets[q].hh_head =
                         IF u.tbl.buckets[q].hh_head = k THEN u.hh[k].hh_next
                         ELSE u.tbl.buckets[q].hh_head,
                      !.hh = hhAcross(u.hh, u.hh[k].hh_prev, u.hh[k].hh_next)]
    BY BucketDeletes, Zenon
  <2>3. HASH_DEL_IN_BKT(u, q, k)
          = [u EXCEPT !.tbl.buckets[q].count = c, !.tbl.buckets[q].hh_head = e, !.hh = hh3]
    BY <1>6, <2>1, <2>2, Zenon DEF hh3
  <2>4. HASH_DEL_IN_BKT(u, q, k)
          = [[[u EXCEPT !.tbl.buckets[q].count = c] EXCEPT !.tbl.buckets[q].hh_head = e]
                 EXCEPT !.hh = hh3]
    BY <2>3, Zenon
  <2> HIDE DEF c, e
  <2>5. [u EXCEPT !.tbl.buckets[q].count = c] = g5
    BY DEF record, table, u
  <2> HIDE DEF b1
  <2>6. [g5 EXCEPT !.tbl.buckets[q].hh_head = e] = g6
    BY DEF record, table
  <2> HIDE DEF b2
  <2>7. [g6 EXCEPT !.hh = hh3] = g7
    BY DEF record, table
  <2> HIDE DEF g5, g6, g7
  <2> QED
    BY <2>4, <2>5, <2>6, <2>7, Zenon DEF u
<1>8. IsHhAcross(hh3, hh2, D, hhBefore, hhAfter)
  <2>1. AreNeighbours(D, k, hhBefore, hhAfter) /\ hh2 \in [D -> UT_hash_handle]
    BY <1>4 DEF IsAcross
  <2> HIDE DEF hh2, hhBefore, hhAfter
  <2> QED
    BY <1>2, <2>1, HhAcross
<1> HIDE DEF hh2, hh3
<1>9. hh4 \in [D \ {k} -> UT_hash_handle]
  BY <1>8 DEF IsHhAcross
<1>10. r = g8
  <2>1. HASH_DELETE(h, k) = g7
    <3> HIDE DEF g4, g7
    <3> QED
      BY <1>5, <1>7, DeleteInBucket, Zenon
  <2>2. g7.hh = hh3 /\ DOMAIN hh3 = D
    BY <1>8 DEF record, IsHhAcross
  <2> HIDE DEF b, n, i, t, m, d, f, x, head, hh, head2, t2, i2, b2
  <2>3. FreeItem(g7, k) = [g7 EXCEPT !.hh = hh4]
    <3> DEFINE g == g7
    <3> HIDE DEF g
    <3>1. FreeItem(g, k) = [g EXCEPT !.hh = [j \in DOMAIN g.hh \ {k} |-> g.hh[j]]]
      BY Zenon DEF FreeItem
    <3> QED
      BY <2>2, <3>1, Zenon DEF g
  <2> HIDE DEF hh4
  <2>4. [g7 EXCEPT !.hh = hh4] = g8
    BY DEF record, table
  <2> HIDE DEF g7, g8
  <2> QED
    BY <2>1, <2>3, <2>4, Zenon
<1>11. i2 \in Nat /\ c \in Nat
  <2>1. b[q].count \in Nat
    BY <1>2, BucketFields
  <2>2. i > 0 /\ b[q].count > 0
    OBVIOUS
  <2> HIDE DEF b, i
  <2> QED
    BY <1>2, <2>1, <2>2
<1>12. head2 \in Link /\ t2 \in Link /\ e \in Link
  <2>1. b[q].hh_head \in Link
    BY <1>2, BucketFields
  <2> QED
    BY <1>2, <1>3, <2>1 DEF tailWithout
<1>13. /\ b2 \in [0..(B - 1) -> UT_hash_bucket]
       /\ b2[q].hh_head = e /\ b2[q].count = c
       /\ \A a \in 0..(B - 1) : b2[a].expand_mult = b[a].expand_mult
       /\ \A a \in (0..(B - 1)) \ {q} : b2[a] = b[a]
  <2>1. IsBucketWith(b2, b, B, q, c, e)
    <3> HIDE DEF b, c, e
    <3> QED
      BY <1>2, <1>11, <1>12, BucketWithout, Zenon
  <2> HIDE DEF b, c, e, b2
  <2> QED
    BY <2>1 DEF IsBucketWith
<1> HIDE DEF b2
<1>14. g8 \in HashRecord(D \ {k}, B)
  <2> HIDE DEF b, n, i, t, m, d, f, x, head2, t2, i2, hh4
  <2> QED
    BY <1>2, <1>9, <1>11, <1>12, <1>13, IsRecord
<1>15. r \in HashRecord(D \ {k}, B)
  BY <1>10, <1>14
<1>16. /\ r.head = head2 /\ r.hh = hh4 /\ r.tbl.buckets = b2 /\ r.tbl.num_buckets = n
       /\ r.tbl.num_items = i2 /\ r.tbl.tail = t2 /\ r.tbl.noexpand = x
  <2> HIDE DEF b, n, i, t, m, d, f, x, head, hh, head2, t2, i2, hh4
  <2> QED
    BY <1>10 DEF record, table
<1> HIDE DEF r
<1>17. ASSUME NEW j \in D \ {k}
       PROVE  /\ hh4[j].prev = IF j = after THEN before ELSE hh[j].prev
              /\ hh4[j].next = IF j = before THEN after ELSE hh[j].next
              /\ hh4[j].hh_prev = IF j = hhAfter THEN hhBefore ELSE hh[j].hh_prev
              /\ hh4[j].hh_next = IF j = hhBefore THEN hhAfter ELSE hh[j].hh_next
  <2>1. hh4[j] = hh3[j]
    OBVIOUS
  <2> HIDE DEF hh4, hh, before, after, hhBefore, hhAfter
  <2> QED
    BY <1>4, <1>8, <2>1 DEF IsAcross, IsHhAcross
<1>18. DOMAIN r.hh = D \ {k} /\ DOMAIN h.hh = D /\ h.hh = hh
  BY <1>2, <1>9, <1>16
<1>19. /\ prevs(h)[k] = before /\ nexts(h)[k] = after
       /\ hhPrevs(h)[k] = hhBefore /\ hhNexts(h)[k] = hhAfter
       /\ \A j \in D : /\ prevs(h)[j] = hh[j].prev /\ nexts(h)[j] = hh[j].next
                       /\ hhPrevs(h)[j] = hh[j].hh_prev /\ hhNexts(h)[j] = hh[j].hh_next
  BY <1>18 DEF prevs, nexts, hhPrevs, hhNexts
<1>20. \A j \in D \ {k} :
         /\ prevs(r)[j] = hh4[j].prev /\ nexts(r)[j] = hh4[j].next
         /\ hhPrevs(r)[j] = hh4[j].hh_prev /\ hhNexts(r)[j] = hh4[j].hh_next
  <2> HIDE DEF hh4
  <2> QED
    BY <1>16, <1>18 DEF prevs, nexts, hhPrevs, hhNexts
<1> HIDE DEF hh4, before, after, hhBefore, hhAfter
<1>21. LinksAcross(D, k, h.head, prevs(h), nexts(h), r.head, prevs(r), nexts(r))
  <2>1. r.head = IF h.head = k THEN nexts(h)[k] ELSE h.head
    BY <1>16, <1>19 DEF before
  <2>2. /\ \A j \in D \ {k} : prevs(r)[j] = IF j = nexts(h)[k] THEN prevs(h)[k] ELSE prevs(h)[j]
        /\ \A j \in D \ {k} : nexts(r)[j] = IF j = prevs(h)[k] THEN nexts(h)[k] ELSE nexts(h)[j]
    <3> HIDE DEF hh
    <3> QED
      BY <1>17, <1>19, <1>20
  <2> QED
    BY <2>1, <2>2, Zenon DEF LinksAcross
<1>22. LinksAcross(D, k, h.tbl.buckets[q].hh_head, hhPrevs(h), hhNexts(h),
                   r.tbl.buckets[q].hh_head, hhPrevs(r), hhNexts(r))
  <2>1. r.tbl.buckets[q].hh_head = IF h.tbl.buckets[q].hh_head = k THEN hhNexts(h)[k]
                                   ELSE h.tbl.buckets[q].hh_head
    BY <1>13, <1>16, <1>19
  <2>2. /\ \A j \in D \ {k} :
             hhPrevs(r)[j] = IF j = hhNexts(h)[k] THEN hhPrevs(h)[k] ELSE hhPrevs(h)[j]
        /\ \A j \in D \ {k} :
             hhNexts(r)[j] = IF j = hhPrevs(h)[k] THEN hhNexts(h)[k] ELSE hhNexts(h)[j]
    <3> HIDE DEF hh
    <3> QED
      BY <1>17, <1>19, <1>20
  <2> QED
    BY <2>1, <2>2, Zenon DEF LinksAcross
<1>23. /\ r.tbl.num_buckets = h.tbl.num_buckets /\ r.tbl.num_items = h.tbl.num_items - 1
       /\ r.tbl.tail = IF h.tbl.tail = k THEN h.hh[k].prev ELSE h.tbl.tail
  BY <1>16 DEF tailWithout
<1>24. r.tbl.noexpand = h.tbl.noexpand
  BY <1>16, Zenon
<1>25. /\ r.tbl.buckets[q].count = h.tbl.buckets[q].count - 1
       /\ \A a \in 0..(B - 1) : r.tbl.buckets[a].expand_mult = h.tbl.buckets[a].expand_mult
       /\ \A a \in (0..(B - 1)) \ {q} : r.tbl.buckets[a] = h.tbl.buckets[a]
  BY <1>13, <1>16
<1>26. IsWithout(r, h, D, B, k, q)
  BY <1>15, <1>21, <1>22, <1>23, <1>24, <1>25, Zenon DEF IsWithout
<1> QED
  BY <1>26 DEF r

(* The last item that is left. *)
LEMMA LastWithout ==
  ASSUME NEW K \in SUBSET Key, NEW s, Lists(s, K), Len(s) > 1, NEW p \in 1..Len(s), NEW k, s[p] = k,
         NEW first, NEW prev, NEW next, Linked(s, first, prev, next)
  PROVE  without(s, p)[Len(s) - 1] = IF s[Len(s)] = k THEN prev[k] ELSE s[Len(s)]
<1> DEFINE n == Len(s)
           m == n - 1
           c == p - 1
<1>1. s \in Seq(Key) /\ \A i, j \in 1..n : s[i] = s[j] => i = j
  BY ListsAll DEF Distinct
<1>2. n \in Nat /\ n > 1 /\ m \in 1..m /\ n \in 1..n
  BY <1>1
<1>3. without(s, p)[m] = IF m < p THEN s[m] ELSE s[m + 1]
  BY <1>2 DEF without
<1>4. prev[k] = IF p = 1 THEN NULL ELSE s[c]
  BY DEF Linked
<1>5. CASE p = n
  <2>1. m < p /\ c = m /\ p # 1
    BY <1>2, <1>5
  <2> HIDE DEF m, c, n
  <2> QED
    BY <1>3, <1>4, <1>5, <2>1 DEF n, m
<1>6. CASE p # n
  <2>1. ~(m < p) /\ m + 1 = n /\ s[n] # k
    BY <1>1, <1>2, <1>6
  <2> HIDE DEF m, n
  <2> QED
    BY <1>3, <2>1 DEF n, m
<1> QED
  BY <1>5, <1>6

(* The chains without k: that of its bucket is bridged, the others stay.   *)
LEMMA ChainsWithout ==
  ASSUME NEW hf, HasHashes(hf), NEW D \in SUBSET Key, NEW B \in Nat \ {0}, NEW h, NEW k \in D,
         NEW q, q = hf[k] % B, NEW chains, ChainsOf(hf, h, B, D, chains),
         NEW r, IsWithout(r, h, D, B, k, q)
  PROVE  \E fewer : ChainsOf(hf, r, B, D \ {k}, fewer)
<1> DEFINE s == chains[q]
           S == InBucket(hf, D, B, q)
           first == h.tbl.buckets[q].hh_head
           prev == hhPrevs(h)
           next == hhNexts(h)
           first2 == r.tbl.buckets[q].hh_head
           prev2 == hhPrevs(r)
           next2 == hhNexts(r)
<1>1. q \in 0..(B - 1) /\ NULL \notin D /\ NULL \notin S
  BY BucketExists, HashAssumption DEF InBucket
<1>2. /\ Lists(s, S) /\ Linked(s, first, prev, next) /\ h.tbl.buckets[q].count = Len(s)
  BY <1>1, Zenon DEF ChainsOf, IsChain
<1>3. k \in S /\ S \subseteq D
  BY DEF InBucket
<1>4. PICK p \in 1..Len(s) : s[p] = k
  <2> HIDE DEF s, S
  <2> QED
    BY <1>2, <1>3, Zenon DEF Lists
<1>5. LinksAcross(D, k, first, prev, next, first2, prev2, next2)
  BY Zenon DEF IsWithout
<1> HIDE DEF s, S, first, prev, next, first2, prev2, next2
<1>6. LinksAcross(S, k, first, prev, next, first2, prev2, next2)
  BY <1>3, <1>5 DEF LinksAcross
<1>7. AreNeighbours(S, k, prev[k], next[k])
  BY <1>1, <1>2, <1>4, NeighboursOf
<1>8. /\ Lists(without(s, p), S \ {k})
      /\ Len(without(s, p)) = Len(s) - 1
      /\ Linked(without(s, p), first2, prev2, next2)
  BY <1>1, <1>2, <1>4, <1>6, RemoveLinks
<1> DEFINE fewer == [c \in 0..(B - 1) |-> IF c = q THEN without(s, p) ELSE chains[c]]
<1>9. IsChain(hf, r, B, D \ {k}, q, without(s, p))
  <2>1. InBucket(hf, D \ {k}, B, q) = S \ {k}
    BY DEF InBucket, S
  <2>2. r.tbl.buckets[q].count = h.tbl.buckets[q].count - 1
    BY Zenon DEF IsWithout
  <2> QED
    BY <1>2, <1>8, <2>1, <2>2, Zenon DEF IsChain, first2, prev2, next2
<1>10. ASSUME NEW c \in 0..(B - 1), c # q
       PROVE  IsChain(hf, r, B, D \ {k}, c, chains[c])
  <2> DEFINE o == chains[c]
             head == h.tbl.buckets[c].hh_head
  <2>1. InBucket(hf, D \ {k}, B, c) = InBucket(hf, D, B, c)
    BY <1>10 DEF InBucket
  <2>2. /\ Lists(o, InBucket(hf, D, B, c)) /\ Linked(o, head, prev, next)
        /\ h.tbl.buckets[c].count = Len(o)
    BY Zenon DEF ChainsOf, IsChain, prev, next
  <2>3. \A i \in 1..Len(o) : o[i] \in D /\ hf[o[i]] % B = c
    <3>1. IsChain(hf, h, B, D, c, o)
      BY DEF ChainsOf
    <3> HIDE DEF o
    <3> QED
      BY <1>1, <3>1, ChainItems
  <2> HIDE DEF o
  <2>4. ASSUME NEW i \in 1..Len(o)
        PROVE  prev2[o[i]] = prev[o[i]] /\ next2[o[i]] = next[o[i]]
    <3>1. o[i] \in D \ {k}
      BY <1>10, <2>3
    <3>2. o[i] # prev[k] /\ o[i] # next[k]
      BY <1>1, <1>7, <1>10, <2>3 DEF AreNeighbours, InBucket, S
    <3> QED
      BY <1>5, <3>1, <3>2 DEF LinksAcross
  <2>5. Linked(o, head, prev2, next2)
    BY <2>2, <2>4, Zenon DEF Linked
  <2>6. r.tbl.buckets[c] = h.tbl.buckets[c]
    BY <1>10 DEF IsWithout
  <2> QED
    BY <2>1, <2>2, <2>5, <2>6, Zenon DEF IsChain, o, prev2, next2
<1>11. ChainsOf(hf, r, B, D \ {k}, fewer)
  BY <1>9, <1>10 DEF ChainsOf
<1> HIDE DEF fewer
<1> QED
  BY <1>11

(* Deleting an item leaves room in the buckets. *)
LEMMA RoomWithout ==
  ASSUME NEW D \in SUBSET Key, NEW B \in Nat \ {0}, NEW h \in HashRecord(D, B), NEW k,
         NEW q \in 0..(B - 1), NEW r, IsWithout(r, h, D, B, k, q), Roomy(h, B)
  PROVE  Roomy(r, B)
<1>1. PICK load, lf : Loads(load, lf, h, B) /\ HasRoom(h, load, B)
  BY DEF Roomy
<1>2. \A c \in 0..(B - 1) : r.tbl.buckets[c].expand_mult = h.tbl.buckets[c].expand_mult
  BY Zenon DEF IsWithout
<1>3. Loads(load, lf, r, B)
  BY <1>1, <1>2, SameLoads
<1>4. HasRoom(r, load, B)
  <2> SUFFICES ASSUME NEW b \in 0..(B - 1)
               PROVE  /\ r.tbl.buckets[b].count < (load[b] + 1) * Threshold
                      /\ r.tbl.buckets[b].count <= (r.tbl.buckets[b].expand_mult + 1) * Threshold
    BY DEF HasRoom
  <2> DEFINE x == (load[b] + 1) * Threshold
             y == (h.tbl.buckets[b].expand_mult + 1) * Threshold
             c == h.tbl.buckets[b].count
  <2>1. c < x /\ c <= y
    BY <1>1 DEF HasRoom
  <2>2. c \in Nat /\ x \in Nat /\ y \in Nat
    <3>1. CountsAre(h, B)
      BY CountsOf
    <3>2. c \in Nat /\ h.tbl.buckets[b].expand_mult \in Nat
      BY <3>1 DEF CountsAre
    <3>3. load[b] \in Nat
      BY <1>1 DEF Loads
    <3>4. Threshold \in Nat
      BY HashAssumption
    <3> QED
      BY <3>2, <3>3, <3>4
  <2>3. (r.tbl.buckets[b].expand_mult + 1) * Threshold = y
    BY <1>2
  <2>4. r.tbl.buckets[b].count = c \/ r.tbl.buckets[b].count = c - 1
    <3> HIDE DEF c
    <3> QED
      BY Zenon DEF IsWithout, c
  <2> HIDE DEF x, y, c
  <2>5. r.tbl.buckets[b].count < x /\ r.tbl.buckets[b].count <= y
    BY <2>1, <2>2, <2>4
  <2> QED
    BY <2>3, <2>5 DEF x
<1> QED
  BY <1>3, <1>4 DEF Roomy

(* The last item takes the table with it. *)
LEMMA OnlyDeleted ==
  ASSUME NEW D, NEW B, NEW h \in HashRecord(D, B), NEW k, D = {k}, isTheOnly(h, k)
  PROVE  FreeItem(HASH_DELETE(h, k), k) = emptyTable
<1> DEFINE g == [h EXCEPT !.head = NULL, !.tbl = NULL]
<1>1. HASH_DELETE(h, k) = g
  BY Zenon DEF HASH_DELETE
<1>2. h = record(h.head, h.tbl, h.hh) /\ DOMAIN h.hh = {k}
  BY RecordForm DEF HashRecord
<1>3. g = record(NULL, NULL, h.hh)
  <2> DEFINE a == h.head
             b == h.tbl
             c == h.hh
  <2>1. h = record(a, b, c)
    BY <1>2
  <2> HIDE DEF a, b, c
  <2> DEFINE first == [h EXCEPT !.head = NULL]
             x == record(NULL, b, c)
  <2>2. first = x
    BY <2>1 DEF record
  <2>3. [x EXCEPT !.tbl = NULL] = record(NULL, NULL, c)
    BY DEF record
  <2>4. g = [first EXCEPT !.tbl = NULL]
    BY Zenon
  <2> HIDE DEF first, x
  <2> QED
    BY <2>2, <2>3, <2>4, Zenon DEF c
<1> HIDE DEF g
<1>4. g.hh = h.hh
  BY <1>3 DEF record
<1>5. FreeItem(g, k) = [g EXCEPT !.hh = [i \in DOMAIN g.hh \ {k} |-> g.hh[i]]]
  BY Zenon DEF FreeItem
<1>6. [i \in DOMAIN g.hh \ {k} |-> g.hh[i]] = <<>>
  <2>1. DOMAIN g.hh \ {k} = {}
    BY <1>2, <1>4
  <2> QED
    BY <2>1
<1>7. FreeItem(g, k) = record(NULL, NULL, <<>>)
  <2> DEFINE none == [i \in DOMAIN g.hh \ {k} |-> g.hh[i]]
             c == h.hh
  <2>1. none = <<>>
    BY <1>6
  <2> HIDE DEF none, c
  <2> QED
    BY <1>3, <1>5, <2>1 DEF record, none, c
<1> QED
  BY <1>1, <1>7 DEF record, emptyTable

(* The table without one of its items; if that was the first, the next is. *)
LEMMA Deleted ==
  ASSUME HasHashes(hashOf), NEW D \in SUBSET Key, NEW h, IsTable(hashOf, h, D), NEW k \in D
  PROVE  /\ IsTable(hashOf, FreeItem(HASH_DELETE(h, k), k), D \ {k})
         /\ h.head = k => FreeItem(HASH_DELETE(h, k), k).head = h.hh[k].next
<1> DEFINE r == FreeItem(HASH_DELETE(h, k), k)
<1>1. PICK B \in Nat \ {0} : \E items : Table(hashOf, h, D, B, items)
  BY DEF IsTable
<1> DEFINE q == hashOf[k] % B
<1>2. PICK items : Table(hashOf, h, D, B, items)
  BY <1>1
<1>3. /\ Sound(hashOf, h, D, B) /\ ItemsAre(h, D, items)
      /\ ~h.tbl.noexpand => Roomy(h, B)
  BY <1>2, Zenon DEF Table
<1>4. h \in HashRecord(D, B) /\ h.tbl.num_buckets = B
  BY <1>3 DEF Sound
<1>5. PICK chains : ChainsOf(hashOf, h, B, D, chains)
  BY <1>3 DEF Sound
<1>6. /\ Lists(items, D) /\ Linked(items, h.head, prevs(h), nexts(h))
      /\ h.tbl.tail = items[Len(items)] /\ h.tbl.num_items = Len(items)
      /\ Len(items) > 0
  BY <1>3 DEF ItemsAre
<1>7. NULL \notin D /\ DOMAIN h.hh = D
  BY <1>4, HashAssumption DEF HashRecord
<1>8. PICK p \in 1..Len(items) : items[p] = k
  BY <1>6, Zenon DEF Lists
<1>9. /\ prevs(h)[k] = h.hh[k].prev /\ nexts(h)[k] = h.hh[k].next
      /\ hhPrevs(h)[k] = h.hh[k].hh_prev /\ hhNexts(h)[k] = h.hh[k].hh_next
  BY <1>7 DEF prevs, nexts, hhPrevs, hhNexts
<1>10. /\ AreNeighbours(D, k, h.hh[k].prev, h.hh[k].next)
       /\ h.hh[k].prev = NULL <=> p = 1
       /\ h.hh[k].next = NULL <=> p = Len(items)
       /\ h.head = k <=> p = 1
  <2> DEFINE prev == prevs(h)
             next == nexts(h)
             head == h.head
  <2>1. /\ AreNeighbours(D, k, prev[k], next[k])
        /\ prev[k] = NULL <=> p = 1
        /\ next[k] = NULL <=> p = Len(items)
        /\ head = k <=> p = 1
    <3> HIDE DEF prev, next, head
    <3> QED
      BY <1>6, <1>7, <1>8, NeighboursOf DEF prev, next, head
  <2> QED
    BY <1>9, <2>1
<1>11. Len(items) \in Nat /\ Len(items) = Cardinality(D)
  BY <1>6, ListsAll
<1>12. CASE isTheOnly(h, k)
  <2>1. p = 1 /\ Len(items) = 1
    BY <1>10, <1>12 DEF isTheOnly
  <2>2. D = {k}
    <3>1. \A j \in D : \E i \in 1..Len(items) : items[i] = j
      BY <1>6, Zenon DEF Lists
    <3>2. \A i \in 1..Len(items) : i = p
      BY <2>1
    <3> QED
      BY <1>8, <3>1, <3>2
  <2>3. r = emptyTable
    BY <1>4, <1>12, <2>2, OnlyDeleted
  <2>4. r.head = NULL /\ h.hh[k].next = NULL
    BY <1>12, <2>3 DEF emptyTable, isTheOnly
  <2> HIDE DEF r
  <2>5. D \ {k} = {}
    BY <2>2
  <2>6. IsTable(hashOf, r, D \ {k})
    BY <2>3, <2>5 DEF IsTable
  <2> QED
    BY <2>4, <2>6 DEF r
<1>13. CASE ~isTheOnly(h, k)
  <2>1. Len(items) > 1
    <3>1. ~(p = 1 /\ p = Len(items))
      BY <1>10, <1>13 DEF isTheOnly
    <3> QED
      BY <1>8, <1>11, <3>1
  <2>2. q \in 0..(B - 1) /\ HASH_TO_BKT(k, h.tbl.num_buckets) = q
    BY <1>4, BucketExists DEF HASH_TO_BKT, hashv
  <2> HIDE DEF q
  <2>3. /\ AreNeighbours(D, k, h.hh[k].hh_prev, h.hh[k].hh_next)
        /\ h.tbl.buckets[q].count > 0
    <3> DEFINE s == chains[q]
               S == InBucket(hashOf, D, B, q)
               first == h.tbl.buckets[q].hh_head
               prev == hhPrevs(h)
               next == hhNexts(h)
    <3>1. /\ Lists(s, S) /\ Linked(s, first, prev, next) /\ h.tbl.buckets[q].count = Len(s)
      BY <1>5, <2>2, Zenon DEF ChainsOf, IsChain
    <3>2. k \in S /\ S \subseteq D /\ NULL \notin S
      BY <1>7 DEF InBucket, q
    <3> HIDE DEF s, S, first, prev, next
    <3>3. PICK y \in 1..Len(s) : s[y] = k
      BY <3>1, <3>2, Zenon DEF Lists
    <3>4. AreNeighbours(S, k, prev[k], next[k])
      BY <3>1, <3>2, <3>3, NeighboursOf
    <3>5. Len(s) \in Nat
      BY <3>1, <3>2, ListsAll
    <3>6. Len(s) > 0
      BY <3>3, <3>5
    <3>7. AreNeighbours(D, k, prev[k], next[k])
      BY <3>2, <3>4 DEF AreNeighbours
    <3> QED
      BY <1>9, <3>1, <3>6, <3>7 DEF prev, next
  <2>4. IsWithout(r, h, D, B, k, q)
    <3>1. h.hh[k].prev = NULL <=> h.head = k
      BY <1>10
    <3>2. h.tbl.num_items > 0
      BY <1>6
    <3>3. AreNeighbours(D, k, h.hh[k].prev, h.hh[k].next)
      BY <1>10
    <3> QED
      BY <1>4, <1>13, <2>2, <2>3, <3>1, <3>2, <3>3, Without
  <2> HIDE DEF r
  <2>5. \E fewer : ChainsOf(hashOf, r, B, D \ {k}, fewer)
    BY <1>5, <2>4, ChainsWithout DEF q
  <2>6. /\ r \in HashRecord(D \ {k}, B) /\ r.tbl.num_buckets = B
        /\ r.tbl.num_items = Len(items) - 1
        /\ r.tbl.tail = IF h.tbl.tail = k THEN h.hh[k].prev ELSE h.tbl.tail
        /\ LinksAcross(D, k, h.head, prevs(h), nexts(h), r.head, prevs(r), nexts(r))
    BY <1>4, <1>6, <2>4, Zenon DEF IsWithout
  <2>7. r.tbl.noexpand = h.tbl.noexpand
    BY <2>4, Zenon DEF IsWithout
  <2> DEFINE left == without(items, p)
  <2>8. ItemsAre(r, D \ {k}, left)
    <3> DEFINE prev == prevs(h)
               next == nexts(h)
               prev2 == prevs(r)
               next2 == nexts(r)
               first == h.head
               first2 == r.head
    <3>1. /\ LinksAcross(D, k, first, prev, next, first2, prev2, next2)
          /\ Linked(items, first, prev, next)
      BY <1>6, <2>6
    <3> HIDE DEF prev, next, prev2, next2, first, first2
    <3>2. /\ Lists(left, D \ {k})
          /\ Len(left) = Len(items) - 1
          /\ Linked(left, first2, prev2, next2)
      BY <1>6, <1>7, <1>8, <3>1, RemoveLinks
    <3>3. left[Len(items) - 1] = IF items[Len(items)] = k THEN prev[k] ELSE items[Len(items)]
      BY <1>6, <1>8, <2>1, <3>1, LastWithout
    <3> HIDE DEF left
    <3>4. r.tbl.tail = left[Len(left)]
      BY <1>6, <1>9, <2>6, <3>2, <3>3 DEF prev
    <3>5. Len(left) > 0
      BY <1>11, <2>1, <3>2
    <3> QED
      BY <2>6, <3>2, <3>4, <3>5 DEF ItemsAre, prev2, next2, first2
  <2> HIDE DEF left
  <2>9. Sound(hashOf, r, D \ {k}, B)
    BY <2>5, <2>6 DEF Sound
  <2>10. ~r.tbl.noexpand => Roomy(r, B)
    <3>1. ASSUME Roomy(h, B)
          PROVE  Roomy(r, B)
      BY <1>4, <2>2, <2>4, <3>1, RoomWithout
    <3> QED
      BY <1>3, <2>7, <3>1, Zenon
  <2>11. Table(hashOf, r, D \ {k}, B, left)
    BY <2>8, <2>9, <2>10, Zenon DEF Table
  <2>12. D \ {k} # {}
    <3>1. Lists(left, D \ {k}) /\ Len(left) > 0
      BY <2>8 DEF ItemsAre
    <3>2. left \in Seq(D \ {k})
      BY <3>1 DEF Lists
    <3>3. 1 \in 1..Len(left)
      BY <3>1, <3>2
    <3> QED
      BY <3>2, <3>3
  <2>13. IsTable(hashOf, r, D \ {k})
    <3> DEFINE E == D \ {k}
    <3>1. Table(hashOf, r, E, B, left) /\ E # {}
      BY <2>11, <2>12
    <3> HIDE DEF E
    <3>2. IsTable(hashOf, r, E)
      BY <3>1, Zenon DEF IsTable
    <3> QED
      BY <3>2 DEF E
  <2>14. h.head = k => r.head = h.hh[k].next
    BY <1>9, <2>6 DEF LinksAcross
  <2> QED
    BY <2>13, <2>14 DEF r
<1> QED
  BY <1>12, <1>13

(* What HASH_ITER and the fields of a table say of its items. *)
ItemsAreRead(h, D, items) ==
  /\ h.head # NULL /\ h.head \in D
  /\ DOMAIN h.hh = D
  /\ Items(h) = items
  /\ items \in Seq(Key) /\ Distinct(items) /\ ToSet(items) = D
  /\ Len(items) = Cardinality(D) /\ Len(items) > 0
  /\ h.tbl.num_items = Len(items)
  /\ Last(items) = h.tbl.tail
  /\ LinkedBack(items, prevs(h))
  /\ h.hh[h.head].next \in D \union {NULL}

(* The items of a table are read as they were linked. *)
LEMMA TableItems ==
  ASSUME NEW hf, NEW D \in SUBSET Key, NEW B \in Nat \ {0}, NEW h, NEW items,
         Table(hf, h, D, B, items)
  PROVE  ItemsAreRead(h, D, items)
<1> DEFINE prev == prevs(h)
           next == nexts(h)
           first == h.head
<1>1. h \in HashRecord(D, B) /\ NULL \notin D
  BY HashAssumption DEF Table, Sound
<1>2. /\ Lists(items, D) /\ Linked(items, first, prev, next)
      /\ h.tbl.tail = items[Len(items)] /\ h.tbl.num_items = Len(items)
      /\ Len(items) > 0
  BY DEF Table, ItemsAre
<1>3. items \in Seq(Key) /\ Distinct(items) /\ ToSet(items) = D /\ Len(items) = Cardinality(D)
  BY <1>2, ListsAll
<1>4. DOMAIN h.hh = D /\ next = [k \in DOMAIN h.hh |-> h.hh[k].next]
  BY <1>1 DEF HashRecord, nexts
<1>5. Items(h) = items
  <2> HIDE DEF prev, next, first
  <2>1. Follow(first, next) = items
    BY <1>2, <1>3, FollowMeetsAll
  <2> QED
    BY <1>4, <2>1 DEF Items, first
<1>6. Last(items) = h.tbl.tail
  BY <1>2, <1>3 DEF Last
<1>7. 1 \in 1..Len(items) /\ DOMAIN items = 1..Len(items)
  BY <1>2, <1>3
<1>8. LinkedBack(items, prev)
  <2> HIDE DEF prev
  <2>1. \A i \in 1..Len(items) : prev[items[i]] = IF i = 1 THEN NULL ELSE items[i - 1]
    BY <1>2, Zenon DEF Linked
  <2> QED
    BY <1>7, <2>1, Zenon DEF LinkedBack
<1>9. first = items[1] /\ items[1] \in D
  <2>1. items \in Seq(D)
    BY <1>2 DEF Lists
  <2>2. items[1] \in D
    BY <1>7, <2>1
  <2>3. first = IF Len(items) = 0 THEN NULL ELSE items[1]
    BY <1>2, Zenon DEF Linked
  <2>4. Len(items) # 0
    BY <1>2, <1>3
  <2> QED
    BY <2>2, <2>3, <2>4
<1>10. h.hh[first].next \in D \union {NULL}
  <2>1. AreNeighbours(D, first, prev[first], next[first])
    <3> HIDE DEF prev, next, first
    <3> QED
      BY <1>1, <1>2, <1>7, <1>9, NeighboursOf
  <2>2. next[first] = h.hh[first].next
    BY <1>4, <1>9
  <2> QED
    BY <2>1, <2>2 DEF AreNeighbours
<1>11. first # NULL /\ first \in D
  BY <1>1, <1>9
<1> QED
  BY <1>2, <1>3, <1>4, <1>5, <1>6, <1>8, <1>10, <1>11 DEF ItemsAreRead

(* What the chains say of the items. *)
ChainsAreRead(h, D, B) ==
  /\ \A b \in 0..(B - 1) :
       /\ Len(ChainOf(h, b)) = h.tbl.buckets[b].count
       /\ LinkedBack(ChainOf(h, b), hhPrevs(h))
  /\ Len(bucketOrder(h, B)) = Cardinality(D)
  /\ h.head # NULL => \A t \in Key : HASH_FIND(h, t) # NULL <=> t \in D

(* The chains of a table are read as they were linked. *)
LEMMA TableChains ==
  ASSUME HasHashes(hashOf), NEW D \in SUBSET Key, NEW B \in Nat \ {0}, NEW h,
         Sound(hashOf, h, D, B)
  PROVE  ChainsAreRead(h, D, B)
<1>1. PICK chains : ChainsOf(hashOf, h, B, D, chains)
  BY DEF Sound
<1>2. h.tbl.num_buckets = B
  BY DEF Sound
<1>3. \A b \in 0..(B - 1) : Follows(hashOf, D, B, h, b, chains[b])
  BY <1>1, ChainsAreFollowed
<1>4. ASSUME NEW b \in 0..(B - 1)
      PROVE  /\ Len(ChainOf(h, b)) = h.tbl.buckets[b].count
             /\ LinkedBack(ChainOf(h, b), hhPrevs(h))
  <2> DEFINE s == chains[b]
             prev == hhPrevs(h)
  <2>1. ChainOf(h, b) = s /\ h.tbl.buckets[b].count = Len(s) /\ s \in Seq(Key)
    BY <1>3 DEF Follows
  <2>2. Linked(s, h.tbl.buckets[b].hh_head, prev, hhNexts(h))
    BY <1>1, Zenon DEF ChainsOf, IsChain
  <2> HIDE DEF s, prev
  <2>3. DOMAIN s = 1..Len(s)
    BY <2>1
  <2>4. LinkedBack(s, prev)
    BY <2>2, <2>3, Zenon DEF Linked, LinkedBack
  <2> QED
    BY <2>1, <2>4 DEF prev
<1>5. Len(bucketOrder(h, B)) = Cardinality(D)
  <2>1. Lists(bucketOrder(h, B), D)
    BY <1>1, BucketsHaveAll
  <2> QED
    BY <2>1, ListsAll
<1>6. ASSUME h.head # NULL, NEW t \in Key
      PROVE  HASH_FIND(h, t) # NULL <=> t \in D
  <2> DEFINE b == hashOf[t] % B
             s == chains[b]
  <2>1. b \in 0..(B - 1) /\ t # NULL /\ HASH_TO_BKT(t, h.tbl.num_buckets) = b
    BY <1>2, BucketExists, HashAssumption DEF HASH_TO_BKT, hashv
  <2> HIDE DEF b
  <2>2. /\ ChainOf(h, b) = s /\ s \in Seq(Key)
        /\ \A i \in 1..Len(s) : s[i] \in D
        /\ \A k \in D : hashOf[k] % B = b => \E i \in 1..Len(s) : s[i] = k
    BY <1>3, <2>1, Zenon DEF Follows
  <2> HIDE DEF s
  <2>3. t \in ToSet(s) <=> \E i \in 1..Len(s) : s[i] = t
    BY <2>2 DEF ToSet
  <2>4. t \in ToSet(s) <=> t \in D
    BY <2>2, <2>3 DEF b
  <2>5. HASH_FIND(h, t) = IF t \in ToSet(s) THEN t ELSE NULL
    BY <1>6, <2>1, <2>2 DEF HASH_FIND
  <2> QED
    BY <2>1, <2>4, <2>5
<1> QED
  BY <1>4, <1>5, <1>6 DEF ChainsAreRead

-----------------------------------------------------------------------------
(*                           The set of time points                        *)

(* A hash function is defined on all keys. *)
LEMMA HashesOk ==
  ASSUME NEW hf \in HashFunction
  PROVE  HasHashes(hf)
  BY HashAssumption DEF HasHashes

(* There is a head exactly if there are items. *)
LEMMA HeadAndItems ==
  ASSUME NEW hf, NEW h, NEW D \in SUBSET Key, IsTable(hf, h, D)
  PROVE  /\ DOMAIN h.hh = D
         /\ h.head = NULL <=> D = {}
         /\ D = {} => h = emptyTable
         /\ D # {} => \E B \in Nat \ {0} : \E items : Table(hf, h, D, B, items)
<1>1. CASE D = {}
  <2>1. h = emptyTable
    BY <1>1 DEF IsTable
  <2>2. h.head = NULL /\ h.hh = <<>>
    BY <2>1 DEF emptyTable
  <2> QED
    BY <1>1, <2>1, <2>2
<1>2. CASE D # {}
  <2>1. \E B \in Nat \ {0} : \E items : Table(hf, h, D, B, items)
    BY <1>2, Zenon DEF IsTable
  <2>2. PICK B \in Nat \ {0} : \E items : Table(hf, h, D, B, items)
    BY <2>1
  <2>3. PICK items : Table(hf, h, D, B, items)
    BY <2>2
  <2>4. ItemsAreRead(h, D, items)
    BY <2>3, TableItems
  <2>5. DOMAIN h.hh = D /\ h.head # NULL
    BY <2>4 DEF ItemsAreRead
  <2> QED
    BY <1>2, <2>1, <2>5
<1> QED
  BY <1>1, <1>2

(* A time is found exactly if it is in the table. *)
LEMMA FindIsExact ==
  ASSUME HasHashes(hashOf), NEW h, NEW D \in SUBSET Key, IsTable(hashOf, h, D), NEW t \in Key
  PROVE  HASH_FIND(h, t) # NULL <=> t \in D
<1>1. CASE D = {}
  <2>1. h.head = NULL
    BY <1>1, HeadAndItems
  <2>2. HASH_FIND(h, t) = NULL
    BY <2>1, Zenon DEF HASH_FIND
  <2> QED
    BY <1>1, <2>2
<1>2. CASE D # {}
  <2>1. PICK B \in Nat \ {0} : \E items : Table(hashOf, h, D, B, items)
    BY <1>2, HeadAndItems
  <2>2. Sound(hashOf, h, D, B) /\ h.head # NULL
    BY <1>2, <2>1, HeadAndItems, Zenon DEF Table
  <2>3. ChainsAreRead(h, D, B)
    BY <2>2, TableChains
  <2> QED
    BY <2>2, <2>3 DEF ChainsAreRead
<1> QED
  BY <1>1, <1>2

(* The items as HASH_SRT gets them, of times s with errors e, and the times *)
(* of items.                                                               *)
itemsOf(s, e) == [i \in DOMAIN s |-> [time |-> s[i], error |-> e[s[i]]]]

timesOf(list) == [i \in DOMAIN list |-> list[i].time]

(* The items are distinct as their times are. *)
LEMMA ItemsToSort ==
  ASSUME NEW s \in Seq(Key), Distinct(s), NEW e, \A i \in 1..Len(s) : e[s[i]] \in Int
  PROVE  /\ itemsOf(s, e) \in Seq(Item) /\ Len(itemsOf(s, e)) = Len(s)
         /\ Distinct(itemsOf(s, e))
         /\ \A i \in 1..Len(s) : itemsOf(s, e)[i] = [time |-> s[i], error |-> e[s[i]]]
<1> DEFINE list == itemsOf(s, e)
           n == Len(s)
<1>1. n \in Nat /\ DOMAIN s = 1..n /\ \A i \in 1..n : s[i] \in Key
  OBVIOUS
<1>2. \A i \in 1..n : s[i] \in Int
  <2>1. \A k \in Key : k \in Int
    BY TimeSetAssumption, OrderAssumption
  <2> QED
    BY <1>1, <2>1, Zenon
<1>3. \A i \in 1..n : [time |-> s[i], error |-> e[s[i]]] \in Item
  BY <1>2 DEF Item
<1> HIDE DEF n
<1>4. list = [i \in 1..n |-> [time |-> s[i], error |-> e[s[i]]]]
  BY <1>1 DEF itemsOf
<1> HIDE DEF list
<1>5. list \in [1..n -> Item]
  BY <1>3, <1>4
<1>6. list \in Seq(Item) /\ Len(list) = n
  BY <1>1, <1>5
<1>7. \A i \in 1..n : list[i] = [time |-> s[i], error |-> e[s[i]]]
  BY <1>4
<1>8. ASSUME NEW i \in 1..n
      PROVE  list[i].time = s[i]
  <2> DEFINE x == s[i]
             y == e[s[i]]
  <2>1. list[i] = [time |-> x, error |-> y]
    BY <1>7
  <2> HIDE DEF x, y
  <2>2. list[i].time = x
    BY <2>1
  <2> QED
    BY <2>2 DEF x
<1>9. Distinct(list)
  BY <1>6, <1>8 DEF Distinct, n
<1> QED
  BY <1>6, <1>7, <1>9 DEF n, list

(* What the items are that were sorted, and in which order. *)
AreSorted(by, D, e, sorted) ==
  /\ sorted \in Seq(Item) /\ Len(sorted) > 0
  /\ Lists(timesOf(sorted), D) /\ Len(timesOf(sorted)) = Len(sorted)
  /\ \A i \in 1..Len(sorted) :
       /\ timesOf(sorted)[i] \in D
       /\ sorted[i] = [time |-> timesOf(sorted)[i], error |-> e[timesOf(sorted)[i]]]
  /\ InOrder(by, sorted)

(* HASH_SRT keeps the times and their errors. *)
LEMMA SortedTimes ==
  ASSUME NEW by, NEW D \in SUBSET Key, NEW s \in Seq(Key), Distinct(s), ToSet(s) = D, Len(s) > 0,
         NEW e, \A k \in D : e[k] \in Int
  PROVE  AreSorted(by, D, e, HASH_SRT(by, itemsOf(s, e)))
<1> DEFINE n == Len(s)
           list == itemsOf(s, e)
           sorted == HASH_SRT(by, list)
           order == timesOf(sorted)
<1>1. n \in Nat /\ n > 0 /\ DOMAIN s = 1..n
  OBVIOUS
<1>2. /\ \A i \in 1..n : s[i] \in D
      /\ \A k \in D : \E i \in 1..n : s[i] = k
  BY <1>1 DEF ToSet
<1>3. /\ list \in Seq(Item) /\ Len(list) = n /\ Distinct(list)
      /\ \A i \in 1..n : list[i] = [time |-> s[i], error |-> e[s[i]]]
  <2>1. \A i \in 1..Len(s) : e[s[i]] \in Int
    BY <1>2
  <2> HIDE DEF list
  <2> QED
    BY <2>1, ItemsToSort, Zenon DEF list
<1> HIDE DEF list
<1>4. sorted \in Seq(Item) /\ Permutes(sorted, list) /\ InOrder(by, sorted)
  <2> HIDE DEF n
  <2> QED
    BY <1>3, SortIsInOrder
<1> HIDE DEF sorted, n
<1>5. /\ Len(sorted) = n /\ Distinct(sorted)
      /\ \A x \in 1..n : \E i \in 1..n : sorted[x] = list[i]
      /\ \A i \in 1..n : \E x \in 1..n : sorted[x] = list[i]
  BY <1>3, <1>4 DEF Permutes
<1>6. DOMAIN sorted = 1..n
  BY <1>4, <1>5
<1>7. \A i \in 1..n : list[i].time = s[i]
  BY <1>3
<1>8. order = [i \in 1..n |-> sorted[i].time]
  BY <1>6 DEF timesOf
<1> HIDE DEF order
<1>9. \A i \in 1..n : order[i] = sorted[i].time
  BY <1>8
<1>10. ASSUME NEW i \in 1..n
       PROVE  order[i] \in D /\ sorted[i] = [time |-> order[i], error |-> e[order[i]]]
  <2>1. PICK j \in 1..n : sorted[i] = list[j]
    BY <1>5
  <2>2. order[i] = s[j]
    BY <1>7, <1>9, <2>1
  <2> QED
    BY <1>2, <1>3, <2>1, <2>2
<1>11. order \in [1..n -> D]
  BY <1>8, <1>10
<1>12. order \in Seq(D) /\ Len(order) = n
  BY <1>1, <1>11
<1>13. Distinct(order)
  <2> SUFFICES ASSUME NEW i \in 1..n, NEW j \in 1..n, order[i] = order[j]
               PROVE  i = j
    BY <1>12 DEF Distinct
  <2>1. sorted[i] = sorted[j]
    BY <1>10
  <2> QED
    BY <1>5, <2>1 DEF Distinct
<1>14. ASSUME NEW k \in D
       PROVE  \E i \in 1..Len(order) : order[i] = k
  <2>1. PICK j \in 1..n : s[j] = k
    BY <1>2
  <2>2. PICK i \in 1..n : sorted[i] = list[j]
    BY <1>5
  <2> QED
    BY <1>7, <1>9, <1>12, <2>1, <2>2
<1>15. Lists(order, D)
  BY <1>12, <1>13, <1>14 DEF Lists
<1>16. AreSorted(by, D, e, sorted)
  BY <1>1, <1>4, <1>5, <1>10, <1>12, <1>15 DEF AreSorted, order
<1> QED
  BY <1>16 DEF sorted, list

-----------------------------------------------------------------------------
(*                          The inductive invariant                        *)

(* There is a table of exactly the times that have errors. *)
TimesAreInTable ==
  /\ hashOf \in HashFunction
  /\ DOMAIN errors \subseteq Key
  /\ errors \in [DOMAIN errors -> Int]
  /\ IsTable(hashOf, hash, DOMAIN errors)

(* Which memory a TimeSet has, and where a destruction is. *)
SelfIsKept ==
  /\ self \in {"NULL", "live", "destroying", "exit"}
  /\ memory = IF self = "NULL" THEN {} ELSE Block
  /\ self = "NULL" => errors = <<>>
  /\ self = "destroying" => time = hash.head /\ tmp = following(hash, hash.head)

SetInv == TimesAreInTable /\ SelfIsKept

(* Initially there is no table. *)
LEMMA InitSetInv == TimeSetInit => SetInv
<1> SUFFICES ASSUME TimeSetInit
             PROVE  SetInv
  OBVIOUS
<1>1. DOMAIN errors = {} /\ errors \in [DOMAIN errors -> Int]
  BY DEF TimeSetInit
<1>2. IsTable(hashOf, hash, {})
  BY DEF TimeSetInit, HashInit, IsTable
<1> QED
  BY <1>1, <1>2 DEF TimeSetInit, HashInit, SetInv, TimesAreInTable, SelfIsKept

(* A time is looked for before it is added: it is new exactly if it has no *)
(* error yet.                                                              *)
LEMMA IsNewExactly ==
  ASSUME SetInv, NEW t \in Key
  PROVE  isNew(t) <=> t \notin DOMAIN errors
<1>1. HasHashes(hashOf)
  BY HashesOk DEF SetInv, TimesAreInTable
<1>2. HASH_FIND(hash, t) # NULL <=> t \in DOMAIN errors
  BY <1>1, FindIsExact DEF SetInv, TimesAreInTable
<1> QED
  BY <1>2 DEF isNew, TimeSet_contains

(* TimeSet_add_error preserves the invariant. *)
LEMMA AddSetInv ==
  ASSUME SetInv, NEW t \in Key, NEW e \in Int, TimeSet_add_error(t, e)
  PROVE  SetInv'
<1> DEFINE D == DOMAIN errors
<1>1. t \in Key \ D /\ HasHashes(hashOf)
  BY IsNewExactly, HashesOk DEF TimeSet_add_error, SetInv, TimesAreInTable
<1>2. IsTable(hashOf, hash, D) /\ D \in SUBSET Key
  BY DEF SetInv, TimesAreInTable
<1>3. IsTable(hashOf, HASH_ADD(hash, t), D \union {t})
  <2> HIDE DEF D
  <2> QED
    BY <1>1, <1>2, ItemAdded
<1>4. errors' = [x \in D \union {t} |-> IF x = t THEN e ELSE errors[x]]
  BY DEF TimeSet_add_error
<1>5. DOMAIN errors' = D \union {t} /\ errors' \in [D \union {t} -> Int]
  <2>1. \A x \in D : errors[x] \in Int
    BY DEF SetInv, TimesAreInTable
  <2> HIDE DEF D
  <2> QED
    BY <1>4, <2>1
<1>6. IsTable(hashOf', hash', DOMAIN errors')
  BY <1>3, <1>5 DEF TimeSet_add_error
<1>7. TimesAreInTable'
  BY <1>1, <1>2, <1>5, <1>6 DEF TimeSet_add_error, SetInv, TimesAreInTable
<1>8. SelfIsKept'
  BY DEF TimeSet_add_error, SetInv, SelfIsKept
<1> QED
  BY <1>7, <1>8 DEF SetInv

(* What a sort leaves. *)
LEMMA SortKeepsTable ==
  ASSUME SetInv, NEW by, HASH_SORT(by)
  PROVE  \E sorted : /\ AreSorted(by, DOMAIN errors, errors, sorted)
                     /\ IsTable(hashOf, hash', DOMAIN errors)
                     /\ Items(hash') = timesOf(sorted)
<1> DEFINE D == DOMAIN errors
<1>1. IsTable(hashOf, hash, D) /\ D \in SUBSET Key /\ hash.head # NULL
      /\ \A k \in D : errors[k] \in Int
  BY DEF SetInv, TimesAreInTable, HASH_SORT
<1>2. PICK B \in Nat \ {0} : \E items : Table(hashOf, hash, D, B, items)
  BY <1>1, HeadAndItems
<1>3. PICK items : Table(hashOf, hash, D, B, items)
  BY <1>2
<1>4. ItemsAreRead(hash, D, items)
  BY <1>1, <1>3, TableItems
<1>5. /\ Items(hash) = items /\ items \in Seq(Key) /\ Distinct(items) /\ ToSet(items) = D
      /\ Len(items) > 0
  BY <1>4 DEF ItemsAreRead
<1>6. TimeSetItems = itemsOf(items, errors)
  BY <1>5, Zenon DEF TimeSetItems, TimeSetItem, itemsOf
<1> DEFINE sorted == HASH_SRT(by, TimeSetItems)
           order == timesOf(sorted)
<1>7. AreSorted(by, D, errors, sorted)
  <2> HIDE DEF D
  <2> QED
    BY <1>1, <1>5, <1>6, SortedTimes
<1>8. hash' = relinked(hash, order)
  BY Zenon DEF HASH_SORT, timesOf
<1> HIDE DEF D, sorted
<1>9. Lists(order, D)
  BY <1>7 DEF AreSorted
<1> HIDE DEF order
<1>10. Table(hashOf, hash', D, B, order)
  BY <1>1, <1>3, <1>8, <1>9, Relinked
<1>11. ItemsAreRead(hash', D, order)
  BY <1>1, <1>10, TableItems
<1>12. Items(hash') = order
  BY <1>11 DEF ItemsAreRead
<1>13. IsTable(hashOf, hash', D)
  <2>1. D # {}
    BY <1>1, HeadAndItems
  <2> QED
    BY <1>10, <2>1, Zenon DEF IsTable
<1> QED
  BY <1>7, <1>12, <1>13 DEF D, order

(* A step of TimeSet_destroy_'s loop preserves the invariant. *)
LEMMA DestroyItemSetInv ==
  ASSUME SetInv, destroyItem
  PROVE  SetInv'
<1> DEFINE D == DOMAIN errors
<1>1. /\ self = "destroying" /\ time # NULL /\ time = hash.head
      /\ tmp = following(hash, hash.head)
      /\ hash' = FreeItem(HASH_DELETE(hash, time), time)
      /\ errors' = [x \in D \ {time} |-> errors[x]]
      /\ time' = tmp /\ tmp' = following(hash', tmp)
      /\ UNCHANGED <<hashOf, self, memory>>
  BY DEF destroyItem, SetInv, SelfIsKept
<1>2. IsTable(hashOf, hash, D) /\ D \in SUBSET Key /\ HasHashes(hashOf)
      /\ \A k \in D : errors[k] \in Int
  BY HashesOk DEF SetInv, TimesAreInTable
<1> HIDE DEF D
<1>3. time \in D
  <2>1. D # {}
    BY <1>1, <1>2, HeadAndItems
  <2>2. PICK B \in Nat \ {0} : \E items : Table(hashOf, hash, D, B, items)
    BY <1>2, <2>1, HeadAndItems
  <2>3. PICK items : Table(hashOf, hash, D, B, items)
    BY <2>2
  <2>4. ItemsAreRead(hash, D, items)
    BY <1>2, <2>3, TableItems
  <2> QED
    BY <1>1, <2>4 DEF ItemsAreRead
<1>4. IsTable(hashOf, hash', D \ {time}) /\ hash'.head = hash.hh[time].next
  BY <1>1, <1>2, <1>3, Deleted
<1>5. DOMAIN errors' = D \ {time} /\ errors' \in [D \ {time} -> Int]
  BY <1>1, <1>2
<1>6. TimesAreInTable'
  BY <1>1, <1>2, <1>4, <1>5 DEF SetInv, TimesAreInTable
<1>7. time' = hash'.head /\ tmp' = following(hash', hash'.head)
  <2>1. tmp = hash.hh[time].next
    BY <1>1 DEF following
  <2> QED
    BY <1>1, <1>4, <2>1
<1>8. SelfIsKept'
  BY <1>1, <1>7 DEF SetInv, SelfIsKept
<1> QED
  BY <1>6, <1>8 DEF SetInv

(* Every step preserves the invariant. *)
LEMMA NextSetInv == SetInv /\ [TimeSetNext]_setVars => SetInv'
<1> SUFFICES ASSUME SetInv, [TimeSetNext]_setVars
             PROVE  SetInv'
  OBVIOUS
<1>1. CASE TimeSet_new
  <2>1. UNCHANGED <<hash, hashOf, errors>> /\ errors = <<>>
    BY <1>1 DEF TimeSet_new, SetInv, SelfIsKept
  <2>2. TimesAreInTable'
    BY <2>1 DEF SetInv, TimesAreInTable
  <2>3. SelfIsKept'
    BY <1>1, <2>1 DEF TimeSet_new, freedOnError, SetInv, SelfIsKept
  <2> QED
    BY <2>2, <2>3 DEF SetInv
<1>2. ASSUME NEW t \in Key, TimeSet_add(t)
      PROVE  SetInv'
  BY <1>2, AddSetInv DEF TimeSet_add
<1>3. ASSUME NEW t \in Key, NEW e \in Error[t], TimeSet_add_error(t, e)
      PROVE  SetInv'
  <2>1. e \in Int
    BY TimeSetAssumption
  <2> QED
    BY <1>3, <2>1, AddSetInv
<1>4. ASSUME NEW t \in Key, OutOfMemory(t)
      PROVE  SetInv'
  <2>1. TimesAreInTable'
    BY <1>4 DEF OutOfMemory, SetInv, TimesAreInTable
  <2>2. SelfIsKept'
    BY <1>4 DEF OutOfMemory, SetInv, SelfIsKept
  <2> QED
    BY <2>1, <2>2 DEF SetInv
<1>5. ASSUME NEW by \in Comparison, HASH_SORT(by)
      PROVE  SetInv'
  <2>1. IsTable(hashOf, hash', DOMAIN errors)
    BY <1>5, SortKeepsTable
  <2>2. UNCHANGED <<hashOf, self, memory, errors, time, tmp>> /\ self = "live"
    BY <1>5 DEF HASH_SORT
  <2>3. TimesAreInTable'
    BY <2>1, <2>2 DEF SetInv, TimesAreInTable
  <2>4. SelfIsKept'
    BY <2>2 DEF SetInv, SelfIsKept
  <2> QED
    BY <2>3, <2>4 DEF SetInv
<1>6. CASE TimeSet_destroy
  <2>1. TimesAreInTable'
    BY <1>6 DEF TimeSet_destroy, SetInv, TimesAreInTable
  <2>2. SelfIsKept'
    BY <1>6 DEF TimeSet_destroy, SetInv, SelfIsKept, following
  <2> QED
    BY <2>1, <2>2 DEF SetInv
<1>7. CASE destroyItem
  BY <1>7, DestroyItemSetInv
<1>8. CASE destroyTimeSet
  <2>1. TimesAreInTable'
    BY <1>8 DEF destroyTimeSet, SetInv, TimesAreInTable
  <2>2. DOMAIN errors = {}
    <3>1. hash.head = NULL
      BY <1>8 DEF destroyTimeSet, SetInv, SelfIsKept
    <3> QED
      BY <3>1, HeadAndItems DEF SetInv, TimesAreInTable
  <2>3. errors = <<>>
    BY <2>2 DEF SetInv, TimesAreInTable
  <2>4. SelfIsKept'
    BY <1>8, <2>3 DEF destroyTimeSet, SetInv, SelfIsKept
  <2> QED
    BY <2>1, <2>4 DEF SetInv
<1>9. CASE UNCHANGED setVars
  BY <1>9 DEF setVars, SetInv, TimesAreInTable, SelfIsKept
<1> QED
  BY <1>1, <1>2, <1>3, <1>4, <1>5, <1>6, <1>7, <1>8, <1>9 DEF TimeSetNext

(* The invariant holds in every state. *)
THEOREM SetIsKept == TimeSetSpec => []SetInv
  BY InitSetInv, NextSetInv, PTL DEF TimeSetSpec

-----------------------------------------------------------------------------
(*                                The results                              *)

(* The table of the invariant, if there is one. *)
LEMMA TableInState ==
  ASSUME SetInv, hash.head # NULL
  PROVE  \E B \in Nat \ {0} : \E items : Table(hashOf, hash, DOMAIN errors, B, items)
  BY HeadAndItems DEF SetInv, TimesAreInTable

(* The invariant implies the table's integrity. *)
LEMMA InvHashIntegrity == SetInv => HashIntegrity
<1> SUFFICES ASSUME SetInv
             PROVE  HashIntegrity
  OBVIOUS
<1> DEFINE D == DOMAIN errors
<1>1. IsTable(hashOf, hash, D) /\ D \in SUBSET Key /\ HasHashes(hashOf)
  BY HashesOk DEF SetInv, TimesAreInTable
<1>2. CASE hash.head = NULL
  <2>1. hash = emptyTable
    BY <1>1, <1>2, HeadAndItems
  <2>2. HashTypeOK
    BY <2>1 DEF HashTypeOK, emptyTable, Link
  <2> QED
    BY <1>2, <2>2 DEF HashIntegrity
<1>3. CASE hash.head # NULL
  <2>1. PICK B \in Nat \ {0} : \E items : Table(hashOf, hash, D, B, items)
    BY <1>3, TableInState
  <2>2. PICK items : Table(hashOf, hash, D, B, items)
    BY <2>1
  <2> HIDE DEF D
  <2>3. hash \in HashRecord(D, B) /\ hash.tbl.num_buckets = B /\ Sound(hashOf, hash, D, B)
    BY <2>2 DEF Table, Sound
  <2>4. ItemsAreRead(hash, D, items) /\ ChainsAreRead(hash, D, B)
    BY <1>1, <2>2, <2>3, TableItems, TableChains
  <2>5. HashTypeOK
    <3>1. hash.head \in Link /\ hash.tbl \in UT_hash_table(B) /\ hash.hh \in [D -> UT_hash_handle]
      BY <2>3 DEF HashRecord
    <3>2. hash.tbl \in UT_hash_table(hash.tbl.num_buckets)
      BY <2>3, <3>1
    <3> QED
      BY <1>1, <1>3, <3>1, <3>2 DEF HashTypeOK
  <2>6. DOMAIN hash.tbl.buckets = 0..(B - 1)
    BY <2>3 DEF HashRecord, UT_hash_table
  <2>7. \A b \in DOMAIN hash.tbl.buckets :
          /\ Len(ChainOf(hash, b)) = hash.tbl.buckets[b].count
          /\ LinkedBack(ChainOf(hash, b), hhPrevs(hash))
    BY <2>4, <2>6, Zenon DEF ChainsAreRead
  <2>8. /\ Len(bucketOrder(hash, B)) = hash.tbl.num_items
        /\ Items(hash) = items /\ Len(items) = hash.tbl.num_items
        /\ Last(items) = hash.tbl.tail
        /\ LinkedBack(items, prevs(hash))
    BY <2>4 DEF ItemsAreRead, ChainsAreRead
  <2>9. Len(bucketOrder(hash, hash.tbl.num_buckets)) = hash.tbl.num_items
    BY <2>3, <2>8
  <2> QED
    BY <2>5, <2>7, <2>8, <2>9, Zenon DEF HashIntegrity, bucketOrder, hhPrevs, prevs
<1> QED
  BY <1>2, <1>3

(* HASH_FSCK would find nothing: in every state all links of the table     *)
(* have their inverse, and all counts are right.                           *)
THEOREM TableHasIntegrity == TimeSetSpec => []HashIntegrity
  BY SetIsKept, InvHashIntegrity, PTL

(* The invariant implies the bound on chains. *)
LEMMA InvChainsAreBounded == SetInv => ChainsAreBounded
<1> SUFFICES ASSUME SetInv, hash.head # NULL, ~hash.tbl.noexpand,
                    NEW b \in DOMAIN hash.tbl.buckets
             PROVE  hash.tbl.buckets[b].count
                      <= (hash.tbl.buckets[b].expand_mult + 1) * Threshold
  BY DEF ChainsAreBounded
<1> DEFINE D == DOMAIN errors
<1>1. PICK B \in Nat \ {0} : \E items : Table(hashOf, hash, D, B, items)
  BY TableInState
<1>2. PICK items : Table(hashOf, hash, D, B, items)
  BY <1>1
<1>3. hash \in HashRecord(D, B) /\ Roomy(hash, B)
  <2>1. Sound(hashOf, hash, D, B) /\ Roomy(hash, B)
    BY <1>2, Zenon DEF Table
  <2> QED
    BY <2>1, Zenon DEF Sound
<1>4. b \in 0..(B - 1)
  BY <1>3 DEF HashRecord, UT_hash_table
<1>5. PICK load : HasRoom(hash, load, B)
  BY <1>3 DEF Roomy
<1> QED
  BY <1>4, <1>5 DEF HasRoom

(* The comment on chain lengths in uthash.h: as long as expansion is not   *)
(* inhibited, no chain is longer than its multiple of the threshold.       *)
THEOREM ChainsStayBounded == TimeSetSpec => []ChainsAreBounded
  BY SetIsKept, InvChainsAreBounded, PTL

(* The invariant implies exact answers. *)
LEMMA InvAnswersAreExact == SetInv => AnswersAreExact
<1> SUFFICES ASSUME SetInv, self = "live"
             PROVE  /\ ToSet(Items(hash)) = DOMAIN errors
                    /\ \A t \in Key : TimeSet_contains(t) <=> t \in DOMAIN errors
                    /\ TimeSet_size = Cardinality(DOMAIN errors)
  BY DEF AnswersAreExact
<1> DEFINE D == DOMAIN errors
<1>1. IsTable(hashOf, hash, D) /\ D \in SUBSET Key
  BY DEF SetInv, TimesAreInTable
<1>2. \A t \in Key : TimeSet_contains(t) <=> t \in D
  BY IsNewExactly DEF isNew
<1>3. ToSet(Items(hash)) = D /\ TimeSet_size = Cardinality(D)
  <2>1. CASE hash.head = NULL
    <3>1. D = {} /\ hash.hh = <<>>
      BY <1>1, <2>1, HeadAndItems DEF emptyTable
    <3>2. Linked(<<>>, hash.head, prevs(hash), nexts(hash)) /\ Distinct(<<>>) /\ <<>> \in Seq(Key)
      BY <2>1 DEF Linked, Distinct
    <3> DEFINE prev == prevs(hash)
               next == nexts(hash)
               first == hash.head
    <3>3. Follow(first, next) = <<>>
      <4>1. Linked(<<>>, first, prev, next)
        BY <3>2
      <4> HIDE DEF prev, next, first
      <4> QED
        BY <3>2, <4>1, FollowMeetsAll
    <3>4. Items(hash) = <<>>
      BY <3>3, Zenon DEF Items, nexts
    <3>5. ToSet(<<>>) = {} /\ Cardinality({}) = 0
      BY FS_EmptySet DEF ToSet
    <3>6. TimeSet_size = 0
      BY <2>1 DEF TimeSet_size, HASH_COUNT
    <3> QED
      BY <3>1, <3>4, <3>5, <3>6
  <2>2. CASE hash.head # NULL
    <3>1. PICK B \in Nat \ {0} : \E items : Table(hashOf, hash, D, B, items)
      BY <2>2, TableInState
    <3>2. PICK items : Table(hashOf, hash, D, B, items)
      BY <3>1
    <3>3. ItemsAreRead(hash, D, items)
      BY <1>1, <3>2, TableItems
    <3> QED
      BY <2>2, <3>3 DEF ItemsAreRead, TimeSet_size, HASH_COUNT
  <2> QED
    BY <2>1, <2>2
<1> QED
  BY <1>2, <1>3

(* However the table was expanded and sorted, the answers of a TimeSet are *)
(* those about the times that were added.                                  *)
THEOREM AnswersStayExact == TimeSetSpec => []AnswersAreExact
  BY SetIsKept, InvAnswersAreExact, PTL

(* The invariant implies that the iteration is safe. *)
LEMMA InvIterationIsSafe == SetInv => IterationIsSafe
<1> SUFFICES ASSUME SetInv, self = "destroying"
             PROVE  /\ {time, tmp} \subseteq DOMAIN hash.hh \union {NULL}
                    /\ time = hash.head
                    /\ time # NULL => tmp = hash.hh[time].next
  BY DEF IterationIsSafe
<1>1. time = hash.head /\ tmp = following(hash, hash.head)
  BY DEF SetInv, SelfIsKept
<1>2. CASE hash.head = NULL
  BY <1>1, <1>2 DEF following
<1>3. CASE hash.head # NULL
  <2> DEFINE D == DOMAIN errors
  <2>1. PICK B \in Nat \ {0} : \E items : Table(hashOf, hash, D, B, items)
    BY <1>3, TableInState
  <2>2. PICK items : Table(hashOf, hash, D, B, items)
    BY <2>1
  <2>3. D \in SUBSET Key
    BY DEF SetInv, TimesAreInTable
  <2> HIDE DEF D
  <2>4. ItemsAreRead(hash, D, items)
    BY <2>2, <2>3, TableItems
  <2>5. /\ hash.head \in D /\ DOMAIN hash.hh = D
        /\ hash.hh[hash.head].next \in D \union {NULL}
    BY <2>4 DEF ItemsAreRead
  <2> QED
    BY <1>1, <1>3, <2>5 DEF following
<1> QED
  BY <1>2, <1>3

(* While TimeSet_destroy_ frees the items it iterates over, its two        *)
(* pointers lead to the first two that are left.                           *)
THEOREM IterationStaysSafe == TimeSetSpec => []IterationIsSafe
  BY SetIsKept, InvIterationIsSafe, PTL

(* The invariant implies that nothing leaks. *)
LEMMA InvNothingLeaks == SetInv => NothingLeaks
<1> SUFFICES ASSUME SetInv, self = "NULL"
             PROVE  memory = {} /\ hash = emptyTable
  BY DEF NothingLeaks
<1>1. memory = {} /\ errors = <<>>
  BY DEF SetInv, SelfIsKept
<1>2. DOMAIN errors = {}
  BY <1>1
<1>3. hash = emptyTable
  BY <1>2, HeadAndItems DEF SetInv, TimesAreInTable
<1> QED
  BY <1>1, <1>3

(* Without a TimeSet nothing is allocated. *)
THEOREM SetLeaksNothing == TimeSetSpec => []NothingLeaks
  BY SetIsKept, InvNothingLeaks, PTL

-----------------------------------------------------------------------------
(*                          The abstract specification                     *)

(* Initially no time is seen. *)
LEMMA InitIsSeen == TimeSetInit => Seen!Init
  BY DEF TimeSetInit, Seen!Init

(* Every step is a step of the abstract set or leaves it alone. *)
LEMMA NextIsSeen ==
  ASSUME SetInv, SetInv', [TimeSetNext]_setVars
  PROVE  [Seen!Next]_(IF self \in {"live", "exit"} THEN errors ELSE <<>>)
<1> DEFINE seen == IF self \in {"live", "exit"} THEN errors ELSE <<>>
<1>1. ASSUME NEW t \in Key, NEW e \in (UNION {Error[x] : x \in Key}) \union {0},
             TimeSet_add_error(t, e)
      PROVE  Seen!Next
  <2>1. t \notin DOMAIN errors
    BY <1>1, IsNewExactly DEF TimeSet_add_error
  <2>2. errors' = [x \in DOMAIN errors \union {t} |-> IF x = t THEN e ELSE errors[x]]
        /\ self = "live" /\ self' = "live"
    BY <1>1 DEF TimeSet_add_error
  <2>3. errors' = [x \in DOMAIN errors \union {t} |->
                     IF x \in DOMAIN errors THEN errors[x] ELSE e]
    BY <2>1, <2>2
  <2>4. Seen!Add(t, e)
    BY <2>2, <2>3 DEF Seen!Add
  <2> QED
    BY <2>4 DEF Seen!Next
<1>2. CASE TimeSet_new
  <2>1. UNCHANGED errors /\ errors = <<>> /\ self = "NULL"
    BY <1>2 DEF TimeSet_new, SetInv, SelfIsKept
  <2> QED
    BY <2>1
<1>3. ASSUME NEW t \in Key, TimeSet_add(t)
      PROVE  Seen!Next
  BY <1>1, <1>3 DEF TimeSet_add
<1>4. ASSUME NEW t \in Key, NEW e \in Error[t], TimeSet_add_error(t, e)
      PROVE  Seen!Next
  BY <1>1, <1>4
<1>5. ASSUME NEW t \in Key, OutOfMemory(t)
      PROVE  UNCHANGED seen
  BY <1>5 DEF OutOfMemory
<1>6. ASSUME NEW by, HASH_SORT(by)
      PROVE  UNCHANGED seen
  BY <1>6 DEF HASH_SORT
<1>7. CASE TimeSet_destroy
  BY <1>7 DEF TimeSet_destroy, Seen!Next, Seen!Clear
<1>8. CASE destroyItem
  BY <1>8 DEF destroyItem
<1>9. CASE destroyTimeSet
  BY <1>9 DEF destroyTimeSet
<1>10. CASE UNCHANGED setVars
  BY <1>10 DEF setVars
<1> QED
  BY <1>2, <1>3, <1>4, <1>5, <1>6, <1>7, <1>8, <1>9, <1>10 DEF TimeSetNext

(* A TimeSet implements the abstract set of times with their first errors. *)
THEOREM SetImplementsSeenTimes == TimeSetSpec => ImplementsSeenTimes
<1>1. SetInv /\ SetInv' /\ [TimeSetNext]_setVars
        => [Seen!Next]_(IF self \in {"live", "exit"} THEN errors ELSE <<>>)
  BY NextIsSeen
<1> QED
  BY <1>1, InitIsSeen, SetIsKept, PTL DEF TimeSetSpec, ImplementsSeenTimes, Seen!Spec

-----------------------------------------------------------------------------
(*                                The sort                                 *)

(* The items in the new order are the sorted ones. *)
LEMMA SortedItems ==
  ASSUME SetInv, NEW by, NEW sorted, AreSorted(by, DOMAIN errors, errors, sorted),
         NEW list, list = timesOf(sorted)
  PROVE  /\ Len(list) = Len(sorted) /\ Len(list) \in Nat /\ DOMAIN list = 1..Len(list)
         /\ \A i \in 1..Len(list) :
              list[i] \in DOMAIN errors /\ TimeSetItem(list[i]) = sorted[i] /\ sorted[i] \in Item
         /\ \A i \in 1..(Len(list) - 1) : cmpfcn(by, sorted[i], sorted[i + 1]) <= 0
         /\ \A i, j \in 1..Len(list) : list[i] = list[j] => i = j
<1>1. /\ sorted \in Seq(Item) /\ Lists(timesOf(sorted), DOMAIN errors)
      /\ Len(timesOf(sorted)) = Len(sorted)
      /\ \A i \in 1..Len(sorted) :
           /\ timesOf(sorted)[i] \in DOMAIN errors
           /\ sorted[i] = [time |-> timesOf(sorted)[i], error |-> errors[timesOf(sorted)[i]]]
      /\ \A i \in 1..(Len(sorted) - 1) : cmpfcn(by, sorted[i], sorted[i + 1]) <= 0
  BY Zenon DEF AreSorted, InOrder
<1>2. /\ list \in Seq(DOMAIN errors)
      /\ \A i, j \in 1..Len(list) : list[i] = list[j] => i = j
  BY <1>1, Zenon DEF Lists, Distinct
<1>3. Len(list) \in Nat /\ DOMAIN list = 1..Len(list)
  BY <1>2
<1>4. \A i \in 1..Len(sorted) : sorted[i] \in Item
  BY <1>1
<1> HIDE DEF timesOf
<1>5. \A i \in 1..Len(list) :
        list[i] \in DOMAIN errors /\ TimeSetItem(list[i]) = sorted[i] /\ sorted[i] \in Item
  BY <1>1, <1>4, Zenon DEF TimeSetItem
<1>6. Len(list) = Len(sorted)
  BY <1>1
<1> QED
  BY <1>1, <1>2, <1>3, <1>5, <1>6, Zenon

(* A sort in a state of the invariant orders neighbours. *)
LEMMA SortedNeighbours ==
  ASSUME SetInv, NEW by, HASH_SORT(by)
  PROVE  LET list == Items(hash')
         IN  \A k \in 1..(Len(list) - 1) :
               cmpfcn(by, TimeSetItem(list[k]), TimeSetItem(list[k + 1])) <= 0
<1>1. PICK sorted : /\ AreSorted(by, DOMAIN errors, errors, sorted)
                    /\ Items(hash') = timesOf(sorted)
  BY SortKeepsTable
<1> DEFINE list == Items(hash')
<1>2. /\ Len(list) = Len(sorted) /\ Len(list) \in Nat
      /\ \A i \in 1..Len(list) : TimeSetItem(list[i]) = sorted[i]
      /\ \A i \in 1..(Len(list) - 1) : cmpfcn(by, sorted[i], sorted[i + 1]) <= 0
  BY <1>1, SortedItems
<1> HIDE DEF list
<1>3. ASSUME NEW k \in 1..(Len(list) - 1)
      PROVE  cmpfcn(by, TimeSetItem(list[k]), TimeSetItem(list[k + 1])) <= 0
  <2> DEFINE next == k + 1
  <2>1. k \in 1..Len(list) /\ next \in 1..Len(list)
    BY <1>2
  <2>2. cmpfcn(by, sorted[k], sorted[next]) <= 0
    BY <1>2
  <2> HIDE DEF next
  <2>3. TimeSetItem(list[k]) = sorted[k] /\ TimeSetItem(list[next]) = sorted[next]
    BY <1>2, <2>1
  <2>4. cmpfcn(by, TimeSetItem(list[k]), TimeSetItem(list[next])) <= 0
    BY <2>2, <2>3, Zenon
  <2> QED
    BY <2>4 DEF next
<1> QED
  BY <1>3 DEF list

(* Although neither comparison function is transitive, after any sort each *)
(* item compares with the next as not greater.                             *)
THEOREM SortOrdersNeighbours == TimeSetSpec => NeighboursAreInOrder
<1> DEFINE Ordered ==
             \A by \in Comparison :
               HASH_SORT(by) =>
                 LET list == Items(hash')
                 IN  \A k \in 1..(Len(list) - 1) :
                       cmpfcn(by, TimeSetItem(list[k]), TimeSetItem(list[k + 1])) <= 0
<1>1. SetInv => Ordered
  BY SortedNeighbours, Zenon
<1>2. NeighboursAreInOrder <=> [][Ordered]_setVars
  BY Zenon DEF NeighboursAreInOrder
<1> HIDE DEF Ordered
<1> QED
  BY <1>1, <1>2, SetIsKept, PTL DEF TimeSetSpec

(* A sort by time in a state of the invariant sorts close times. *)
LEMMA SortedByTime ==
  ASSUME SetInv, HASH_SORT("time"),
         \A x, y \in DOMAIN errors : Abs(x - y) < IntModulus \div 2
  PROVE  LET list == Items(hash')
         IN  \A j, k \in DOMAIN list : j < k => list[j] < list[k]
<1>1. PICK sorted : /\ AreSorted("time", DOMAIN errors, errors, sorted)
                    /\ Items(hash') = timesOf(sorted)
  BY SortKeepsTable
<1> DEFINE list == Items(hash')
<1>2. /\ Len(list) = Len(sorted) /\ Len(list) \in Nat /\ DOMAIN list = 1..Len(list)
      /\ \A i \in 1..Len(list) :
           list[i] \in DOMAIN errors /\ TimeSetItem(list[i]) = sorted[i] /\ sorted[i] \in Item
      /\ \A i \in 1..(Len(list) - 1) : cmpfcn("time", sorted[i], sorted[i + 1]) <= 0
      /\ \A i, j \in 1..Len(list) : list[i] = list[j] => i = j
  BY <1>1, SortedItems
<1> HIDE DEF list
<1>3. \A k \in DOMAIN errors : k \in Int
  BY TimeSetAssumption, OrderAssumption DEF SetInv, TimesAreInTable
<1>4. \A i \in 1..Len(list) : list[i] \in Int /\ sorted[i].time = list[i]
  <2> SUFFICES ASSUME NEW i \in 1..Len(list)
               PROVE  list[i] \in Int /\ sorted[i].time = list[i]
    OBVIOUS
  <2> DEFINE x == list[i]
             e == errors[x]
  <2>1. sorted[i] = [time |-> x, error |-> e] /\ x \in Int
    BY <1>2, <1>3 DEF TimeSetItem
  <2> HIDE DEF x, e
  <2>2. sorted[i].time = x
    BY <2>1
  <2> QED
    BY <2>1, <2>2 DEF x
<1>5. ASSUME NEW i \in 1..(Len(list) - 1)
      PROVE  list[i] < list[i + 1]
  <2> DEFINE next == i + 1
             x == sorted[i]
             y == sorted[next]
  <2>1. i \in 1..Len(list) /\ next \in 1..Len(list) /\ i # next
    BY <1>2
  <2>2. cmpfcn("time", sorted[i], sorted[next]) <= 0
    BY <1>2
  <2> HIDE DEF next
  <2>3. x \in Item /\ y \in Item /\ x.time = list[i] /\ y.time = list[next]
        /\ list[i] \in Int /\ list[next] \in Int /\ list[i] # list[next]
        /\ list[i] \in DOMAIN errors /\ list[next] \in DOMAIN errors
    BY <1>2, <1>4, <2>1
  <2>4. Abs(x.time - y.time) < IntModulus \div 2
    BY <2>3
  <2> HIDE DEF x, y
  <2>5. cmpfcn("time", x, y) = x.time - y.time
    BY <2>3, <2>4, CloseTimesCompared
  <2>6. x.time - y.time <= 0
    BY <2>2, <2>5 DEF x, y
  <2>7. list[i] < list[next]
    BY <2>3, <2>6
  <2> QED
    BY <2>7 DEF next
<1>6. \A j, k \in 1..Len(list) : j < k => list[j] < list[k]
  BY <1>2, <1>4, <1>5, StepsToOrder
<1> QED
  BY <1>2, <1>6 DEF list

(* Items whose times an int can hold the distances of are sorted by time.  *)
THEOREM SortOrdersTimes == TimeSetSpec => SortsByTime
<1> DEFINE Ordered ==
             (/\ HASH_SORT("time")
              /\ \A x, y \in DOMAIN errors : Abs(x - y) < IntModulus \div 2)
             => LET list == Items(hash')
                IN  \A j, k \in DOMAIN list : j < k => list[j] < list[k]
<1>1. SetInv => Ordered
  BY SortedByTime, Zenon
<1>2. SortsByTime <=> [][Ordered]_setVars
  BY Zenon DEF SortsByTime
<1> HIDE DEF Ordered
<1> QED
  BY <1>1, <1>2, SetIsKept, PTL DEF TimeSetSpec

=============================================================================
