---------------------------- MODULE TimeListProofs ----------------------------
(***************************************************************************)
(* The ListValues of a value are one ring in both directions, and the ring *)
(* is the queue that the tree takes it for: for every number of addresses  *)
(* and all times.                                                          *)
(*                                                                         *)
(* The inductive invariant names the ring: there is an order of all        *)
(* allocated ListValues, beginning with first, in which next leads to the  *)
(* one after, prev to the one before, and the ends to each other.  What    *)
(* the walk along next returns is then this order, by induction along it.  *)
(***************************************************************************)
EXTENDS TimeList, FiniteSetTheorems, TLAPS

(* Induction over the natural numbers, for sets instead of operators: the  *)
(* library's theorems take an operator.                                    *)
(* Every set of natural numbers has a least one, as the intervals from 0   *)
(* are well-founded by inclusion.                                          *)
LEMMA LeastNatural ==
  ASSUME NEW T \in SUBSET Nat, T # {}
  PROVE  \E x \in T : \A y \in T : x <= y
<1> DEFINE below == {0..x : x \in T}
<1>1. below \subseteq FiniteSubsetsOf(Nat) /\ below # {}
  <2>1. \A x \in T : 0..x \in SUBSET Nat /\ IsFiniteSet(0..x)
    BY FS_Interval
  <2> QED
    BY <2>1 DEF FiniteSubsetsOf
<1>2. PICK b \in below : \A c \in below : <<c, b>> \notin StrictSubsetOrdering(Nat)
  <2> HIDE DEF below
  <2> QED BY <1>1, WFMin, FS_StrictSubsetOrderingWellFounded
<1>3. PICK x \in T : b = 0..x
  BY <1>2
<1>4. ASSUME NEW y \in T, y < x
      PROVE  FALSE
  <2>1. /\ <<0..y, 0..x>> \in (SUBSET Nat) \X (SUBSET Nat)
        /\ 0..y \subseteq 0..x
        /\ x \in 0..x /\ x \notin 0..y
    BY <1>4
  <2>2. <<0..y, 0..x>> \in StrictSubsetOrdering(Nat)
    BY <2>1, Zenon DEF StrictSubsetOrdering
  <2> QED
    BY <1>2, <1>3, <2>2
<1> QED
  BY <1>4

(* A set with m that has, with any number below n, the next one has all    *)
(* numbers from m to n.                                                    *)
LEMMA IntervalInduction ==
  ASSUME NEW m \in Int, NEW n \in Int, NEW T, m \in T,
         \A k \in m..(n - 1) : k \in T => k + 1 \in T
  PROVE  \A k \in m..n : k \in T
<1> SUFFICES ASSUME NEW k \in m..n, k \notin T
             PROVE  FALSE
  OBVIOUS
<1> DEFINE missing == {d \in Nat : m + d <= n /\ m + d \notin T}
<1>1. missing \in SUBSET Nat /\ k - m \in missing
  OBVIOUS
<1>2. PICK d \in missing : \A e \in missing : d <= e
  <2> HIDE DEF missing
  <2> QED
    BY <1>1, LeastNatural
<1>3. d - 1 \in Nat /\ d - 1 \notin missing
  BY <1>2
<1>4. m + (d - 1) \in m..(n - 1) /\ (m + (d - 1)) + 1 = m + d
  BY <1>2, <1>3
<1>5. m + (d - 1) \in T
  BY <1>3, <1>4
<1> QED
  BY <1>2, <1>4, <1>5

(* The neighbours of position i in a ring of n. *)
after(i, n) == IF i = n THEN 1 ELSE i + 1
before(i, n) == IF i = 1 THEN n ELSE i - 1

Fields == [timestamp : Time, prev : ListValue, next : ListValue]

IsRing(heap, head, s, n) ==
  /\ heap \in [DOMAIN heap -> Fields]
  /\ DOMAIN heap = {s[i] : i \in 1..n}
  /\ \A i, j \in 1..n : s[i] = s[j] => i = j
  /\ \A i \in 1..n : heap[s[i]].next = s[after(i, n)] /\ heap[s[i]].prev = s[before(i, n)]
  /\ head = IF n = 0 THEN NULL ELSE s[1]

RingInv == \E n \in Nat : \E s \in [1..n -> ListValue] : IsRing(list, first, s, n)

-----------------------------------------------------------------------------
(* As many ListValues are allocated as the ring is long. *)
LEMMA RingLength ==
  ASSUME NEW heap, NEW head, NEW n \in Nat, NEW s \in [1..n -> ListValue],
         IsRing(heap, head, s, n)
  PROVE  Cardinality(DOMAIN heap) = n
<1>1. s \in Bijection(1..n, DOMAIN heap)
  BY DEF IsRing, Bijection, Injection, Surjection, IsInjective
<1> QED
  BY <1>1, FS_CountingElements DEF ExistsBijection

(* The walk along next goes once round the ring. *)
LEMMA WalkIsRing ==
  ASSUME NEW heap, NEW head, NEW n \in Nat, NEW s \in [1..n -> ListValue],
         IsRing(heap, head, s, n)
  PROVE  walkFrom(heap, head) = s
<1>1. CASE n = 0
  BY <1>1 DEF walkFrom, IsRing
<1>2. CASE n # 0
  <2> DEFINE steps == Cardinality(DOMAIN heap)
  <2>0. steps = n
    BY RingLength
  <2> HIDE DEF steps
  <2> DEFINE Recursion(f) ==
               f = [i \in 1..steps |-> IF i = 1 THEN head ELSE heap[f[i - 1]].next]
             at == CHOOSE f : Recursion(f)
             length == CHOOSE m \in 1..steps :
                         /\ heap[at[m]].next = head
                         /\ \A k \in 1..(m - 1) : heap[at[k]].next # head
  <2>1. head = s[1] /\ head # NULL /\ 1 \in 1..n
    BY <1>2, ListNULLAssumption DEF IsRing
  <2>2. Recursion(s)
    <3>1. ASSUME NEW i \in 1..n
          PROVE  s[i] = IF i = 1 THEN head ELSE heap[s[i - 1]].next
      <4>1. CASE i = 1
        BY <2>1, <4>1
      <4>2. CASE i # 1
        <5>1. i - 1 \in 1..n /\ after(i - 1, n) = i
          BY <4>2 DEF after
        <5> QED
          BY <4>2, <5>1 DEF IsRing
      <4> QED
        BY <4>1, <4>2
    <3> QED
      BY <2>0, <3>1
  <2>3. Recursion(at)
    <3> HIDE DEF Recursion
    <3> QED
      BY <2>2
  <2> HIDE DEF at
  <2>4. \A i \in 1..n : at[i] = s[i]
    <3> DEFINE T == {i \in 1..n : at[i] = s[i]}
    <3>1. 1 \in T
      BY <2>0, <2>1, <2>3
    <3>2. ASSUME NEW i \in 1..(n - 1), i \in T
          PROVE  i + 1 \in T
      <4>1. /\ i + 1 \in 1..n /\ i + 1 # 1 /\ (i + 1) - 1 = i
        OBVIOUS
      <4>2. at[i + 1] = heap[at[i]].next /\ s[i + 1] = heap[s[i]].next
        BY <2>0, <2>2, <2>3, <4>1
      <4> QED
        BY <3>2, <4>1, <4>2
    <3>3. \A i \in 1..n : i \in T
      <4> HIDE DEF T
      <4> QED
        BY <3>1, <3>2, IntervalInduction
    <3> QED
      BY <3>3
  <2>5. length = n
    <3>1. \A m \in 1..n : heap[at[m]].next = head <=> m = n
      BY <2>1, <2>4 DEF IsRing, after
    <3>2. n \in 1..n
      BY <1>2
    <3> HIDE DEF Recursion
    <3> QED
      BY <2>0, <3>1, <3>2
  <2>6. walkFrom(heap, head) = [i \in 1..length |-> at[i]]
    BY <2>1, Zenon DEF walkFrom, at, steps
  <2> HIDE DEF length
  <2> QED
    BY <2>4, <2>5, <2>6
<1> QED
  BY <1>1, <1>2

-----------------------------------------------------------------------------
(* Setting one prev and one next, in either order, changes nothing else.   *)
relinked(heap, D, a, x, b, y) ==
  [l \in D |-> [timestamp |-> heap[l].timestamp,
                prev |-> IF l = a THEN x ELSE heap[l].prev,
                next |-> IF l = b THEN y ELSE heap[l].next]]

prevThenNext(heap, a, x, b, y) == [[heap EXCEPT ![a].prev = x] EXCEPT ![b].next = y]
nextThenPrev(heap, a, x, b, y) == [[heap EXCEPT ![b].next = y] EXCEPT ![a].prev = x]

LEMMA RelinkedFields ==
  ASSUME NEW D, NEW heap \in [D -> Fields], NEW a \in D, NEW b \in D, NEW x, NEW y
  PROVE  /\ prevThenNext(heap, a, x, b, y) = relinked(heap, D, a, x, b, y)
         /\ nextThenPrev(heap, a, x, b, y) = relinked(heap, D, a, x, b, y)
<1> DEFINE fields(l) == [timestamp |-> heap[l].timestamp,
                         prev |-> IF l = a THEN x ELSE heap[l].prev,
                         next |-> IF l = b THEN y ELSE heap[l].next]
           prevSet == [heap EXCEPT ![a].prev = x]
           nextSet == [heap EXCEPT ![b].next = y]
           prevFirst == [prevSet EXCEPT ![b].next = y]
           nextFirst == [nextSet EXCEPT ![a].prev = x]
<1>1. \A l \in D : heap[l] = [timestamp |-> heap[l].timestamp, prev |-> heap[l].prev,
                               next |-> heap[l].next]
  BY DEF Fields
<1>2. /\ DOMAIN prevSet = D
      /\ \A l \in D : prevSet[l] = [timestamp |-> heap[l].timestamp,
                                    prev |-> IF l = a THEN x ELSE heap[l].prev,
                                    next |-> heap[l].next]
  BY <1>1
<1>3. /\ DOMAIN nextSet = D
      /\ \A l \in D : nextSet[l] = [timestamp |-> heap[l].timestamp,
                                    prev |-> heap[l].prev,
                                    next |-> IF l = b THEN y ELSE heap[l].next]
  BY <1>1
<1> HIDE DEF prevSet, nextSet
<1>4. DOMAIN prevFirst = D /\ \A l \in D : prevFirst[l] = fields(l)
  BY <1>2
<1>5. DOMAIN nextFirst = D /\ \A l \in D : nextFirst[l] = fields(l)
  BY <1>3
<1>6. prevFirst = [l \in D |-> prevFirst[l]] /\ nextFirst = [l \in D |-> nextFirst[l]]
  BY <1>4, <1>5
<1>7. prevFirst = [l \in D |-> fields(l)] /\ nextFirst = [l \in D |-> fields(l)]
  BY <1>4, <1>5, <1>6
<1> QED
  BY <1>7, Zenon DEF prevSet, nextSet, relinked, prevThenNext, nextThenPrev

-----------------------------------------------------------------------------
(* A step that adds a time keeps the ring, with one ListValue more at its  *)
(* end; one that deletes a time, with the first one less.                  *)
RingGrows(s, n, t) ==
  \E r \in [1..(n + 1) -> ListValue] :
    /\ IsRing(list', first', r, n + 1)
    /\ \A i \in 1..(n + 1) :
         list'[r[i]].timestamp = IF i = n + 1 THEN t ELSE list[s[i]].timestamp

RingShrinks(s, n) ==
  /\ n # 0
  /\ \E r \in [1..(n - 1) -> ListValue] :
       /\ IsRing(list', first', r, n - 1)
       /\ \A i \in 1..(n - 1) : list'[r[i]].timestamp = list[s[i + 1]].timestamp

LEMMA NewRecordStep ==
  ASSUME NEW n \in Nat, NEW s \in [1..n -> ListValue], IsRing(list, first, s, n),
         NEW t \in Time, newRecord(t)
  PROVE  RingGrows(s, n, t)
<1>1. PICK new \in FreeAddresses :
        /\ list' = allocated(list, new, [timestamp |-> t, prev |-> new, next |-> new])
        /\ first' = new
  BY DEF newRecord
<1>2. n = 0
  BY ListNULLAssumption DEF newRecord, IsRing
<1>3. DOMAIN list = {} /\ new \in ListValue
  BY <1>2 DEF IsRing, FreeAddresses
<1> DEFINE r == [i \in 1..1 |-> new]
<1>4. list' = [l \in {new} |-> [timestamp |-> t, prev |-> new, next |-> new]]
  BY <1>1, <1>3 DEF allocated
<1>5. IsRing(list', first', r, 1)
  <2>1. DOMAIN list' = {new} /\ {r[i] : i \in 1..1} = {new}
    BY <1>4
  <2>2. list'[new] = [timestamp |-> t, prev |-> new, next |-> new]
    BY <1>4
  <2>3. list' \in [DOMAIN list' -> Fields]
    BY <1>3, <1>4 DEF Fields
  <2>4. \A i \in 1..1 : i = 1 /\ r[i] = new /\ r[after(i, 1)] = new /\ r[before(i, 1)] = new
    BY DEF after, before
  <2> HIDE DEF r
  <2>5. \A i, j \in 1..1 : r[i] = r[j] => i = j
    OBVIOUS
  <2>6. \A i \in 1..1 : /\ list'[r[i]].next = r[after(i, 1)]
                        /\ list'[r[i]].prev = r[before(i, 1)]
    BY <2>2, <2>4
  <2>7. first' = IF 1 = 0 THEN NULL ELSE r[1]
    BY <1>1, <2>4
  <2>8. DOMAIN list' = {r[i] : i \in 1..1}
    BY <2>1
  <2> QED
    BY <2>3, <2>5, <2>6, <2>7, <2>8 DEF IsRing
<1>6. r \in [1..1 -> ListValue] /\ \A i \in 1..1 : i = 1 /\ list'[r[i]].timestamp = t
  BY <1>3, <1>4
<1> HIDE DEF r
<1>7. n + 1 = 1
  BY <1>2
<1> QED
  BY <1>5, <1>6, <1>7 DEF RingGrows

LEMMA AddDuplicateStep ==
  ASSUME NEW n \in Nat, NEW s \in [1..n -> ListValue], IsRing(list, first, s, n),
         NEW t \in Time, addDuplicateToDoublyLinkedList(t)
  PROVE  RingGrows(s, n, t)
<1> DEFINE last == list[first].prev
<1>1. n # 0 /\ 1 \in 1..n /\ n \in 1..n /\ first = s[1] /\ last = s[n]
  <2>1. first # NULL
    BY Zenon DEF addDuplicateToDoublyLinkedList
  <2>2. n # 0 /\ first = s[1]
    BY <2>1 DEF IsRing
  <2>3. 1 \in 1..n /\ n \in 1..n /\ before(1, n) = n
    BY <2>2 DEF before
  <2>4. list[s[1]].prev = s[before(1, n)]
    BY <2>3 DEF IsRing
  <2> QED
    BY <2>2, <2>3, <2>4
<1> HIDE DEF last
<1>2. PICK new \in FreeAddresses :
        list' = allocated([[list EXCEPT ![first].prev = new] EXCEPT ![last].next = new], new,
                          [timestamp |-> t, prev |-> last, next |-> first])
  BY DEF addDuplicateToDoublyLinkedList, last
<1>3. /\ new \in ListValue /\ \A i \in 1..n : s[i] # new
      /\ DOMAIN list' = DOMAIN list \union {new}
  BY <1>2 DEF IsRing, FreeAddresses, allocated
<1>4. \A i \in 1..n :
        /\ list'[s[i]] \in Fields
        /\ list'[s[i]].timestamp = list[s[i]].timestamp
        /\ list'[s[i]].prev = IF i = 1 THEN new ELSE list[s[i]].prev
        /\ list'[s[i]].next = IF i = n THEN new ELSE list[s[i]].next
  <2>1. list \in [DOMAIN list -> Fields] /\ first \in DOMAIN list /\ last \in DOMAIN list
    BY <1>1 DEF IsRing
  <2>2. prevThenNext(list, first, new, last, new) =
          relinked(list, DOMAIN list, first, new, last, new)
    BY <2>1, RelinkedFields
  <2>3. list' = allocated(relinked(list, DOMAIN list, first, new, last, new), new,
                          [timestamp |-> t, prev |-> last, next |-> first])
    BY <1>2, <2>2, Zenon DEF prevThenNext
  <2>4. DOMAIN relinked(list, DOMAIN list, first, new, last, new) = DOMAIN list
    BY DEF relinked
  <2>5. \A l \in DOMAIN list \ {new} :
          list'[l] = relinked(list, DOMAIN list, first, new, last, new)[l]
    BY <2>3, <2>4 DEF allocated
  <2>6. ASSUME NEW i \in 1..n
        PROVE  /\ list'[s[i]] \in Fields
               /\ list'[s[i]].timestamp = list[s[i]].timestamp
               /\ list'[s[i]].prev = IF i = 1 THEN new ELSE list[s[i]].prev
               /\ list'[s[i]].next = IF i = n THEN new ELSE list[s[i]].next
    <3>1. s[i] \in DOMAIN list \ {new} /\ list[s[i]] \in Fields
      BY <1>3, <2>1 DEF IsRing
    <3>2. (s[i] = first <=> i = 1) /\ (s[i] = last <=> i = n)
      BY <1>1 DEF IsRing
    <3>3. list'[s[i]] = [timestamp |-> list[s[i]].timestamp,
                         prev |-> IF i = 1 THEN new ELSE list[s[i]].prev,
                         next |-> IF i = n THEN new ELSE list[s[i]].next]
      BY <2>5, <3>1, <3>2 DEF relinked
    <3> QED
      BY <1>3, <3>1, <3>3 DEF Fields
  <2> QED
    BY <2>6
<1>5. list'[new] = [timestamp |-> t, prev |-> last, next |-> first]
  BY <1>2 DEF allocated
<1> DEFINE r == [i \in 1..(n + 1) |-> IF i = n + 1 THEN new ELSE s[i]]
<1>6. r \in [1..(n + 1) -> ListValue]
  BY <1>3
<1>7. IsRing(list', first', r, n + 1)
  <2>1. DOMAIN list' = {r[i] : i \in 1..(n + 1)}
    BY <1>3 DEF IsRing
  <2>2. list' \in [DOMAIN list' -> Fields]
    <3>1. \A l \in DOMAIN list' : list'[l] \in Fields
      BY <1>1, <1>3, <1>4, <1>5 DEF IsRing, Fields
    <3>2. list' = [l \in DOMAIN list' |-> list'[l]]
      BY <1>2 DEF allocated
    <3> QED
      BY <3>1, <3>2
  <2>3. \A i, j \in 1..(n + 1) : r[i] = r[j] => i = j
    BY <1>3 DEF IsRing
  <2>4. first' = r[1] /\ n + 1 # 0
    BY <1>1 DEF addDuplicateToDoublyLinkedList
  <2>5. ASSUME NEW i \in 1..(n + 1)
        PROVE  /\ list'[r[i]].next = r[after(i, n + 1)]
               /\ list'[r[i]].prev = r[before(i, n + 1)]
    <3>1. CASE i = n + 1
      BY <1>1, <1>5, <3>1 DEF after, before
    <3>2. CASE i # n + 1
      <4>1. i \in 1..n /\ r[i] = s[i]
        BY <3>2
      <4>2. list'[r[i]].next = r[after(i, n + 1)]
        BY <1>4, <3>2, <4>1 DEF after, IsRing
      <4>3. list'[r[i]].prev = r[before(i, n + 1)]
        BY <1>4, <3>2, <4>1 DEF before, IsRing
      <4> QED
        BY <4>2, <4>3
    <3> QED
      BY <3>1, <3>2
  <2> HIDE DEF r
  <2> QED
    BY <2>1, <2>2, <2>3, <2>4, <2>5 DEF IsRing
<1>8. \A i \in 1..(n + 1) :
        list'[r[i]].timestamp = IF i = n + 1 THEN t ELSE list[s[i]].timestamp
  BY <1>4, <1>5
<1> HIDE DEF r
<1> QED
  BY <1>6, <1>7, <1>8, Zenon DEF RingGrows

LEMMA DeleteFirstStep ==
  ASSUME NEW n \in Nat, NEW s \in [1..n -> ListValue], IsRing(list, first, s, n),
         deleteFirstListValue
  PROVE  RingShrinks(s, n)
<1> DEFINE next == list[first].next
           prev == list[first].prev
<1>1. n \in Nat \ {0, 1} /\ first = s[1] /\ next = s[2] /\ prev = s[n]
  <2>1. first # NULL /\ next # first
    BY Zenon DEF deleteFirstListValue, hasMultipleTimes
  <2>2. n # 0 /\ first = s[1]
    BY <2>1 DEF IsRing
  <2>3. 1 \in 1..n /\ before(1, n) = n
    BY <2>2 DEF before
  <2>4. next = s[after(1, n)] /\ prev = s[before(1, n)]
    BY <2>2, <2>3, Zenon DEF IsRing
  <2> HIDE DEF next, prev
  <2>5. n # 1
    BY <2>1, <2>2, <2>4 DEF after
  <2>6. after(1, n) = 2
    BY <2>2, <2>5 DEF after
  <2> QED
    BY <2>2, <2>3, <2>4, <2>5, <2>6
<1> HIDE DEF next, prev
<1> DEFINE ring == relinked(list, DOMAIN list, next, prev, prev, next)
<1>2. list' = Restrict(ring, DOMAIN list \ {first}) /\ first' = next
  <2>1. next \in DOMAIN list /\ prev \in DOMAIN list /\ list \in [DOMAIN list -> Fields]
    BY <1>1 DEF IsRing
  <2>2. nextThenPrev(list, next, prev, prev, next) = ring
    BY <2>1, RelinkedFields
  <2>3. /\ list' = Restrict(nextThenPrev(list, next, prev, prev, next), DOMAIN list \ {first})
        /\ first' = next
    BY Zenon DEF deleteFirstListValue, next, prev, nextThenPrev
  <2> HIDE DEF ring
  <2> QED
    BY <2>2, <2>3
<1>3. \A i \in 2..n :
        /\ s[i] \in DOMAIN list \ {first}
        /\ ring[s[i]] \in Fields
        /\ ring[s[i]].timestamp = list[s[i]].timestamp
        /\ ring[s[i]].prev = IF i = 2 THEN prev ELSE list[s[i]].prev
        /\ ring[s[i]].next = IF i = n THEN next ELSE list[s[i]].next
  <2> SUFFICES ASSUME NEW i \in 2..n
               PROVE  /\ s[i] \in DOMAIN list \ {first}
                      /\ ring[s[i]] \in Fields
                      /\ ring[s[i]].timestamp = list[s[i]].timestamp
                      /\ ring[s[i]].prev = IF i = 2 THEN prev ELSE list[s[i]].prev
                      /\ ring[s[i]].next = IF i = n THEN next ELSE list[s[i]].next
    OBVIOUS
  <2>1. s[i] \in DOMAIN list \ {first} /\ list[s[i]] \in Fields
    BY <1>1 DEF IsRing
  <2>2. /\ s[i] = next <=> i = 2
        /\ s[i] = prev <=> i = n
        /\ next \in ListValue /\ prev \in ListValue
    BY <1>1 DEF IsRing
  <2>3. ring[s[i]] = [timestamp |-> list[s[i]].timestamp,
                      prev |-> IF i = 2 THEN prev ELSE list[s[i]].prev,
                      next |-> IF i = n THEN next ELSE list[s[i]].next]
    BY <2>1, <2>2 DEF relinked
  <2> HIDE DEF ring
  <2> QED
    BY <2>1, <2>2, <2>3 DEF Fields
<1> HIDE DEF ring
<1>4. list' = [l \in DOMAIN list \ {first} |-> ring[l]]
  BY <1>2 DEF Restrict
<1>5. DOMAIN list \ {first} = {s[i] : i \in 2..n}
  BY <1>1 DEF IsRing
<1> DEFINE r == [i \in 1..(n - 1) |-> s[i + 1]]
<1>6. r \in [1..(n - 1) -> ListValue]
  BY <1>1
<1>7. IsRing(list', first', r, n - 1)
  <2>1. DOMAIN list' = {r[i] : i \in 1..(n - 1)}
    <3>1. \A i \in 2..n : i - 1 \in 1..(n - 1) /\ s[i] = r[i - 1]
      BY <1>1
    <3>2. \A i \in 1..(n - 1) : i + 1 \in 2..n /\ r[i] = s[i + 1]
      BY <1>1
    <3>3. DOMAIN list' = {s[i] : i \in 2..n}
      BY <1>4, <1>5
    <3> HIDE DEF r
    <3>4. {s[i] : i \in 2..n} \subseteq {r[i] : i \in 1..(n - 1)}
      BY Zenon, <3>1
    <3>5. {r[i] : i \in 1..(n - 1)} \subseteq {s[i] : i \in 2..n}
      BY Zenon, <3>2
    <3> QED
      BY <3>3, <3>4, <3>5
  <2>2. list' \in [DOMAIN list' -> Fields]
    BY <1>3, <1>4, <1>5
  <2>3. \A i, j \in 1..(n - 1) : r[i] = r[j] => i = j
    BY <1>1 DEF IsRing
  <2>4. first' = r[1] /\ n - 1 # 0
    BY <1>1, <1>2
  <2>5. ASSUME NEW i \in 1..(n - 1)
        PROVE  /\ list'[r[i]].next = r[after(i, n - 1)]
               /\ list'[r[i]].prev = r[before(i, n - 1)]
    <3>1. i + 1 \in 2..n /\ r[i] = s[i + 1] /\ list'[r[i]] = ring[s[i + 1]]
      BY <1>1, <1>3, <1>4
    <3>2. ring[s[i + 1]].next = r[after(i, n - 1)]
      BY <1>1, <1>3, <3>1 DEF after, IsRing
    <3>3. ring[s[i + 1]].prev = r[before(i, n - 1)]
      <4>1. CASE i = 1
        BY <1>1, <1>3, <3>1, <4>1 DEF before
      <4>2. CASE i # 1
        <5>0. /\ i + 1 \in 1..n /\ i - 1 \in 1..(n - 1) /\ (i - 1) + 1 = i /\ i + 1 # 2
              /\ before(i + 1, n) = i
          BY <1>1, <4>2 DEF before
        <5>1. list[s[i + 1]].prev = s[i] /\ r[i - 1] = s[i] /\ i + 1 # 2
          BY <5>0 DEF IsRing
        <5> QED
          BY <1>3, <3>1, <4>2, <5>1 DEF before
      <4> QED
        BY <4>1, <4>2
    <3> QED
      BY <3>1, <3>2, <3>3
  <2> HIDE DEF r
  <2> QED
    BY <2>1, <2>2, <2>3, <2>4, <2>5 DEF IsRing
<1>8. \A i \in 1..(n - 1) : list'[r[i]].timestamp = list[s[i + 1]].timestamp
  BY <1>1, <1>3, <1>4
<1> HIDE DEF r
<1> QED
  BY <1>1, <1>6, <1>7, <1>8 DEF RingShrinks

(* The only one of a ring. *)
LEMMA RemoveOnlyStep ==
  ASSUME NEW n \in Nat, NEW s \in [1..n -> ListValue], IsRing(list, first, s, n),
         removeOnlyTime
  PROVE  RingShrinks(s, n)
<1>1. n = 1
  BY DEF removeOnlyTime, hasMultipleTimes, IsRing, after
<1>2. DOMAIN list = {first}
  BY <1>1 DEF IsRing
<1>3. list' = [l \in {} |-> list[l]] /\ first' = NULL
  BY <1>2 DEF removeOnlyTime, Restrict
<1> DEFINE r == [i \in 1..(n - 1) |-> first]
<1>4. IsRing(list', first', r, n - 1)
  BY <1>1, <1>3 DEF IsRing
<1>5. r \in [1..(n - 1) -> ListValue] /\ \A i \in 1..(n - 1) : FALSE
  BY <1>1
<1> HIDE DEF r
<1>6. \A i \in 1..(n - 1) : list'[r[i]].timestamp = list[s[i + 1]].timestamp
  BY <1>5
<1>7. n # 0
  BY <1>1
<1> QED
  BY <1>4, <1>5, <1>6, <1>7, Zenon DEF RingShrinks

(* list_destroy reaches every ListValue before it stops at the last one.   *)
LEMMA DestroyStep ==
  ASSUME NEW n \in Nat, NEW s \in [1..n -> ListValue], IsRing(list, first, s, n),
         list_destroy
  PROVE  list' = <<>> /\ first' = NULL
<1>1. n # 0 /\ n \in 1..n /\ list[first].prev = s[n]
  BY DEF list_destroy, IsRing, before
<1>2. walk = s /\ Len(walk) = n
  BY WalkIsRing DEF walk
<1> DEFINE length == CHOOSE k \in 1..Len(walk) : walk[k] = list[first].prev
<1>3. length = n
  BY <1>1, <1>2 DEF IsRing
<1> HIDE DEF length
<1>4. list' = Restrict(list, DOMAIN list \ {walk[i] : i \in 1..length}) /\ first' = NULL
  BY DEF list_destroy, length
<1>5. DOMAIN list \ {walk[i] : i \in 1..length} = {}
  BY <1>2, <1>3 DEF IsRing
<1>6. list' = [l \in {} |-> list[l]]
  BY <1>4, <1>5 DEF Restrict
<1> QED
  BY <1>4, <1>6

-----------------------------------------------------------------------------
(* The empty list is a ring of none.                                       *)
LEMMA EmptyRing ==
  ASSUME NEW heap, NEW head, heap = <<>>, head = NULL
  PROVE  \E s \in [1..0 -> ListValue] : IsRing(heap, head, s, 0)
<1> DEFINE s == [i \in 1..0 |-> NULL]
<1>1. s \in [1..0 -> ListValue]
  OBVIOUS
<1>2. heap = [l \in {} |-> NULL] /\ DOMAIN heap = {}
  OBVIOUS
<1>3. {s[i] : i \in 1..0} = {}
  OBVIOUS
<1>4. IsRing(heap, head, s, 0)
  BY <1>2, <1>3 DEF IsRing
<1> QED
  BY <1>1, <1>4

LEMMA RingInvInit == Init => RingInv
  BY EmptyRing DEF Init, RingInv

(* A step grows the ring, shrinks it or empties it.                        *)
LEMMA RingStep ==
  ASSUME NEW n \in Nat, NEW s \in [1..n -> ListValue], IsRing(list, first, s, n), Next
  PROVE  \/ \E t \in Time : RingGrows(s, n, t)
         \/ RingShrinks(s, n)
         \/ list' = <<>> /\ first' = NULL
<1>1. ASSUME NEW t \in Time, newRecord(t)
      PROVE  RingGrows(s, n, t)
  BY <1>1, NewRecordStep
<1>2. ASSUME NEW t \in Time, addDuplicateToDoublyLinkedList(t)
      PROVE  RingGrows(s, n, t)
  BY <1>2, AddDuplicateStep
<1>3. ASSUME deleteFirstListValue
      PROVE  RingShrinks(s, n)
  BY <1>3, DeleteFirstStep
<1>4. ASSUME removeOnlyTime
      PROVE  RingShrinks(s, n)
  BY <1>4, RemoveOnlyStep
<1>5. ASSUME list_destroy
      PROVE  list' = <<>> /\ first' = NULL
  BY <1>5, DestroyStep
<1> QED
  BY <1>1, <1>2, <1>3, <1>4, <1>5 DEF Next

LEMMA RingInvStep == RingInv /\ [Next]_listVars => RingInv'
<1> SUFFICES ASSUME RingInv, [Next]_listVars
             PROVE  RingInv'
  OBVIOUS
<1>1. PICK n \in Nat : \E s \in [1..n -> ListValue] : IsRing(list, first, s, n)
  BY DEF RingInv
<1>2. PICK s \in [1..n -> ListValue] : IsRing(list, first, s, n)
  BY <1>1
<1>3. CASE UNCHANGED listVars
  BY <1>1, <1>3 DEF listVars, RingInv
<1>4. CASE Next
  <2>1. ASSUME NEW t \in Time, RingGrows(s, n, t)
        PROVE  RingInv'
    <3>1. n + 1 \in Nat /\ \E r \in [1..(n + 1) -> ListValue] : IsRing(list', first', r, n + 1)
      BY <2>1 DEF RingGrows
    <3> QED
      BY <3>1, Zenon DEF RingInv
  <2>2. ASSUME RingShrinks(s, n)
        PROVE  RingInv'
    <3>1. n - 1 \in Nat /\ \E r \in [1..(n - 1) -> ListValue] : IsRing(list', first', r, n - 1)
      BY <2>2 DEF RingShrinks
    <3> QED
      BY <3>1, Zenon DEF RingInv
  <2>3. ASSUME list' = <<>>, first' = NULL
        PROVE  RingInv'
    <3>1. 0 \in Nat /\ \E r \in [1..0 -> ListValue] : IsRing(list', first', r, 0)
      BY <2>3, EmptyRing
    <3> QED
      BY <3>1, Zenon DEF RingInv
  <2> QED
    BY <1>2, <1>4, <2>1, <2>2, <2>3, RingStep
<1> QED
  BY <1>3, <1>4

(* The allocated ListValues are one ring in every state.                   *)
LEMMA RingInvariant == Spec => []RingInv
  BY RingInvInit, RingInvStep, PTL DEF Spec

(* Every link leads to an address malloc returned, and first too or to     *)
(* nothing.                                                                *)
THEOREM ListTypeCorrect == Spec => []TypeOK
<1>1. RingInv => TypeOK
  <2> SUFFICES ASSUME NEW n \in Nat, NEW s \in [1..n -> ListValue], IsRing(list, first, s, n)
               PROVE  TypeOK
    BY DEF RingInv
  <2>1. \A i \in 1..n : s[i] \in ListValue
    OBVIOUS
  <2>2. DOMAIN list \subseteq ListValue
    BY <2>1 DEF IsRing
  <2>3. first \in ListValue \union {NULL}
    BY <2>1 DEF IsRing
  <2> QED
    BY <2>2, <2>3 DEF TypeOK, IsRing, Fields
<1> QED
  BY <1>1, RingInvariant, PTL

(* However times are added and deleted, prev undoes next and next undoes   *)
(* prev on every ListValue, and both lead to one that is still allocated.  *)
THEOREM LinksCorrect == Spec => []LinksAreInverse
<1>1. RingInv => LinksAreInverse
  <2> SUFFICES ASSUME NEW n \in Nat, NEW s \in [1..n -> ListValue], IsRing(list, first, s, n),
                      NEW l \in DOMAIN list
               PROVE  /\ list[l].next \in DOMAIN list /\ list[list[l].next].prev = l
                      /\ list[l].prev \in DOMAIN list /\ list[list[l].prev].next = l
    BY DEF RingInv, LinksAreInverse
  <2>1. PICK i \in 1..n : l = s[i]
    BY DEF IsRing
  <2>2. /\ after(i, n) \in 1..n /\ before(after(i, n), n) = i
        /\ before(i, n) \in 1..n /\ after(before(i, n), n) = i
    BY DEF after, before
  <2> QED
    BY <2>1, <2>2 DEF IsRing
<1> QED
  BY <1>1, RingInvariant, PTL

(* The walk along next meets every allocated ListValue: nothing is lost,   *)
(* and list_destroy, which walks the same way, frees everything.           *)
THEOREM OneRingCorrect == Spec => []OneRing
<1>1. RingInv => OneRing
  <2> SUFFICES ASSUME NEW n \in Nat, NEW s \in [1..n -> ListValue], IsRing(list, first, s, n)
               PROVE  OneRing
    BY DEF RingInv
  <2>1. walk = s /\ Len(walk) = n
    BY WalkIsRing DEF walk
  <2> QED
    BY <2>1 DEF OneRing, IsRing
<1> QED
  BY <1>1, RingInvariant, PTL

-----------------------------------------------------------------------------
(* The times of the ring in its order.                                     *)
RingTimes(heap, s, n) == [i \in 1..n |-> heap[s[i]].timestamp]

LEMMA TimesOfRing ==
  ASSUME NEW n \in Nat, NEW s \in [1..n -> ListValue], IsRing(list, first, s, n)
  PROVE  times = [v \in {"value"} |-> RingTimes(list, s, n)]
<1>1. walk = s /\ Len(walk) = n
  BY WalkIsRing DEF walk
<1> QED
  BY <1>1 DEF times, RingTimes

LEMMA TimesOfNextRing ==
  ASSUME NEW n \in Nat, NEW s \in [1..n -> ListValue], IsRing(list', first', s, n)
  PROVE  times' = [v \in {"value"} |-> RingTimes(list', s, n)]
<1>1. walk' = s /\ Len(walk') = n
  BY WalkIsRing DEF walk
<1> QED
  BY <1>1 DEF times, RingTimes

(* The ring is first in, first out: a time is added at the end, and the    *)
(* oldest is the one deleted, as the B+ tree's module takes it to be.      *)
THEOREM ListImplementsQueue == Spec => ImplementsQueue
<1>1. Init => Queue!Init
  <2> SUFFICES ASSUME Init
               PROVE  Queue!Init
    OBVIOUS
  <2>1. walk = <<>>
    BY DEF Init, walk, walkFrom
  <2>2. times = [v \in {"value"} |-> <<>>]
    BY <2>1 DEF times
  <2> QED
    BY <2>2 DEF Queue!Init, Queue!EmptyIndex
<1>2. RingInv /\ [Next]_listVars => [Queue!Next]_times
  <2> SUFFICES ASSUME RingInv, [Next]_listVars
               PROVE  [Queue!Next]_times
    OBVIOUS
  <2>1. CASE UNCHANGED listVars
    BY <2>1 DEF listVars, times, walk
  <2>2. CASE Next
    <3>1. PICK n \in Nat : \E s \in [1..n -> ListValue] : IsRing(list, first, s, n)
      BY DEF RingInv
    <3>2. PICK s \in [1..n -> ListValue] : IsRing(list, first, s, n)
      BY <3>1
    <3> DEFINE q == RingTimes(list, s, n)
    <3>3. times = [v \in {"value"} |-> q]
      BY <3>2, TimesOfRing
    <3>4. q \in Seq(Time) /\ Len(q) = n /\ \A i \in 1..n : q[i] = list[s[i]].timestamp
      BY <3>2 DEF RingTimes, IsRing, Fields
    <3> HIDE DEF q
    <3>5. ASSUME NEW t \in Time, RingGrows(s, n, t)
          PROVE  Queue!Add(t, "value")
      <4>1. PICK r \in [1..(n + 1) -> ListValue] :
              /\ IsRing(list', first', r, n + 1)
              /\ \A i \in 1..(n + 1) :
                   list'[r[i]].timestamp = IF i = n + 1 THEN t ELSE list[s[i]].timestamp
        BY <3>5 DEF RingGrows
      <4>2. times' = [v \in {"value"} |-> RingTimes(list', r, n + 1)]
        BY <4>1, TimesOfNextRing
      <4>3. RingTimes(list', r, n + 1) = Append(q, t)
        <5>1. RingTimes(list', r, n + 1) =
                [i \in 1..(n + 1) |-> IF i = n + 1 THEN t ELSE q[i]]
          BY <3>4, <4>1 DEF RingTimes
        <5> QED
          BY <3>4, <5>1
      <4> QED
        BY <3>3, <4>2, <4>3 DEF Queue!Add, Queue!WithRecord
    <3>6. ASSUME RingShrinks(s, n)
          PROVE  Queue!Delete("value")
      <4>1. PICK r \in [1..(n - 1) -> ListValue] :
              /\ IsRing(list', first', r, n - 1)
              /\ \A i \in 1..(n - 1) : list'[r[i]].timestamp = list[s[i + 1]].timestamp
        BY <3>6 DEF RingShrinks
      <4>2. n # 0 /\ n - 1 \in Nat
        BY <3>6 DEF RingShrinks
      <4>3. times' = [v \in {"value"} |-> RingTimes(list', r, n - 1)]
        BY <4>1, <4>2, TimesOfNextRing
      <4>4. q # <<>> /\ RingTimes(list', r, n - 1) = Tail(q)
        <5>1. RingTimes(list', r, n - 1) = [i \in 1..(n - 1) |-> q[i + 1]]
          BY <3>4, <4>1, <4>2 DEF RingTimes
        <5> QED
          BY <3>4, <4>2, <5>1
      <4> QED
        BY <3>3, <4>3, <4>4 DEF Queue!Delete, Queue!WithoutOldest
    <3>7. ASSUME list' = <<>>, first' = NULL
          PROVE  Queue!Clear
      <4>1. walk' = <<>>
        BY <3>7 DEF walk, walkFrom
      <4>2. times' = [v \in {"value"} |-> <<>>]
        BY <4>1 DEF times
      <4> QED
        BY <4>2 DEF Queue!Clear, Queue!EmptyIndex
    <3> QED
      BY <2>2, <3>2, <3>5, <3>6, <3>7, RingStep DEF Queue!Next
  <2> QED
    BY <2>1, <2>2
<1> QED
  BY <1>1, <1>2, RingInvariant, PTL DEF Spec, ImplementsQueue, Queue!Spec
=============================================================================
