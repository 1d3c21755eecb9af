------------------------------ MODULE HashTable ------------------------------
(***************************************************************************)
(* uthash as timeset.c uses it: items are linked twice, in the order they  *)
(* were added (prev, next) and, within a bucket, in a chain (hh_prev,      *)
(* hh_next).  A bucket that reaches its capacity doubles the number of     *)
(* buckets, unless that did not help twice in a row.                       *)
(*                                                                         *)
(* The macros are operators on a table; an item is known by its key, and   *)
(* Jenkins' hash function may be any function.  The bits of a hash value   *)
(* that select a bucket are its remainder by the number of buckets, which  *)
(* is a power of two.                                                      *)
(***************************************************************************)
EXTENDS Integers, Sequences, FiniteSets, SequencesExt

CONSTANTS
  Key,
  HashFunction,     \* the hash functions: a subset of [Key -> Nat]
  InitialBuckets,   \* HASH_INITIAL_NUM_BUCKETS, a power of two
  Threshold,        \* HASH_BKT_CAPACITY_THRESH
  NULL

ASSUME HashAssumption ==
  /\ HashFunction \subseteq [Key -> Nat]
  /\ {InitialBuckets, Threshold} \subseteq Nat \ {0}
  /\ NULL \notin Key

VARIABLES
  hash,             \* the table: [head, tbl, hh]
  hashOf            \* HASH_FCN

(* hh are the handles of the items, tbl is the table they all refer to.    *)
Link == Key \union {NULL}
UT_hash_handle == [prev : Link, next : Link, hh_prev : Link, hh_next : Link]
UT_hash_bucket == [hh_head : Link, count : Nat, expand_mult : Nat]
UT_hash_table(n) ==
  [buckets : [0..(n - 1) -> UT_hash_bucket], num_buckets : Nat \ {0}, num_items : Nat,
   tail : Link, ideal_chain_maxlen : Nat, nonideal_items : Nat, ineff_expands : Nat,
   noexpand : BOOLEAN]

emptyTable == [head |-> NULL, tbl |-> NULL, hh |-> << >>]
emptyBucket == [hh_head |-> NULL, count |-> 0, expand_mult |-> 0]

(* The one function that makes all of n buckets empty. *)
emptyBuckets(n) == CHOOSE f \in [0..(n - 1) -> {emptyBucket}] : TRUE

(* The items met from `first' along a link; one more than there are keys   *)
(* if the links go round.                                                  *)
Follow(first, link) ==
  LET met[n \in 0..(Cardinality(Key) + 1)] ==
        IF n = 0 THEN <<>>
        ELSE LET before == met[n - 1]
                 k == IF before = <<>> THEN first ELSE link[Last(before)]
             IN  IF k = NULL THEN before ELSE Append(before, k)
  IN  met[Cardinality(Key) + 1]

ChainOf(h, b) ==
  Follow(h.tbl.buckets[b].hh_head, [k \in DOMAIN h.hh |-> h.hh[k].hh_next])

(* HASH_ITER: the items in the order they were added. *)
Items(h) == Follow(h.head, [k \in DOMAIN h.hh |-> h.hh[k].next])

-----------------------------------------------------------------------------
(*                               The buckets                               *)

(* HASH_FCN, which is HASH_JEN: a number that depends on the key only. *)
hashv(k) == hashOf[k]

(* HASH_TO_BKT *)
HASH_TO_BKT(k, buckets) == hashv(k) % buckets

(* Item k becomes the first of bucket b's chain. *)
atHead(h, b, k) ==
  LET second == h.tbl.buckets[b].hh_head
  IN  [h EXCEPT !.tbl.buckets[b].hh_head = k,
                !.tbl.buckets[b].count = @ + 1,
                !.hh = [i \in DOMAIN @ |->
                  CASE i = k -> [@[i] EXCEPT !.hh_prev = NULL, !.hh_next = second]
                    [] i = second -> [@[i] EXCEPT !.hh_prev = k]
                    [] OTHER -> @[i]]]

(* ceil(num_items / buckets) *)
ideal(items, buckets) == (items + buckets - 1) \div buckets

(* Mutant of expandMult: the multiplier of the bucket is not set. *)
expandMultUnset(count, max) == 0

expandMult(count, max) == count \div max

(* Mutant of moveItem: the bucket is chosen among as many as before. *)
moveItemAmongAsMany(h, k) ==
  LET b == HASH_TO_BKT(k, h.tbl.num_buckets)
      moved == atHead(h, b, k)
      count == moved.tbl.buckets[b].count
      max == h.tbl.ideal_chain_maxlen
  IN  IF count <= max THEN moved
      ELSE [moved EXCEPT !.tbl.nonideal_items = @ + 1,
                         !.tbl.buckets[b].expand_mult = expandMult(count, max)]

(* One item goes to its bucket among twice as many. *)
moveItem(h, k) ==
  LET b == HASH_TO_BKT(k, 2 * h.tbl.num_buckets)
      moved == atHead(h, b, k)
      count == moved.tbl.buckets[b].count
      max == h.tbl.ideal_chain_maxlen
  IN  IF count <= max THEN moved
      ELSE [moved EXCEPT !.tbl.nonideal_items = @ + 1,
                         !.tbl.buckets[b].expand_mult = expandMult(count, max)]

(* HASH_EXPAND_BUCKETS: the items move bucket by bucket in the order of    *)
(* the old chains.                                                         *)
HASH_EXPAND_BUCKETS(h) ==
  LET buckets == h.tbl.num_buckets
      order == FlattenSeq([b \in 1..buckets |-> ChainOf(h, b - 1)])
      cleared == [h EXCEPT !.tbl.buckets = emptyBuckets(2 * buckets),
                           !.tbl.ideal_chain_maxlen = ideal(h.tbl.num_items, 2 * buckets),
                           !.tbl.nonideal_items = 0]
      moved[n \in 0..Len(order)] ==
        IF n = 0 THEN cleared ELSE moveItem(moved[n - 1], order[n])
      all == moved[Len(order)]
      ineff == IF all.tbl.nonideal_items > h.tbl.num_items \div 2
               THEN h.tbl.ineff_expands + 1 ELSE 0
  IN  [all EXCEPT !.tbl.num_buckets = 2 * @,
                  !.tbl.ineff_expands = ineff,
                  !.tbl.noexpand = @ \/ ineff > 1]

isAtCapacity(bucket) == bucket.count >= (bucket.expand_mult + 1) * Threshold

HASH_ADD_TO_BKT(h, b, k) ==
  LET added == atHead(h, b, k)
  IN  IF isAtCapacity(added.tbl.buckets[b]) /\ ~h.tbl.noexpand
      THEN HASH_EXPAND_BUCKETS(added)
      ELSE added

HASH_DEL_IN_BKT(h, b, k) ==
  LET before == h.hh[k].hh_prev
      after == h.hh[k].hh_next
  IN  [h EXCEPT !.tbl.buckets[b].count = @ - 1,
                !.tbl.buckets[b].hh_head = IF @ = k THEN after ELSE @,
                !.hh = [i \in DOMAIN @ |->
                  CASE i = before -> [@[i] EXCEPT !.hh_next = after]
                    [] i = after -> [@[i] EXCEPT !.hh_prev = before]
                    [] OTHER -> @[i]]]

-----------------------------------------------------------------------------
(*                                The table                                *)

HASH_MAKE_TABLE(first) ==
  [buckets |-> emptyBuckets(InitialBuckets), num_buckets |-> InitialBuckets,
   num_items |-> 0, tail |-> first, ideal_chain_maxlen |-> 0, nonideal_items |-> 0,
   ineff_expands |-> 0, noexpand |-> FALSE]

(* HASH_FIND, with HASH_FIND_IN_BKT *)
HASH_FIND(h, k) ==
  IF h.head # NULL /\ k \in ToSet(ChainOf(h, HASH_TO_BKT(k, h.tbl.num_buckets)))
  THEN k ELSE NULL

(* HASH_COUNT *)
HASH_COUNT(h) == IF h.head = NULL THEN 0 ELSE h.tbl.num_items

(* HASH_ADD: k becomes the last item and the first of its bucket. *)
HASH_ADD(h, k) ==
  LET last == IF h.head = NULL THEN NULL ELSE h.tbl.tail
      handle == [prev |-> last, next |-> NULL, hh_prev |-> NULL, hh_next |-> NULL]
      handles == [i \in DOMAIN h.hh \union {k} |->
                   CASE i = k -> handle
                     [] i = last -> [h.hh[i] EXCEPT !.next = k]
                     [] OTHER -> h.hh[i]]
      linked == IF h.head = NULL
                THEN [head |-> k, tbl |-> HASH_MAKE_TABLE(k), hh |-> handles]
                ELSE [h EXCEPT !.hh = handles, !.tbl.tail = k]
      counted == [linked EXCEPT !.tbl.num_items = @ + 1]
  IN  HASH_ADD_TO_BKT(counted, HASH_TO_BKT(k, counted.tbl.num_buckets), k)

tailWithout(h, k) == IF h.tbl.tail = k THEN h.hh[k].prev ELSE h.tbl.tail

isTheOnly(h, k) == h.hh[k].prev = NULL /\ h.hh[k].next = NULL

(* HASH_DELETE: the last item takes the table with it.  The memory of the  *)
(* item is the caller's.                                                   *)
HASH_DELETE(h, k) ==
  LET before == h.hh[k].prev
      after == h.hh[k].next
      unlinked == [h EXCEPT !.head = IF before = NULL THEN after ELSE @,
                            !.hh = [i \in DOMAIN @ |->
                              CASE i = before -> [@[i] EXCEPT !.next = after]
                                [] i = after -> [@[i] EXCEPT !.prev = before]
                                [] OTHER -> @[i]],
                            !.tbl.tail = tailWithout(h, k),
                            !.tbl.num_items = @ - 1]
  IN  IF isTheOnly(h, k)
      THEN [h EXCEPT !.head = NULL, !.tbl = NULL]
      ELSE HASH_DEL_IN_BKT(unlinked, HASH_TO_BKT(k, h.tbl.num_buckets), k)

(* free of an item that is no longer in the table *)
FreeItem(h, k) == [h EXCEPT !.hh = [i \in DOMAIN @ \ {k} |-> @[i]]]

-----------------------------------------------------------------------------
HashInit == hash = emptyTable /\ hashOf \in HashFunction

-----------------------------------------------------------------------------
(*                                Properties                               *)

HashTypeOK ==
  /\ hash.head \in Link
  /\ DOMAIN hash.hh \subseteq Key
  /\ \A k \in DOMAIN hash.hh : hash.hh[k] \in UT_hash_handle
  /\ IF hash.head = NULL
     THEN hash.tbl = NULL
     ELSE hash.tbl \in UT_hash_table(hash.tbl.num_buckets)

LinkedBack(chain, back) ==
  \A i \in DOMAIN chain : back[chain[i]] = IF i = 1 THEN NULL ELSE chain[i - 1]

(* What HASH_FSCK, compiled out, looks for after every addition and every  *)
(* deletion: all links have their inverse, and the counts of the buckets   *)
(* and of the table are right.  And there is a table when there are items. *)
HashIntegrity ==
  /\ HashTypeOK
  /\ hash.head # NULL =>
      /\ \A b \in DOMAIN hash.tbl.buckets :
           LET chain == ChainOf(hash, b)
           IN  /\ Len(chain) = hash.tbl.buckets[b].count
               /\ LinkedBack(chain, [k \in DOMAIN hash.hh |-> hash.hh[k].hh_prev])
      /\ Len(FlattenSeq([b \in 1..hash.tbl.num_buckets |-> ChainOf(hash, b - 1)]))
           = hash.tbl.num_items
      /\ Len(Items(hash)) = hash.tbl.num_items
      /\ Last(Items(hash)) = hash.tbl.tail
      /\ LinkedBack(Items(hash), [k \in DOMAIN hash.hh |-> hash.hh[k].prev])

(* "It is better to let its chain length grow to a longer                  *)
(* yet-still-bounded value": as long as expansion is not inhibited, no     *)
(* chain is longer than its multiple of the threshold.                     *)
ChainsAreBounded ==
  hash.head # NULL /\ ~hash.tbl.noexpand =>
    \A b \in DOMAIN hash.tbl.buckets :
      hash.tbl.buckets[b].count <= (hash.tbl.buckets[b].expand_mult + 1) * Threshold
=============================================================================
