------------------------------- MODULE TimeSet -------------------------------
(***************************************************************************)
(* The set of time points of timeset.c, on the hash table of uthash: the   *)
(* items are TimeSetItems, known by their time, the key of the table.      *)
(* malloc may fail: TimeSet_new then cleans up and returns NULL, while     *)
(* TimeSet_add_error and the table's own requests end the program.  A      *)
(* caller may sort the items with one of the two comparison functions.     *)
(***************************************************************************)
EXTENDS HashTable, TimeSetOrder

CONSTANT Error        \* for each time, the errors that it is added with

ASSUME TimeSetAssumption ==
  /\ Key \subseteq 0..(LongModulus - 1)
  /\ Error \in [Key -> SUBSET Int]

VARIABLES
  self,         \* "NULL", "live", "destroying", or "exit": the program ended
  memory,       \* which of the two blocks of a TimeSet are allocated
  errors,       \* the errors of the items
  time, tmp     \* the variables of TimeSet_destroy_'s loop

setVars == <<hash, hashOf, self, memory, errors, time, tmp>>

Block == {"TimeSet", "set"}

TimeSetInit ==
  /\ HashInit
  /\ self = "NULL"
  /\ memory = {}
  /\ errors = <<>>
  /\ time = NULL
  /\ tmp = NULL

(* Mutant of freedOnError: self itself is not freed. *)
freedOnErrorExceptSelf(got) == IF "TimeSet" \in got THEN {"set"} ELSE {}

(* The error label of TimeSet_new frees the set of a TimeSet that it got,  *)
(* and then self; to free a null pointer does nothing.                     *)
freedOnError(got) == (IF "TimeSet" \in got THEN {"set"} ELSE {}) \union {"TimeSet"}

(* The second block is requested after the first was got. *)
TimeSet_new ==
  /\ self = "NULL"
  /\ \/ self' = "live" /\ memory' = memory \union Block
     \/ \E got \in {{}, {"TimeSet"}} :
          memory' = memory \union (got \ freedOnError(got)) /\ UNCHANGED self
  /\ UNCHANGED <<hash, hashOf, errors, time, tmp>>

TimeSet_contains(t) == HASH_FIND(hash, t) # NULL

TimeSet_size == HASH_COUNT(hash)

(* Mutant of isNew: the time is not looked for. *)
isNewAlways(t) == TRUE

isNew(t) == ~TimeSet_contains(t)

(* A time that is in the set keeps its first error.                        *)
TimeSet_add_error(t, e) ==
  /\ self = "live"
  /\ isNew(t)
  /\ hash' = HASH_ADD(hash, t)
  /\ errors' = [x \in DOMAIN errors \union {t} |-> IF x = t THEN e ELSE errors[x]]
  /\ UNCHANGED <<hashOf, self, memory, time, tmp>>

TimeSet_add(t) == TimeSet_add_error(t, 0)

(* A new time is added when there is no memory: the item's block is        *)
(* written to without a check, and the table's requests end in             *)
(* uthash_fatal.                                                           *)
OutOfMemory(t) ==
  /\ self = "live"
  /\ isNew(t)
  /\ self' = "exit"
  /\ UNCHANGED <<hash, hashOf, memory, errors, time, tmp>>

Comparison == {"time", "error"}

TimeSetItem(t) == [time |-> t, error |-> errors[t]]

TimeSetItems ==
  LET times == Items(hash)
  IN  [i \in DOMAIN times |-> TimeSetItem(times[i])]

(* Mutant of relinked: the tail stays. *)
relinkedExceptTail(h, order) ==
  [h EXCEPT !.head = order[1],
            !.hh = [k \in DOMAIN @ |->
              LET i == CHOOSE n \in DOMAIN order : order[n] = k
              IN  [@[k] EXCEPT !.prev = IF i = 1 THEN NULL ELSE order[i - 1],
                               !.next = IF i = Len(order) THEN NULL ELSE order[i + 1]]]]

(* What HASH_SRT does to the links. *)
relinked(h, order) ==
  [h EXCEPT !.head = order[1],
            !.tbl.tail = Last(order),
            !.hh = [k \in DOMAIN @ |->
              LET i == CHOOSE n \in DOMAIN order : order[n] = k
              IN  [@[k] EXCEPT !.prev = IF i = 1 THEN NULL ELSE order[i - 1],
                               !.next = IF i = Len(order) THEN NULL ELSE order[i + 1]]]]

HASH_SORT(by) ==
  /\ self = "live"
  /\ hash.head # NULL
  /\ UNCHANGED <<hashOf, self, memory, errors, time, tmp>>
  /\ LET sorted == HASH_SRT(by, TimeSetItems)
     IN  hash' = relinked(hash, [i \in DOMAIN sorted |-> sorted[i].time])

(* Mutant of following: an item ahead is the item that is deleted next. *)
followingLate(h, k) == k

(* HASH_ITER reads the link of an item before the item before it goes.     *)
following(h, k) == IF k = NULL THEN NULL ELSE h.hh[k].next

(* HASH_ITER's initialisation in TimeSet_destroy_.  Destroying NULL does   *)
(* nothing.                                                                *)
TimeSet_destroy ==
  /\ self = "live"
  /\ self' = "destroying"
  /\ time' = hash.head
  /\ tmp' = following(hash, hash.head)
  /\ UNCHANGED <<hash, hashOf, memory, errors>>

destroyItem ==
  /\ self = "destroying"
  /\ time # NULL
  /\ hash' = FreeItem(HASH_DELETE(hash, time), time)
  /\ errors' = [x \in DOMAIN errors \ {time} |-> errors[x]]
  /\ time' = tmp
  /\ tmp' = following(hash', tmp)
  /\ UNCHANGED <<hashOf, self, memory>>

destroyTimeSet ==
  /\ self = "destroying"
  /\ time = NULL
  /\ self' = "NULL"
  /\ memory' = memory \ Block
  /\ UNCHANGED <<hash, hashOf, errors, time, tmp>>

TimeSetNext ==
  \/ TimeSet_new
  \/ \E t \in Key : TimeSet_add(t) \/ OutOfMemory(t)
  \/ \E t \in Key : \E e \in Error[t] : TimeSet_add_error(t, e)
  \/ \E by \in Comparison : HASH_SORT(by)
  \/ TimeSet_destroy
  \/ destroyItem
  \/ destroyTimeSet

TimeSetSpec == TimeSetInit /\ [][TimeSetNext]_setVars

-----------------------------------------------------------------------------
(*                                Properties                               *)

(* While TimeSet_destroy_ takes the items out of the table they are linked *)
(* in and frees them, its two pointers never lead to an item that is gone: *)
(* they are always the first two items left.                               *)
IterationIsSafe ==
  self = "destroying" =>
    /\ {time, tmp} \subseteq DOMAIN hash.hh \union {NULL}
    /\ time = hash.head
    /\ time # NULL => tmp = hash.hh[time].next

(* As long as there is no TimeSet, whether it was destroyed or never made  *)
(* for lack of memory, nothing is allocated: no block of it, no item, no   *)
(* table.                                                                  *)
NothingLeaks ==
  self = "NULL" => memory = {} /\ hash = emptyTable

(* However often the buckets were doubled and the items sorted, a time is  *)
(* contained exactly if it was added, each is counted once, and all of     *)
(* them are linked.                                                        *)
AnswersAreExact ==
  self = "live" =>
    /\ ToSet(Items(hash)) = DOMAIN errors
    /\ \A t \in Key : TimeSet_contains(t) <=> t \in DOMAIN errors
    /\ TimeSet_size = Cardinality(DOMAIN errors)

Seen == INSTANCE SeenTimes WITH
  Time <- Key,
  Error <- (UNION {Error[t] : t \in Key}) \union {0},
  seen <- IF self \in {"live", "exit"} THEN errors ELSE <<>>

(* A TimeSet is the abstract set: the answers of the hash table decide     *)
(* whether a time is added, and an item keeps its first error.             *)
ImplementsSeenTimes == Seen!Spec

(* Whatever the items, and although the comparisons are not transitive,    *)
(* after a sort each item compares with the next as not greater.           *)
NeighboursAreInOrder ==
  [][\A by \in Comparison :
       HASH_SORT(by) =>
         LET list == Items(hash')
         IN  \A k \in 1..(Len(list) - 1) :
               cmpfcn(by, TimeSetItem(list[k]), TimeSetItem(list[k + 1])) <= 0]_setVars

(* Times that an int can hold the distances of are sorted: the earlier     *)
(* item comes first, however far apart they are in the list.               *)
SortsByTime ==
  [][/\ HASH_SORT("time")
     /\ \A x, y \in DOMAIN errors : Abs(x - y) < IntModulus \div 2
     => LET list == Items(hash')
        IN  \A j, k \in DOMAIN list : j < k => list[j] < list[k]]_setVars
=============================================================================
