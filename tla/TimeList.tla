------------------------------ MODULE TimeList ------------------------------
(***************************************************************************)
(* The time points of one value: a ring of ListValues linked in both       *)
(* directions.  leaf->pointers[i] refers to the oldest one, whose prev is  *)
(* the newest.  BPlusTree takes such a ring for a sequence of times; this  *)
(* module shows that it is one.                                            *)
(***************************************************************************)
EXTENDS Naturals, FiniteSets, Sequences, Functions

CONSTANTS
  ListValue,    \* addresses malloc can return for a ListValue
  NULL,         \* first: the value has no list, its key is not in the leaf
  Time

ASSUME ListNULLAssumption == NULL \notin ListValue

VARIABLES
  list,         \* the allocated ListValues
  first         \* leaf->pointers[i]

listVars == <<list, first>>

FreeAddresses == ListValue \ DOMAIN list

(* malloc at address new, and its fields. *)
allocated(heap, new, fields) ==
  [l \in DOMAIN heap \union {new} |-> IF l = new THEN fields ELSE heap[l]]

(* Mutant of newRecord: the links of the only ListValue are null. *)
newRecordUnlinked(t) ==
  /\ first = NULL
  /\ \E new \in FreeAddresses :
       /\ list' = allocated(list, new, [timestamp |-> t, prev |-> NULL, next |-> NULL])
       /\ first' = new

(* listValue_new, when the key is new in the leaf: a ring of one. *)
newRecord(t) ==
  /\ first = NULL
  /\ \E new \in FreeAddresses :
       /\ list' = allocated(list, new, [timestamp |-> t, prev |-> new, next |-> new])
       /\ first' = new

(* Mutant of addDuplicateToDoublyLinkedList: the new one becomes the first. *)
addDuplicateAsFirst(t) ==
  /\ first # NULL
  /\ \E new \in FreeAddresses :
       LET lastListValue == list[first].prev
           firstRelinked == [list EXCEPT ![first].prev = new]
           lastRelinked == [firstRelinked EXCEPT ![lastListValue].next = new]
       IN  /\ list' = allocated(lastRelinked, new,
                          [timestamp |-> t, prev |-> lastListValue, next |-> first])
           /\ first' = new

(* The new ListValue goes between the newest and the oldest. *)
addDuplicateToDoublyLinkedList(t) ==
  /\ first # NULL
  /\ \E new \in FreeAddresses :
       LET lastListValue == list[first].prev
           firstRelinked == [list EXCEPT ![first].prev = new]
           lastRelinked == [firstRelinked EXCEPT ![lastListValue].next = new]
       IN  list' = allocated(lastRelinked, new,
                       [timestamp |-> t, prev |-> lastListValue, next |-> first])
  /\ UNCHANGED first

hasMultipleTimes == list[first].next # first

(* Mutant of deleteFirstListValue: the second one's prev is left as it is. *)
deleteFirstWithoutRelink ==
  /\ first # NULL
  /\ hasMultipleTimes
  /\ LET next == list[first].next
         prevRelinked == [list EXCEPT ![list[first].prev].next = next]
     IN  /\ list' = Restrict(prevRelinked, DOMAIN list \ {first})
         /\ first' = next

deleteFirstListValue ==
  /\ first # NULL
  /\ hasMultipleTimes
  /\ LET next == list[first].next
         prev == list[first].prev
         prevRelinked == [list EXCEPT ![prev].next = next]
         nextRelinked == [prevRelinked EXCEPT ![next].prev = prev]
     IN  /\ list' = Restrict(nextRelinked, DOMAIN list \ {first})
         /\ first' = next

(* removeEntryFromTheNode frees the only time of a key with the key. *)
removeOnlyTime ==
  /\ first # NULL
  /\ ~hasMultipleTimes
  /\ list' = Restrict(list, DOMAIN list \ {first})
  /\ first' = NULL

(* The ListValues from first along next, up to the first one met again. *)
walkFrom(heap, head) ==
  LET steps == Cardinality(DOMAIN heap)
      at[i \in 1..steps] == IF i = 1 THEN head ELSE heap[at[i - 1]].next
      length == CHOOSE n \in 1..steps :
                  /\ heap[at[n]].next = head
                  /\ \A m \in 1..(n - 1) : heap[at[m]].next # head
  IN  IF head = NULL THEN <<>> ELSE [i \in 1..length |-> at[i]]

walk == walkFrom(list, first)

(* Mutant of list_destroy: the last one is not freed. *)
list_destroyExceptTail ==
  /\ first # NULL
  /\ list' = Restrict(list, {list[first].prev})
  /\ first' = NULL

(* list_destroy: from head along next, freeing, until head->prev. *)
list_destroy ==
  /\ first # NULL
  /\ LET tail == list[first].prev
         length == CHOOSE n \in 1..Len(walk) : walk[n] = tail
     IN  list' = Restrict(list, DOMAIN list \ {walk[i] : i \in 1..length})
  /\ first' = NULL

Init == list = <<>> /\ first = NULL

Next ==
  \/ \E t \in Time : newRecord(t) \/ addDuplicateToDoublyLinkedList(t)
  \/ deleteFirstListValue
  \/ removeOnlyTime
  \/ list_destroy

Spec == Init /\ [][Next]_listVars

-----------------------------------------------------------------------------
(*                                Properties                               *)

TypeOK ==
  /\ DOMAIN list \subseteq ListValue
  /\ list \in [DOMAIN list -> [timestamp : Time, prev : ListValue, next : ListValue]]
  /\ first \in ListValue \union {NULL}

(* prev undoes next everywhere, and no link leads to freed memory: the     *)
(* neighbourhood search may walk the ring in either direction from any     *)
(* time point.                                                             *)
LinksAreInverse ==
  \A l \in DOMAIN list :
    /\ list[l].next \in DOMAIN list /\ list[list[l].next].prev = l
    /\ list[l].prev \in DOMAIN list /\ list[list[l].prev].next = l

(* Everything allocated is on the one ring: nothing is lost, so            *)
(* list_destroy frees it all.                                              *)
OneRing == {walk[i] : i \in 1..Len(walk)} = DOMAIN list

(* The ring is the first-in first-out list that the tree keeps per value. *)
times == [v \in {"value"} |-> [i \in 1..Len(walk) |-> list[walk[i]].timestamp]]

Queue == INSTANCE TimeIndex WITH Value <- {"value"}, index <- times

ImplementsQueue == Queue!Spec
=============================================================================
