---------------------------- MODULE TimeSetOrder ----------------------------
(***************************************************************************)
(* Sorting the items of a TimeSet: HASH_SRT, uthash's bottom-up merge sort *)
(* of the list in which the items were added, with the two comparison      *)
(* functions of timeset.c.  Neither is an order on all items: one narrows  *)
(* the difference of two unsigned longs to an int, the other takes close   *)
(* errors for equal.                                                       *)
(*                                                                         *)
(* These are operators on the sequence of items that the links stand for;  *)
(* TimeSet.tla relinks the items in the order they give.                   *)
(***************************************************************************)
EXTENDS Integers, Sequences, FiniteSets, SequencesExt

CONSTANTS
  Tolerance,        \* 0.0000001; errors are multiples of some unit
  LongModulus,      \* 2^64
  IntModulus        \* 2^32

ASSUME OrderAssumption ==
  /\ Tolerance \in Nat
  /\ {LongModulus, IntModulus} \subseteq Nat \ {0}
  /\ LongModulus % IntModulus = 0

-----------------------------------------------------------------------------
(*                         The comparison functions                        *)

Abs(a) == IF a < 0 THEN -a ELSE a

ToInt(a) ==
  LET low == a % IntModulus
  IN  IF low < IntModulus \div 2 THEN low ELSE low - IntModulus

TimeSetItem_cmp_by_error(x, y) ==
  IF Abs(x.error - y.error) <= Tolerance THEN 0
  ELSE IF x.error < y.error THEN -1 ELSE 1

(* Mutant of TimeSetItem_cmp_by_time: the other way round. *)
cmp_by_time_backwards(x, y) == ToInt((y.time - x.time) % LongModulus)

TimeSetItem_cmp_by_time(x, y) == ToInt((x.time - y.time) % LongModulus)

cmpfcn(by, x, y) ==
  IF by = "time" THEN TimeSetItem_cmp_by_time(x, y) ELSE TimeSetItem_cmp_by_error(x, y)

-----------------------------------------------------------------------------
(*                                 HASH_SRT                                *)

(* Which of two runs gives the next item. *)
takesFirst(c) == c <= 0

(* The two runs are taken item by item until both are empty; a and b are   *)
(* the positions of their next items.                                      *)
Merge(by, p, q) ==
  LET merged[n \in 0..(Len(p) + Len(q))] ==
        IF n = 0 THEN [list |-> <<>>, a |-> 1, b |-> 1]
        ELSE LET m == merged[n - 1]
             IN  IF m.a <= Len(p) /\ (m.b > Len(q) \/ takesFirst(cmpfcn(by, p[m.a], q[m.b])))
                 THEN [list |-> Append(m.list, p[m.a]), a |-> m.a + 1, b |-> m.b]
                 ELSE [list |-> Append(m.list, q[m.b]), a |-> m.a, b |-> m.b + 1]
  IN  merged[Len(p) + Len(q)].list

nmerges(items, insize) == (Len(items) + 2 * insize - 1) \div (2 * insize)

(* Where the m-th pair of runs begins. *)
from(m, insize) == 2 * (m - 1) * insize + 1

(* One pass: each two neighbouring runs of insize items are merged. *)
Pass(by, items, insize) ==
  LET run(first) == SubSeq(items, first,
                      IF first + insize - 1 < Len(items) THEN first + insize - 1 ELSE Len(items))
  IN  FlattenSeq([m \in 1..nmerges(items, insize) |->
        Merge(by, run(from(m, insize)), run(from(m, insize) + insize))])

(* Mutant of isLast: the pass before it counts as the last one. *)
isLastEarly(merges) == merges <= 2

isLast(merges) == merges <= 1

(* Passes with runs of 1, 2, 4, ... items, until one has a single merge.   *)
HASH_SRT(by, items) ==
  LET sorted[n \in 0..Len(items)] ==
        IF n = 0 THEN [list |-> items, insize |-> 1, looping |-> TRUE]
        ELSE LET before == sorted[n - 1]
             IN  IF before.looping
                 THEN [list |-> Pass(by, before.list, before.insize),
                       insize |-> 2 * before.insize,
                       looping |-> ~isLast(nmerges(before.list, before.insize))]
                 ELSE before
  IN  sorted[Len(items)].list
=============================================================================
