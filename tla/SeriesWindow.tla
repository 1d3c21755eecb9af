---------------------------- MODULE SeriesWindow ----------------------------
(***************************************************************************)
(* The store as its user sees it: the circular array and, next to it, the  *)
(* index from values to the times at which they were measured.  shift      *)
(* keeps them in step: the measurement that leaves a full array leaves the *)
(* index first.                                                            *)
(***************************************************************************)
EXTENDS CircularArray, SequencesExt

VARIABLE index

windowVars == <<arrayVars, index>>

Index == INSTANCE TimeIndex

(* Mutant of oldest: the record written last. *)
latestAsOldest == data[lastUpdatePosition]

(* The record a full array is about to overwrite. *)
oldest == data[newUpdatePosition]

Init == ArrayInit /\ Index!Init

(* Mutant of shift: nothing is deleted. *)
shiftWithoutDelete(t, v) == serie_update(t, v) /\ index' = Index!WithRecord(index, t, v)

(* shift: serie_update with its delete and its addRecordToTree. *)
shift(t, v) ==
  /\ serie_update(t, v)
  /\ LET remaining == IF isFull THEN Index!WithoutOldest(index, oldest.value) ELSE index
     IN  index' = Index!WithRecord(remaining, t, v)

Next == \E t \in Time, v \in Value : shift(t, v)

Spec == Init /\ [][Next]_windowVars

-----------------------------------------------------------------------------
(*                                Properties                               *)

TypeOK == ArrayTypeOK /\ index \in [Value -> Seq(Time)]

(* The times of the measurements with value v in the array. *)
TimesOf(v) ==
  {data[PositionOfAge(a)].time :
     a \in {b \in 0..(Size - 1) : b < count /\ data[PositionOfAge(b)].value = v}}

OldestFirst(times) == \A i, j \in 1..Len(times) : i < j => times[i] < times[j]

(* The index holds, for every value, the times of exactly those            *)
(* measurements that are in the array, each once, the oldest first.        *)
IndexMatchesArray ==
  \A v \in Value : ToSet(index[v]) = TimesOf(v) /\ OldestFirst(index[v])

(* The record that delete removes is the one the array overwrites:         *)
(* although delete does not look at the time it is given and drops the     *)
(* first of the value's times, that one is the time it was given.          *)
DeleteDropsTheOldest ==
  isFull => /\ index[oldest.value] # <<>>
            /\ Head(index[oldest.value]) = oldest.time
=============================================================================
