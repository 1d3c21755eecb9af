---------------------------- MODULE CircularArray ----------------------------
(***************************************************************************)
(* The circular array of main.c: serie_update's writes into array->data    *)
(* and lookup's way from a time point to a position.                       *)
(*                                                                         *)
(* array->data is malloc'ed and never cleared: the cells past the first    *)
(* count hold whatever the memory held before.  A time point is an         *)
(* unsigned long and lookup narrows a difference of two to an int, so the  *)
(* widths are parameters.                                                  *)
(***************************************************************************)
EXTENDS Integers

CONSTANTS
  Size,             \* array->size
  Value,
  TIMESTAMP_DIFF,   \* time between two measurements
  LongModulus,      \* 2^64: unsigned long counts modulo LongModulus
  IntModulus,       \* 2^32: an int is one of IntModulus numbers around 0
  Garbage           \* what a cell that was never written may hold

Time == 0..(LongModulus - 1)
Serie == [time : Time, value : Value]
Position == 0..(Size - 1)

ASSUME SizeAssumption == Size \in Nat \ {0}
ASSUME DiffAssumption == TIMESTAMP_DIFF \in Nat \ {0}
ASSUME GarbageAssumption == Garbage \subseteq Serie /\ Garbage # {}

(* The widths of C; and an int can hold the distance from the oldest to    *)
(* the latest measurement, which main's largest window, 525600             *)
(* measurements, respects.                                                 *)
ASSUME WidthAssumption ==
  /\ IntModulus \in Nat \ {0}
  /\ LongModulus \in Nat \ {0}
  /\ IntModulus % 2 = 0
  /\ LongModulus % IntModulus = 0
  /\ (Size - 1) * TIMESTAMP_DIFF <= IntModulus \div 2

VARIABLES data, count, lastUpdatePosition

arrayVars == <<data, count, lastUpdatePosition>>

-----------------------------------------------------------------------------
(* C's / and %, which truncate towards zero, for b > 0. *)
CDiv(a, b) == IF a >= 0 THEN a \div b ELSE -((-a) \div b)
CMod(a, b) == a - b * CDiv(a, b)

(* The subtraction of two unsigned longs, and the conversion to int. *)
MinusLong(a, b) == (a - b) % LongModulus
ToInt(a) ==
  LET low == a % IntModulus
  IN  IF low < IntModulus \div 2 THEN low ELSE low - IntModulus

Abs(a) == IF a < 0 THEN -a ELSE a

-----------------------------------------------------------------------------
(* Mutant of isFull: full one cell early. *)
isFullEarly == count >= Size - 1

isFull == count >= Size

(* serie_update: the cell after the last one written, and the first cell   *)
(* of an empty array.                                                      *)
newUpdatePosition ==
  IF count = 0 THEN 0 ELSE (lastUpdatePosition + 1) % Size

(* Mutant of Write: the count goes on when the array is full. *)
WriteAlwaysCounting(newTime, newValue) ==
  /\ count' = count + 1
  /\ data' = [data EXCEPT ![newUpdatePosition] = [time |-> newTime, value |-> newValue]]
  /\ lastUpdatePosition' = newUpdatePosition

(* The array's part of serie_update. *)
Write(newTime, newValue) ==
  /\ count' = IF isFull THEN count ELSE count + 1
  /\ data' = [data EXCEPT ![newUpdatePosition] = [time |-> newTime, value |-> newValue]]
  /\ lastUpdatePosition' = newUpdatePosition

(* lookup: what the caller gets back. *)
NotFound == [found |-> FALSE]

(* Mutant of lookup: the time of the cell is not compared. *)
lookupWithoutTimeCheck(t) ==
  LET step == CDiv(ToInt(MinusLong(t, data[lastUpdatePosition].time)), TIMESTAMP_DIFF)
      pos == CMod(CMod(lastUpdatePosition + step, Size) + Size, Size)
  IN  IF count # 0 /\ Abs(step) < count
      THEN [found |-> TRUE, value |-> data[pos].value]
      ELSE NotFound

lookup(t) ==
  LET step == CDiv(ToInt(MinusLong(t, data[lastUpdatePosition].time)), TIMESTAMP_DIFF)
      pos == CMod(CMod(lastUpdatePosition + step, Size) + Size, Size)
  IN  IF count # 0 /\ Abs(step) < count /\ data[pos].time = t
      THEN [found |-> TRUE, value |-> data[pos].value]
      ELSE NotFound

-----------------------------------------------------------------------------
(* CircularArray_new *)
ArrayInit ==
  /\ data \in [Position -> Garbage]
  /\ count = 0
  /\ lastUpdatePosition = 0

(* The series is regular, as createDataSet, random_shifts and              *)
(* exampleShifts make it.                                                  *)
IsNextTime(t) == count # 0 => t = data[lastUpdatePosition].time + TIMESTAMP_DIFF

serie_update(t, v) == IsNextTime(t) /\ Write(t, v)

ArrayNext == \E t \in Time, v \in Value : serie_update(t, v)

ArraySpec == ArrayInit /\ [][ArrayNext]_arrayVars

-----------------------------------------------------------------------------
(*                                Properties                               *)

ArrayTypeOK ==
  /\ data \in [Position -> Serie]
  /\ count \in 0..Size
  /\ lastUpdatePosition \in Position

(* The position of the record with `age' younger records. *)
PositionOfAge(age) ==
  IF age <= lastUpdatePosition THEN lastUpdatePosition - age
  ELSE lastUpdatePosition - age + Size

(* The records of the window, oldest first. *)
window == [i \in 1..count |-> data[PositionOfAge(count - i)]]

Window == INSTANCE SlidingWindow

(* The array holds the latest Size measurements in the order of their      *)
(* times, through the turn of the ring: no measurement is overwritten      *)
(* early and none is kept too long.                                        *)
ImplementsWindow == Window!Spec

(* lookup finds every measurement of the window with its value and nothing *)
(* else, although it computes with an int that wraps around and with a     *)
(* remainder that can be negative.  While the array is filling up this     *)
(* holds for a time point no later than the last measurement, and no       *)
(* further back than an int reaches.                                       *)
LookupIsExact ==
  count # 0 =>
    \A t \in Time :
      LET latest == data[lastUpdatePosition].time
      IN  (isFull \/ t \in (latest - IntModulus \div 2)..latest) =>
            Window!Found(window, t) = IF lookup(t).found THEN {lookup(t).value} ELSE {}

(* The same without a condition: what the interface promises of every      *)
(* lookup, "The function returns true if the value was found and false     *)
(* otherwise."                                                             *)
LookupFindsOnlyMeasurements ==
  \A t \in Time : lookup(t).found => lookup(t).value \in Window!Found(window, t)
=============================================================================
