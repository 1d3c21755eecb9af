------------------------- MODULE SeriesWindowProofs -------------------------
(***************************************************************************)
(* The circular array implements the sliding window and lookup is exact,   *)
(* for every Size, interval and width that WidthAssumption admits. The     *)
(* proofs number the records by age: the record with `a' younger ones is   *)
(* in cell PositionOfAge(a), was taken a intervals before the latest, and  *)
(* gets age a + 1 when a step writes the next one.                         *)
(*                                                                         *)
(* The array and the index of SeriesWindow agree, for every Size, every    *)
(* set of values and all widths.  The inductive invariant adds to          *)
(* IndexMatchesArray that the records grow older by one interval each, so  *)
(* the record about to be overwritten has the smallest time of all.        *)
(***************************************************************************)
EXTENDS SeriesWindow, SequenceTheorems, TLAPS

(* Going one cell on, modulo Size, is adding one or returning to cell 0.   *)
LEMMA NextPosition ==
  ASSUME NEW p \in Position
  PROVE  (p + 1) % Size = IF p + 1 < Size THEN p + 1 ELSE 0
BY SizeAssumption DEF Position

(* A step of serie_update stays within the array. *)
LEMMA ArrayTypeStep ==
  ASSUME ArrayTypeOK, [ArrayNext]_arrayVars
  PROVE  ArrayTypeOK'
<1>1. CASE UNCHANGED arrayVars
  BY <1>1 DEF arrayVars, ArrayTypeOK
<1>2. ASSUME NEW t \in Time, NEW v \in Value, serie_update(t, v)
      PROVE  ArrayTypeOK'
  <2>1. newUpdatePosition \in Position
    BY SizeAssumption, NextPosition DEF newUpdatePosition, ArrayTypeOK, Position
  <2>2. [time |-> t, value |-> v] \in Serie
    BY <1>2 DEF Serie
  <2> QED
    BY <1>2, <2>1, <2>2, SizeAssumption DEF serie_update, Write, isFull, ArrayTypeOK
<1> QED BY <1>1, <1>2 DEF ArrayNext

(* serie_update never leaves the array: lastUpdatePosition is a cell and   *)
(* count is at most Size.                                                  *)
THEOREM TypeCorrect == ArraySpec => []ArrayTypeOK
<1>1. ArrayInit => ArrayTypeOK
  BY SizeAssumption, GarbageAssumption DEF ArrayInit, ArrayTypeOK, Position
<1>2. ArrayTypeOK /\ [ArrayNext]_arrayVars => ArrayTypeOK'
  BY ArrayTypeStep
<1> QED BY <1>1, <1>2, PTL DEF ArraySpec

-----------------------------------------------------------------------------
(* Until the array is full its records are in the cells from 0 on. *)
FillsInOrder ==
  count < Size => lastUpdatePosition = IF count = 0 THEN 0 ELSE count - 1

ArrayInv == ArrayTypeOK /\ FillsInOrder

(* A step keeps the order in which the cells fill.                         *)
LEMMA ArrayInvStep ==
  ASSUME ArrayInv, [ArrayNext]_arrayVars
  PROVE  FillsInOrder'
<1>1. CASE UNCHANGED arrayVars
  BY <1>1 DEF arrayVars, ArrayInv, FillsInOrder
<1>2. ASSUME NEW t \in Time, NEW v \in Value, serie_update(t, v)
      PROVE  FillsInOrder'
  BY <1>2, SizeAssumption, NextPosition
  DEF serie_update, Write, isFull, newUpdatePosition, ArrayInv, ArrayTypeOK, FillsInOrder, Position
<1> QED BY <1>1, <1>2 DEF ArrayNext

(* Until the array is full its measurements are the cells from 0 to        *)
(* lastUpdatePosition.                                                     *)
THEOREM ArrayInvariant == ArraySpec => []ArrayInv
<1>1. ArrayInit => FillsInOrder
  BY DEF ArrayInit, FillsInOrder
<1>2. ArrayTypeOK /\ FillsInOrder /\ [ArrayNext]_arrayVars => FillsInOrder'
  BY ArrayInvStep DEF ArrayInv
<1> QED BY <1>1, <1>2, TypeCorrect, PTL DEF ArraySpec, ArrayInv

-----------------------------------------------------------------------------
(* The record written last has age 0 and every other record of the window  *)
(* ages by one.                                                            *)
LEMMA AgesShift ==
  ASSUME ArrayInv, NEW t \in Time, NEW v \in Value, serie_update(t, v),
         NEW age \in 0..(Size - 1), age < count'
  PROVE  data'[PositionOfAge(age)'] =
           IF age = 0 THEN [time |-> t, value |-> v] ELSE data[PositionOfAge(age - 1)]
<1>1. newUpdatePosition \in Position /\ lastUpdatePosition' = newUpdatePosition
  BY SizeAssumption, NextPosition DEF newUpdatePosition, ArrayInv, ArrayTypeOK, Position, serie_update, Write
<1>2. newUpdatePosition = IF count = 0 \/ lastUpdatePosition + 1 = Size THEN 0
                          ELSE lastUpdatePosition + 1
  BY SizeAssumption, NextPosition DEF newUpdatePosition, ArrayInv, ArrayTypeOK, Position
<1>3. \A p \in Position : data'[p] = IF p = newUpdatePosition THEN [time |-> t, value |-> v]
                                      ELSE data[p]
  BY <1>1 DEF serie_update, Write, ArrayInv, ArrayTypeOK
<1>4. PositionOfAge(age)' \in Position
  BY <1>1, SizeAssumption DEF PositionOfAge, Position
<1>5. age = 0 => PositionOfAge(age)' = newUpdatePosition
  BY <1>1, SizeAssumption DEF PositionOfAge, Position
<1>6. age # 0 => /\ PositionOfAge(age)' = PositionOfAge(age - 1)
                 /\ PositionOfAge(age)' # newUpdatePosition
  BY <1>1, <1>2, SizeAssumption
  DEF PositionOfAge, Position, ArrayInv, ArrayTypeOK, FillsInOrder, serie_update, Write, isFull
<1> QED BY <1>3, <1>4, <1>5, <1>6

(* A step of the array is a step of the window. *)
LEMMA WindowStep ==
  ASSUME ArrayInv, NEW t \in Time, NEW v \in Value, serie_update(t, v)
  PROVE  Window!Update(t, v)
<1> DEFINE m == [time |-> t, value |-> v]
           shorter == IF Len(window) < Size THEN window ELSE Tail(window)
<1>1. window \in Seq(Serie) /\ Len(window) = count
  <2>1. \A i \in 1..count : PositionOfAge(count - i) \in Position
    BY SizeAssumption DEF ArrayInv, ArrayTypeOK, PositionOfAge, Position
  <2> QED BY <2>1 DEF window, ArrayInv, ArrayTypeOK
<1>2. Window!IsNext(window, t)
  BY <1>1 DEF serie_update, IsNextTime, Window!IsNext, window, PositionOfAge, ArrayInv, ArrayTypeOK, Position
<1>3. PICK n \in 1..Size : count' = n
  BY SizeAssumption DEF serie_update, Write, isFull, ArrayInv, ArrayTypeOK
<1>4. shorter \in Seq(Serie) /\ Len(shorter) = n - 1
  BY <1>1, <1>3, SizeAssumption DEF serie_update, Write, isFull, ArrayInv, ArrayTypeOK
<1>5. \A i \in 1..(n - 1) : shorter[i] = data[PositionOfAge(n - i - 1)]
  BY <1>1, <1>3, <1>4, SizeAssumption DEF window, serie_update, Write, isFull, ArrayInv, ArrayTypeOK
<1>6. ASSUME NEW i \in 1..n
      PROVE  data'[PositionOfAge(n - i)'] = Append(shorter, m)[i]
  <2>1. n - i \in 0..(Size - 1) /\ n - i < count'
    BY <1>3, <1>6, SizeAssumption
  <2>2. data'[PositionOfAge(n - i)'] = IF n - i = 0 THEN m ELSE data[PositionOfAge(n - i - 1)]
    BY <2>1, AgesShift DEF PositionOfAge
  <2>3. CASE i = n
    BY <1>4, <1>6, <2>2, <2>3
  <2>4. CASE i # n
    BY <1>4, <1>5, <1>6, <2>2, <2>4
  <2> QED BY <2>3, <2>4
<1>7. window' = [i \in 1..n |-> data'[PositionOfAge(n - i)']]
  BY <1>3 DEF window, PositionOfAge
<1>8. Append(shorter, m) = [i \in 1..n |-> Append(shorter, m)[i]]
  <2>1. Append(shorter, m) \in Seq(Serie) /\ Len(Append(shorter, m)) = n
    BY <1>4 DEF Serie
  <2> HIDE DEF m, shorter
  <2> QED BY <2>1, LenProperties
<1>9. window' = Append(shorter, m)
  BY <1>6, <1>7, <1>8 DEF PositionOfAge
<1> QED BY <1>2, <1>9 DEF Window!Update, Window!WithLatest

(* CircularArray implements SlidingWindow, for every Size: the array holds *)
(* exactly the latest Size measurements, in order, around every turn of    *)
(* the ring.                                                               *)
THEOREM ArrayImplementsWindow == ArraySpec => ImplementsWindow
<1>1. ArrayInit => Window!Init
  BY DEF ArrayInit, Window!Init, window
<1>2. ArrayInv /\ [ArrayNext]_arrayVars => [Window!Next]_window
  <2> SUFFICES ASSUME ArrayInv, [ArrayNext]_arrayVars PROVE [Window!Next]_window
    OBVIOUS
  <2>1. CASE UNCHANGED arrayVars
    BY <2>1 DEF arrayVars, window, PositionOfAge
  <2>2. ASSUME NEW t \in Time, NEW v \in Value, serie_update(t, v)
        PROVE  Window!Next
    BY <2>2, WindowStep DEF Window!Next
  <2> QED BY <2>1, <2>2 DEF ArrayNext
<1> QED BY <1>1, <1>2, ArrayInvariant, PTL DEF ArraySpec, ImplementsWindow, Window!Spec

-----------------------------------------------------------------------------
(*                                 lookup                                  *)

(* Quotient and remainder of a number that is written with them.           *)
LEMMA QuotientAndRemainder ==
  ASSUME NEW b \in Nat \ {0}, NEW q \in Int, NEW r \in 0..(b - 1)
  PROVE  (q * b + r) \div b = q /\ (q * b + r) % b = r
OBVIOUS

(* Every integer can be written with its quotient and remainder.           *)
LEMMA DivisionHolds ==
  ASSUME NEW a \in Int, NEW b \in Nat \ {0}
  PROVE  \E q \in Int, r \in 0..(b - 1) : a = q * b + r
<1>1. a - b * (a \div b) = a % b
  BY SMTT(30)
<1>2. a \div b \in Int /\ a % b \in 0..(b - 1)
  OBVIOUS
<1> DEFINE q == a \div b
           r == a % b
<1>3. q \in Int /\ r \in 0..(b - 1) /\ a - b * q = r
  BY <1>1, <1>2
<1> HIDE DEF q, r
<1>4. a = q * b + r
  BY <1>3
<1> QED BY <1>3, <1>4

(* An unsigned difference of -x, converted to int, is -x again for every x *)
(* that an int can negate.                                                 *)
LEMMA NarrowedDifference ==
  ASSUME NEW x \in 0..(IntModulus \div 2), NEW a \in Time, NEW b \in Time, a - b = -x
  PROVE  ToInt(MinusLong(a, b)) = -x
<1> DEFINE half == IntModulus \div 2
<1>1. half \in Nat \ {0} /\ IntModulus = 2 * half
  BY WidthAssumption
<1>2. PICK k \in Nat \ {0} : LongModulus = k * IntModulus
  <2>1. PICK q \in Int, r \in 0..(IntModulus - 1) : LongModulus = q * IntModulus + r
    BY DivisionHolds, WidthAssumption
  <2>2. r = 0
    BY <2>1, QuotientAndRemainder, WidthAssumption
  <2>3. LongModulus = q * IntModulus
    BY <2>1, <2>2, WidthAssumption
  <2>4. q >= 1
    BY <2>3, WidthAssumption
  <2> QED BY <2>3, <2>4
<1>3. CASE x = 0
  BY <1>1, <1>3, WidthAssumption DEF ToInt, MinusLong, Time
<1>4. CASE x # 0
  <2> HIDE DEF half
  <2>1. x \in 1..half /\ half < IntModulus
    BY <1>1, <1>4 DEF half
  <2>2. LongModulus >= IntModulus
    BY <1>2, WidthAssumption
  <2>3. MinusLong(a, b) = LongModulus - x
    <3> DEFINE q == -1
               r == LongModulus - x
    <3>1. q \in Int /\ r \in 0..(LongModulus - 1) /\ a - b = q * LongModulus + r
      BY <1>1, <2>1, <2>2, WidthAssumption DEF Time
    <3> HIDE DEF q, r
    <3>2. (q * LongModulus + r) % LongModulus = r
      BY <3>1, QuotientAndRemainder, WidthAssumption
    <3> QED BY <3>1, <3>2 DEF MinusLong, r
  <2>4. (LongModulus - x) % IntModulus = IntModulus - x
    <3> DEFINE q == k - 1
               r == IntModulus - x
    <3>1. q \in Int /\ r \in 0..(IntModulus - 1) /\ LongModulus - x = q * IntModulus + r
      BY <1>1, <1>2, <2>1, WidthAssumption
    <3> HIDE DEF q, r
    <3>2. (q * IntModulus + r) % IntModulus = r
      BY <3>1, QuotientAndRemainder, WidthAssumption
    <3> QED BY <3>1, <3>2 DEF r
  <2>5. IntModulus - x >= half
    BY <1>1, <2>1
  <2> QED BY <1>1, <2>1, <2>3, <2>4, <2>5, WidthAssumption DEF ToInt, half
<1> QED BY <1>3, <1>4

(* The remainder that serves negative numbers leads `a' records back. *)
LEMMA StepBack ==
  ASSUME ArrayTypeOK, NEW a \in 0..(Size - 1)
  PROVE  CMod(CMod(lastUpdatePosition + (-a), Size) + Size, Size) = PositionOfAge(a)
<1> DEFINE x == lastUpdatePosition + (-a)
<1>1. x \in Int /\ -Size < x /\ x < Size
  BY SizeAssumption DEF ArrayTypeOK, Position
<1>2. PositionOfAge(a) = IF x >= 0 THEN x ELSE x + Size
  BY SizeAssumption DEF PositionOfAge, ArrayTypeOK, Position
<1> HIDE DEF x
<1>3. \A y \in 0..(Size - 1) : CDiv(y, Size) = 0 /\ CDiv(y + Size, Size) = 1
  <2> SUFFICES ASSUME NEW y \in 0..(Size - 1) PROVE CDiv(y, Size) = 0 /\ CDiv(y + Size, Size) = 1
    OBVIOUS
  <2>1. (0 * Size + y) \div Size = 0 /\ (1 * Size + y) \div Size = 1
    BY QuotientAndRemainder, SizeAssumption
  <2>2. 0 * Size + y = y /\ 1 * Size + y = y + Size /\ y >= 0 /\ y + Size >= 0
    BY SizeAssumption
  <2> QED BY <2>1, <2>2 DEF CDiv
<1>4. CASE x >= 0
  BY <1>1, <1>2, <1>3, <1>4, SizeAssumption DEF CMod, x
<1>5. CASE x < 0
  <2>1. CDiv(x, Size) = 0
    <3>1. (-x) \in 0..(Size - 1)
      BY <1>1, <1>5, SizeAssumption
    <3>2. (0 * Size + (-x)) \div Size = 0 /\ 0 * Size + (-x) = -x
      BY <3>1, QuotientAndRemainder, SizeAssumption
    <3> QED BY <1>1, <1>5, <3>2 DEF CDiv
  <2>2. CMod(x, Size) + Size = x + Size /\ x + Size \in 0..(Size - 1)
    BY <1>1, <1>5, <2>1, SizeAssumption DEF CMod
  <2>3. CMod(x + Size, Size) = x + Size
    BY <1>3, <2>2, SizeAssumption DEF CMod
  <2>4. CMod(CMod(x, Size) + Size, Size) = CMod(x + Size, Size)
    BY <2>2
  <2>5. PositionOfAge(a) = x + Size
    BY <1>1, <1>2, <1>5
  <2>6. CMod(CMod(x, Size) + Size, Size) = PositionOfAge(a)
    BY <2>3, <2>4, <2>5
  <2> QED BY <2>6 DEF x
<1> QED BY <1>1, <1>4, <1>5

(* Whatever the step, the position is in the array. *)
LEMMA AnyStepIsInArray ==
  ASSUME NEW z \in Int
  PROVE  CMod(CMod(z, Size) + Size, Size) \in Position
<1>1. \A n \in Nat : CMod(n, Size) \in 0..(Size - 1)
  <2> SUFFICES ASSUME NEW n \in Nat PROVE CMod(n, Size) \in 0..(Size - 1)
    OBVIOUS
  <2>1. PICK q \in Int, r \in 0..(Size - 1) : n = q * Size + r
    BY n \in Int, Size \in Nat \ {0}, DivisionHolds, SizeAssumption, Zenon
  <2>2. (q * Size + r) \div Size = q
    BY QuotientAndRemainder, SizeAssumption
  <2>3. n \div Size = q
    BY <2>1, <2>2
  <2>4. CDiv(n, Size) = q
    BY <2>3 DEF CDiv
  <2>5. CMod(n, Size) = r
    BY <2>1, <2>4, SizeAssumption DEF CMod
  <2> QED BY <2>5
<1>2. CMod(z, Size) \in Int /\ CMod(z, Size) + Size >= 0
  <2>1. CASE z >= 0
    BY <1>1, <2>1, SizeAssumption
  <2>2. CASE z < 0
    <3>1. CDiv(z, Size) = -CDiv(-z, Size) /\ CDiv(-z, Size) = (-z) \div Size
      BY <2>2 DEF CDiv
    <3>2. (-z) \div Size \in Int
      BY SizeAssumption
    <3>3. CMod(z, Size) = -CMod(-z, Size)
      BY <3>1, <3>2, SizeAssumption DEF CMod
    <3> QED BY <1>1, <2>2, <3>3, SizeAssumption
  <2> QED BY <2>1, <2>2
<1> QED BY <1>1, <1>2, SizeAssumption DEF Position

-----------------------------------------------------------------------------
(* The record with a younger ones is a intervals older than the latest. *)
RegularTimes ==
  \A a \in 0..(Size - 1) :
    a < count => data[PositionOfAge(a)].time
                   = data[lastUpdatePosition].time - a * TIMESTAMP_DIFF

(* A step makes every record but the new one an interval older. *)
LEMMA RegularStep ==
  ASSUME ArrayInv, RegularTimes, [ArrayNext]_arrayVars
  PROVE  RegularTimes'
<1>1. CASE UNCHANGED arrayVars
  BY <1>1 DEF arrayVars, RegularTimes, PositionOfAge
<1>2. ASSUME NEW t \in Time, NEW v \in Value, serie_update(t, v)
      PROVE  RegularTimes'
  <2> SUFFICES ASSUME NEW a \in 0..(Size - 1), a < count'
               PROVE  data'[PositionOfAge(a)'].time
                        = data'[lastUpdatePosition'].time - a * TIMESTAMP_DIFF
    BY DEF RegularTimes, PositionOfAge
  <2>1. newUpdatePosition \in Position
    BY SizeAssumption, NextPosition DEF newUpdatePosition, ArrayInv, ArrayTypeOK, Position
  <2>2. data'[lastUpdatePosition'].time = t
    BY <1>2, <2>1 DEF serie_update, Write, ArrayInv, ArrayTypeOK
  <2>3. data'[PositionOfAge(a)'] = IF a = 0 THEN [time |-> t, value |-> v]
                                   ELSE data[PositionOfAge(a - 1)]
    BY <1>2, AgesShift DEF PositionOfAge
  <2>4. CASE a = 0
    BY <2>2, <2>3, <2>4, DiffAssumption, WidthAssumption DEF Time
  <2>5. CASE a # 0
    <3> DEFINE latest == data[lastUpdatePosition].time
    <3>1. a - 1 \in 0..(Size - 1) /\ a - 1 < count /\ count # 0
      BY <1>2, <2>5, SizeAssumption DEF serie_update, Write, isFull, ArrayInv, ArrayTypeOK
    <3>2. data[PositionOfAge(a - 1)].time = latest - (a - 1) * TIMESTAMP_DIFF
      BY <3>1 DEF RegularTimes
    <3>3. t = latest + TIMESTAMP_DIFF /\ latest \in Int
      BY <1>2, <3>1, WidthAssumption DEF serie_update, IsNextTime, ArrayInv, ArrayTypeOK, Serie, Time
    <3>4. (a - 1) * TIMESTAMP_DIFF = a * TIMESTAMP_DIFF - TIMESTAMP_DIFF
      BY DiffAssumption
    <3> HIDE DEF latest
    <3>5. latest - (a - 1) * TIMESTAMP_DIFF = t - a * TIMESTAMP_DIFF
      BY <3>3, <3>4, DiffAssumption
    <3> QED BY <2>2, <2>3, <2>5, <3>2, <3>5
  <2> QED BY <2>4, <2>5
<1> QED BY <1>1, <1>2 DEF ArrayNext

(* The record with `a' younger ones was taken a intervals before the       *)
(* latest.                                                                 *)
THEOREM TimesAreRegular == ArraySpec => []RegularTimes
<1>1. ArrayInit => RegularTimes
  BY DEF ArrayInit, RegularTimes
<1>2. ArrayInv /\ RegularTimes /\ [ArrayNext]_arrayVars => RegularTimes'
  BY RegularStep
<1> QED BY <1>1, <1>2, ArrayInvariant, PTL DEF ArraySpec

-----------------------------------------------------------------------------
(* The measurements taken at the time of a record are that record alone. *)
LEMMA FoundAtAge ==
  ASSUME ArrayInv, RegularTimes, NEW a \in 0..(Size - 1), a < count,
         NEW t \in Time, data[PositionOfAge(a)].time = t
  PROVE  Window!Found(window, t) = {data[PositionOfAge(a)].value}
<1>1. count \in 1..Size
  BY SizeAssumption DEF ArrayInv, ArrayTypeOK
<1>2. \A b \in 0..(Size - 1) :
        b < count /\ data[PositionOfAge(b)].time = t => b = a
  <2> SUFFICES ASSUME NEW b \in 0..(Size - 1), b < count, data[PositionOfAge(b)].time = t
               PROVE  b = a
    OBVIOUS
  <2> DEFINE latest == data[lastUpdatePosition].time
             aBack == a * TIMESTAMP_DIFF
             bBack == b * TIMESTAMP_DIFF
  <2>1. t = latest - aBack /\ t = latest - bBack
    BY DEF RegularTimes
  <2>2. latest \in Int /\ aBack \in Int /\ bBack \in Int
    BY DiffAssumption, WidthAssumption DEF ArrayInv, ArrayTypeOK, Serie, Time
  <2>3. (a - b) * TIMESTAMP_DIFF = aBack - bBack
    BY DiffAssumption
  <2> HIDE DEF latest, aBack, bBack
  <2>4. aBack - bBack = 0
    BY <2>1, <2>2
  <2>5. (a - b) * TIMESTAMP_DIFF = 0
    BY <2>3, <2>4
  <2> QED BY <2>5, DiffAssumption
<1>3. Len(window) = count
  BY <1>1 DEF window
<1>4. {j \in 1..count : window[j].time = t} = {count - a}
  <2>1. \A j \in 1..count : window[j] = data[PositionOfAge(count - j)]
    BY DEF window
  <2>2. \A j \in 1..count : count - j \in 0..(Size - 1) /\ count - j < count
    BY <1>1, SizeAssumption
  <2>3. count - a \in 1..count /\ count - (count - a) = a
    BY <1>1
  <2>4. \A j \in 1..count : window[j].time = t <=> j = count - a
    BY <1>1, <1>2, <2>1, <2>2, <2>3
  <2> QED BY <2>3, <2>4
<1>5. window[count - a] = data[PositionOfAge(a)]
  <2>1. count - a \in 1..count /\ count - (count - a) = a
    BY <1>1
  <2> QED BY <2>1 DEF window
<1> QED BY <1>3, <1>4, <1>5 DEF Window!Found

(* A time at which no record of the window was taken has no measurement.   *)
LEMMA FoundNowhere ==
  ASSUME ArrayInv, NEW t \in Time,
         \A a \in 0..(Size - 1) : a < count => data[PositionOfAge(a)].time # t
  PROVE  Window!Found(window, t) = {}
<1>1. count \in 0..Size /\ Len(window) = count
  BY DEF ArrayInv, ArrayTypeOK, window
<1>2. ASSUME NEW j \in 1..count
      PROVE  window[j].time # t
  <2>1. count - j \in 0..(Size - 1) /\ count - j < count
    BY <1>1, <1>2, SizeAssumption
  <2> QED BY <2>1 DEF window
<1> QED BY <1>1, <1>2 DEF Window!Found

(* The negation of zero, which the prover does not simplify.               *)
LEMMA MinusZero ==
  ASSUME NEW n \in Int, n <= 0, n >= 0
  PROVE  -n = n
OBVIOUS

(* A difference of n intervals and a rest leads n records back. *)
LEMMA StepOfDifference ==
  ASSUME NEW y \in 0..(IntModulus \div 2), NEW n \in Int, NEW r \in 0..(TIMESTAMP_DIFF - 1),
         y = n * TIMESTAMP_DIFF + r,
         NEW t \in Time, NEW latest \in Time, t - latest = -y
  PROVE  /\ n >= 0
         /\ CDiv(ToInt(MinusLong(t, latest)), TIMESTAMP_DIFF) = -n
<1>1. ToInt(MinusLong(t, latest)) = -y
  BY NarrowedDifference
<1>2. y \in Nat
  BY WidthAssumption
<1>3. n >= 0
  <2>1. (-n) * TIMESTAMP_DIFF <= r
    BY <1>2, DiffAssumption
  <2> QED BY <2>1, DiffAssumption
<1>4. (n * TIMESTAMP_DIFF + r) \div TIMESTAMP_DIFF = n
  BY QuotientAndRemainder, DiffAssumption
<1>5. y \div TIMESTAMP_DIFF = n
  BY <1>4
<1>6. CASE y = 0
  <2>1. -y = y /\ -n = n
    <3>1. n * TIMESTAMP_DIFF + r = 0
      BY <1>6
    <3>2. n <= 0
      BY <1>3, <3>1, DiffAssumption
    <3>3. y <= 0 /\ y >= 0 /\ y \in Int
      BY <1>2, <1>6
    <3>4. -n = n
      BY <1>3, <3>2, MinusZero
    <3>5. -y = y
      BY <3>3, MinusZero
    <3> QED BY <3>4, <3>5, Zenon
  <2> QED BY <1>1, <1>2, <1>3, <1>5, <2>1 DEF CDiv
<1>7. CASE y # 0
  <2>1. ~ (-y >= 0) /\ -(-y) = y
    BY <1>2, <1>7
  <2> QED BY <1>1, <1>3, <1>5, <2>1 DEF CDiv
<1> QED BY <1>6, <1>7

(* lookup is exact for every Size, every interval and all widths: it finds *)
(* a time point exactly if the window has it, and returns its value. The   *)
(* difference is narrowed, divided with truncation and taken modulo Size   *)
(* with negative numbers on the way.                                       *)
THEOREM LookupCorrect == ArraySpec => []LookupIsExact
<1>1. ArrayInv /\ RegularTimes => LookupIsExact
  <2> DEFINE latest == data[lastUpdatePosition].time
             step(t) == CDiv(ToInt(MinusLong(t, latest)), TIMESTAMP_DIFF)
             pos(t) == CMod(CMod(lastUpdatePosition + step(t), Size) + Size, Size)
             half == IntModulus \div 2
             inReach(t) == isFull \/ t \in (latest - half)..latest
  <2> SUFFICES ASSUME ArrayInv, RegularTimes, count # 0, NEW t \in Time, inReach(t)
               PROVE  Window!Found(window, t) = IF lookup(t).found THEN {lookup(t).value} ELSE {}
    BY DEF LookupIsExact
  <2>1. lookup(t) = IF count # 0 /\ Abs(step(t)) < count /\ data[pos(t)].time = t
                    THEN [found |-> TRUE, value |-> data[pos(t)].value] ELSE NotFound
    BY DEF lookup
  <2>2. /\ latest \in Time /\ latest \in Int /\ t \in Int
        /\ count \in 1..Size /\ half \in Int
        /\ lastUpdatePosition \in Position
    BY WidthAssumption DEF ArrayInv, ArrayTypeOK, Serie, Time
  <2>3. \A a \in 0..(Size - 1) : a * TIMESTAMP_DIFF <= half /\ a * TIMESTAMP_DIFF \in Nat
    <3> SUFFICES ASSUME NEW a \in 0..(Size - 1)
                 PROVE  a * TIMESTAMP_DIFF <= half /\ a * TIMESTAMP_DIFF \in Nat
      OBVIOUS
    <3>1. (Size - 1 - a) * TIMESTAMP_DIFF >= 0
      BY SizeAssumption, DiffAssumption
    <3>2. (Size - 1) * TIMESTAMP_DIFF = a * TIMESTAMP_DIFF + (Size - 1 - a) * TIMESTAMP_DIFF
      BY SizeAssumption, DiffAssumption
    <3> QED BY <3>1, <3>2, SizeAssumption, DiffAssumption, WidthAssumption
  <2>4. ASSUME NEW a \in 0..(Size - 1), step(t) = -a
        PROVE  pos(t) = PositionOfAge(a)
    BY <2>4, StepBack DEF ArrayInv
  <2> HIDE DEF latest, half, inReach
  <2>5. CASE \E a \in 0..(Size - 1) : a < count /\ data[PositionOfAge(a)].time = t
    <3>1. PICK a \in 0..(Size - 1) : a < count /\ data[PositionOfAge(a)].time = t
      BY <2>5
    <3> DEFINE y == a * TIMESTAMP_DIFF
    <3>2. t = latest - y /\ y \in 0..half
      BY <2>2, <2>3, <3>1 DEF RegularTimes, latest
    <3>3. t - latest = -y /\ y = a * TIMESTAMP_DIFF + 0 /\ 0 \in 0..(TIMESTAMP_DIFF - 1)
      BY <2>2, <3>2, DiffAssumption
    <3>4. step(t) = -a
      <4> HIDE DEF y
      <4> QED BY <2>2, <3>2, <3>3, StepOfDifference DEF half
    <3>5. pos(t) = PositionOfAge(a)
      BY <2>4, <3>4
    <3>6. Abs(step(t)) < count
      BY <2>2, <3>1, <3>4 DEF Abs
    <3>7. lookup(t) = [found |-> TRUE, value |-> data[PositionOfAge(a)].value]
      BY <2>1, <3>1, <3>5, <3>6
    <3>8. Window!Found(window, t) = {data[PositionOfAge(a)].value}
      BY <3>1, FoundAtAge
    <3> QED BY <3>7, <3>8
  <2>6. CASE \A a \in 0..(Size - 1) : a < count => data[PositionOfAge(a)].time # t
    <3>1. ASSUME Abs(step(t)) < count, data[pos(t)].time = t
          PROVE  FALSE
      <4>1. CASE isFull
        <5>1. step(t) \in Int
          BY <2>2, WidthAssumption, DiffAssumption DEF CDiv, ToInt, MinusLong, Time
        <5>2. pos(t) \in Position
          BY <2>2, <5>1, AnyStepIsInArray DEF Position
        <5> DEFINE a == IF pos(t) <= lastUpdatePosition THEN lastUpdatePosition - pos(t)
                        ELSE lastUpdatePosition - pos(t) + Size
        <5>3. a \in 0..(Size - 1) /\ PositionOfAge(a) = pos(t)
          <6> HIDE DEF pos
          <6> QED BY <2>2, <5>2, SizeAssumption DEF Position, PositionOfAge
        <5>4. a < count
          <6> HIDE DEF a, pos
          <6>1. count = Size /\ a \in Int /\ a < Size
            BY <2>2, <4>1, <5>3, SizeAssumption DEF isFull
          <6> QED BY <6>1
        <5> QED BY <2>6, <3>1, <5>3, <5>4
      <4>2. CASE t \in (latest - half)..latest
        <5> DEFINE y == latest - t
        <5>1. y \in 0..half /\ y \in Int /\ t - latest = -y
          BY <2>2, <4>2
        <5>2. PICK n \in Int, r \in 0..(TIMESTAMP_DIFF - 1) : y = n * TIMESTAMP_DIFF + r
          BY <5>1, DivisionHolds, DiffAssumption
        <5>3. n >= 0 /\ step(t) = -n
          <6> HIDE DEF y
          <6> QED BY <2>2, <5>1, <5>2, StepOfDifference DEF half
        <5>4. n < count /\ n \in 0..(Size - 1)
          BY <2>2, <3>1, <5>3, SizeAssumption DEF Abs
        <5>5. pos(t) = PositionOfAge(n)
          BY <2>4, <5>3, <5>4
        <5> QED BY <2>6, <3>1, <5>4, <5>5
      <4> QED BY <4>1, <4>2 DEF inReach
    <3>2. lookup(t) = NotFound
      BY <2>1, <3>1
    <3>3. Window!Found(window, t) = {}
      BY <2>6, FoundNowhere
    <3> QED BY <3>2, <3>3 DEF NotFound
  <2> QED BY <2>5, <2>6
<1> QED BY <1>1, ArrayInvariant, TimesAreRegular, PTL

-----------------------------------------------------------------------------
(*                         The array and the index                         *)

(* The elements of a sequence by their positions.                          *)
LEMMA ToSetIsRange ==
  ASSUME NEW S, NEW s \in Seq(S)
  PROVE  ToSet(s) = {s[i] : i \in 1..Len(s)}
BY LenProperties DEF ToSet

(* The first of ordered times is the smallest. *)
LEMMA SmallestIsFirst ==
  ASSUME NEW s \in Seq(Int), OldestFirst(s), NEW m \in ToSet(s), \A x \in ToSet(s) : m <= x
  PROVE  s # <<>> /\ Head(s) = m
<1>1. PICK k \in 1..Len(s) : s[k] = m
  BY ToSetIsRange
<1>2. s # <<>> /\ Len(s) \in Nat /\ 1 \in 1..Len(s)
  BY <1>1
<1>3. s[1] \in ToSet(s) /\ s[1] \in Int /\ m \in Int
  BY <1>1, <1>2, ToSetIsRange
<1>4. k = 1
  BY <1>1, <1>2, <1>3 DEF OldestFirst
<1> QED BY <1>1, <1>2, <1>4

(* Without its first element an ordered sequence loses just that time. *)
LEMMA TailDropsTheFirst ==
  ASSUME NEW s \in Seq(Int), OldestFirst(s), s # <<>>
  PROVE  /\ Tail(s) \in Seq(Int)
         /\ OldestFirst(Tail(s))
         /\ ToSet(Tail(s)) = ToSet(s) \ {Head(s)}
<1>1. /\ Tail(s) \in Seq(Int)
      /\ Len(Tail(s)) = Len(s) - 1
      /\ \A i \in 1..Len(Tail(s)) : Tail(s)[i] = s[i + 1]
  BY HeadTailProperties
<1>2. Len(s) \in Nat \ {0} /\ Head(s) = s[1]
  BY EmptySeq
<1>3. OldestFirst(Tail(s))
  BY <1>1, <1>2 DEF OldestFirst
<1>4. ToSet(s) = {s[i] : i \in 1..Len(s)} /\ ToSet(Tail(s)) = {s[i + 1] : i \in 1..(Len(s) - 1)}
  <2>1. ToSet(s) = {s[i] : i \in 1..Len(s)}
    BY ToSetIsRange
  <2>2. ToSet(Tail(s)) = {Tail(s)[i] : i \in 1..Len(Tail(s))}
    BY <1>1, ToSetIsRange
  <2> QED BY <1>1, <2>1, <2>2
<1>5. \A i \in 1..(Len(s) - 1) : s[i + 1] # s[1]
  <2> SUFFICES ASSUME NEW i \in 1..(Len(s) - 1) PROVE s[i + 1] # s[1]
    OBVIOUS
  <2>1. 1 \in 1..Len(s) /\ i + 1 \in 1..Len(s) /\ 1 < i + 1
    BY <1>2
  <2>2. s[1] < s[i + 1] /\ s[1] \in Int
    BY <2>1 DEF OldestFirst
  <2> QED BY <2>2
<1>6. \A i \in 1..Len(s) : i # 1 => \E j \in 1..(Len(s) - 1) : s[i] = s[j + 1]
  <2> SUFFICES ASSUME NEW i \in 1..Len(s), i # 1
               PROVE  \E j \in 1..(Len(s) - 1) : s[i] = s[j + 1]
    OBVIOUS
  <2>1. i - 1 \in 1..(Len(s) - 1) /\ s[i] = s[(i - 1) + 1]
    BY <1>2
  <2> QED BY <2>1
<1> QED BY <1>1, <1>2, <1>3, <1>4, <1>5, <1>6

(* A later time added at the end keeps the order. *)
LEMMA AppendLater ==
  ASSUME NEW s \in Seq(Int), OldestFirst(s), NEW t \in Int, \A x \in ToSet(s) : x < t
  PROVE  /\ OldestFirst(Append(s, t))
         /\ ToSet(Append(s, t)) = ToSet(s) \union {t}
<1>1. /\ Append(s, t) \in Seq(Int)
      /\ Len(s) \in Nat
      /\ Len(Append(s, t)) = Len(s) + 1
      /\ \A i \in 1..(Len(s) + 1) : Append(s, t)[i] = IF i = Len(s) + 1 THEN t ELSE s[i]
  OBVIOUS
<1>2. ToSet(s) = {s[i] : i \in 1..Len(s)}
  BY ToSetIsRange
<1>3. ToSet(Append(s, t)) = {Append(s, t)[i] : i \in 1..(Len(s) + 1)}
  BY <1>1, ToSetIsRange
<1>4. OldestFirst(Append(s, t))
  BY <1>1, <1>2 DEF OldestFirst
<1> QED BY <1>1, <1>2, <1>3, <1>4

-----------------------------------------------------------------------------
(* The array's part of a step is a step of CircularArray. *)
LEMMA ArrayStep ==
  ASSUME [Next]_windowVars
  PROVE  [ArrayNext]_arrayVars
BY DEF Next, shift, ArrayNext, windowVars

-----------------------------------------------------------------------------
(* The record a full array overwrites is the one with Size - 1 younger. *)
LEMMA OldestAge ==
  ASSUME ArrayInv, isFull
  PROVE  newUpdatePosition = PositionOfAge(Size - 1) /\ newUpdatePosition \in Position
<1>1. count # 0
  BY SizeAssumption DEF isFull
<1>2. newUpdatePosition = IF lastUpdatePosition + 1 < Size THEN lastUpdatePosition + 1 ELSE 0
  BY <1>1, NextPosition DEF newUpdatePosition, ArrayInv, ArrayTypeOK
<1> QED BY <1>2, SizeAssumption DEF PositionOfAge, ArrayInv, ArrayTypeOK, Position

(* A younger record has a later time. *)
LEMMA YoungerIsLater ==
  ASSUME ArrayInv, RegularTimes, NEW a \in 0..(Size - 1), NEW b \in 0..(Size - 1), a < b, b < count
  PROVE  /\ data[PositionOfAge(a)].time \in Time
         /\ data[PositionOfAge(b)].time \in Time
         /\ data[PositionOfAge(b)].time < data[PositionOfAge(a)].time
<1> DEFINE latest == data[lastUpdatePosition].time
           aBack == a * TIMESTAMP_DIFF
           bBack == b * TIMESTAMP_DIFF
<1>1. PositionOfAge(a) \in Position /\ PositionOfAge(b) \in Position /\ a < count
  BY SizeAssumption DEF PositionOfAge, ArrayInv, ArrayTypeOK, Position
<1>2. data[PositionOfAge(a)].time = latest - aBack /\ data[PositionOfAge(b)].time = latest - bBack
  BY <1>1 DEF RegularTimes
<1>3. data[PositionOfAge(a)].time \in Time /\ data[PositionOfAge(b)].time \in Time /\ latest \in Time
  BY <1>1 DEF ArrayInv, ArrayTypeOK, Serie
<1>4. aBack \in Int /\ bBack \in Int /\ (b - a) * TIMESTAMP_DIFF = bBack - aBack
  BY DiffAssumption
<1>5. (b - a) * TIMESTAMP_DIFF > 0
  BY DiffAssumption
<1> HIDE DEF latest, aBack, bBack
<1> QED BY <1>2, <1>3, <1>4, <1>5, WidthAssumption DEF Time

(* The record about to be overwritten is older than any other. *)
LEMMA OthersAreLater ==
  ASSUME ArrayInv, RegularTimes, isFull, NEW a \in 0..(Size - 1), a # Size - 1
  PROVE  /\ data[PositionOfAge(a)].time \in Int
         /\ oldest.time \in Int
         /\ oldest.time < data[PositionOfAge(a)].time
<1> DEFINE z == Size - 1
<1>1. oldest = data[PositionOfAge(z)]
  BY OldestAge DEF oldest
<1>2. z \in 0..(Size - 1) /\ a < z /\ z < count
  BY SizeAssumption DEF isFull, ArrayInv, ArrayTypeOK
<1> HIDE DEF z
<1>3. /\ data[PositionOfAge(a)].time \in Time
      /\ data[PositionOfAge(z)].time \in Time
      /\ data[PositionOfAge(z)].time < data[PositionOfAge(a)].time
  BY <1>2, YoungerIsLater
<1>4. Time \subseteq Int
  BY WidthAssumption DEF Time
<1> QED BY <1>1, <1>3, <1>4

-----------------------------------------------------------------------------
(* The conjunct on the index that makes IndexMatchesArray inductive. *)
SeriesInv ==
  /\ ArrayInv
  /\ RegularTimes
  /\ index \in [Value -> Seq(Time)]
  /\ IndexMatchesArray

(* Time points are integers, so lists of them are ordered by <.            *)
LEMMA TimesAreIntegers == Time \subseteq Int /\ Seq(Time) \subseteq Seq(Int)
<1>1. Time \subseteq Int
  BY WidthAssumption DEF Time
<1> QED BY <1>1, SeqMonotonic

(* With the array full, the index has the oldest time first in its list. *)
LEMMA OldestIsFirst ==
  ASSUME SeriesInv
  PROVE  DeleteDropsTheOldest
<1> SUFFICES ASSUME isFull
             PROVE  index[oldest.value] # <<>> /\ Head(index[oldest.value]) = oldest.time
  BY DEF DeleteDropsTheOldest
<1> DEFINE v == oldest.value
           s == index[v]
<1>1. newUpdatePosition = PositionOfAge(Size - 1) /\ newUpdatePosition \in Position
  BY OldestAge DEF SeriesInv
<1>2. oldest = data[PositionOfAge(Size - 1)] /\ oldest \in Serie /\ v \in Value /\ oldest.time \in Int
  BY <1>1, TimesAreIntegers DEF oldest, SeriesInv, ArrayInv, ArrayTypeOK, Serie
<1>3. Size - 1 \in 0..(Size - 1) /\ Size - 1 < count
  BY SizeAssumption DEF isFull, SeriesInv, ArrayInv, ArrayTypeOK
<1>4. s \in Seq(Int) /\ OldestFirst(s) /\ ToSet(s) = TimesOf(v)
  BY <1>2, TimesAreIntegers DEF SeriesInv, IndexMatchesArray
<1>5. oldest.time \in TimesOf(v)
  BY <1>2, <1>3 DEF TimesOf
<1>6. \A x \in TimesOf(v) : oldest.time <= x
  <2> SUFFICES ASSUME NEW a \in 0..(Size - 1), a < count
               PROVE  oldest.time <= data[PositionOfAge(a)].time
    BY DEF TimesOf
  <2>1. CASE a = Size - 1
    <3>1. data[PositionOfAge(a)].time = oldest.time
      BY <1>2, <2>1, Zenon
    <3>2. oldest.time <= oldest.time
      BY <1>2
    <3> QED BY <3>1, <3>2, Zenon
  <2>2. CASE a # Size - 1
    <3>1. oldest.time < data[PositionOfAge(a)].time /\ data[PositionOfAge(a)].time \in Int
      BY <2>2, OthersAreLater DEF SeriesInv
    <3> QED BY <1>2, <3>1
  <2> QED BY <2>1, <2>2
<1> HIDE DEF v, s
<1>7. s # <<>> /\ Head(s) = oldest.time
  BY <1>2, <1>4, <1>5, <1>6, SmallestIsFirst
<1> QED BY <1>7 DEF s, v

-----------------------------------------------------------------------------
(* What a step does to the times of a value. *)
LEMMA TimesAfterShift ==
  ASSUME SeriesInv, NEW t \in Time, NEW v \in Value, shift(t, v), NEW w \in Value
  PROVE  /\ TimesOf(w)' = (TimesOf(w) \ IF isFull /\ oldest.value = w THEN {oldest.time} ELSE {})
                             \union IF v = w THEN {t} ELSE {}
         /\ \A x \in TimesOf(w) : x < t
<1> DEFINE record(a) == data[PositionOfAge(a)]
           kept == IF isFull THEN Size - 1 ELSE count
           m == [time |-> t, value |-> v]
<1>0. serie_update(t, v) /\ ArrayInv /\ RegularTimes
  BY DEF shift, SeriesInv
<1>1. count \in 0..Size /\ kept \in 0..(Size - 1)
  BY SizeAssumption DEF isFull, SeriesInv, ArrayInv, ArrayTypeOK
<1>2. count' = kept + 1
  BY <1>0, <1>1, SizeAssumption DEF serie_update, Write, isFull
<1>3. ASSUME NEW a \in 0..(Size - 1), a < count'
      PROVE  data'[PositionOfAge(a)'] = IF a = 0 THEN m ELSE record(a - 1)
  BY <1>0, <1>3, AgesShift DEF PositionOfAge
<1>4. TimesOf(w)' = {record(a).time : a \in {b \in 0..(Size - 1) : b < kept /\ record(b).value = w}}
                      \union IF v = w THEN {t} ELSE {}
  <2> HIDE DEF kept
  <2>1. TimesOf(w)' = {data'[PositionOfAge(a)'].time :
                          a \in {b \in 0..(Size - 1) : b < count' /\ data'[PositionOfAge(b)'].value = w}}
    BY DEF TimesOf, PositionOfAge
  <2>2. ASSUME NEW x, x \in TimesOf(w)'
        PROVE  \/ v = w /\ x = t
               \/ \E b \in 0..(Size - 1) : b < kept /\ record(b).value = w /\ x = record(b).time
    <3>1. PICK a \in 0..(Size - 1) : /\ a < count'
                                     /\ data'[PositionOfAge(a)'].value = w
                                     /\ data'[PositionOfAge(a)'].time = x
      BY <2>1, <2>2 DEF PositionOfAge
    <3>2. data'[PositionOfAge(a)'] = IF a = 0 THEN m ELSE record(a - 1)
      BY <1>3, <3>1 DEF PositionOfAge
    <3>3. CASE a = 0
      BY <3>1, <3>2, <3>3 DEF PositionOfAge
    <3>4. CASE a # 0
      <4>1. a - 1 \in 0..(Size - 1) /\ a - 1 < kept
        BY <1>1, <1>2, <3>1, <3>4, SizeAssumption
      <4>2. record(a - 1).value = w /\ record(a - 1).time = x
        BY <3>1, <3>2, <3>4 DEF PositionOfAge
      <4> QED BY <4>1, <4>2
    <3> QED BY <3>3, <3>4
  <2>3. ASSUME v = w
        PROVE  t \in TimesOf(w)'
    <3>1. 0 \in 0..(Size - 1) /\ 0 < count'
      BY <1>1, <1>2, SizeAssumption
    <3>2. data'[PositionOfAge(0)'] = m
      BY <1>3, <3>1 DEF PositionOfAge
    <3> QED BY <2>1, <2>3, <3>1, <3>2 DEF PositionOfAge
  <2>4. ASSUME NEW b \in 0..(Size - 1), b < kept, record(b).value = w
        PROVE  record(b).time \in TimesOf(w)'
    <3> DEFINE a == b + 1
    <3>1. a \in 0..(Size - 1) /\ a < count' /\ a # 0 /\ a - 1 = b
      BY <1>1, <1>2, <2>4, SizeAssumption
    <3> HIDE DEF a
    <3>2. data'[PositionOfAge(a)'] = record(b)
      BY <1>3, <3>1 DEF PositionOfAge
    <3> QED BY <2>1, <2>4, <3>1, <3>2 DEF PositionOfAge
  <2> QED BY <2>2, <2>3, <2>4
<1>5. {record(a).time : a \in {b \in 0..(Size - 1) : b < kept /\ record(b).value = w}}
        = TimesOf(w) \ IF isFull /\ oldest.value = w THEN {oldest.time} ELSE {}
  <2>1. CASE ~isFull
    BY <2>1 DEF TimesOf
  <2>2. CASE isFull
    <3>1. oldest = record(Size - 1) /\ count = Size /\ Size - 1 \in 0..(Size - 1)
      BY <1>0, <1>1, <2>2, OldestAge, SizeAssumption DEF oldest, isFull
    <3>2. ASSUME NEW b \in 0..(Size - 1), b < Size - 1
          PROVE  record(b).time # oldest.time
      <4>1. b # Size - 1
        BY <3>2, SizeAssumption
      <4>2. /\ record(b).time \in Int
            /\ oldest.time \in Int
            /\ oldest.time < record(b).time
        BY <1>0, <2>2, <4>1, OthersAreLater
      <4> HIDE DEF record
      <4> QED BY <4>2
    <3>3. \A b \in 0..(Size - 1) : b < count /\ (b < kept <=> b # Size - 1)
      BY <2>2, <3>1, SizeAssumption
    <3> HIDE DEF kept, record
    <3>4. TimesOf(w) = {record(a).time : a \in {b \in 0..(Size - 1) : record(b).value = w}}
      BY <3>3 DEF TimesOf, record
    <3>5. \A b \in 0..(Size - 1) : b # Size - 1 => record(b).time # oldest.time
      BY <3>2, SizeAssumption
    <3> QED BY <2>2, <3>1, <3>3, <3>4, <3>5
  <2> QED BY <2>1, <2>2
<1>6. ASSUME NEW x \in TimesOf(w)
      PROVE  x < t
  <2>1. PICK a \in 0..(Size - 1) : a < count /\ x = record(a).time
    BY <1>6 DEF TimesOf
  <2>2. 0 \in 0..(Size - 1) /\ count # 0 /\ PositionOfAge(0) = lastUpdatePosition
    BY <1>1, <2>1, SizeAssumption DEF PositionOfAge, SeriesInv, ArrayInv, ArrayTypeOK, Position
  <2>3. t = record(0).time + TIMESTAMP_DIFF /\ record(0).time \in Int
    BY <1>0, <2>2, TimesAreIntegers DEF serie_update, IsNextTime, ArrayInv, ArrayTypeOK, Serie
  <2>4. record(a).time \in Int
    <3>1. PositionOfAge(a) \in Position
      BY SizeAssumption DEF PositionOfAge, SeriesInv, ArrayInv, ArrayTypeOK, Position
    <3> QED BY <3>1, TimesAreIntegers DEF SeriesInv, ArrayInv, ArrayTypeOK, Serie
  <2>5. a # 0 => record(a).time < record(0).time
    BY <1>0, <2>1, <2>2, YoungerIsLater
  <2> HIDE DEF record
  <2>6. CASE a = 0
    <3>1. x = record(0).time
      BY <2>1, <2>6, Zenon
    <3> QED BY <2>3, <3>1, DiffAssumption
  <2>7. CASE a # 0
    <3>1. x < record(0).time /\ x \in Int
      BY <2>1, <2>4, <2>5, <2>7
    <3> QED BY <2>3, <3>1, DiffAssumption
  <2> QED BY <2>6, <2>7
<1> HIDE DEF record, kept
<1> QED BY <1>4, <1>5, <1>6

(* A shift keeps index and array equal: the list that loses its first time *)
(* loses the time that leaves the array.                                   *)
LEMMA IndexAfterShift ==
  ASSUME SeriesInv, NEW t \in Time, NEW v \in Value, shift(t, v)
  PROVE  index' \in [Value -> Seq(Time)] /\ IndexMatchesArray'
<1> DEFINE remaining == IF isFull THEN Index!WithoutOldest(index, oldest.value) ELSE index
<1>1. /\ remaining \in [Value -> Seq(Time)]
      /\ \A w \in Value : /\ OldestFirst(remaining[w])
                          /\ ToSet(remaining[w]) =
                               TimesOf(w) \ IF isFull /\ oldest.value = w THEN {oldest.time} ELSE {}
  <2>1. CASE ~isFull
    BY <2>1 DEF SeriesInv, IndexMatchesArray
  <2>2. CASE isFull
    <3>1. newUpdatePosition \in Position /\ oldest.value \in Value
      BY <2>2, OldestAge DEF oldest, SeriesInv, ArrayInv, ArrayTypeOK, Serie
    <3> DEFINE u == oldest.value
               s == index[u]
    <3>2. s # <<>> /\ Head(s) = oldest.time
      BY <2>2, OldestIsFirst DEF DeleteDropsTheOldest
    <3>3. s \in Seq(Time) /\ s \in Seq(Int) /\ OldestFirst(s) /\ ToSet(s) = TimesOf(u)
      BY <3>1, TimesAreIntegers DEF SeriesInv, IndexMatchesArray
    <3>4. remaining = [index EXCEPT ![u] = Tail(s)]
      BY <2>2, <3>2 DEF Index!WithoutOldest
    <3>5. Tail(s) \in Seq(Time)
      BY <3>2, <3>3
    <3>6. OldestFirst(Tail(s)) /\ ToSet(Tail(s)) = TimesOf(u) \ {oldest.time}
      <4> HIDE DEF s
      <4> QED BY <3>2, <3>3, TailDropsTheFirst
    <3>7. remaining \in [Value -> Seq(Time)]
      BY <3>4, <3>5 DEF SeriesInv
    <3>8. \A w \in Value : remaining[w] = IF w = u THEN Tail(s) ELSE index[w]
      BY <3>1, <3>4 DEF SeriesInv
    <3> HIDE DEF remaining, s
    <3> QED BY <2>2, <3>6, <3>7, <3>8 DEF SeriesInv, IndexMatchesArray
  <2> QED BY <2>1, <2>2
<1>2. index' = [remaining EXCEPT ![v] = Append(remaining[v], t)]
  BY DEF shift, Index!WithRecord
<1> HIDE DEF remaining
<1>3. index' \in [Value -> Seq(Time)]
  BY <1>1, <1>2
<1>4. \A w \in Value : index'[w] = IF w = v THEN Append(remaining[w], t) ELSE remaining[w]
  BY <1>1, <1>2
<1>5. ASSUME NEW w \in Value
      PROVE  ToSet(index'[w]) = TimesOf(w)' /\ OldestFirst(index'[w])
  <2> DEFINE r == remaining[w]
             gone == IF isFull /\ oldest.value = w THEN {oldest.time} ELSE {}
  <2>1. /\ TimesOf(w)' = (TimesOf(w) \ gone) \union IF v = w THEN {t} ELSE {}
        /\ \A x \in TimesOf(w) : x < t
    BY <1>5, TimesAfterShift
  <2>2. /\ r \in Seq(Int)
        /\ OldestFirst(r)
        /\ ToSet(r) = TimesOf(w) \ gone
        /\ t \in Int
    BY <1>1, <1>5, TimesAreIntegers
  <2>3. index'[w] = IF w = v THEN Append(r, t) ELSE r
    BY <1>4, <1>5
  <2> HIDE DEF r, gone
  <2>4. \A x \in ToSet(r) : x < t
    BY <2>1, <2>2
  <2>5. OldestFirst(Append(r, t)) /\ ToSet(Append(r, t)) = ToSet(r) \union {t}
    BY <2>2, <2>4, AppendLater
  <2> QED BY <2>1, <2>2, <2>3, <2>5
<1> QED BY <1>3, <1>5 DEF IndexMatchesArray

(* The inductive invariant: it holds at first, every step keeps it, ...    *)
LEMMA SeriesBegins ==
  ASSUME Init
  PROVE  SeriesInv
<1>1. ArrayInv /\ RegularTimes
  BY SizeAssumption, GarbageAssumption
  DEF Init, ArrayInit, ArrayInv, ArrayTypeOK, FillsInOrder, Position, RegularTimes
<1>2. index = [v \in Value |-> <<>>] /\ count = 0
  BY DEF Init, Index!Init, Index!EmptyIndex, ArrayInit
<1>3. \A v \in Value : TimesOf(v) = {} /\ ToSet(index[v]) = {} /\ OldestFirst(index[v])
  BY <1>2 DEF TimesOf, ToSet, OldestFirst
<1> QED
  BY <1>1, <1>2, <1>3 DEF SeriesInv, IndexMatchesArray

LEMMA SeriesStep ==
  ASSUME SeriesInv, [Next]_windowVars
  PROVE  SeriesInv'
<1>1. ArrayInv' /\ RegularTimes'
  BY ArrayStep, ArrayTypeStep, ArrayInvStep, RegularStep DEF SeriesInv, ArrayInv
<1>2. index' \in [Value -> Seq(Time)] /\ IndexMatchesArray'
  <2>1. CASE UNCHANGED windowVars
    BY <2>1 DEF windowVars, arrayVars, SeriesInv, IndexMatchesArray, TimesOf, PositionOfAge
  <2>2. ASSUME NEW t \in Time, NEW v \in Value, shift(t, v)
        PROVE  index' \in [Value -> Seq(Time)] /\ IndexMatchesArray'
    BY <2>2, IndexAfterShift
  <2> QED
    BY <2>1, <2>2 DEF Next
<1> QED
  BY <1>1, <1>2 DEF SeriesInv

(* ... so it holds in every state.                                         *)
LEMMA SeriesInvariant == Spec => []SeriesInv
BY SeriesBegins, SeriesStep, PTL DEF Spec

(* Array and index keep their types.                                       *)
THEOREM WindowTypeCorrect == Spec => []TypeOK
<1>1. SeriesInv => TypeOK
  BY DEF SeriesInv, TypeOK, ArrayInv
<1> QED BY <1>1, SeriesInvariant, PTL

(* For every window size and every set of values, the index and the array  *)
(* never disagree: serie_update's eviction, its overwrite and its insertion *)
(* keep the tree's time lists equal to the contents of the ring.           *)
THEOREM IndexCorrect == Spec => []IndexMatchesArray
<1>1. SeriesInv => IndexMatchesArray
  BY DEF SeriesInv
<1> QED BY <1>1, SeriesInvariant, PTL

(* delete, which ignores the time it is passed, always drops that time.    *)
THEOREM DeleteCorrect == Spec => []DeleteDropsTheOldest
<1>1. SeriesInv => DeleteDropsTheOldest
  BY OldestIsFirst
<1> QED BY <1>1, SeriesInvariant, PTL
=============================================================================
