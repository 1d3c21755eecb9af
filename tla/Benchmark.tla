------------------------------ MODULE Benchmark ------------------------------
(***************************************************************************)
(* The two programs around the store: createDataSet.c writes a file of     *)
(* measurements, and main shifts the file through a new array and a new    *)
(* tree for each of a range of window sizes.                               *)
(*                                                                         *)
(* main ignores what fopen and fscanf return.  The generator may have been *)
(* interrupted: the file is then short and may end within a line, and      *)
(* value and t keep what an incomplete fscanf leaves in them.              *)
(*                                                                         *)
(* The store is taken as SeriesWindow promises it: the window of the array *)
(* and the index of the tree.                                              *)
(***************************************************************************)
EXTENDS Integers, Sequences, SequencesExt

CONSTANTS
  Value,
  RECORDS,                      \* 17520000, lines written and records read
  TIMESTAMP_DIFF,
  FirstSize, LastSize, SizeStep,  \* 28800, 525600, 10000
  Uninitialised                 \* what value and t may hold at first

(* The numbers that are left of a number when its line is torn: those of   *)
(* its leading digits.                                                     *)
leading[n \in Nat] == IF n < 10 THEN {n} ELSE {n} \union leading[n \div 10]

Torn(n) == leading[n] \intersect (0..n)

ASSUME BenchmarkAssumption ==
  /\ Value \subseteq Nat
  /\ {RECORDS, TIMESTAMP_DIFF, FirstSize, LastSize, SizeStep} \subseteq Nat \ {0}
  /\ FirstSize <= LastSize
  /\ \A v \in Value : Torn(v) \subseteq Value
  /\ Uninitialised \subseteq [value : Value, time : Nat]

VARIABLES
  phase,        \* "generating", "opening", "reading", "done" or "crashed"
  fileExists,
  lines,        \* the lines of the file, as fscanf reads them
  complete,     \* the last line is not torn
  arraySize,    \* the outer i
  i,            \* the inner i
  fp,           \* the lines read since fopen
  value, t,
  window,       \* the measurements in the array, oldest first
  index         \* the tree, as in TimeIndex

file == <<fileExists, lines, complete>>
vars == <<phase, file, arraySize, i, fp, value, t, window, index>>

(* A time that was torn off; a line's own time is never 0. *)
NoTime == 0
Times == Nat

Index == INSTANCE TimeIndex WITH Time <- Times

Init ==
  /\ phase = "generating"
  /\ fileExists \in BOOLEAN
  /\ lines = <<>>
  /\ complete = TRUE
  /\ arraySize = FirstSize
  /\ i = 0
  /\ fp = 0
  /\ \E u \in Uninitialised : value = u.value /\ t = u.time
  /\ window = <<>>
  /\ index = Index!EmptyIndex

-----------------------------------------------------------------------------
(*                          The data set generator                         *)

(* Mutant of nextTime: the first two measurements have the same time. *)
nextTimeLate == TIMESTAMP_DIFF * (IF lines = <<>> THEN 1 ELSE Len(lines))

nextTime == TIMESTAMP_DIFF * (Len(lines) + 1)

writeLine(v) ==
  /\ phase = "generating"
  /\ fileExists
  /\ Len(lines) < RECORDS
  /\ lines' = Append(lines, [value |-> v, time |-> nextTime])
  /\ UNCHANGED <<phase, fileExists, complete, arraySize, i, fp, value, t, window, index>>

(* The generator is done, or is interrupted between two lines.             *)
endOfFile ==
  /\ phase = "generating"
  /\ phase' = "opening"
  /\ UNCHANGED <<file, arraySize, i, fp, value, t, window, index>>

(* The generator is interrupted within a line: in its value or in its time.*)
tearLine(v) ==
  /\ phase = "generating"
  /\ fileExists
  /\ Len(lines) < RECORDS
  /\ \/ \E short \in Torn(v) :
          lines' = Append(lines, [value |-> short, time |-> NoTime])
     \/ \E short \in Torn(nextTime) \ {nextTime} :
          lines' = Append(lines, [value |-> v, time |-> short])
  /\ complete' = FALSE
  /\ phase' = "opening"
  /\ UNCHANGED <<fileExists, arraySize, i, fp, value, t, window, index>>

-----------------------------------------------------------------------------
(*                                   main                                  *)

(* Mutant of firstLine: the file stays open from one window to the next. *)
lineOfLastRound == fp

firstLine == 0

firstRecord == 0

(* fopen, CircularArray_new, BPlusTree_new; without a file the first       *)
(* fscanf gets a null pointer.                                             *)
openFile ==
  /\ phase = "opening"
  /\ phase' = IF fileExists THEN "reading" ELSE "crashed"
  /\ fp' = firstLine
  /\ i' = firstRecord
  /\ window' = <<>>
  /\ index' = Index!EmptyIndex
  /\ UNCHANGED <<file, arraySize, value, t>>

(* fscanf: at the end of the file value and t stay. *)
fscanf ==
  IF fp < Len(lines)
  THEN /\ fp' = fp + 1
       /\ value' = lines[fp + 1].value
       /\ t' = IF lines[fp + 1].time = NoTime THEN t ELSE lines[fp + 1].time
  ELSE UNCHANGED <<fp, value, t>>

(* Mutant of leaving: the measurement that came last. *)
latestLeaving == Last(window)

leaving == Head(window)

(* shift: the oldest measurement leaves a full array and the tree.         *)
shift(time, v) ==
  LET isFull == Len(window) = arraySize
      m == [time |-> time, value |-> v]
  IN  /\ window' = Append(IF isFull THEN Tail(window) ELSE window, m)
      /\ index' = Index!WithRecord(
                    IF isFull THEN Index!WithoutOldest(index, leaving.value) ELSE index,
                    time, v)

readRecord ==
  /\ phase = "reading"
  /\ i < RECORDS
  /\ fscanf
  /\ shift(t', value')
  /\ i' = i + 1
  /\ UNCHANGED <<phase, file, arraySize>>

(* Mutant of nextSize: the size stays. *)
sameSize == arraySize

nextSize == arraySize + SizeStep

(* BPlusTree_destroy dereferences the root. *)
treeIsEmpty == \A v \in Value : index[v] = <<>>

destroyStore ==
  /\ phase = "reading"
  /\ i = RECORDS
  /\ arraySize' = nextSize
  /\ phase' = CASE treeIsEmpty -> "crashed"
                [] nextSize <= LastSize -> "opening"
                [] OTHER -> "done"
  /\ window' = <<>>
  /\ index' = Index!EmptyIndex
  /\ UNCHANGED <<file, i, fp, value, t>>

Next ==
  \/ \E v \in Value : writeLine(v) \/ tearLine(v)
  \/ endOfFile
  \/ openFile
  \/ readRecord
  \/ destroyStore

Spec == Init /\ [][Next]_vars

(* Nothing blocks either program: each goes on to its end. *)
FairSpec == Spec /\ WF_vars(Next)

-----------------------------------------------------------------------------
(*                                Properties                               *)

(* At the positions `place', in ascending order, are the measurements of   *)
(* the window w that have value v; `times' are their times.                *)
ListsTimes(times, place, w, v) ==
  /\ {place[n] : n \in 1..Len(times)} = {k \in 1..Len(w) : w[k].value = v}
  /\ \A n, m \in 1..Len(times) : n < m => place[n] < place[m]
  /\ \A n \in 1..Len(times) : times[n] = w[place[n]].time

(* For every value the tree lists the times of the array's measurements    *)
(* with that value, in the array's order.  The tree drops the oldest time  *)
(* of a value without looking at it; that is right even when a short or    *)
(* torn file repeats times or lets them go back.                           *)
IndexMatchesWindow ==
  \A v \in Value :
    \E place \in [1..Len(index[v]) -> 1..Len(window)] :
      ListsTimes(index[v], place, window, v)

(* The line that the k-th fscanf of a round leaves in value and t, the     *)
(* number of measurements that an array of this size holds after n         *)
(* records, and the lines that they come from.                             *)
lineRead(ls, k) == ls[IF k < Len(ls) THEN k ELSE Len(ls)]
heldAfter(n, size) == IF n < size THEN n ELSE size
latestLines(ls, n, size) ==
  [k \in 1..heldAfter(n, size) |-> lineRead(ls, n - heldAfter(n, size) + k)]

(* Each window size is measured on the same data: the array holds the      *)
(* file's latest lines up to the one read last, from the first line on in  *)
(* every round, and the last line over again when the file is short.       *)
EveryRoundReplaysTheFile ==
  phase = "reading" /\ complete /\ lines # <<>> =>
    window = latestLines(lines, i, arraySize)

(* What lookup relies on: from a complete file, the measurements in the    *)
(* array are TIMESTAMP_DIFF apart, in every round.                         *)
SeriesIsRegular ==
  complete /\ Len(lines) = RECORDS =>
    \A k \in 1..(Len(window) - 1) :
      window[k + 1].time = window[k].time + TIMESTAMP_DIFF

(* If the file exists, however short or torn, main measures every window   *)
(* size, the last one included, and ends.                                  *)
BenchmarkEnds == fileExists ~> phase = "done"
=============================================================================
