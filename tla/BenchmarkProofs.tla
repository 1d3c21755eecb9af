--------------------------- MODULE BenchmarkProofs ---------------------------
(***************************************************************************)
(* main replays the file from its first line in every round, and a         *)
(* complete file is a regular series in the array: for every number of     *)
(* records, every range of window sizes and every interval.  Whatever the  *)
(* file has, array and tree agree.                                         *)
(***************************************************************************)
EXTENDS Benchmark, SequenceTheorems, TLAPS

(* A line's own time is never the one that stands for a torn-off time.     *)
LEMMA LinesHaveTimes ==
  ASSUME NEW k \in Nat \ {0}
  PROVE  /\ TIMESTAMP_DIFF * k \in Nat
         /\ TIMESTAMP_DIFF * k # NoTime
BY BenchmarkAssumption DEF NoTime

Line == [value : Value, time : Nat]

(* The file: until it is torn, line k has the k-th time. *)
FileInv ==
  /\ lines \in Seq(Line)
  /\ Len(lines) <= RECORDS
  /\ phase = "generating" => complete
  /\ complete => \A k \in 1..Len(lines) : lines[k].time = TIMESTAMP_DIFF * k

LEMMA FileInvInit == Init => FileInv
BY BenchmarkAssumption DEF Init, FileInv

(* Writing keeps the file as it should be; reading does not change it.     *)
LEMMA FileInvStep ==
  ASSUME FileInv, [Next]_vars
  PROVE  FileInv'
<1>1. ASSUME NEW v \in Value, writeLine(v)
      PROVE  FileInv'
  <2>1. nextTime \in Nat
    BY LinesHaveTimes DEF nextTime, FileInv
  <2>2. [value |-> v, time |-> nextTime] \in Line
    BY <2>1 DEF Line
  <2>3. /\ lines' = Append(lines, [value |-> v, time |-> nextTime])
        /\ phase' = phase /\ complete' = complete
        /\ phase = "generating" /\ Len(lines) < RECORDS
    BY <1>1 DEF writeLine
  <2>4. /\ lines' \in Seq(Line)
        /\ Len(lines') = Len(lines) + 1
        /\ \A k \in 1..Len(lines) : lines'[k] = lines[k]
        /\ lines'[Len(lines) + 1] = [value |-> v, time |-> nextTime]
    BY <2>2, <2>3 DEF FileInv
  <2>5. \A k \in 1..Len(lines') : lines'[k].time = TIMESTAMP_DIFF * k
    BY <2>3, <2>4 DEF FileInv, nextTime
  <2> QED
    BY <2>3, <2>4, <2>5, BenchmarkAssumption DEF FileInv
<1>2. ASSUME NEW v \in Value, tearLine(v)
      PROVE  FileInv'
  <2>1. PICK line \in Line : lines' = Append(lines, line)
    <3>1. nextTime \in Nat
      BY LinesHaveTimes DEF nextTime, FileInv
    <3>2. \A short \in Torn(nextTime) : short \in Nat
      BY <3>1 DEF Torn
    <3>3. \A short \in Torn(v) : [value |-> short, time |-> NoTime] \in Line
      BY BenchmarkAssumption DEF Line, NoTime
    <3>4. \A short \in Torn(nextTime) : [value |-> v, time |-> short] \in Line
      BY <3>2 DEF Line
    <3> QED
      BY <1>2, <3>3, <3>4 DEF tearLine
  <2>2. complete' = FALSE /\ phase' = "opening" /\ Len(lines) < RECORDS
    BY <1>2 DEF tearLine
  <2> QED
    BY <2>1, <2>2, BenchmarkAssumption DEF FileInv
<1>3. CASE endOfFile
  BY <1>3 DEF endOfFile, file, FileInv
<1>4. CASE openFile
  BY <1>4 DEF openFile, file, FileInv
<1>5. CASE readRecord
  BY <1>5 DEF readRecord, file, FileInv
<1>6. CASE destroyStore
  BY <1>6 DEF destroyStore, file, FileInv
<1>7. CASE UNCHANGED vars
  BY <1>7 DEF vars, file, FileInv
<1> QED
  BY <1>1, <1>2, <1>3, <1>4, <1>5, <1>6, <1>7 DEF Next

-----------------------------------------------------------------------------
(* main's counters, and the last line read. *)
ReaderInv ==
  /\ i \in 0..RECORDS
  /\ arraySize \in Nat \ {0}
  /\ phase # "reading" => window = <<>>
  /\ phase = "reading" => fp = IF i < Len(lines) THEN i ELSE Len(lines)
  /\ phase = "reading" /\ complete /\ lines # <<>> /\ i > 0 =>
       [time |-> t, value |-> value] = lineRead(lines, i)

BenchmarkInv == FileInv /\ ReaderInv /\ EveryRoundReplaysTheFile

LEMMA BenchmarkInvInit == Init => BenchmarkInv
<1> SUFFICES ASSUME Init PROVE BenchmarkInv
  OBVIOUS
<1>1. FileInv
  BY FileInvInit
<1>2. ReaderInv /\ EveryRoundReplaysTheFile
  BY BenchmarkAssumption DEF Init, ReaderInv, EveryRoundReplaysTheFile
<1> QED
  BY <1>1, <1>2 DEF BenchmarkInv

(* fscanf leaves the next line of the file, or the last one over again.    *)
LEMMA NextLineIsRead ==
  ASSUME BenchmarkInv, readRecord, complete, lines # <<>>
  PROVE  [time |-> t', value |-> value'] = lineRead(lines, i + 1)
<1> USE DEF BenchmarkInv, FileInv, ReaderInv
<1>0. phase = "reading" /\ fscanf
  BY DEF readRecord
<1>1. CASE fp < Len(lines)
  <2>1. fp = i /\ fp + 1 \in 1..Len(lines) /\ fp + 1 \in Nat \ {0}
    BY <1>0, <1>1
  <2>2. lines[fp + 1].time = TIMESTAMP_DIFF * (fp + 1) /\ lines[fp + 1] \in Line
    BY <2>1
  <2>3. lines[fp + 1].time # NoTime
    BY <2>1, <2>2, LinesHaveTimes
  <2>4. value' = lines[fp + 1].value /\ t' = lines[fp + 1].time
    BY <1>0, <1>1, <2>3 DEF fscanf
  <2>5. [time |-> t', value |-> value'] = lines[fp + 1]
    BY <2>2, <2>4 DEF Line
  <2> QED
    BY <2>1, <2>5 DEF lineRead
<1>2. CASE ~(fp < Len(lines))
  <2>1. value' = value /\ t' = t
    BY <1>0, <1>2 DEF fscanf
  <2>2. Len(lines) \in Nat \ {0} /\ ~(i < Len(lines)) /\ i > 0
    BY <1>0, <1>2
  <2>3. lineRead(lines, i + 1) = lineRead(lines, i)
    BY <2>2 DEF lineRead
  <2> QED
    BY <1>0, <2>1, <2>2, <2>3
<1> QED
  BY <1>1, <1>2

LEMMA ReaderInvStep ==
  ASSUME BenchmarkInv, [Next]_vars
  PROVE  ReaderInv'
<1> USE DEF BenchmarkInv, FileInv, ReaderInv
<1>1. ASSUME NEW v \in Value, writeLine(v)
      PROVE  ReaderInv'
  BY <1>1 DEF writeLine
<1>2. ASSUME NEW v \in Value, tearLine(v)
      PROVE  ReaderInv'
  BY <1>2 DEF tearLine
<1>3. CASE endOfFile
  BY <1>3 DEF endOfFile, file
<1>4. CASE openFile
  BY <1>4, BenchmarkAssumption DEF openFile, file, firstLine, firstRecord
<1>5. CASE readRecord
  <2>1. /\ phase = "reading" /\ phase' = phase
        /\ i < RECORDS /\ i' = i + 1
        /\ lines' = lines /\ complete' = complete /\ arraySize' = arraySize
    BY <1>5 DEF readRecord, file
  <2>2. fp' = IF fp < Len(lines) THEN fp + 1 ELSE fp
    BY <1>5 DEF readRecord, fscanf
  <2>3. fp' = IF i' < Len(lines') THEN i' ELSE Len(lines')
    BY <2>1, <2>2
  <2>4. complete' /\ lines' # <<>> => [time |-> t', value |-> value'] = lineRead(lines, i)'
    <3>1. lineRead(lines, i)' = lineRead(lines, i + 1)
      BY <2>1 DEF lineRead
    <3> QED
      BY <1>5, <2>1, <3>1, NextLineIsRead
  <2> QED
    BY <2>1, <2>3, <2>4, BenchmarkAssumption
<1>6. CASE destroyStore
  <2>1. /\ arraySize' = arraySize + SizeStep /\ i' = i /\ window' = <<>>
        /\ phase' # "reading"
    BY <1>6 DEF destroyStore, nextSize
  <2> QED
    BY <2>1, BenchmarkAssumption
<1>7. CASE UNCHANGED vars
  BY <1>7 DEF vars, file, lineRead
<1> QED
  BY <1>1, <1>2, <1>3, <1>4, <1>5, <1>6, <1>7 DEF Next

(* Append, position by position. *)
LEMMA AppendByPosition ==
  ASSUME NEW S, NEW s \in Seq(S), NEW e \in S
  PROVE  Append(s, e) = [k \in 1..(Len(s) + 1) |-> IF k = Len(s) + 1 THEN e ELSE s[k]]
<1> DEFINE a == Append(s, e)
<1>1. /\ a \in Seq(S) /\ Len(a) = Len(s) + 1 /\ Len(s) \in Nat
      /\ \A k \in 1..Len(s) : a[k] = s[k]
      /\ a[Len(s) + 1] = e
  BY AppendProperties, LenProperties
<1>2. a \in [1..(Len(s) + 1) -> S]
  BY <1>1, LenProperties
<1>3. \A k \in 1..(Len(s) + 1) : a[k] = IF k = Len(s) + 1 THEN e ELSE s[k]
  BY <1>1
<1> HIDE DEF a
<1>4. a = [k \in 1..(Len(s) + 1) |-> a[k]]
  BY <1>2
<1>5. a = [k \in 1..(Len(s) + 1) |-> IF k = Len(s) + 1 THEN e ELSE s[k]]
  BY <1>3, <1>4
<1> QED
  BY <1>5 DEF a

(* The latest lines, counted out.                                          *)
LEMMA LatestLinesByPosition ==
  ASSUME NEW ls, NEW n \in Int, NEW size, NEW held \in Int, heldAfter(n, size) = held
  PROVE  latestLines(ls, n, size) = [k \in 1..held |-> lineRead(ls, n - held + k)]
  BY Zenon DEF latestLines

(* The array holds the lines read last, also when the oldest leaves.       *)
LEMMA ReplayStep ==
  ASSUME BenchmarkInv, readRecord, complete, lines # <<>>
  PROVE  window' = latestLines(lines, i + 1, arraySize)
<1> DEFINE m == [time |-> t', value |-> value']
<1>1. m = lineRead(lines, i + 1)
  BY NextLineIsRead
<1>2. /\ i \in Nat /\ arraySize \in Nat \ {0}
      /\ window = [k \in 1..heldAfter(i, arraySize)
                     |-> lineRead(lines, i - heldAfter(i, arraySize) + k)]
  BY DEF readRecord, BenchmarkInv, ReaderInv, EveryRoundReplaysTheFile, latestLines
<1>3. window' = Append(IF Len(window) = arraySize THEN Tail(window) ELSE window, m)
  BY DEF readRecord, shift
<1>4. Len(window) = heldAfter(i, arraySize)
  BY <1>2 DEF heldAfter
<1> HIDE DEF m
<1>5. \A k \in Nat \ {0} : lineRead(lines, k) \in Line
  BY DEF lineRead, BenchmarkInv, FileInv
<1>6. m \in Line
  BY <1>1, <1>2, <1>5
<1>7. window \in Seq(Line)
  BY <1>2, <1>5 DEF heldAfter
<1>8. CASE i < arraySize
  <2>1. heldAfter(i, arraySize) = i /\ heldAfter(i + 1, arraySize) = i + 1
    BY <1>2, <1>8 DEF heldAfter
  <2>2. window' = [k \in 1..(i + 1) |-> IF k = i + 1 THEN m ELSE window[k]]
    BY <1>2, <1>3, <1>4, <1>6, <1>7, <1>8, <2>1, AppendByPosition
  <2>3. \A k \in 1..(i + 1) :
          (IF k = i + 1 THEN m ELSE window[k]) = lineRead(lines, i + 1 - (i + 1) + k)
    BY <1>1, <1>2, <2>1
  <2>4. latestLines(lines, i + 1, arraySize)
          = [k \in 1..(i + 1) |-> lineRead(lines, i + 1 - (i + 1) + k)]
    BY <1>2, <2>1, LatestLinesByPosition
  <2> QED
    BY <2>2, <2>3, <2>4
<1>9. CASE ~(i < arraySize)
  <2>1. heldAfter(i, arraySize) = arraySize /\ heldAfter(i + 1, arraySize) = arraySize
    BY <1>2, <1>9 DEF heldAfter
  <2>2. /\ \A k \in 1..(arraySize - 1) : Tail(window)[k] = window[k + 1]
        /\ Tail(window) \in Seq(Line) /\ Len(Tail(window)) = arraySize - 1
    <3>1. Len(window) = arraySize /\ window # <<>>
      BY <1>2, <1>4, <2>1
    <3> QED
      BY <1>7, <3>1, HeadTailProperties
  <2>3. window' = [k \in 1..arraySize |-> IF k = arraySize THEN m ELSE Tail(window)[k]]
    <3>1. window' = Append(Tail(window), m)
      BY <1>3, <1>4, <2>1
    <3> DEFINE rest == Tail(window)
    <3>0. arraySize \in Nat \ {0}
      BY <1>2
    <3>2. rest \in Seq(Line) /\ Len(rest) + 1 = arraySize
      BY <3>0, <2>2
    <3> HIDE DEF rest
    <3>3. Append(rest, m) = [k \in 1..(Len(rest) + 1)
                               |-> IF k = Len(rest) + 1 THEN m ELSE rest[k]]
      BY <1>6, <3>2, AppendByPosition
    <3> QED
      BY <3>1, <3>2, <3>3 DEF rest
  <2>4. \A k \in 1..arraySize :
          (IF k = arraySize THEN m ELSE Tail(window)[k])
            = lineRead(lines, i + 1 - arraySize + k)
    <3> SUFFICES ASSUME NEW k \in 1..arraySize
                 PROVE  (IF k = arraySize THEN m ELSE Tail(window)[k])
                          = lineRead(lines, i + 1 - arraySize + k)
      OBVIOUS
    <3>1. CASE k = arraySize
      <4>1. i + 1 - arraySize + k = i + 1
        BY <1>2, <3>1
      <4> QED
        BY <1>1, <3>1, <4>1
    <3>2. CASE k # arraySize
      <4>1. k \in 1..(arraySize - 1) /\ k + 1 \in 1..arraySize
        BY <1>2, <3>2
      <4>2. Tail(window)[k] = lineRead(lines, i - arraySize + (k + 1))
        BY <1>2, <2>1, <2>2, <4>1
      <4>3. i - arraySize + (k + 1) = i + 1 - arraySize + k
        BY <1>2, <4>1
      <4> QED
        BY <3>2, <4>2, <4>3
    <3> QED
      BY <3>1, <3>2
  <2>5. latestLines(lines, i + 1, arraySize)
          = [k \in 1..arraySize |-> lineRead(lines, i + 1 - arraySize + k)]
    BY <1>2, <2>1, LatestLinesByPosition
  <2> QED
    BY <2>3, <2>4, <2>5
<1> QED
  BY <1>8, <1>9

LEMMA ReplayInvStep ==
  ASSUME BenchmarkInv, [Next]_vars
  PROVE  EveryRoundReplaysTheFile'
<1> USE DEF EveryRoundReplaysTheFile
<1>1. ASSUME NEW v \in Value, writeLine(v)
      PROVE  EveryRoundReplaysTheFile'
  BY <1>1 DEF writeLine
<1>2. ASSUME NEW v \in Value, tearLine(v)
      PROVE  EveryRoundReplaysTheFile'
  BY <1>2 DEF tearLine
<1>3. CASE endOfFile
  BY <1>3 DEF endOfFile
<1>4. CASE openFile
  BY <1>4 DEF openFile, firstRecord, BenchmarkInv, ReaderInv, heldAfter, latestLines
<1>5. CASE readRecord
  <2>1. lines' = lines /\ complete' = complete /\ arraySize' = arraySize /\ i' = i + 1
    BY <1>5 DEF readRecord, file
  <2>2. SUFFICES ASSUME complete, lines # <<>>
                 PROVE  EveryRoundReplaysTheFile'
    BY <2>1
  <2>3. window' = latestLines(lines, i + 1, arraySize)
    BY <1>5, <2>2, ReplayStep
  <2> QED
    BY <2>1, <2>3
<1>6. CASE destroyStore
  BY <1>6 DEF destroyStore
<1>7. CASE UNCHANGED vars
  BY <1>7 DEF vars, file, BenchmarkInv
<1> QED
  BY <1>1, <1>2, <1>3, <1>4, <1>5, <1>6, <1>7 DEF Next

THEOREM BenchmarkInvariant == Spec => []BenchmarkInv
<1>1. BenchmarkInv /\ [Next]_vars => BenchmarkInv'
  BY FileInvStep, ReaderInvStep, ReplayInvStep DEF BenchmarkInv
<1> QED
  BY <1>1, BenchmarkInvInit, PTL DEF Spec

(* Each window size is measured on the same data, from the first line of   *)
(* the file on, for every number of records and every range of sizes.      *)
THEOREM RoundsReplayTheFile == Spec => []EveryRoundReplaysTheFile
<1>1. BenchmarkInv => EveryRoundReplaysTheFile
  BY DEF BenchmarkInv
<1> QED
  BY <1>1, BenchmarkInvariant, PTL

(* With a complete file the measurements in the array are always           *)
(* TIMESTAMP_DIFF apart, which is what serie_update takes for granted and  *)
(* lookup relies on.                                                       *)
THEOREM SeriesFromFileIsRegular == Spec => []SeriesIsRegular
<1>1. BenchmarkInv => SeriesIsRegular
  <2> SUFFICES ASSUME BenchmarkInv, complete, Len(lines) = RECORDS,
                      NEW k \in 1..(Len(window) - 1)
               PROVE  window[k + 1].time = window[k].time + TIMESTAMP_DIFF
    BY DEF SeriesIsRegular
  <2> DEFINE first == i - heldAfter(i, arraySize)
  <2>1. phase = "reading"
    BY DEF BenchmarkInv, ReaderInv
  <2>2. lines # <<>> /\ RECORDS \in Nat \ {0} /\ TIMESTAMP_DIFF \in Nat
    BY BenchmarkAssumption
  <2>3. window = [j \in 1..heldAfter(i, arraySize) |-> lineRead(lines, first + j)]
    BY <2>1, <2>2 DEF BenchmarkInv, EveryRoundReplaysTheFile, latestLines
  <2>4. /\ i \in 0..RECORDS /\ arraySize \in Nat
        /\ heldAfter(i, arraySize) \in 0..i /\ first \in Nat
        /\ first + heldAfter(i, arraySize) = i
    BY DEF BenchmarkInv, ReaderInv, heldAfter
  <2> HIDE DEF first
  <2>5. k \in 1..(heldAfter(i, arraySize) - 1)
    BY <2>3, <2>4
  <2>6. \A n \in 1..RECORDS : lineRead(lines, n).time = TIMESTAMP_DIFF * n
    BY DEF BenchmarkInv, FileInv, lineRead
  <2>7. /\ window[k] = lineRead(lines, first + k)
        /\ window[k + 1] = lineRead(lines, first + (k + 1))
    BY <2>3, <2>4, <2>5
  <2>8. first + k \in 1..RECORDS /\ first + (k + 1) \in 1..RECORDS
    BY <2>4, <2>5
  <2>9. TIMESTAMP_DIFF * (first + (k + 1)) = TIMESTAMP_DIFF * (first + k) + TIMESTAMP_DIFF
    BY <2>2, <2>4, <2>5
  <2> QED
    BY <2>6, <2>7, <2>8, <2>9
<1> QED
  BY <1>1, BenchmarkInvariant, PTL

-----------------------------------------------------------------------------
(*                           The array and the index                       *)

(* When the oldest measurement leaves the window and the first time leaves *)
(* the list of its value, the list has the times of what is left.          *)
LEMMA OldestLeavesItsList ==
  ASSUME NEW w \in Seq(Line), w # <<>>, NEW v, NEW s \in Seq(Nat),
         NEW place \in [1..Len(s) -> 1..Len(w)], ListsTimes(s, place, w, v),
         Head(w).value = v
  PROVE  /\ s # <<>>
         /\ \E p \in [1..Len(Tail(s)) -> 1..Len(Tail(w))] : ListsTimes(Tail(s), p, Tail(w), v)
<1> DEFINE u == Tail(w)
<1>1. /\ Len(w) \in Nat \ {0} /\ Len(s) \in Nat /\ Head(w) = w[1]
      /\ u \in Seq(Line) /\ Len(u) = Len(w) - 1
      /\ \A k \in 1..(Len(w) - 1) : u[k] = w[k + 1]
  BY HeadTailProperties, LenProperties, EmptySeq
<1> HIDE DEF u
<1>2. {k \in 1..Len(w) : w[k].value = v} = {place[n] : n \in 1..Len(s)}
  BY DEF ListsTimes
<1>3. \A k \in 1..Len(s) : place[k] \in 1..Len(w) /\ place[k] \in Int /\ s[k] = w[place[k]].time
  BY DEF ListsTimes
<1>4. \A k, j \in 1..Len(s) : k < j => place[k] < place[j]
  BY DEF ListsTimes
<1>5. w[1].value = v
  BY <1>1
<1>6. PICK n \in 1..Len(s) : place[n] = 1
  <2>1. 1 \in {k \in 1..Len(w) : w[k].value = v}
    BY <1>1, <1>5
  <2> QED
    BY <1>2, <2>1
<1>7. n = 1
  <2>1. 1 \in 1..Len(s)
    BY <1>1
  <2>2. place[1] \in 1..Len(w) /\ place[n] = 1
    BY <1>3, <1>6, <2>1
  <2>3. ~(place[1] < place[n])
    BY <1>1, <2>2
  <2>4. ~(1 < n)
    BY <1>4, <2>1, <2>3
  <2> QED
    BY <1>1, <2>4
<1>8. s # <<>> /\ 1 \in 1..Len(s) /\ place[1] = 1
  BY <1>6, <1>7
<1> DEFINE rest == Tail(s)
<1>9. /\ rest \in Seq(Nat) /\ Len(rest) = Len(s) - 1
      /\ \A k \in 1..(Len(s) - 1) : rest[k] = s[k + 1]
  BY <1>8, HeadTailProperties
<1> HIDE DEF rest
<1>10. PICK q \in [1..Len(rest) -> 2..Len(w)] :
         \A k \in 1..Len(rest) : k + 1 \in 1..Len(s) /\ q[k] = place[k + 1]
  <2> DEFINE q == [k \in 1..Len(rest) |-> place[k + 1]]
  <2>1. ASSUME NEW k \in 1..Len(rest)
        PROVE  k + 1 \in 1..Len(s) /\ place[k + 1] \in 2..Len(w)
    <3>1. k + 1 \in 1..Len(s) /\ 1 < k + 1
      <4>1. Len(rest) = Len(s) - 1 /\ Len(s) \in Nat
        BY <1>1, <1>9
      <4> QED
        BY <4>1
    <3>2. place[1] < place[k + 1] /\ place[k + 1] \in 1..Len(w)
      BY <1>3, <1>4, <1>8, <3>1
    <3> QED
      BY <1>1, <1>8, <3>1, <3>2
  <2>2. q \in [1..Len(rest) -> 2..Len(w)]
    BY <2>1
  <2>3. \A k \in 1..Len(rest) : q[k] = place[k + 1]
    OBVIOUS
  <2> HIDE DEF q
  <2> QED
    BY <2>1, <2>2, <2>3
<1>11. \A k, m \in 1..Len(rest) : k < m => q[k] < q[m]
  <2> SUFFICES ASSUME NEW k \in 1..Len(rest), NEW m \in 1..Len(rest), k < m
               PROVE  q[k] < q[m]
    OBVIOUS
  <2>1. k + 1 < m + 1 /\ k + 1 \in 1..Len(s) /\ m + 1 \in 1..Len(s)
    BY <1>1, <1>9, <1>10
  <2>2. place[k + 1] < place[m + 1]
    BY <1>4, <2>1
  <2> QED
    BY <1>10, <2>2
<1> DEFINE p == [k \in 1..Len(rest) |-> q[k] - 1]
<1>12. \A k \in 1..Len(rest) : p[k] \in 1..Len(u) /\ p[k] \in Int /\ p[k] + 1 = q[k]
  <2> SUFFICES ASSUME NEW k \in 1..Len(rest)
               PROVE  p[k] \in 1..Len(u) /\ p[k] \in Int /\ p[k] + 1 = q[k]
    OBVIOUS
  <2>1. q[k] - 1 \in 1..Len(u) /\ q[k] - 1 \in Int /\ (q[k] - 1) + 1 = q[k]
    <3>1. q[k] \in 2..Len(w) /\ Len(u) = Len(w) - 1 /\ Len(w) \in Nat
      BY <1>1, <1>10
    <3> QED
      BY <3>1
  <2> QED
    BY <2>1
<1>13. p \in [1..Len(rest) -> 1..Len(u)]
  BY <1>12
<1> HIDE DEF p
<1>14. \A k \in 1..Len(rest) : rest[k] = u[p[k]].time /\ u[p[k]].value = v
  <2> SUFFICES ASSUME NEW k \in 1..Len(rest)
               PROVE  rest[k] = u[p[k]].time /\ u[p[k]].value = v
    OBVIOUS
  <2>1. rest[k] = s[k + 1] /\ s[k + 1] = w[place[k + 1]].time
    BY <1>3, <1>9, <1>10
  <2>2. u[p[k]] = w[q[k]] /\ q[k] = place[k + 1]
    BY <1>1, <1>10, <1>12
  <2>3. w[place[k + 1]].value = v
    BY <1>2, <1>10
  <2> QED
    BY <2>1, <2>2, <2>3
<1>15. ASSUME NEW k \in 1..Len(rest), NEW m \in 1..Len(rest), k < m
       PROVE  p[k] < p[m]
  <2>1. q[k] < q[m]
    BY <1>15, <1>11
  <2>2. /\ p[k] \in Int /\ p[m] \in Int
        /\ p[k] + 1 = q[k] /\ p[m] + 1 = q[m]
    BY <1>12
  <2> QED
    BY <2>1, <2>2
<1>16. ASSUME NEW k \in 1..Len(u), u[k].value = v
       PROVE  \E m \in 1..Len(rest) : p[m] = k
  <2>1. k + 1 \in {j \in 1..Len(w) : w[j].value = v}
    BY <1>1, <1>16
  <2>2. PICK m \in 1..Len(s) : place[m] = k + 1
    BY <1>2, <2>1
  <2>3. PICK j \in 1..Len(rest) : j + 1 = m
    <3>1. m # 1 /\ m - 1 \in 1..Len(rest) /\ (m - 1) + 1 = m
      <4>1. place[1] = 1 /\ k \in Nat \ {0}
        BY <1>8
      <4>2. m # 1
        BY <2>2, <4>1
      <4>3. Len(rest) = Len(s) - 1 /\ Len(s) \in Nat
        BY <1>1, <1>9
      <4> QED
        BY <4>2, <4>3
    <3> QED
      BY <3>1
  <2>4. q[j] = k + 1
    BY <1>10, <2>2, <2>3
  <2>5. p[j] + 1 = k + 1 /\ p[j] \in Int /\ k \in Int
    BY <1>12, <2>4
  <2> QED
    <3>1. \A x, y \in Int : x + 1 = y + 1 => x = y
      OBVIOUS
    <3>2. p[j] = k
      BY <2>5, <3>1, Zenon
    <3> QED
      BY <3>2, Zenon
<1>17. {p[m] : m \in 1..Len(rest)} = {k \in 1..Len(u) : u[k].value = v}
  <2>1. \A m \in 1..Len(rest) : p[m] \in 1..Len(u) /\ u[p[m]].value = v
    BY <1>13, <1>14
  <2>2. \A k \in 1..Len(u) : u[k].value = v => \E m \in 1..Len(rest) : p[m] = k
    BY <1>16
  <2>3. {p[m] : m \in 1..Len(rest)} \subseteq {k \in 1..Len(u) : u[k].value = v}
    BY <2>1
  <2>4. {k \in 1..Len(u) : u[k].value = v} \subseteq {p[m] : m \in 1..Len(rest)}
    BY <2>2
  <2> QED
    BY <2>3, <2>4
<1>18. ListsTimes(rest, p, u, v)
  BY <1>14, <1>15, <1>17 DEF ListsTimes
<1> QED
  BY <1>8, <1>13, <1>18 DEF u, rest

(* The lists of other values stay.                                         *)
LEMMA OldestLeavesOtherLists ==
  ASSUME NEW w \in Seq(Line), w # <<>>, NEW v, NEW s \in Seq(Nat),
         NEW place \in [1..Len(s) -> 1..Len(w)], ListsTimes(s, place, w, v),
         Head(w).value # v
  PROVE  \E p \in [1..Len(s) -> 1..Len(Tail(w))] : ListsTimes(s, p, Tail(w), v)
<1> DEFINE u == Tail(w)
<1>1. /\ Len(w) \in Nat \ {0} /\ Len(s) \in Nat /\ Head(w) = w[1]
      /\ u \in Seq(Line) /\ Len(u) = Len(w) - 1
      /\ \A k \in 1..(Len(w) - 1) : u[k] = w[k + 1]
  BY HeadTailProperties, LenProperties, EmptySeq
<1> HIDE DEF u
<1>2. {k \in 1..Len(w) : w[k].value = v} = {place[n] : n \in 1..Len(s)}
  BY DEF ListsTimes
<1>3. \A k \in 1..Len(s) : place[k] \in 1..Len(w) /\ place[k] \in Int /\ s[k] = w[place[k]].time
  BY DEF ListsTimes
<1>4. \A k, j \in 1..Len(s) : k < j => place[k] < place[j]
  BY DEF ListsTimes
<1>5. w[1].value # v
  BY <1>1
<1> DEFINE p == [k \in 1..Len(s) |-> place[k] - 1]
<1>6. ASSUME NEW k \in 1..Len(s)
      PROVE  place[k] \in 2..Len(w) /\ w[place[k]].value = v
  <2>1. place[k] \in {j \in 1..Len(w) : w[j].value = v}
    BY <1>2
  <2> QED
    BY <1>1, <1>5, <2>1
<1>7. \A k \in 1..Len(s) : p[k] \in 1..Len(u) /\ p[k] \in Int /\ p[k] + 1 = place[k]
  BY <1>1, <1>6
<1>8. p \in [1..Len(s) -> 1..Len(u)]
  BY <1>7
<1> HIDE DEF p
<1>9. ASSUME NEW k \in 1..Len(s)
      PROVE  s[k] = u[p[k]].time /\ u[p[k]].value = v
  <2>1. u[p[k]] = w[place[k]]
    BY <1>1, <1>7
  <2> QED
    BY <1>3, <1>6, <2>1
<1>10. ASSUME NEW k \in 1..Len(s), NEW m \in 1..Len(s), k < m
       PROVE  p[k] < p[m]
  <2>1. place[k] < place[m]
    BY <1>4, <1>10
  <2> QED
    BY <1>7, <2>1
<1>11. ASSUME NEW k \in 1..Len(u), u[k].value = v
       PROVE  \E m \in 1..Len(s) : p[m] = k
  <2>1. k + 1 \in {j \in 1..Len(w) : w[j].value = v}
    BY <1>1, <1>11
  <2>2. PICK m \in 1..Len(s) : place[m] = k + 1
    BY <1>2, <2>1
  <2>3. p[m] + 1 = k + 1 /\ p[m] \in Int /\ k \in Int
    BY <1>7, <2>2
  <2> QED
    BY <2>2, <2>3
<1>12. {p[m] : m \in 1..Len(s)} = {k \in 1..Len(u) : u[k].value = v}
  <2>1. \A m \in 1..Len(s) : p[m] \in 1..Len(u) /\ u[p[m]].value = v
    BY <1>8, <1>9
  <2>2. \A k \in 1..Len(u) : u[k].value = v => \E m \in 1..Len(s) : p[m] = k
    BY <1>11
  <2>3. {p[m] : m \in 1..Len(s)} \subseteq {k \in 1..Len(u) : u[k].value = v}
    BY <2>1
  <2>4. {k \in 1..Len(u) : u[k].value = v} \subseteq {p[m] : m \in 1..Len(s)}
    BY <2>2
  <2> QED
    BY <2>3, <2>4
<1>13. ListsTimes(s, p, u, v)
  BY <1>9, <1>10, <1>12 DEF ListsTimes
<1> QED
  BY <1>8, <1>13 DEF u

(* When a measurement is added to the window, so must be its time to the   *)
(* list of its value, and to no other.                                     *)
LEMMA LatestJoinsList ==
  ASSUME NEW w \in Seq(Line), NEW m \in Line, NEW v, NEW s \in Seq(Nat),
         NEW place \in [1..Len(s) -> 1..Len(w)], ListsTimes(s, place, w, v),
         NEW more \in Seq(Nat),
         more = IF m.value = v THEN Append(s, m.time) ELSE s
  PROVE  \E p \in [1..Len(more) -> 1..Len(Append(w, m))] : ListsTimes(more, p, Append(w, m), v)
<1> DEFINE u == Append(w, m)
<1>1. /\ Len(w) \in Nat /\ Len(s) \in Nat /\ m.time \in Nat
      /\ u \in Seq(Line) /\ Len(u) = Len(w) + 1
      /\ \A k \in 1..Len(w) : u[k] = w[k]
      /\ u[Len(w) + 1] = m
  BY AppendProperties, LenProperties DEF Line
<1> HIDE DEF u
<1>2. {k \in 1..Len(w) : w[k].value = v} = {place[n] : n \in 1..Len(s)}
  BY DEF ListsTimes
<1>7. \A k \in 1..Len(s) : place[k] \in 1..Len(w) /\ place[k] \in Int /\ s[k] = w[place[k]].time
  BY DEF ListsTimes
<1>8. \A k, j \in 1..Len(s) : k < j => place[k] < place[j]
  BY DEF ListsTimes
<1>3. \A k \in 1..Len(s) : w[place[k]].value = v /\ u[place[k]] = w[place[k]]
                             /\ place[k] \in 1..Len(u)
  BY <1>1, <1>2, <1>7
<1>4. CASE m.value = v
  <2>1. /\ Len(more) = Len(s) + 1
        /\ \A k \in 1..Len(s) : more[k] = s[k]
        /\ more[Len(s) + 1] = m.time
    <3> QED
      BY <1>1, <1>4, AppendProperties
  <2> DEFINE p == [k \in 1..Len(more) |-> IF k = Len(s) + 1 THEN Len(w) + 1 ELSE place[k]]
  <2>2. /\ \A k \in 1..Len(s) : p[k] = place[k]
        /\ p[Len(s) + 1] = Len(w) + 1
        /\ Len(s) + 1 \in 1..Len(more)
        /\ \A k \in 1..Len(more) : k = Len(s) + 1 \/ k \in 1..Len(s)
    BY <1>1, <2>1
  <2>3. p \in [1..Len(more) -> 1..Len(u)]
    BY <1>1, <1>3, <2>1
  <2> HIDE DEF p
  <2>4. ASSUME NEW k \in 1..Len(more)
        PROVE  more[k] = u[p[k]].time /\ u[p[k]].value = v
    <3>1. CASE k = Len(s) + 1
      BY <1>1, <1>4, <2>1, <2>2, <3>1
    <3>2. CASE k \in 1..Len(s)
      <4>1. u[p[k]] = w[place[k]]
        BY <1>3, <2>2, <3>2
      <4> QED
        BY <1>7, <1>3, <2>1, <3>2, <4>1
    <3> QED
      BY <2>2, <3>1, <3>2
  <2>5. ASSUME NEW k \in 1..Len(more), NEW j \in 1..Len(more), k < j
        PROVE  p[k] < p[j]
    <3>1. k \in 1..Len(s) /\ p[k] = place[k] /\ place[k] \in 1..Len(w)
      BY <1>1, <1>7, <2>1, <2>2, <2>5
    <3>2. CASE j = Len(s) + 1
      BY <1>1, <2>2, <3>1, <3>2
    <3>3. CASE j \in 1..Len(s)
      BY <1>8, <2>2, <2>5, <3>1, <3>3
    <3> QED
      BY <2>2, <3>2, <3>3
  <2>6. ASSUME NEW k \in 1..Len(u), u[k].value = v
        PROVE  \E j \in 1..Len(more) : p[j] = k
    <3>1. CASE k = Len(w) + 1
      BY <2>2, <3>1
    <3>2. CASE k # Len(w) + 1
      <4>1. k \in {j \in 1..Len(w) : w[j].value = v}
        BY <1>1, <2>6, <3>2
      <4>2. PICK j \in 1..Len(s) : place[j] = k
        BY <1>2, <4>1
      <4>3. p[j] = k /\ j \in 1..Len(more)
        BY <1>1, <2>1, <2>2, <4>2
      <4> QED
        BY <4>3
    <3> QED
      BY <3>1, <3>2
  <2>7. {p[j] : j \in 1..Len(more)} = {k \in 1..Len(u) : u[k].value = v}
    <3>1. \A j \in 1..Len(more) : p[j] \in 1..Len(u) /\ u[p[j]].value = v
      BY <2>3, <2>4
    <3>2. \A k \in 1..Len(u) : u[k].value = v => \E j \in 1..Len(more) : p[j] = k
      BY <2>6
    <3>3. {p[j] : j \in 1..Len(more)} \subseteq {k \in 1..Len(u) : u[k].value = v}
      BY <3>1
    <3>4. {k \in 1..Len(u) : u[k].value = v} \subseteq {p[j] : j \in 1..Len(more)}
      BY <3>2
    <3> QED
      BY <3>3, <3>4
  <2>8. ListsTimes(more, p, u, v)
    BY <2>4, <2>5, <2>7 DEF ListsTimes
  <2> QED
    BY <2>3, <2>8 DEF u
<1>5. CASE m.value # v
  <2>1. more = s
    BY <1>5
  <2>2. place \in [1..Len(s) -> 1..Len(u)]
    BY <1>3
  <2>3. \A k \in 1..Len(s) : s[k] = u[place[k]].time
    BY <1>3, <1>7
  <2>4. {k \in 1..Len(u) : u[k].value = v} = {k \in 1..Len(w) : w[k].value = v}
    <3>1. /\ Len(u) = Len(w) + 1 /\ Len(w) \in Nat /\ u[Len(w) + 1] = m
          /\ \A k \in 1..Len(w) : u[k] = w[k]
      BY <1>1
    <3> HIDE DEF u
    <3>2. \A k \in 1..Len(u) : k \in 1..Len(w) \/ k = Len(w) + 1
      BY <3>1
    <3>3. \A k \in 1..Len(w) : k \in 1..Len(u)
      BY <3>1
    <3> QED
      BY <1>5, <3>1, <3>2, <3>3, Zenon
  <2>5. ListsTimes(s, place, u, v)
    BY <1>2, <1>8, <2>3, <2>4 DEF ListsTimes
  <2> QED
    BY <2>1, <2>2, <2>5 DEF u
<1> QED
  BY <1>4, <1>5

(* The variables' types, which IndexMatchesWindow needs to be inductive.   *)
StoreInv ==
  /\ value \in Value /\ t \in Nat
  /\ window \in Seq(Line)
  /\ index \in [Value -> Seq(Nat)]
  /\ IndexMatchesWindow

(* The empty array and the empty tree agree. *)
LEMMA EmptyStoreMatches ==
  ASSUME NEW w, NEW idx, w = <<>>, idx = Index!EmptyIndex
  PROVE  /\ w \in Seq(Line) /\ idx \in [Value -> Seq(Nat)]
         /\ \A v \in Value : \E place \in [1..Len(idx[v]) -> 1..Len(w)] :
              ListsTimes(idx[v], place, w, v)
<1>1. idx \in [Value -> Seq(Nat)] /\ \A v \in Value : idx[v] = <<>>
  BY DEF Index!EmptyIndex
<1>2. \A v \in Value : ListsTimes(<<>>, <<>>, <<>>, v)
  BY DEF ListsTimes
<1>3. <<>> \in [1..Len(<<>>) -> 1..Len(<<>>)]
  OBVIOUS
<1> QED
  BY <1>1, <1>2, <1>3

(* fscanf leaves a value and a time in value and t, torn line or not.      *)
LEMMA ReadIsTyped ==
  ASSUME BenchmarkInv, StoreInv, readRecord
  PROVE  value' \in Value /\ t' \in Nat
<1>0. fscanf /\ fp \in Nat
  BY DEF readRecord, BenchmarkInv, FileInv, ReaderInv
<1>1. CASE fp < Len(lines)
  <2>1. fp + 1 \in 1..Len(lines)
    BY <1>0, <1>1, LenProperties DEF BenchmarkInv, FileInv
  <2>2. lines[fp + 1] \in Line
    BY <2>1 DEF BenchmarkInv, FileInv
  <2>3. lines[fp + 1].value \in Value /\ lines[fp + 1].time \in Nat
    BY <2>2 DEF Line
  <2> QED
    BY <1>0, <1>1, <2>3 DEF fscanf, StoreInv
<1>2. CASE ~(fp < Len(lines))
  BY <1>0, <1>2 DEF fscanf, StoreInv
<1> QED
  BY <1>1, <1>2

(* The list of value v after a shift of w, a measurement m and the list s. *)
ListAfter(s, v, w, full, m) ==
  LET remaining == IF full /\ Head(w).value = v THEN Tail(s) ELSE s
  IN  IF m.value = v THEN Append(remaining, m.time) ELSE remaining

(* The list of every value has the times of the shifted window.            *)
LEMMA ListAfterShift ==
  ASSUME NEW w \in Seq(Line), NEW full \in BOOLEAN, full => w # <<>>,
         NEW m \in Line, NEW v, NEW s \in Seq(Nat),
         \E place \in [1..Len(s) -> 1..Len(w)] : ListsTimes(s, place, w, v),
         NEW x, x = Append(IF full THEN Tail(w) ELSE w, m),
         NEW y, y = ListAfter(s, v, w, full, m)
  PROVE  /\ full /\ Head(w).value = v => s # <<>>
         /\ y \in Seq(Nat)
         /\ \E place \in [1..Len(y) -> 1..Len(x)] : ListsTimes(y, place, x, v)
<1> DEFINE held == IF full THEN Tail(w) ELSE w
           remaining == IF full /\ Head(w).value = v THEN Tail(s) ELSE s
<1>1. /\ full /\ Head(w).value = v => s # <<>>
      /\ \E place \in [1..Len(remaining) -> 1..Len(held)] :
           ListsTimes(remaining, place, held, v)
  <2>1. CASE ~full
    BY <2>1
  <2>2. CASE full /\ Head(w).value = v
    BY <2>2, OldestLeavesItsList
  <2>3. CASE full /\ Head(w).value # v
    BY <2>3, OldestLeavesOtherLists
  <2> QED
    BY <2>1, <2>2, <2>3
<1>2. held \in Seq(Line)
  BY HeadTailProperties
<1>3. remaining \in Seq(Nat)
  BY <1>1, HeadTailProperties
<1>4. x = Append(held, m) /\ y = IF m.value = v THEN Append(remaining, m.time) ELSE remaining
  BY DEF ListAfter
<1> HIDE DEF held, remaining
<1>5. y \in Seq(Nat)
  BY <1>3, <1>4, AppendProperties DEF Line
<1>6. \E place \in [1..Len(y) -> 1..Len(x)] : ListsTimes(y, place, x, v)
  BY <1>1, <1>2, <1>3, <1>4, <1>5, LatestJoinsList
<1> QED
  BY <1>1, <1>5, <1>6

(* A record shifted in keeps array and tree equal. *)
LEMMA ShiftKeepsMatch ==
  ASSUME BenchmarkInv, StoreInv, readRecord
  PROVE  StoreInv'
<1> DEFINE full == Len(window) = arraySize
           m == [time |-> t', value |-> value']
<1>1. value' \in Value /\ t' \in Nat
  BY ReadIsTyped
<1>2. m \in Line /\ m.value = value' /\ m.time = t'
  BY <1>1 DEF Line
<1>3. window \in Seq(Line) /\ index \in [Value -> Seq(Nat)] /\ full \in BOOLEAN
  BY DEF StoreInv
<1>4. full => window # <<>>
  BY <1>3 DEF BenchmarkInv, ReaderInv
<1>5. /\ window' = Append(IF full THEN Tail(window) ELSE window, m)
      /\ index' = Index!WithRecord(
                    IF full THEN Index!WithoutOldest(index, leaving.value) ELSE index,
                    t', value')
  BY DEF readRecord, shift
<1>6. full => Head(window) \in Line /\ leaving.value \in Value /\ leaving = Head(window)
  <2>1. full => Head(window) \in Line
    <3> HIDE DEF Line, full
    <3> QED
      BY <1>3, <1>4, HeadTailProperties
  <2> QED
    BY <2>1 DEF leaving, Line
<1> HIDE DEF m, full
<1>7. window' \in Seq(Line)
  <2>1. full => Tail(window) \in Seq(Line)
    BY <1>3, <1>4, HeadTailProperties
  <2> QED
    BY <1>2, <1>3, <1>5, <2>1, AppendProperties
<1> DEFINE y == [v \in Value |-> ListAfter(index[v], v, window, full, m)]
<1>8. ASSUME NEW v \in Value
      PROVE  /\ full /\ Head(window).value = v => index[v] # <<>>
             /\ y[v] \in Seq(Nat)
             /\ \E place \in [1..Len(y[v]) -> 1..Len(window')] :
                  ListsTimes(y[v], place, window', v)
  <2>1. index[v] \in Seq(Nat) /\ y[v] = ListAfter(index[v], v, window, full, m)
    BY <1>3
  <2>2. \E place \in [1..Len(index[v]) -> 1..Len(window)] :
          ListsTimes(index[v], place, window, v)
    BY DEF StoreInv, IndexMatchesWindow
  <2> HIDE DEF y
  <2> QED
    BY <1>2, <1>3, <1>4, <1>5, <2>1, <2>2, ListAfterShift
<1>9. index' = y
  <2> DEFINE rest == IF full THEN Index!WithoutOldest(index, leaving.value) ELSE index
  <2>1. rest \in [Value -> Seq(Nat)]
        /\ \A v \in Value :
             rest[v] = IF full /\ Head(window).value = v THEN Tail(index[v]) ELSE index[v]
    <3>1. CASE ~full
      BY <1>3, <3>1
    <3>2. CASE full
      <4>1. index[leaving.value] # <<>> /\ Tail(index[leaving.value]) \in Seq(Nat)
        BY <1>3, <1>6, <1>8, <3>2, HeadTailProperties
      <4>2. rest = [index EXCEPT ![leaving.value] = Tail(index[leaving.value])]
        BY <3>2, <4>1 DEF Index!WithoutOldest
      <4> QED
        BY <1>3, <1>6, <3>2, <4>1, <4>2
    <3> QED
      BY <3>1, <3>2
  <2>2. index' = [rest EXCEPT ![value'] = Append(rest[value'], t')]
    BY <1>5 DEF Index!WithRecord
  <2> HIDE DEF rest
  <2>3. \A v \in Value : index'[v] = ListAfter(index[v], v, window, full, m)
    BY <1>1, <1>2, <2>1, <2>2 DEF ListAfter
  <2>4. index' = [v \in Value |-> index'[v]]
    BY <2>1, <2>2
  <2> QED
    BY <2>3, <2>4
<1> HIDE DEF y
<1>10. y \in [Value -> Seq(Nat)]
  <2>1. y = [v \in Value |-> y[v]]
    BY DEF y
  <2> QED
    BY <1>8, <2>1
<1>11. IndexMatchesWindow'
  BY <1>8, <1>9 DEF IndexMatchesWindow
<1> QED
  BY <1>1, <1>7, <1>9, <1>10, <1>11 DEF StoreInv

LEMMA StoreInvStep ==
  ASSUME BenchmarkInv, StoreInv, [Next]_vars
  PROVE  StoreInv'
<1>1. ASSUME NEW v \in Value, writeLine(v) \/ tearLine(v)
      PROVE  StoreInv'
  BY <1>1 DEF writeLine, tearLine, StoreInv, IndexMatchesWindow
<1>2. CASE endOfFile
  BY <1>2 DEF endOfFile, StoreInv, IndexMatchesWindow
<1>3. CASE openFile
  <2>1. /\ window' = <<>> /\ index' = Index!EmptyIndex
        /\ value' = value /\ t' = t
    BY <1>3 DEF openFile
  <2>2. window' \in Seq(Line) /\ index' \in [Value -> Seq(Nat)] /\ IndexMatchesWindow'
    BY <2>1, EmptyStoreMatches DEF IndexMatchesWindow
  <2> QED
    BY <2>1, <2>2 DEF StoreInv
<1>4. CASE readRecord
  BY <1>4, ShiftKeepsMatch
<1>5. CASE destroyStore
  <2>1. /\ window' = <<>> /\ index' = Index!EmptyIndex
        /\ value' = value /\ t' = t
    BY <1>5 DEF destroyStore
  <2>2. window' \in Seq(Line) /\ index' \in [Value -> Seq(Nat)] /\ IndexMatchesWindow'
    BY <2>1, EmptyStoreMatches DEF IndexMatchesWindow
  <2> QED
    BY <2>1, <2>2 DEF StoreInv
<1>6. CASE UNCHANGED vars
  BY <1>6 DEF vars, StoreInv, IndexMatchesWindow
<1> QED
  BY <1>1, <1>2, <1>3, <1>4, <1>5, <1>6 DEF Next

(* Array and tree agree in every round, for every file: also when a short  *)
(* file repeats its last line and a torn one mixes two.                    *)
THEOREM ArrayAndTreeAgree == Spec => []IndexMatchesWindow
<1>1. Init => StoreInv
  <2> SUFFICES ASSUME Init PROVE StoreInv
    OBVIOUS
  <2>1. window = <<>> /\ index = Index!EmptyIndex
    BY DEF Init
  <2>2. value \in Value /\ t \in Nat
    BY BenchmarkAssumption DEF Init
  <2> QED
    BY <2>1, <2>2, EmptyStoreMatches DEF StoreInv, IndexMatchesWindow
<1>2. BenchmarkInv /\ StoreInv /\ [Next]_vars => StoreInv'
  BY StoreInvStep
<1>3. StoreInv => IndexMatchesWindow
  BY DEF StoreInv
<1> QED
  BY <1>1, <1>2, <1>3, BenchmarkInvariant, PTL DEF Spec
=============================================================================
