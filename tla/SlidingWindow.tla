---------------------------- MODULE SlidingWindow ----------------------------
(***************************************************************************)
(* What the circular array promises its caller: it holds the Size latest   *)
(* measurements of the series, and a lookup finds exactly those.           *)
(***************************************************************************)
EXTENDS Integers, Sequences

CONSTANTS Size, Value, Time, TIMESTAMP_DIFF

VARIABLE window      \* the measurements held, oldest first

Measurement == [time : Time, value : Value]

(* The series is regular: TIMESTAMP_DIFF between two measurements.         *)
IsNext(w, t) == w # <<>> => t = w[Len(w)].time + TIMESTAMP_DIFF

(* A full window gives up its oldest measurement. *)
WithLatest(w, m) == Append(IF Len(w) < Size THEN w ELSE Tail(w), m)

(* The values a lookup of time t may return: at most one. *)
Found(w, t) == {w[i].value : i \in {j \in 1..Len(w) : w[j].time = t}}

Init == window = <<>>

(* serie_update *)
Update(t, v) ==
  /\ IsNext(window, t)
  /\ window' = WithLatest(window, [time |-> t, value |-> v])

Next == \E t \in Time, v \in Value : Update(t, v)

Spec == Init /\ [][Next]_window
=============================================================================
