--------------------------- MODULE MCSeriesWindow ---------------------------
(* SeriesWindow for TLC: the cells hold few different contents before they *)
(* are written, and the first measurement may have any early time.         *)
EXTENDS SeriesWindow

CONSTANT FirstTimes   \* time points of the first measurement

MCGarbage == {[time |-> t, value |-> v] : t \in {0, 17, 21}, v \in Value}

MCNext ==
  \E t \in Time, v \in Value :
    /\ count = 0 => t \in FirstTimes
    /\ shift(t, v)

MCSpec == Init /\ [][MCNext]_windowVars
=============================================================================
