---------------------------- MODULE MCSeriesStore ----------------------------
(* SeriesStore for TLC: one content for unwritten cells; time starts as in *)
(* the data set.                                                           *)
EXTENDS SeriesStore

MCGarbage == {[time |-> 0, value |-> CHOOSE v \in Value : TRUE]}

FirstTime(t) == count = 0 => t = TIMESTAMP_DIFF

MCNext ==
  \/ \E t \in Time, v \in Value : FirstTime(t) /\ shiftWhileFilling(t, v)
  \/ \E t \in Time, v \in Value : shiftWhenFull(t, v)
  \/ afterDelete
  \/ treeRecursion

MCSpec == Init /\ [][MCNext]_storeVars /\ WF_storeVars(Continue)
=============================================================================
