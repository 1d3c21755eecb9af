------------------------------ MODULE TimeIndex ------------------------------
(***************************************************************************)
(* What the B+ tree promises its caller: for every value, the time points  *)
(* at which it was measured, oldest first.  Adding a record appends its    *)
(* time to the value's list; deleting a value drops the oldest time of the *)
(* list, whatever time the caller passes.                                  *)
(***************************************************************************)
EXTENDS Sequences

CONSTANTS Value, Time

VARIABLE index       \* [Value -> Seq(Time)]

EmptyIndex == [v \in Value |-> <<>>]

WithRecord(idx, t, v) == [idx EXCEPT ![v] = Append(@, t)]

WithoutOldest(idx, v) ==
  IF idx[v] = <<>> THEN idx ELSE [idx EXCEPT ![v] = Tail(@)]

Init == index = EmptyIndex

(* addRecordToTree *)
Add(t, v) == index' = WithRecord(index, t, v)

(* delete *)
Delete(v) == index' = WithoutOldest(index, v)

(* BPlusTree_destroy, then BPlusTree_new for the next window *)
Clear == index' = EmptyIndex

Next ==
  \/ \E t \in Time, v \in Value : Add(t, v)
  \/ \E v \in Value : Delete(v)
  \/ Clear

Spec == Init /\ [][Next]_index
=============================================================================
