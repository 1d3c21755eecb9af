----------------------------- MODULE MCBPlusTree -----------------------------
(* Instances of BPlusTree for TLC. *)
EXTENDS BPlusTree

CONSTANT MaxTimes    \* bound on the length of one list of time points

HasRoom(v) == Len(treeIndex[v]) < MaxTimes

MCNext ==
  \/ \E t \in Time, v \in Value : HasRoom(v) /\ addRecordToTree(t, v)
  \/ \E v \in Value : delete(v)
  \/ insertIntoParent
  \/ deleteEntryFromParent
  \/ BPlusTree_destroy
  \/ BPlusTree_new

MCSpec == Init /\ [][MCNext]_treeVars /\ WF_treeVars(Recurse)
=============================================================================
