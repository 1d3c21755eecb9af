--------------------------- MODULE MCBPlusTreeTall ---------------------------
(* Taller trees from fewer orders of calls: keys arrive in ascending or in *)
(* descending order until the first deletion; then no key arrives, and the *)
(* keys deleted so far are consecutive: the first one is any key, the next *)
(* one borders on the gap.                                                 *)
EXTENDS BPlusTree

VARIABLE deleted

MCvars == <<treeVars, deleted>>

Keys == UNION {ToSet(nodes[leaf].keys) : leaf \in Leaves}

NextKey(v) == Keys = {w \in Value : w < v} \/ Keys = {w \in Value : w > v}

Grow(t, v) ==
  /\ deleted = {}
  /\ NextKey(v)
  /\ addRecordToTree(t, v)
  /\ UNCHANGED deleted

Shrink(v) ==
  /\ deleted # {} => v - 1 \in deleted \/ v + 1 \in deleted
  /\ delete(v)
  /\ deleted' = deleted \union {v}

MCNext ==
  \/ \E t \in Time, v \in Value : Grow(t, v)
  \/ \E v \in Keys : Shrink(v)
  \/ insertIntoParent /\ UNCHANGED deleted
  \/ deleteEntryFromParent /\ UNCHANGED deleted

MCInit == Init /\ deleted = {}

MCSpec == MCInit /\ [][MCNext]_MCvars /\ WF_MCvars(Recurse /\ UNCHANGED deleted)
=============================================================================
