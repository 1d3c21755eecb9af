----------------------------- MODULE NodeArrays -----------------------------
(***************************************************************************)
(* The arithmetic of one B+ tree node: where a full node is split, where a *)
(* key goes among sorted keys, how many keys a node must keep.  A node's   *)
(* arrays keys[0..numOfKeys-1] and pointers[] are sequences here, so       *)
(* numOfKeys is Len(keys) and index i of the code is position i + 1.       *)
(* Insert points and neighbour indices keep the values the code gives them *)
(* (0-based).                                                              *)
(***************************************************************************)
EXTENDS Integers, Sequences, SequencesExt, FiniteSetsExt

(* getSplitPoint: half of length, rounded up. *)
getSplitPoint(length) ==
  IF length % 2 = 0 THEN length \div 2 ELSE length \div 2 + 1

(* getInsertPoint: skip keys while they are <= key; equal keys are skipped *)
(* too, so a separator leads to the child on its right.                    *)
getInsertPoint(keys, key) ==
  Min({i \in 0..Len(keys) : i < Len(keys) => keys[i + 1] > key})

(* The position of the first occurrence of x in s; the code's search loops *)
(* stop there.                                                             *)
PositionOf(s, x) == CHOOSE i \in 1..Len(s) : s[i] = x /\ \A j \in 1..(i - 1) : s[j] # x

-----------------------------------------------------------------------------
(* Thresholds used by deleteEntry. *)
minLeafKeys(nodeSize)  == getSplitPoint(nodeSize)
minInnerKeys(nodeSize) == getSplitPoint(nodeSize + 1) - 1

(* A full leaf and its new key make nodeSize + 1 keys; the old leaf keeps  *)
(* the first getSplitPoint(nodeSize) of them.                              *)
leftLeafKeys(nodeSize)  == getSplitPoint(nodeSize)
rightLeafKeys(nodeSize) == nodeSize + 1 - leftLeafKeys(nodeSize)

(* Mutant of leftInnerKeys: the key that moves up is kept as well. *)
leftInnerKeysAndMiddle(nodeSize) == getSplitPoint(nodeSize + 1) + 1

(* A full inner node keeps getSplitPoint(nodeSize + 1) of nodeSize + 1     *)
(* keys, the next one moves up, the rest goes to the new node.             *)
leftInnerKeys(nodeSize)  == getSplitPoint(nodeSize + 1)
rightInnerKeys(nodeSize) == nodeSize + 1 - leftInnerKeys(nodeSize) - 1

(* Keys in strictly ascending order: no value has two entries in a node.   *)
Ascending(keys) == \A i, j \in 1..Len(keys) : i < j => keys[i] < keys[j]
=============================================================================
