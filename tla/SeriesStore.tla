----------------------------- MODULE SeriesStore -----------------------------
(***************************************************************************)
(* The whole data structure: the circular array and the B+ tree on its     *)
(* heap, composed by shift, in the order in which serie_update does it:    *)
(* delete the oldest record from the tree, overwrite it in the array, add  *)
(* the new record to the tree.  Array and tree disagree in between; the    *)
(* splits and merges the two tree operations set off run to their end      *)
(* before the next statement.                                              *)
(***************************************************************************)
EXTENDS CircularArray, Sequences

CONSTANTS nodeSize, Node, NULL

(* What BPlusTree assumes of its constants. *)
ASSUME nodeSizeAssumption == nodeSize \in Nat \ {0}
ASSUME NULLAssumption == NULL \notin Node
ASSUME ValueAssumption == Value \subseteq Int

VARIABLES
  root, nodes, call, unfreed,   \* the tree, as in BPlusTree
  incoming      \* the measurement of the shift that is deleting the oldest
                \* record, if there is one: a set of at most one

Tree == INSTANCE BPlusTree

treeVars == <<root, nodes, call, unfreed>>
storeVars == <<arrayVars, treeVars, incoming>>

oldest == data[newUpdatePosition]

Init == ArrayInit /\ Tree!Init /\ incoming = {}

(* Mutant of overwriteAndAdd: the tree gets the time of the record before. *)
overwriteAndAddLate(t, v) ==
  /\ Write(t, v)
  /\ Tree!addRecordToTree(data[lastUpdatePosition].time, v)
  /\ incoming' = {}

(* The last two statements of serie_update. *)
overwriteAndAdd(t, v) ==
  /\ Write(t, v)
  /\ Tree!addRecordToTree(t, v)
  /\ incoming' = {}

shiftWhileFilling(t, v) ==
  /\ incoming = {}
  /\ IsNextTime(t)
  /\ ~isFull
  /\ overwriteAndAdd(t, v)

(* Mutant of shiftWhenFull: the record written last is deleted. *)
shiftDeletingLatest(t, v) ==
  /\ incoming = {}
  /\ IsNextTime(t)
  /\ isFull
  /\ Tree!delete(data[lastUpdatePosition].value)
  /\ incoming' = {[time |-> t, value |-> v]}
  /\ UNCHANGED arrayVars

shiftWhenFull(t, v) ==
  /\ incoming = {}
  /\ IsNextTime(t)
  /\ isFull
  /\ Tree!delete(oldest.value)
  /\ incoming' = {[time |-> t, value |-> v]}
  /\ UNCHANGED arrayVars

afterDelete == \E m \in incoming : overwriteAndAdd(m.time, m.value)

treeRecursion == Tree!Recurse /\ UNCHANGED <<arrayVars, incoming>>

(* What the program does without a further measurement. *)
Continue == afterDelete \/ treeRecursion

Next ==
  \/ \E t \in Time, v \in Value : shiftWhileFilling(t, v) \/ shiftWhenFull(t, v)
  \/ Continue

Spec == Init /\ [][Next]_storeVars

FairSpec == Spec /\ WF_storeVars(Continue)

-----------------------------------------------------------------------------
(*                                Properties                               *)

(* An overwritten record stays in the index as long as it is in the array, *)
(* although the tree loses it earlier.                                     *)
storeIndex ==
  IF incoming = {} THEN Tree!treeIndex
  ELSE [Tree!treeIndex EXCEPT ![oldest.value] = <<oldest.time>> \o @]

Series == INSTANCE SeriesWindow WITH index <- storeIndex

(* Array and tree implement SeriesWindow, where a shift is one step: the   *)
(* tree never holds a time of a measurement that has left the array, nor   *)
(* lacks one that is in it, except for the oldest while it is replaced.    *)
ImplementsSeriesWindow == Series!Spec

(* The tree of a full array is not empty (delete dereferences its root's   *)
(* leaf) and has the record to be deleted, first in its list: the message  *)
(* "ERROR - RECORD THAT SHOULD GET DELETED IS NOT IN TREE" never appears.  *)
DeleteFindsTheRecord ==
  incoming = {} /\ call = Tree!Returned /\ isFull =>
    /\ root # NULL
    /\ LET leaf == Tree!findLeaf(oldest.value)
       IN  /\ Tree!isDuplicateKey(leaf, oldest.value)
           /\ Head(nodes[leaf].pointers[Tree!PositionOf(nodes[leaf].keys, oldest.value)])
                = oldest.time

(* Each shift comes to its end, with the new measurement in the array and  *)
(* all recursive calls returned.                                           *)
ShiftsReturn ==
  incoming # {} ~> incoming = {} /\ call = Tree!Returned
=============================================================================
