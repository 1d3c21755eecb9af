--------------------------- MODULE SeriesStoreProofs ---------------------------
(***************************************************************************)
(* The store as the code runs it implements the store with an atomic       *)
(* shift, and the deletion of a shift finds its record, for every size of  *)
(* the array, every node size from 3 on and all values.                    *)
(*                                                                         *)
(* What is proved of the tree and of the array with an atomic index is     *)
(* used here through instances: the tree with the variables of the store,  *)
(* and the array with storeIndex, in which a record stays until it is      *)
(* overwritten.                                                            *)
(***************************************************************************)
EXTENDS SeriesStore, TLAPS

TreeProofs == INSTANCE BPlusTreeProofs

SeriesProofs == INSTANCE SeriesWindowProofs WITH index <- storeIndex

(* malloc finds an address. *)
MemoryLeft == DOMAIN nodes # Node

-----------------------------------------------------------------------------
(* SeriesStore and BPlusTreeProofs have an instance of BPlusTree each.     *)
(* Their definitions are the same.                                         *)

LEMMA SameInit == Tree!Init <=> TreeProofs!Init
BY
  DEF Tree!Init, TreeProofs!Init, Tree!Returned, TreeProofs!Returned

LEMMA SameIndex == Tree!treeIndex = TreeProofs!treeIndex /\ Tree!treeIndex' = TreeProofs!treeIndex'
<1> DEFINE entries == UNION {Tree!ToSet(Tree!Zip(nodes[leaf].keys, nodes[leaf].pointers)) :
                               leaf \in Tree!Leaves}
           same == UNION {TreeProofs!ToSet(TreeProofs!Zip(nodes[leaf].keys, nodes[leaf].pointers)) :
                            leaf \in TreeProofs!Leaves}
           timesOf(found, v) == LET entry == {e \in found : e[1] = v}
                                IN  IF entry = {} THEN <<>> ELSE (CHOOSE e \in entry : TRUE)[2]
<1>1. Tree!treeIndex = [v \in Value |-> timesOf(entries, v)]
  BY Zenon DEF Tree!treeIndex
<1>2. TreeProofs!treeIndex = [v \in Value |-> timesOf(same, v)]
  BY Zenon DEF TreeProofs!treeIndex
<1>3. Tree!treeIndex' = [v \in Value |-> timesOf(entries', v)]
  BY Zenon DEF Tree!treeIndex
<1>4. TreeProofs!treeIndex' = [v \in Value |-> timesOf(same', v)]
  BY Zenon DEF TreeProofs!treeIndex
<1>5. entries = same /\ entries' = same'
  <2>1. Tree!Leaves = TreeProofs!Leaves /\ Tree!Leaves' = TreeProofs!Leaves'
    BY Zenon DEF Tree!Leaves, TreeProofs!Leaves, Tree!LiveNodes, TreeProofs!LiveNodes
  <2>2. entries = same
    BY <2>1, Zenon DEF Tree!Zip, TreeProofs!Zip, Tree!ToSet, TreeProofs!ToSet
  <2>3. entries' = same'
    BY <2>1, Zenon DEF Tree!Zip, TreeProofs!Zip, Tree!ToSet, TreeProofs!ToSet
  <2> QED
    BY <2>2, <2>3
<1> HIDE DEF entries, same, timesOf
<1> QED
  BY <1>1, <1>2, <1>3, <1>4, <1>5, Zenon

LEMMA SameAdd ==
  ASSUME NEW t, NEW v
  PROVE  Tree!addRecordToTree(t, v) <=> TreeProofs!addRecordToTree(t, v)
<1>1. ASSUME NEW keys, NEW k
      PROVE  Tree!getInsertPoint(keys, k) = TreeProofs!getInsertPoint(keys, k)
  BY Zenon DEF Tree!getInsertPoint, TreeProofs!getInsertPoint, Tree!Min,
           TreeProofs!Min
<1>2. Tree!findLeaf(v) = TreeProofs!findLeaf(v)
  <2>1. Tree!Cardinality(DOMAIN nodes) = TreeProofs!Cardinality(DOMAIN nodes)
    BY Zenon DEF Tree!Cardinality, TreeProofs!Cardinality
  <2> QED
    BY <1>1, <2>1, Zenon DEF Tree!findLeaf, TreeProofs!findLeaf
<1>3. Tree!newTree(t, v) <=> TreeProofs!newTree(t, v)
  BY Zenon
  DEF Tree!newTree, TreeProofs!newTree, Tree!malloc, TreeProofs!malloc,
      Tree!allocated, TreeProofs!allocated, Tree!Leaf_new,
      TreeProofs!Leaf_new
<1>4. ASSUME NEW leaf
      PROVE  /\ Tree!isDuplicateKey(leaf, v) <=> TreeProofs!isDuplicateKey(leaf, v)
             /\ Tree!numOfKeys(leaf) = TreeProofs!numOfKeys(leaf)
  BY Zenon
  DEF Tree!isDuplicateKey, TreeProofs!isDuplicateKey, Tree!ToSet,
      TreeProofs!ToSet, Tree!numOfKeys, TreeProofs!numOfKeys
<1>5. ASSUME NEW leaf
      PROVE  Tree!addDuplicateToDoublyLinkedList(leaf, t, v)
               <=> TreeProofs!addDuplicateToDoublyLinkedList(leaf, t, v)
  BY <1>4, Zenon
  DEF Tree!addDuplicateToDoublyLinkedList,
      TreeProofs!addDuplicateToDoublyLinkedList, Tree!PositionOf,
      TreeProofs!PositionOf, Tree!Min, TreeProofs!Min
<1>6. ASSUME NEW leaf
      PROVE  Tree!insertRecordIntoLeaf(leaf, t, v)
               <=> TreeProofs!insertRecordIntoLeaf(leaf, t, v)
  BY <1>1, <1>4, Zenon
  DEF Tree!insertRecordIntoLeaf, TreeProofs!insertRecordIntoLeaf,
      Tree!InsertAt, TreeProofs!InsertAt
<1>7. ASSUME NEW leaf
      PROVE  Tree!splitAndInsertIntoLeaves(leaf, t, v)
               <=> TreeProofs!splitAndInsertIntoLeaves(leaf, t, v)
  BY Zenon
  DEF Tree!splitAndInsertIntoLeaves,
      TreeProofs!splitAndInsertIntoLeaves, Tree!isDuplicateKey,
      TreeProofs!isDuplicateKey, Tree!ToSet, TreeProofs!ToSet,
      Tree!numOfKeys, TreeProofs!numOfKeys, Tree!getInsertPoint,
      TreeProofs!getInsertPoint, Tree!Min, TreeProofs!Min,
      Tree!InsertAt, TreeProofs!InsertAt, Tree!upperHalf,
      TreeProofs!upperHalf, Tree!leftLeafKeys, TreeProofs!leftLeafKeys,
      Tree!getSplitPoint, TreeProofs!getSplitPoint, Tree!malloc,
      TreeProofs!malloc, Tree!allocated, TreeProofs!allocated,
      Tree!Leaf_new, TreeProofs!Leaf_new, Tree!SetPrev,
      TreeProofs!SetPrev, Tree!insertIntoParentCall,
      TreeProofs!insertIntoParentCall
<1> QED
  BY <1>2, <1>3, <1>5, <1>6, <1>7, Zenon
  DEF Tree!addRecordToTree, TreeProofs!addRecordToTree, Tree!Returned,
      TreeProofs!Returned

LEMMA SameRemoval ==
  ASSUME NEW n, NEW k, NEW p
  PROVE  Tree!removeEntryFromTheNode(n, k, p) = TreeProofs!removeEntryFromTheNode(n, k, p)
BY
  DEF Tree!removeEntryFromTheNode, TreeProofs!removeEntryFromTheNode,
      Tree!PositionOf, TreeProofs!PositionOf, Tree!RemoveAt,
      TreeProofs!RemoveAt

LEMMA SameReturn ==
  ASSUME NEW h
  PROVE  /\ Tree!ReturnFromDelete(h) <=> TreeProofs!ReturnFromDelete(h)
         /\ Tree!adjustTheRoot(h) <=> TreeProofs!adjustTheRoot(h)
BY
  DEF Tree!adjustTheRoot, TreeProofs!adjustTheRoot, Tree!ReturnFromDelete,
      TreeProofs!ReturnFromDelete, Tree!free, TreeProofs!free, Tree!Restrict,
      TreeProofs!Restrict, Tree!SetParent, TreeProofs!SetParent,
      Tree!Returned, TreeProofs!Returned

LEMMA SameTakes ==
  ASSUME NEW h, NEW n, NEW m, NEW i, NEW k
  PROVE  /\ Tree!takeFromLeftNeighbour(h, n, m, i, k) = TreeProofs!takeFromLeftNeighbour(h, n, m, i, k)
         /\ Tree!takeFromRightNeighbour(h, n, m, i, k) = TreeProofs!takeFromRightNeighbour(h, n, m, i, k)
BY
  DEF Tree!takeFromRightNeighbour, TreeProofs!takeFromRightNeighbour,
      Tree!takeFromLeftNeighbour, TreeProofs!takeFromLeftNeighbour,
      Tree!newSeparator, TreeProofs!newSeparator, Tree!lastPointer,
      TreeProofs!lastPointer, Tree!Last, TreeProofs!Last, Tree!Front,
      TreeProofs!Front, Tree!SetParent, TreeProofs!SetParent

LEMMA SameMerge ==
  ASSUME NEW h, NEW l, NEW r, NEW k
  PROVE  Tree!mergeNodes(h, l, r, k) <=> TreeProofs!mergeNodes(h, l, r, k)
BY
  DEF Tree!mergeNodes, TreeProofs!mergeNodes, Tree!SetPrev,
      TreeProofs!SetPrev, Tree!SetParent, TreeProofs!SetParent, Tree!ToSet,
      TreeProofs!ToSet, Tree!deleteEntryCall, TreeProofs!deleteEntryCall

LEMMA SameRepair ==
  ASSUME NEW h, NEW n
  PROVE  Tree!mergeOrRedistribute(h, n) <=> TreeProofs!mergeOrRedistribute(h, n)
<1>1. /\ Tree!getNeighbourIndex(h, n) = TreeProofs!getNeighbourIndex(h, n)
      /\ Tree!capacity(n) = TreeProofs!capacity(n)
  BY
  DEF Tree!getNeighbourIndex, TreeProofs!getNeighbourIndex, Tree!PositionOf,
      TreeProofs!PositionOf, Tree!capacity, TreeProofs!capacity
<1> QED
  BY <1>1, SameReturn, SameTakes, SameMerge
  DEF Tree!mergeOrRedistribute, TreeProofs!mergeOrRedistribute

LEMMA SameDeleteEntry ==
  ASSUME NEW n, NEW k, NEW p
  PROVE  Tree!deleteEntry(n, k, p) <=> TreeProofs!deleteEntry(n, k, p)
BY SameRemoval, SameReturn, SameRepair
  DEF Tree!deleteEntry, TreeProofs!deleteEntry, Tree!minNumberofKeys,
      TreeProofs!minNumberofKeys, Tree!minLeafKeys, TreeProofs!minLeafKeys,
      Tree!minInnerKeys, TreeProofs!minInnerKeys, Tree!getSplitPoint,
      TreeProofs!getSplitPoint

LEMMA SameDelete ==
  ASSUME NEW v
  PROVE  Tree!delete(v) <=> TreeProofs!delete(v)
<1>1. Tree!deleteEntry(Tree!findLeaf(v), v, NULL) <=> TreeProofs!deleteEntry(Tree!findLeaf(v), v, NULL)
  BY SameDeleteEntry
<1>2. Tree!findLeaf(v) = TreeProofs!findLeaf(v)
  BY
  DEF Tree!findLeaf, TreeProofs!findLeaf, Tree!getInsertPoint,
      TreeProofs!getInsertPoint, Tree!Min, TreeProofs!Min, Tree!Cardinality,
      TreeProofs!Cardinality
<1>3. /\ Tree!Returned = TreeProofs!Returned
      /\ Tree!treeVars = TreeProofs!treeVars /\ Tree!treeVars' = TreeProofs!treeVars'
  BY Zenon DEF Tree!Returned, TreeProofs!Returned, Tree!treeVars, TreeProofs!treeVars
<1>4. \A s, x : Tree!PositionOf(s, x) = TreeProofs!PositionOf(s, x)
  BY Zenon DEF Tree!PositionOf, TreeProofs!PositionOf
<1>5. \A n, k : Tree!isDuplicateKey(n, k) <=> TreeProofs!isDuplicateKey(n, k)
  BY Zenon
  DEF Tree!isDuplicateKey, TreeProofs!isDuplicateKey, Tree!ToSet, TreeProofs!ToSet
<1> QED
  BY <1>1, <1>2, <1>3, <1>4, <1>5, Zenon DEF Tree!delete, TreeProofs!delete

LEMMA SameInsert ==
  ASSUME NEW l, NEW k, NEW r
  PROVE  /\ Tree!insertIntoANewRoot(l, k, r) <=> TreeProofs!insertIntoANewRoot(l, k, r)
         /\ Tree!insertIntoTheNode(l, k, r) <=> TreeProofs!insertIntoTheNode(l, k, r)
         /\ Tree!splitAndInsertIntoInnerNode(l, k, r) <=> TreeProofs!splitAndInsertIntoInnerNode(l, k, r)
BY
  DEF Tree!insertIntoANewRoot, TreeProofs!insertIntoANewRoot,
      Tree!insertIntoTheNode, TreeProofs!insertIntoTheNode,
      Tree!splitAndInsertIntoInnerNode,
      TreeProofs!splitAndInsertIntoInnerNode, Tree!malloc, TreeProofs!malloc,
      Tree!allocated, TreeProofs!allocated, Tree!SetParent,
      TreeProofs!SetParent, Tree!Node_new, TreeProofs!Node_new, Tree!Returned,
      TreeProofs!Returned, Tree!numOfKeys, TreeProofs!numOfKeys,
      Tree!InsertAt, TreeProofs!InsertAt, Tree!PositionOf,
      TreeProofs!PositionOf, Tree!leftInnerKeys, TreeProofs!leftInnerKeys,
      Tree!getSplitPoint, TreeProofs!getSplitPoint, Tree!ToSet,
      TreeProofs!ToSet, Tree!insertIntoParentCall,
      TreeProofs!insertIntoParentCall

LEMMA SameRecurse == Tree!Recurse <=> TreeProofs!Recurse
BY SameInsert, SameDeleteEntry
  DEF Tree!Recurse, TreeProofs!Recurse, Tree!insertIntoParent,
      TreeProofs!insertIntoParent, Tree!deleteEntryFromParent,
      TreeProofs!deleteEntryFromParent

-----------------------------------------------------------------------------
(*                    The measurement that is on its way                   *)

(* While the oldest record is being deleted, the array is full and the new *)
(* measurement follows its latest one.                                     *)
IncomingFits == \A m \in incoming : m \in Serie /\ IsNextTime(m.time) /\ isFull

LEMMA IncomingStep ==
  ASSUME IncomingFits, [Next]_storeVars
  PROVE  IncomingFits'
<1>1. CASE UNCHANGED storeVars
  BY <1>1 DEF storeVars, arrayVars, IncomingFits, IsNextTime, isFull
<1>2. ASSUME NEW t \in Time, NEW v \in Value, shiftWhileFilling(t, v)
      PROVE  IncomingFits'
  BY <1>2 DEF shiftWhileFilling, overwriteAndAdd, IncomingFits
<1>3. ASSUME NEW t \in Time, NEW v \in Value, shiftWhenFull(t, v)
      PROVE  IncomingFits'
  <2>1. incoming' = {[time |-> t, value |-> v]} /\ UNCHANGED arrayVars /\ IsNextTime(t) /\ isFull
    BY <1>3 DEF shiftWhenFull
  <2>2. [time |-> t, value |-> v] \in Serie
    BY <1>3 DEF Serie
  <2> QED
    BY <2>1, <2>2 DEF IncomingFits, IsNextTime, isFull, arrayVars
<1>4. CASE afterDelete
  BY <1>4 DEF afterDelete, overwriteAndAdd, IncomingFits
<1>5. CASE treeRecursion
  BY <1>5 DEF treeRecursion, arrayVars, IncomingFits, IsNextTime, isFull
<1> QED
  BY <1>1, <1>2, <1>3, <1>4, <1>5 DEF Next, Continue

LEMMA IncomingAlwaysFits == Spec => []IncomingFits
<1>1. Init => IncomingFits
  BY DEF Init, IncomingFits
<1> QED
  BY <1>1, IncomingStep, PTL DEF Spec

(* The array's part of a step is a step of the circular array.             *)
LEMMA ArrayOfStore ==
  ASSUME IncomingFits, [Next]_storeVars
  PROVE  [ArrayNext]_arrayVars
<1>1. ASSUME NEW t \in Time, NEW v \in Value, shiftWhileFilling(t, v)
      PROVE  ArrayNext
  BY <1>1 DEF shiftWhileFilling, overwriteAndAdd, ArrayNext, serie_update
<1>2. CASE afterDelete
  <2>1. PICK m \in incoming : overwriteAndAdd(m.time, m.value)
    BY <1>2 DEF afterDelete
  <2>2. m.time \in Time /\ m.value \in Value /\ IsNextTime(m.time)
    BY DEF IncomingFits, Serie
  <2> QED
    BY <2>1, <2>2 DEF overwriteAndAdd, ArrayNext, serie_update
<1> QED
  BY <1>1, <1>2 DEF Next, Continue, storeVars, shiftWhenFull, treeRecursion

(* What SeriesWindowProofs assumes of the unwritten cells.                 *)
LEMMA SeriesAssumed == Garbage \subseteq SeriesProofs!Serie /\ Garbage # {}
BY GarbageAssumption DEF Serie, Time, SeriesProofs!Serie, SeriesProofs!Time

LEMMA ArrayTypeCorrect == Spec => []ArrayTypeOK
<1>1. Init => ArrayTypeOK
  BY SizeAssumption, GarbageAssumption DEF Init, ArrayInit, ArrayTypeOK, Position
<1>2. ASSUME ArrayTypeOK, [ArrayNext]_arrayVars
      PROVE  ArrayTypeOK'
  <2>1. SeriesProofs!ArrayTypeOK /\ [SeriesProofs!ArrayNext]_(SeriesProofs!arrayVars)
    BY <1>2 DEF ArrayTypeOK, ArrayNext, serie_update, Write, IsNextTime, isFull, newUpdatePosition,
      arrayVars, Position, Serie, Time,
      SeriesProofs!ArrayTypeOK, SeriesProofs!ArrayNext, SeriesProofs!serie_update,
      SeriesProofs!Write, SeriesProofs!IsNextTime, SeriesProofs!isFull,
      SeriesProofs!newUpdatePosition, SeriesProofs!arrayVars, SeriesProofs!Position,
      SeriesProofs!Serie, SeriesProofs!Time
  <2>2. SeriesProofs!ArrayTypeOK'
    BY <2>1, SeriesProofs!ArrayTypeStep, SizeAssumption, DiffAssumption, WidthAssumption,
       SeriesAssumed
  <2> QED
    BY <2>2 DEF ArrayTypeOK, Position, Serie, Time, SeriesProofs!ArrayTypeOK,
      SeriesProofs!Position, SeriesProofs!Serie, SeriesProofs!Time
<1> QED
  BY <1>1, <1>2, ArrayOfStore, IncomingAlwaysFits, PTL DEF Spec

-----------------------------------------------------------------------------
(*                          The tree of the store                          *)

LEMMA OldestIsRecord ==
  ASSUME ArrayTypeOK
  PROVE  oldest \in Serie
<1>1. (lastUpdatePosition + 1) % Size \in Position /\ 0 \in Position
  BY SizeAssumption DEF ArrayTypeOK, Position
<1> QED
  BY <1>1 DEF oldest, newUpdatePosition, ArrayTypeOK

(* The tree's part of a step is a step of the tree. *)
LEMMA TreeOfStore ==
  ASSUME IncomingFits, ArrayTypeOK, [Next]_storeVars
  PROVE  [TreeProofs!Next]_(TreeProofs!treeVars)
<1>1. ASSUME NEW t \in Time, NEW v \in Value, shiftWhileFilling(t, v)
      PROVE  TreeProofs!Next
  BY <1>1, SameAdd DEF shiftWhileFilling, overwriteAndAdd, TreeProofs!Next
<1>2. ASSUME NEW t \in Time, NEW v \in Value, shiftWhenFull(t, v)
      PROVE  TreeProofs!Next
  <2>1. oldest.value \in Value
    BY OldestIsRecord DEF Serie
  <2>2. TreeProofs!delete(oldest.value)
    BY <1>2, SameDelete DEF shiftWhenFull
  <2> QED
    BY <2>1, <2>2 DEF TreeProofs!Next
<1>3. CASE afterDelete
  <2>1. PICK m \in incoming : overwriteAndAdd(m.time, m.value)
    BY <1>3 DEF afterDelete
  <2>2. m.time \in Time /\ m.value \in Value
    BY DEF IncomingFits, Serie
  <2>3. TreeProofs!addRecordToTree(m.time, m.value)
    BY <2>1, SameAdd DEF overwriteAndAdd
  <2> QED
    BY <2>2, <2>3 DEF TreeProofs!Next
<1>4. CASE treeRecursion
  BY <1>4, SameRecurse DEF treeRecursion, TreeProofs!Next
<1>5. CASE UNCHANGED storeVars
  BY <1>5 DEF storeVars, treeVars, TreeProofs!treeVars
<1> QED
  BY <1>1, <1>2, <1>3, <1>4, <1>5 DEF Next, Continue

(* So the store uses the tree as it may be used, and all that is proved of *)
(* the tree holds of the store's.                                          *)
LEMMA StoreUsesTree == Spec => TreeProofs!Spec
<1>1. Init => TreeProofs!Init
  BY SameInit DEF Init
<1> QED
  BY <1>1, TreeOfStore, IncomingAlwaysFits, ArrayTypeCorrect, PTL DEF Spec, TreeProofs!Spec

LEMMA TreeOfStoreConsistent ==
  ASSUME nodeSize >= 3
  PROVE  Spec /\ []MemoryLeft => [](TreeProofs!TreeInv /\ TreeProofs!TreeIndexed)
<1>1. MemoryLeft => TreeProofs!MemoryLeft
  BY DEF MemoryLeft, TreeProofs!MemoryLeft
<1>2. TreeProofs!Spec /\ []TreeProofs!MemoryLeft => []TreeProofs!TreeInv
  BY TreeProofs!TreeAlwaysConsistent, nodeSizeAssumption, NULLAssumption, ValueAssumption
<1>3. TreeProofs!TreeInv => TreeProofs!TreeIndexed
  BY TreeProofs!TreeHasIndex, nodeSizeAssumption, NULLAssumption, ValueAssumption
<1> QED
  BY <1>1, <1>2, <1>3, StoreUsesTree, PTL

-----------------------------------------------------------------------------
(*                    The index with the record on its way                 *)

(* A shift of the array with its index, spelled out.                       *)
Shifted(t, v) ==
  /\ IsNextTime(t) /\ Write(t, v)
  /\ storeIndex' =
       LET u == oldest.value
           kept == IF isFull /\ storeIndex[u] # <<>>
                   THEN [storeIndex EXCEPT ![u] = Tail(@)] ELSE storeIndex
       IN  [kept EXCEPT ![v] = Append(@, t)]

LEMMA ShiftOfSeries ==
  ASSUME NEW t, NEW v, Shifted(t, v)
  PROVE  Series!shift(t, v) /\ SeriesProofs!shift(t, v)
<1> DEFINE u == oldest.value
           remaining == IF isFull THEN IF storeIndex[u] = <<>> THEN storeIndex
                                       ELSE [storeIndex EXCEPT ![u] = Tail(@)]
                        ELSE storeIndex
<1>1. IsNextTime(t) /\ Write(t, v) /\ storeIndex' = [remaining EXCEPT ![v] = Append(@, t)]
  BY DEF Shifted
<1>2. /\ Series!newUpdatePosition = newUpdatePosition
      /\ SeriesProofs!newUpdatePosition = newUpdatePosition
  BY Zenon DEF newUpdatePosition, Series!newUpdatePosition, SeriesProofs!newUpdatePosition
<1>3. /\ Series!isFull <=> isFull
      /\ SeriesProofs!isFull <=> isFull
  BY Zenon DEF isFull, Series!isFull, SeriesProofs!isFull
<1>4. Series!oldest.value = u /\ SeriesProofs!oldest.value = u
  BY <1>2, Zenon DEF oldest, Series!oldest, SeriesProofs!oldest
<1>5. Series!serie_update(t, v)
  BY <1>1, <1>2, <1>3, Zenon
  DEF IsNextTime, Write, Series!serie_update, Series!IsNextTime, Series!Write
<1>6. SeriesProofs!serie_update(t, v)
  BY <1>1, <1>2, <1>3, Zenon
  DEF IsNextTime, Write, SeriesProofs!serie_update, SeriesProofs!IsNextTime, SeriesProofs!Write
<1> HIDE DEF u
<1>7. Series!shift(t, v)
  BY <1>1, <1>3, <1>4, <1>5, Zenon
  DEF Series!shift, Series!Index!WithoutOldest, Series!Index!WithRecord
<1>8. SeriesProofs!shift(t, v)
  BY <1>1, <1>3, <1>4, <1>6, Zenon
  DEF SeriesProofs!shift, SeriesProofs!Index!WithoutOldest, SeriesProofs!Index!WithRecord
<1> QED
  BY <1>7, <1>8

(* The tree's index before and after a step, as the tree's proofs know it. *)
TreeKnown ==
  /\ nodeSize >= 3 /\ MemoryLeft
  /\ TreeProofs!TreeInv /\ TreeProofs!TreeIndexed

LEMMA IndexType ==
  ASSUME TreeProofs!TreeIndexed
  PROVE  Tree!treeIndex \in [Value -> Seq(Time)]
BY SameIndex DEF TreeProofs!TreeIndexed, TreeProofs!IndexIs

LEMMA AddInStore ==
  ASSUME TreeKnown, TreeProofs!TreeIndexed', NEW t \in Time, NEW v \in Value,
         Tree!addRecordToTree(t, v)
  PROVE  Tree!treeIndex' = [Tree!treeIndex EXCEPT ![v] = Append(@, t)]
<1>1. TreeProofs!addRecordToTree(t, v) /\ TreeProofs!MemoryLeft
  BY SameAdd DEF TreeKnown, MemoryLeft, TreeProofs!MemoryLeft
<1>2. TreeProofs!treeIndex' = [TreeProofs!treeIndex EXCEPT ![v] = Append(@, t)]
  BY <1>1, TreeProofs!AddAppendsTime, nodeSizeAssumption, NULLAssumption, ValueAssumption
  DEF TreeKnown
<1> QED
  BY <1>2, SameIndex

LEMMA DeleteInStore ==
  ASSUME TreeKnown, TreeProofs!TreeIndexed', NEW v \in Value, Tree!delete(v)
  PROVE  Tree!treeIndex' = IF Tree!treeIndex[v] = <<>> THEN Tree!treeIndex
                           ELSE [Tree!treeIndex EXCEPT ![v] = Tail(@)]
<1>1. TreeProofs!delete(v)
  BY SameDelete
<1>2. TreeProofs!treeIndex' = IF TreeProofs!treeIndex[v] = <<>> THEN TreeProofs!treeIndex
                              ELSE [TreeProofs!treeIndex EXCEPT ![v] = Tail(@)]
  BY <1>1, TreeProofs!DeleteDropsFirstTime, nodeSizeAssumption, NULLAssumption, ValueAssumption
  DEF TreeKnown
<1> QED
  BY <1>2, SameIndex

LEMMA RecursionInStore ==
  ASSUME TreeKnown, TreeProofs!TreeIndexed', Tree!Recurse
  PROVE  Tree!treeIndex' = Tree!treeIndex
<1>1. TreeProofs!Recurse /\ TreeProofs!MemoryLeft
  BY SameRecurse DEF TreeKnown, MemoryLeft, TreeProofs!MemoryLeft
<1>2. TreeProofs!treeIndex' = TreeProofs!treeIndex
  BY <1>1, TreeProofs!RecursionChangesNothing, nodeSizeAssumption, NULLAssumption,
     ValueAssumption
  DEF TreeKnown
<1> QED
  BY <1>2, SameIndex

(* The oldest measurement of a full array heads the list of its value.     *)
LEMMA OldestHeadsItsList ==
  ASSUME SeriesProofs!SeriesInv, isFull
  PROVE  storeIndex[oldest.value] # <<>> /\ Head(storeIndex[oldest.value]) = oldest.time
<1>1. SeriesProofs!DeleteDropsTheOldest
  BY SeriesProofs!OldestIsFirst, SizeAssumption, DiffAssumption, WidthAssumption, SeriesAssumed
<1> QED
  BY <1>1 DEF SeriesProofs!DeleteDropsTheOldest, isFull, oldest, newUpdatePosition,
    SeriesProofs!isFull, SeriesProofs!oldest, SeriesProofs!newUpdatePosition

-----------------------------------------------------------------------------
(*                         The steps of the store                          *)

Same == UNCHANGED <<arrayVars, storeIndex>>

LEMMA HeadAndTail ==
  ASSUME NEW s \in Seq(Time), s # <<>>
  PROVE  <<Head(s)>> \o Tail(s) = s /\ Tail(s) \in Seq(Time)
OBVIOUS

LEMMA FillingStep ==
  ASSUME TreeKnown, TreeProofs!TreeIndexed', NEW t \in Time, NEW v \in Value,
         shiftWhileFilling(t, v)
  PROVE  Shifted(t, v)
<1>1. /\ incoming = {} /\ incoming' = {} /\ ~isFull
      /\ IsNextTime(t) /\ Write(t, v) /\ Tree!addRecordToTree(t, v)
  BY DEF shiftWhileFilling, overwriteAndAdd
<1>2. Tree!treeIndex' = [Tree!treeIndex EXCEPT ![v] = Append(@, t)]
  BY <1>1, AddInStore
<1>3. storeIndex = Tree!treeIndex /\ storeIndex' = Tree!treeIndex'
  BY <1>1 DEF storeIndex
<1> QED
  BY <1>1, <1>2, <1>3 DEF Shifted

(* The deletion takes the oldest time out of the tree's list; storeIndex   *)
(* has it there still.                                                     *)
LEMMA DeletingStep ==
  ASSUME TreeKnown, TreeProofs!TreeIndexed', SeriesProofs!SeriesInv, ArrayTypeOK,
         NEW t \in Time, NEW v \in Value, shiftWhenFull(t, v)
  PROVE  Same
<1> DEFINE x == Tree!treeIndex
           u == oldest.value
<1>1. /\ incoming = {} /\ incoming' # {} /\ isFull
      /\ UNCHANGED arrayVars /\ Tree!delete(u)
  BY DEF shiftWhenFull
<1>2. oldest' = oldest /\ u \in Value
  BY <1>1, OldestIsRecord DEF oldest, newUpdatePosition, arrayVars, Serie
<1>3. storeIndex = Tree!treeIndex
  BY <1>1, Zenon DEF storeIndex
<1>3a. storeIndex' = [Tree!treeIndex' EXCEPT ![oldest.value] = <<oldest.time>> \o @]
  <2>1. storeIndex' = [Tree!treeIndex' EXCEPT ![oldest'.value] = <<oldest'.time>> \o @]
    BY <1>1, Zenon DEF storeIndex
  <2> QED
    BY <2>1, <1>2, Zenon
<1>4. x[u] # <<>> /\ Head(x[u]) = oldest.time
  <2>1. storeIndex[oldest.value] # <<>> /\ Head(storeIndex[oldest.value]) = oldest.time
    BY <1>1, OldestHeadsItsList, Zenon
  <2> QED
    BY <2>1, <1>3, Zenon
<1>5. x' = IF x[u] = <<>> THEN x ELSE [x EXCEPT ![u] = Tail(@)]
  BY <1>1, <1>2, DeleteInStore
<1>6. x \in [Value -> Seq(Time)]
  BY IndexType DEF TreeKnown
<1> HIDE DEF x, u
<1>7. x' = [x EXCEPT ![u] = Tail(x[u])]
  BY <1>4, <1>5
<1>8. <<oldest.time>> \o Tail(x[u]) = x[u]
  BY <1>2, <1>4, <1>6, HeadAndTail
<1>9. storeIndex' = x
  <2>1. storeIndex' = [x' EXCEPT ![u] = <<oldest.time>> \o @]
    BY <1>3a DEF x, u
  <2>2. x'[u] = Tail(x[u])
    BY <1>2, <1>6, <1>7
  <2>3. storeIndex' = [x' EXCEPT ![u] = x[u]]
    BY <2>1, <2>2, <1>8, Zenon
  <2> QED
    BY <2>3, <1>2, <1>6, <1>7
<1> QED
  BY <1>1, <1>3, <1>9 DEF Same, x

(* The rest of that shift: now storeIndex loses the oldest time, too, and  *)
(* gets the new one.                                                       *)
LEMMA ReplacingStep ==
  ASSUME TreeKnown, TreeProofs!TreeIndexed', IncomingFits, ArrayTypeOK,
         NEW m \in incoming, overwriteAndAdd(m.time, m.value)
  PROVE  m \in Serie /\ Shifted(m.time, m.value)
<1> DEFINE x == Tree!treeIndex
           u == oldest.value
           t == m.time
           v == m.value
<1>1. m \in Serie /\ t \in Time /\ v \in Value /\ IsNextTime(t) /\ isFull
  BY DEF IncomingFits, Serie
<1>2. /\ incoming # {} /\ incoming' = {}
      /\ Write(t, v) /\ Tree!addRecordToTree(t, v)
  BY DEF overwriteAndAdd
<1>3. oldest.time \in Time /\ u \in Value
  BY OldestIsRecord DEF Serie
<1>4. storeIndex = [x EXCEPT ![u] = <<oldest.time>> \o @] /\ storeIndex' = x'
  BY <1>2 DEF storeIndex
<1>5. x' = [x EXCEPT ![v] = Append(@, t)]
  BY <1>1, <1>2, AddInStore
<1>6. x \in [Value -> Seq(Time)]
  BY IndexType DEF TreeKnown
<1> HIDE DEF x
<1>7. storeIndex[u] # <<>> /\ Tail(storeIndex[u]) = x[u]
  <2> DEFINE s == x[u]
             o == oldest.time
  <2>1. s \in Seq(Time) /\ o \in Time /\ storeIndex[u] = <<o>> \o s
    BY <1>3, <1>4, <1>6
  <2> HIDE DEF s, o
  <2>2. <<o>> \o s # <<>> /\ Tail(<<o>> \o s) = s
    BY <2>1
  <2> QED
    BY <2>1, <2>2 DEF s
<1>8. [storeIndex EXCEPT ![u] = Tail(@)] = x
  BY <1>3, <1>4, <1>6, <1>7
<1> HIDE DEF u, t, v
<1>9. storeIndex' = [[storeIndex EXCEPT ![u] = Tail(@)] EXCEPT ![v] = Append(@, t)]
  BY <1>4, <1>5, <1>8
<1>10. Shifted(t, v)
  BY <1>1, <1>2, <1>7, <1>9 DEF Shifted, u
<1> QED
  BY <1>1, <1>10 DEF t, v

(* Every step shifts the array with its index, or changes neither.         *)
LEMMA StoreStep ==
  ASSUME TreeKnown, TreeProofs!TreeIndexed', SeriesProofs!SeriesInv, IncomingFits,
         ArrayTypeOK, [Next]_storeVars
  PROVE  Same \/ \E t \in Time, v \in Value : Shifted(t, v)
<1>1. CASE UNCHANGED storeVars
  <2>1. oldest' = oldest /\ Tree!treeIndex' = Tree!treeIndex
    BY <1>1 DEF storeVars, treeVars, arrayVars, oldest, newUpdatePosition,
      Tree!treeIndex, Tree!Leaves, Tree!LiveNodes
  <2> QED
    BY <1>1, <2>1 DEF Same, storeVars, storeIndex
<1>2. ASSUME NEW t \in Time, NEW v \in Value, shiftWhileFilling(t, v)
      PROVE  Shifted(t, v)
  BY <1>2, FillingStep
<1>3. ASSUME NEW t \in Time, NEW v \in Value, shiftWhenFull(t, v)
      PROVE  Same
  BY <1>3, DeletingStep
<1>4. ASSUME afterDelete
      PROVE  \E t \in Time, v \in Value : Shifted(t, v)
  <2>1. PICK m \in incoming : overwriteAndAdd(m.time, m.value)
    BY <1>4 DEF afterDelete
  <2>2. m \in Serie /\ Shifted(m.time, m.value)
    BY <2>1, ReplacingStep
  <2> QED
    BY <2>2 DEF Serie
<1>5. ASSUME treeRecursion
      PROVE  Same
  <2>1. Tree!Recurse /\ UNCHANGED <<arrayVars, incoming>>
    BY <1>5 DEF treeRecursion
  <2>2. Tree!treeIndex' = Tree!treeIndex
    BY <2>1, RecursionInStore
  <2>3. oldest' = oldest
    BY <2>1 DEF oldest, newUpdatePosition, arrayVars
  <2> QED
    BY <2>1, <2>2, <2>3 DEF Same, storeIndex
<1> QED
  BY <1>1, <1>2, <1>3, <1>4, <1>5 DEF Next, Continue

(* At first array and index are empty. *)
LEMMA StoreBegins ==
  ASSUME Init
  PROVE  Series!Init /\ SeriesProofs!SeriesInv
<1>1. TreeProofs!Init
  BY SameInit DEF Init
<1>2. TreeProofs!Index!Init
  BY <1>1, TreeProofs!InitIndexed, nodeSizeAssumption, NULLAssumption, ValueAssumption
<1>3. storeIndex = [v \in Value |-> <<>>]
  BY <1>2, SameIndex
  DEF Init, storeIndex, TreeProofs!Index!Init, TreeProofs!Index!EmptyIndex
<1>4. Series!Init
  BY <1>3 DEF Init, ArrayInit, Position, Series!Init, Series!ArrayInit, Series!Position,
    Series!Index!Init, Series!Index!EmptyIndex
<1>5. SeriesProofs!Init
  BY <1>3 DEF Init, ArrayInit, Position, SeriesProofs!Init, SeriesProofs!ArrayInit,
    SeriesProofs!Position, SeriesProofs!Index!Init, SeriesProofs!Index!EmptyIndex
<1> QED
  BY <1>4, <1>5, SeriesProofs!SeriesBegins, SizeAssumption, DiffAssumption,
     WidthAssumption, SeriesAssumed

LEMMA SeriesKept ==
  ASSUME SeriesProofs!SeriesInv, Same \/ \E t \in Time, v \in Value : Shifted(t, v)
  PROVE  SeriesProofs!SeriesInv' /\ [Series!Next]_(Series!windowVars)
<1>1. CASE Same
  BY <1>1, SeriesProofs!SeriesStep, SizeAssumption, DiffAssumption, WidthAssumption,
     SeriesAssumed
  DEF Same, arrayVars, SeriesProofs!windowVars, SeriesProofs!arrayVars,
    Series!windowVars, Series!arrayVars
<1>2. ASSUME NEW t \in Time, NEW v \in Value, Shifted(t, v)
      PROVE  SeriesProofs!SeriesInv' /\ Series!Next
  <2>1. Series!shift(t, v) /\ SeriesProofs!shift(t, v)
    BY <1>2, ShiftOfSeries
  <2>2. t \in Series!Time /\ t \in SeriesProofs!Time
    BY DEF Time, Series!Time, SeriesProofs!Time
  <2>3. SeriesProofs!Next /\ Series!Next
    BY <2>1, <2>2 DEF SeriesProofs!Next, Series!Next
  <2> QED
    BY <2>3, SeriesProofs!SeriesStep, SizeAssumption, DiffAssumption, WidthAssumption,
       SeriesAssumed
<1> QED
  BY <1>1, <1>2

-----------------------------------------------------------------------------
(*                               The theorems                              *)

(* The inductive invariant: the tree is whole or as its pending call       *)
(* expects it, and array and storeIndex hold the same measurements.        *)
StoreInv ==
  /\ IncomingFits /\ ArrayTypeOK
  /\ TreeProofs!TreeInv /\ TreeProofs!TreeIndexed
  /\ SeriesProofs!SeriesInv

LEMMA StoreStepKept ==
  ASSUME nodeSize >= 3, MemoryLeft, StoreInv, TreeProofs!TreeIndexed', [Next]_storeVars
  PROVE  SeriesProofs!SeriesInv' /\ [Series!Next]_(Series!windowVars)
<1>1. Same \/ \E t \in Time, v \in Value : Shifted(t, v)
  BY StoreStep DEF StoreInv, TreeKnown
<1> QED
  BY <1>1, SeriesKept DEF StoreInv

THEOREM StoreAlwaysConsistent ==
  ASSUME nodeSize >= 3
  PROVE  Spec /\ []MemoryLeft => []StoreInv
<1>1. Init => SeriesProofs!SeriesInv
  BY StoreBegins
<1>2. /\ IncomingFits /\ ArrayTypeOK /\ TreeProofs!TreeInv /\ TreeProofs!TreeIndexed
      /\ MemoryLeft /\ TreeProofs!TreeIndexed' /\ SeriesProofs!SeriesInv /\ [Next]_storeVars
      => SeriesProofs!SeriesInv'
  BY StoreStepKept DEF StoreInv
<1> QED
  BY <1>1, <1>2, TreeOfStoreConsistent, IncomingAlwaysFits, ArrayTypeCorrect, PTL
  DEF Spec, StoreInv

(* ImplementsSeriesWindow: array and tree together are the store with one  *)
(* atomic shift, although a shift that replaces a record deletes it from   *)
(* the tree before it overwrites it in the array, and cascades of splits   *)
(* and merges run in between.                                              *)
THEOREM StoreImplementsSeriesWindow ==
  ASSUME nodeSize >= 3
  PROVE  Spec /\ []MemoryLeft => ImplementsSeriesWindow
<1>1. Init => Series!Init
  BY StoreBegins
<1>2. /\ MemoryLeft /\ StoreInv /\ TreeProofs!TreeIndexed' /\ [Next]_storeVars
      => [Series!Next]_(Series!windowVars)
  BY StoreStepKept
<1>3. StoreInv => TreeProofs!TreeIndexed
  BY DEF StoreInv
<1> QED
  BY <1>1, <1>2, <1>3, StoreAlwaysConsistent, PTL
  DEF Spec, ImplementsSeriesWindow, Series!Spec

LEMMA RecordFound ==
  ASSUME StoreInv
  PROVE  DeleteFindsTheRecord
<1> DEFINE v == oldest.value
           leaf == Tree!findLeaf(v)
           list == nodes[leaf].pointers[Tree!PositionOf(nodes[leaf].keys, v)]
<1> SUFFICES ASSUME incoming = {}, call = Tree!Returned, isFull
             PROVE  root # NULL /\ Tree!isDuplicateKey(leaf, v) /\ Head(list) = oldest.time
  BY DEF DeleteFindsTheRecord
<1>1. v \in Value
  BY OldestIsRecord DEF StoreInv, Serie
<1>2. storeIndex = TreeProofs!treeIndex
  BY SameIndex DEF storeIndex
<1>3. TreeProofs!treeIndex[v] # <<>> /\ Head(TreeProofs!treeIndex[v]) = oldest.time
  BY <1>2, OldestHeadsItsList DEF StoreInv
<1>4. call = TreeProofs!Returned
  BY DEF Tree!Returned, TreeProofs!Returned
<1>5. leaf = TreeProofs!findLeaf(v)
  BY
  DEF Tree!findLeaf, TreeProofs!findLeaf, Tree!getInsertPoint,
      TreeProofs!getInsertPoint, Tree!Min, TreeProofs!Min, Tree!Cardinality,
      TreeProofs!Cardinality
<1> HIDE DEF v
<1>6. /\ root # NULL
      /\ TreeProofs!isDuplicateKey(TreeProofs!findLeaf(v), v)
      /\ nodes[TreeProofs!findLeaf(v)].pointers[
           TreeProofs!PositionOf(nodes[TreeProofs!findLeaf(v)].keys, v)] = TreeProofs!treeIndex[v]
  BY <1>1, <1>3, <1>4, TreeProofs!IndexedValueFound, nodeSizeAssumption, NULLAssumption,
     ValueAssumption
  DEF StoreInv
<1> HIDE DEF leaf
<1>7. Tree!isDuplicateKey(leaf, v) /\ list = TreeProofs!treeIndex[v]
  BY <1>5, <1>6
  DEF Tree!isDuplicateKey, TreeProofs!isDuplicateKey, Tree!PositionOf,
      TreeProofs!PositionOf, Tree!ToSet, TreeProofs!ToSet
<1> QED
  BY <1>3, <1>6, <1>7

(* DeleteFindsTheRecord: delete of a full array never dereferences the     *)
(* null root, and the record it is called for is in the leaf it finds, at  *)
(* the head of its list.                                                   *)
THEOREM DeleteAlwaysFindsTheRecord ==
  ASSUME nodeSize >= 3
  PROVE  Spec /\ []MemoryLeft => []DeleteFindsTheRecord
<1>1. StoreInv => DeleteFindsTheRecord
  BY RecordFound
<1> QED
  BY <1>1, StoreAlwaysConsistent, PTL
================================================================================
