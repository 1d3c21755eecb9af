------------------------------ MODULE BPlusTree ------------------------------
(***************************************************************************)
(* The B+ tree of main.c on its heap of nodes: every malloc'ed Node is an  *)
(* element of DOMAIN nodes, with the parent pointer and the prev/next leaf *)
(* links the code maintains by hand.                                       *)
(*                                                                         *)
(* The program is single threaded.  The code recurses in two places,       *)
(* insertIntoParent (up the tree after a split) and deleteEntry (up the    *)
(* tree after a merge); each recursive call is one step here, recorded in  *)
(* `call' until it runs, so every intermediate heap is a state.  A call    *)
(* that does not recurse is one step with everything it calls.             *)
(*                                                                         *)
(* A record list (ListValue) is the sequence of its time points from the   *)
(* first value, the one leaf->pointers[i] refers to.                       *)
(***************************************************************************)
EXTENDS NodeArrays, FiniteSets, Functions

CONSTANTS
  nodeSize,     \* keys per node, fixed by BPlusTree_new
  Node,         \* addresses malloc can return for a Node
  NULL,         \* the null pointer
  Value,        \* measured values: the keys
  Time          \* time points

ASSUME nodeSizeAssumption == nodeSize \in Nat \ {0}
ASSUME NULLAssumption == NULL \notin Node
ASSUME ValueAssumption == Value \subseteq Int

VARIABLES
  root,         \* tree->root
  nodes,        \* the allocated nodes
  call,         \* the recursive call about to run, or Returned
  unfreed       \* right nodes of mergeNodes frames still on the C stack

treeVars == <<root, nodes, call, unfreed>>

-----------------------------------------------------------------------------
Returned  == [fn |-> "none"]
Destroyed == [fn |-> "destroyed"]

insertIntoParentCall(oldChild, newKey, newChild) ==
  [fn |-> "insertIntoParent", oldChild |-> oldChild, newKey |-> newKey, newChild |-> newChild]

(* Mutant of deleteEntryCall: the first key of the merged node is taken    *)
(* for its separator.                                                      *)
deleteFirstKeyCall(node, toDelete, pointer) ==
  [fn |-> "deleteEntry", node |-> node, toDelete |-> nodes[pointer].keys[1], pointer |-> pointer]

deleteEntryCall(node, toDelete, pointer) ==
  [fn |-> "deleteEntry", node |-> node, toDelete |-> toDelete, pointer |-> pointer]

Leaf_new(parent, keys, pointers, prev, next) ==
  [isLeaf |-> TRUE, parent |-> parent, keys |-> keys, pointers |-> pointers,
   prev |-> prev, next |-> next]

Node_new(parent, keys, pointers) ==
  [isLeaf |-> FALSE, parent |-> parent, keys |-> keys, pointers |-> pointers,
   prev |-> NULL, next |-> NULL]

(* malloc: an address not in use. *)
malloc(heap) == CHOOSE n \in Node : n \notin DOMAIN heap

(* The node at a new address, and its fields. *)
allocated(heap, new, fields) ==
  [n \in DOMAIN heap \union {new} |-> IF n = new THEN fields ELSE heap[n]]

free(heap, freed) == Restrict(heap, DOMAIN heap \ freed)

SetParent(heap, children, parent) ==
  [n \in DOMAIN heap |-> IF n \in children THEN [heap[n] EXCEPT !.parent = parent] ELSE heap[n]]

(* Mutant of SetPrev: the chain is linked in one direction only. *)
PrevNotSet(heap, n, prev) == heap

(* node->prev = prev, for a node that is not null. *)
SetPrev(heap, n, prev) == IF n = NULL THEN heap ELSE [heap EXCEPT ![n].prev = prev]

numOfKeys(n) == Len(nodes[n].keys)

-----------------------------------------------------------------------------
(* findLeaf: from the root, follow the pointer at the insert point of each *)
(* inner node.  A descent visits no node twice, so it needs no more steps  *)
(* than there are nodes.                                                   *)
findLeaf(newKey) ==
  LET steps == Cardinality(DOMAIN nodes)
      curNode[d \in 0..steps] ==
        IF d = 0 THEN root
        ELSE LET cur == curNode[d - 1]
             IN  IF nodes[cur].isLeaf THEN cur
                 ELSE nodes[cur].pointers[getInsertPoint(nodes[cur].keys, newKey) + 1]
  IN  curNode[steps]

isDuplicateKey(leaf, key) == key \in ToSet(nodes[leaf].keys)

(* A Neighbour index is the index of the key on the left of the pointer    *)
(* to node in its parent, -1 for the leftmost child.                       *)
getNeighbourIndex(heap, node) ==
  PositionOf(heap[heap[node].parent].pointers, node) - 2

-----------------------------------------------------------------------------
(*                                Insertion                                *)

(* newTree *)
newTree(t, v) ==
  /\ root = NULL
  /\ LET new == malloc(nodes)
     IN  /\ root' = new
         /\ nodes' = allocated(nodes, new, Leaf_new(NULL, <<v>>, << <<t>> >>, NULL, NULL))
  /\ UNCHANGED <<call, unfreed>>

(* addDuplicateToDoublyLinkedList: the new time goes to the tail of the list. *)
addDuplicateToDoublyLinkedList(leaf, t, v) ==
  /\ isDuplicateKey(leaf, v)
  /\ nodes' = [nodes EXCEPT ![leaf].pointers[PositionOf(nodes[leaf].keys, v)] = Append(@, t)]
  /\ UNCHANGED <<root, call, unfreed>>

insertRecordIntoLeaf(leaf, t, v) ==
  /\ ~ isDuplicateKey(leaf, v)
  /\ numOfKeys(leaf) < nodeSize
  /\ LET insertPoint == getInsertPoint(nodes[leaf].keys, v)
     IN  nodes' = [nodes EXCEPT ![leaf].keys = InsertAt(@, insertPoint + 1, v),
                                ![leaf].pointers = InsertAt(@, insertPoint + 1, <<t>>)]
  /\ UNCHANGED <<root, call, unfreed>>

(* Mutant of upperHalf: a leaf gives its middle key away as inner nodes do. *)
upperHalfWithoutFirst(s, split) == SubSeq(s, split + 2, Len(s))

(* What a new leaf receives. *)
upperHalf(s, split) == SubSeq(s, split + 1, Len(s))

(* The full leaf and the new record are divided between the old leaf and a *)
(* new one on its right, linked into the leaf chain; the first key of the  *)
(* new leaf goes to the parent.                                            *)
splitAndInsertIntoLeaves(leaf, t, v) ==
  /\ ~ isDuplicateKey(leaf, v)
  /\ numOfKeys(leaf) >= nodeSize
  /\ LET old == nodes[leaf]
         insertPoint == getInsertPoint(old.keys, v)
         tempKeys == InsertAt(old.keys, insertPoint + 1, v)
         tempPointers == InsertAt(old.pointers, insertPoint + 1, <<t>>)
         split == leftLeafKeys(nodeSize)
         new == malloc(nodes)
         newNode == Leaf_new(old.parent,
                             upperHalf(tempKeys, split),
                             upperHalf(tempPointers, split),
                             leaf, old.next)
         oldNode == [old EXCEPT !.keys = SubSeq(tempKeys, 1, split),
                                !.pointers = SubSeq(tempPointers, 1, split),
                                !.next = new]
     IN  /\ nodes' = allocated(SetPrev([nodes EXCEPT ![leaf] = oldNode], old.next, new), new, newNode)
         /\ call' = insertIntoParentCall(leaf, newNode.keys[1], new)
  /\ UNCHANGED <<root, unfreed>>

addRecordToTree(t, v) ==
  /\ call = Returned
  /\ \/ newTree(t, v)
     \/ /\ root # NULL
        /\ LET leaf == findLeaf(v)
           IN  \/ addDuplicateToDoublyLinkedList(leaf, t, v)
               \/ insertRecordIntoLeaf(leaf, t, v)
               \/ splitAndInsertIntoLeaves(leaf, t, v)

-----------------------------------------------------------------------------
insertIntoANewRoot(left, key, right) ==
  /\ nodes[left].parent = NULL
  /\ LET new == malloc(nodes)
     IN  /\ root' = new
         /\ nodes' = allocated(SetParent(nodes, {left, right}, new), new,
                               Node_new(NULL, <<key>>, <<left, right>>))
  /\ call' = Returned
  /\ UNCHANGED unfreed

insertIntoTheNode(left, key, right) ==
  LET parent == nodes[left].parent
  IN  /\ parent # NULL
      /\ numOfKeys(parent) < nodeSize
      /\ LET index == PositionOf(nodes[parent].pointers, left)
         IN  nodes' = [nodes EXCEPT ![parent].keys = InsertAt(@, index, key),
                                    ![parent].pointers = InsertAt(@, index + 1, right)]
      /\ call' = Returned
      /\ UNCHANGED <<root, unfreed>>

(* The full inner node and the new separator are divided; the middle key   *)
(* moves up and the children on its right get the new node as parent.      *)
splitAndInsertIntoInnerNode(left, key, right) ==
  LET parent == nodes[left].parent
  IN  /\ parent # NULL
      /\ numOfKeys(parent) >= nodeSize
      /\ LET old == nodes[parent]
             index == PositionOf(old.pointers, left)
             tempKeys == InsertAt(old.keys, index, key)
             tempPointers == InsertAt(old.pointers, index + 1, right)
             split == leftInnerKeys(nodeSize)
             new == malloc(nodes)
             newInnerNode == Node_new(old.parent,
                                      SubSeq(tempKeys, split + 2, Len(tempKeys)),
                                      SubSeq(tempPointers, split + 2, Len(tempPointers)))
             oldInnerNode == [old EXCEPT !.keys = SubSeq(tempKeys, 1, split),
                                         !.pointers = SubSeq(tempPointers, 1, split + 1)]
         IN  /\ nodes' = allocated(SetParent([nodes EXCEPT ![parent] = oldInnerNode],
                                             ToSet(newInnerNode.pointers), new),
                                   new, newInnerNode)
             /\ call' = insertIntoParentCall(parent, tempKeys[split + 1], new)
      /\ UNCHANGED <<root, unfreed>>

insertIntoParent ==
  /\ call.fn = "insertIntoParent"
  /\ \/ insertIntoANewRoot(call.oldChild, call.newKey, call.newChild)
     \/ insertIntoTheNode(call.oldChild, call.newKey, call.newChild)
     \/ splitAndInsertIntoInnerNode(call.oldChild, call.newKey, call.newChild)

-----------------------------------------------------------------------------
(*                                 Deletion                                *)

(* removeEntryFromTheNode: a leaf loses the key with its list, an inner    *)
(* node loses the key and the pointer, which need not be neighbours.       *)
removeEntryFromTheNode(node, toDelete, pointer) ==
  LET cur == nodes[node]
      i == PositionOf(cur.keys, toDelete)
  IN  [nodes EXCEPT ![node].keys = RemoveAt(@, i),
                    ![node].pointers =
                       RemoveAt(@, IF cur.isLeaf THEN i ELSE PositionOf(cur.pointers, pointer))]

minNumberofKeys(node) ==
  IF nodes[node].isLeaf THEN minLeafKeys(nodeSize) ELSE minInnerKeys(nodeSize)

(* Mutant of capacity: one key too many. *)
capacityOneMore(node) == IF nodes[node].isLeaf THEN nodeSize + 2 ELSE nodeSize + 1

capacity(node) == IF nodes[node].isLeaf THEN nodeSize + 1 ELSE nodeSize

(* Mutants of ReturnFromDelete: the merged nodes are freed again by the     *)
(* next deletion, or never.                                                *)
ReturnAndFreeAgain(heap) ==
  /\ nodes' = free(heap, unfreed)
  /\ UNCHANGED unfreed
  /\ call' = Returned

ReturnWithoutFree(heap) ==
  /\ nodes' = heap
  /\ unfreed' = {}
  /\ call' = Returned

(* The last deleteEntry returns: the mergeNodes frames below it free their *)
(* right nodes.                                                            *)
ReturnFromDelete(heap) ==
  /\ nodes' = free(heap, unfreed)
  /\ unfreed' = {}
  /\ call' = Returned

(* Mutant of adjustTheRoot: the new root keeps its parent. *)
adjustTheRootKeepingParent(heap) ==
  IF heap[root].keys # <<>>
  THEN ReturnFromDelete(heap) /\ UNCHANGED root
  ELSE /\ root' = IF heap[root].isLeaf THEN NULL ELSE heap[root].pointers[1]
       /\ ReturnFromDelete(free(heap, {root}))

(* adjustTheRoot: an empty inner root hands over to its only child, an     *)
(* empty leaf root leaves an empty tree.                                   *)
adjustTheRoot(heap) ==
  IF heap[root].keys # <<>>
  THEN /\ ReturnFromDelete(heap)
       /\ UNCHANGED root
  ELSE LET newRoot == IF heap[root].isLeaf THEN NULL ELSE heap[root].pointers[1]
       IN  /\ root' = newRoot
           /\ ReturnFromDelete(free(SetParent(heap, {newRoot}, NULL), {root}))

(* mergeNodes: the right node of the two is appended to the left one and   *)
(* its entry is deleted from the parent.                                   *)
mergeNodes(heap, left, right, kPrime) ==
  LET l == heap[left]
      r == heap[right]
      merged == [l EXCEPT !.keys = IF l.isLeaf THEN @ \o r.keys ELSE @ \o <<kPrime>> \o r.keys,
                          !.pointers = @ \o r.pointers,
                          !.next = IF l.isLeaf THEN r.next ELSE @]
      withMerged == [heap EXCEPT ![left] = merged]
  IN  /\ nodes' = IF l.isLeaf THEN SetPrev(withMerged, r.next, left)
                  ELSE SetParent(withMerged, ToSet(merged.pointers), left)
      /\ call' = deleteEntryCall(l.parent, kPrime, right)
      /\ unfreed' = unfreed \union {right}
      /\ UNCHANGED root

(* Mutant of lastPointer: an inner node takes its neighbour itself. *)
neighbourItself(heap, neighbor) ==
  IF heap[neighbor].isLeaf THEN Last(heap[neighbor].pointers) ELSE neighbor

lastPointer(heap, neighbor) == Last(heap[neighbor].pointers)

(* redestributeNodes, node on the right: it takes the last entry of its    *)
(* left neighbour.                                                         *)
takeFromLeftNeighbour(heap, node, neighbor, kIndex, kPrime) ==
  LET n == heap[node]
      nb == heap[neighbor]
      moved == lastPointer(heap, neighbor)
      withoutLast == [nb EXCEPT !.keys = Front(@), !.pointers = Front(@)]
      withFirst == [n EXCEPT !.keys = <<IF n.isLeaf THEN Last(nb.keys) ELSE kPrime>> \o @,
                             !.pointers = <<moved>> \o @]
      shifted == [heap EXCEPT ![node] = withFirst, ![neighbor] = withoutLast,
                              ![n.parent].keys[kIndex + 1] = Last(nb.keys)]
  IN  IF n.isLeaf THEN shifted ELSE SetParent(shifted, {moved}, node)

(* Mutant of newSeparator: the key that moves, not the one that stays. *)
movedKeyAsSeparator(neighbor) == neighbor.keys[1]

(* The separator between a node and its right neighbour, after it took the *)
(* neighbour's first entry: an inner node's first key moves up.            *)
newSeparator(neighbor) == IF neighbor.isLeaf THEN neighbor.keys[2] ELSE neighbor.keys[1]

(* redestributeNodes, node leftmost: it takes the first entry of its right *)
(* neighbour.                                                              *)
takeFromRightNeighbour(heap, node, neighbor, kIndex, kPrime) ==
  LET n == heap[node]
      nb == heap[neighbor]
      moved == Head(nb.pointers)
      withoutFirst == [nb EXCEPT !.keys = Tail(@), !.pointers = Tail(@)]
      withLast == [n EXCEPT !.keys = Append(@, IF n.isLeaf THEN Head(nb.keys) ELSE kPrime),
                            !.pointers = Append(@, moved)]
      shifted == [heap EXCEPT ![node] = withLast, ![neighbor] = withoutFirst,
                              ![n.parent].keys[kIndex + 1] = newSeparator(nb)]
  IN  IF n.isLeaf THEN shifted ELSE SetParent(shifted, {moved}, node)

(* deleteEntry for a node that falls below its minimum: merge it with a    *)
(* neighbour if one node can hold both, else take an entry from it.        *)
mergeOrRedistribute(heap, node) ==
  LET parent == heap[heap[node].parent]
      neighbourIndex == getNeighbourIndex(heap, node)
      leftmost == neighbourIndex = -1
      kIndex == IF leftmost THEN 0 ELSE neighbourIndex
      kPrime == parent.keys[kIndex + 1]
      neighbor == parent.pointers[(IF leftmost THEN 1 ELSE neighbourIndex) + 1]
  IN  IF Len(heap[neighbor].keys) + Len(heap[node].keys) < capacity(node)
      THEN IF leftmost THEN mergeNodes(heap, node, neighbor, kPrime)
                       ELSE mergeNodes(heap, neighbor, node, kPrime)
      ELSE /\ UNCHANGED root
           /\ ReturnFromDelete(IF leftmost
                               THEN takeFromRightNeighbour(heap, node, neighbor, kIndex, kPrime)
                               ELSE takeFromLeftNeighbour(heap, node, neighbor, kIndex, kPrime))

deleteEntry(node, toDelete, pointer) ==
  LET heap == removeEntryFromTheNode(node, toDelete, pointer)
  IN  IF node = root THEN adjustTheRoot(heap)
      ELSE IF Len(heap[node].keys) >= minNumberofKeys(node)
           THEN ReturnFromDelete(heap) /\ UNCHANGED root
           ELSE mergeOrRedistribute(heap, node)

(* Mutant of deleteEntryFromParent: a cascade that reaches the root stops. *)
deleteEntryBelowRoot ==
  /\ call.fn = "deleteEntry"
  /\ call.node # root
  /\ deleteEntry(call.node, call.toDelete, call.pointer)

deleteEntryFromParent ==
  /\ call.fn = "deleteEntry"
  /\ deleteEntry(call.node, call.toDelete, call.pointer)

(* delete: drops the first value of the key's list, and the key with its   *)
(* last value; a key that is not in the tree changes nothing.  The code    *)
(* dereferences the leaf without a test, so the tree must not be empty.    *)
delete(v) ==
  /\ call = Returned
  /\ root # NULL
  /\ LET leaf == findLeaf(v)
         positionOfKey == PositionOf(nodes[leaf].keys, v)
         hasMultipleTimes == Len(nodes[leaf].pointers[positionOfKey]) > 1
     IN  IF ~ isDuplicateKey(leaf, v) THEN UNCHANGED treeVars
         ELSE IF hasMultipleTimes
              THEN /\ nodes' = [nodes EXCEPT ![leaf].pointers[positionOfKey] = Tail(@)]
                   /\ UNCHANGED <<root, call, unfreed>>
              ELSE deleteEntry(leaf, v, NULL)

-----------------------------------------------------------------------------
(* The nodes destroyTreeNodes visits: everything below the root. *)
Children(n) == IF nodes[n].isLeaf THEN {} ELSE ToSet(nodes[n].pointers)

Reachable ==
  LET steps == Cardinality(DOMAIN nodes)
      level[d \in 0..steps] ==
        IF d = 0 THEN {root} \ {NULL} ELSE UNION {Children(n) : n \in level[d - 1]}
  IN  UNION {level[d] : d \in 0..steps}

BPlusTree_destroy ==
  /\ call = Returned
  /\ root # NULL
  /\ nodes' = free(nodes, Reachable)
  /\ call' = Destroyed
  /\ UNCHANGED <<root, unfreed>>

BPlusTree_new ==
  /\ call = Destroyed
  /\ root' = NULL
  /\ call' = Returned
  /\ UNCHANGED <<nodes, unfreed>>

Init ==
  /\ root = NULL
  /\ nodes = <<>>
  /\ call = Returned
  /\ unfreed = {}

(* The recursive calls the program makes by itself. *)
Recurse == insertIntoParent \/ deleteEntryFromParent

Next ==
  \/ \E t \in Time, v \in Value : addRecordToTree(t, v)
  \/ \E v \in Value : delete(v)
  \/ Recurse
  \/ BPlusTree_destroy
  \/ BPlusTree_new

Spec == Init /\ [][Next]_treeVars

(* A call that has begun runs on to its return: nothing can block it. *)
FairSpec == Spec /\ WF_treeVars(Recurse)

-----------------------------------------------------------------------------
(*                                Properties                               *)

LiveNodes == DOMAIN nodes \ unfreed
Leaves == {n \in LiveNodes : nodes[n].isLeaf}
InnerNodes == LiveNodes \ Leaves

LeafRecord == [isLeaf : {TRUE}, parent : Node \union {NULL}, keys : Seq(Value),
               pointers : Seq(Seq(Time)), prev : Node \union {NULL}, next : Node \union {NULL}]

InnerRecord == [isLeaf : {FALSE}, parent : Node \union {NULL}, keys : Seq(Value),
                pointers : Seq(Node), prev : {NULL}, next : {NULL}]

Call ==
  {Returned, Destroyed}
    \union [fn : {"insertIntoParent"}, oldChild : Node, newKey : Value, newChild : Node]
    \union [fn : {"deleteEntry"}, node : Node, toDelete : Value, pointer : Node]

(* The heap holds leaves and inner nodes only, and root, the pending call  *)
(* and the waiting mergeNodes frames refer to addresses.                   *)
TypeOK ==
  /\ DOMAIN nodes \subseteq Node
  /\ \A n \in DOMAIN nodes : nodes[n] \in IF nodes[n].isLeaf THEN LeafRecord ELSE InnerRecord
  /\ root \in Node \union {NULL}
  /\ call \in Call
  /\ unfreed \subseteq DOMAIN nodes

(* Between calls, every key of every leaf is where findLeaf looks for it:  *)
(* no split, merge or redistribution leaves a separator that hides a key.  *)
EveryKeyIsFound ==
  call = Returned =>
    \A leaf \in Leaves : \A i \in 1..numOfKeys(leaf) : findLeaf(nodes[leaf].keys[i]) = leaf

(* At every moment, also in the middle of a cascade, the prev and next     *)
(* links make one chain of all the leaves in ascending key order; the      *)
(* neighbourhood search walks it.                                          *)
LeafChain ==
  /\ \A leaf \in Leaves :
       /\ Ascending(nodes[leaf].keys)
       /\ LET next == nodes[leaf].next
          IN  next # NULL => /\ next \in Leaves
                             /\ nodes[next].prev = leaf
                             /\ Last(nodes[leaf].keys) < Head(nodes[next].keys)
       /\ LET prev == nodes[leaf].prev
          IN  prev # NULL => prev \in Leaves /\ nodes[prev].next = leaf
  /\ Leaves # {} => Cardinality({leaf \in Leaves : nodes[leaf].prev = NULL}) = 1

(* Between calls, parent pointers and child pointers agree: every node but *)
(* the root is exactly one pointer of exactly one node, its parent.        *)
ParentPointers ==
  call = Returned =>
    /\ root # NULL => nodes[root].parent = NULL
    /\ \A n \in InnerNodes : /\ Len(nodes[n].pointers) = numOfKeys(n) + 1
                             /\ IsInjective(nodes[n].pointers)
    /\ \A n \in LiveNodes \ {root} :
         {p \in InnerNodes : n \in Children(p)} = {nodes[n].parent}

(* Between calls, the nodes at one distance from the root are all leaves   *)
(* or all inner nodes: every descent has the same length.                  *)
Balanced ==
  call = Returned =>
    LET height[n \in DOMAIN nodes] ==
          IF nodes[n].isLeaf THEN 1 ELSE 1 + height[nodes[n].pointers[1]]
    IN  \A n \in InnerNodes : \A c1, c2 \in Children(n) : height[c1] = height[c2]

(* Between calls, no node is overfull and no node but the root holds fewer *)
(* keys than deleteEntry's own minimum.                                    *)
Occupancy ==
  call = Returned =>
    \A n \in LiveNodes :
      /\ numOfKeys(n) <= nodeSize
      /\ n # root => numOfKeys(n) >= minNumberofKeys(n)

(* The linear searches in getLeftPointerPosition and in                    *)
(* removeEntryFromTheNode have no bound of their own; they end because the *)
(* child, the key and the pointer they look for are there.  The key is the *)
(* one on the left of the pointer, so removing both keeps the node a       *)
(* search node.                                                            *)
PendingCallFindsItsEntry ==
  /\ call.fn = "insertIntoParent" =>
       LET parent == nodes[call.oldChild].parent
       IN  /\ nodes[call.newChild].parent = parent
           /\ parent = NULL => call.oldChild = root
           /\ parent # NULL => call.oldChild \in Children(parent)
  /\ call.fn = "deleteEntry" =>
       \E i \in 1..numOfKeys(call.node) :
         /\ nodes[call.node].keys[i] = call.toDelete
         /\ nodes[call.node].pointers[i + 1] = call.pointer

(* deleteEntry reads a separator and a neighbour in the parent of a node   *)
(* it makes underfull: there is always a neighbour to read.                *)
NeighbourExists ==
  \A n \in LiveNodes :
    nodes[n].parent # NULL => numOfKeys(nodes[n].parent) >= 1

(* Between calls the allocated nodes are the nodes of the tree, and        *)
(* destroying the tree frees them all: nothing leaks, nothing dangles.     *)
NothingLeaks ==
  /\ call = Returned => DOMAIN nodes = Reachable /\ unfreed = {}
  /\ call = Destroyed => DOMAIN nodes = {}

(* Every split and every merge cascade ends. *)
CallsReturn == call \in Call \ {Returned, Destroyed} ~> call = Returned

(* The leaves implement the time index, cascades included: a split, a      *)
(* merge or a redistribution moves entries without any reader of the index *)
(* seeing a difference, and each insertion or deletion has its effect in   *)
(* one step.                                                               *)
treeIndex ==
  LET entries == UNION {ToSet(Zip(nodes[leaf].keys, nodes[leaf].pointers)) : leaf \in Leaves}
      entry(v) == {e \in entries : e[1] = v}
  IN  [v \in Value |-> IF entry(v) = {} THEN <<>> ELSE (CHOOSE e \in entry(v) : TRUE)[2]]

Index == INSTANCE TimeIndex WITH index <- treeIndex

ImplementsTimeIndex == Index!Spec
=============================================================================
