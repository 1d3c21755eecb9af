--------------------------- MODULE BPlusTreeProofs ---------------------------
(***************************************************************************)
(* The B+ tree for every node size from 3 on and every set of addresses:   *)
(* its heap is always a tree, or a forest of two while a split node waits, *)
(* and what follows from that.                                             *)
(***************************************************************************)
EXTENDS TreeShapeProofs

(* deleteEntry's choice for a node with too few keys and a neighbour that  *)
(* is not overfull: when it merges the two, everything fits into one node, *)
(* for inner nodes with the separator between them; when it does not, the  *)
(* neighbour can spare a key.  The node may be more than one key short, as *)
(* the right halves that splitAndInsertIntoInnerNode makes.                *)
THEOREM DeleteEntryKeepsOccupancy ==
  ASSUME NEW node, nodes[node].isLeaf \in BOOLEAN,
         NEW nodeKeys \in Nat, nodeKeys < minNumberofKeys(node),
         NEW neighbourKeys \in 0..nodeSize
  PROVE  IF neighbourKeys + nodeKeys < capacity(node)
         THEN neighbourKeys + nodeKeys + (IF nodes[node].isLeaf THEN 0 ELSE 1) <= nodeSize
         ELSE neighbourKeys - 1 >= minNumberofKeys(node)
<1>1. CASE nodes[node].isLeaf
  <2>1. /\ getSplitPoint(nodeSize) \in Nat
        /\ 2 * getSplitPoint(nodeSize) <= nodeSize + 1
    BY SplitPointIsHalf, nodeSizeAssumption
  <2>2. capacity(node) = nodeSize + 1 /\ minNumberofKeys(node) = getSplitPoint(nodeSize)
    BY <1>1 DEF capacity, minNumberofKeys, minLeafKeys
  <2> QED
    BY <1>1, <2>1, <2>2, nodeSizeAssumption
<1>2. CASE ~nodes[node].isLeaf
  <2>1. /\ getSplitPoint(nodeSize + 1) \in Nat
        /\ 2 * getSplitPoint(nodeSize + 1) <= nodeSize + 2
    <3>1. nodeSize + 1 \in Nat
      BY nodeSizeAssumption
    <3>2. /\ getSplitPoint(nodeSize + 1) \in Nat
          /\ 2 * getSplitPoint(nodeSize + 1) <= (nodeSize + 1) + 1
      BY <3>1, SplitPointIsHalf, Zenon
    <3> QED
      BY <3>2, nodeSizeAssumption
  <2>2. capacity(node) = nodeSize /\ minNumberofKeys(node) = getSplitPoint(nodeSize + 1) - 1
    BY <1>2 DEF capacity, minNumberofKeys, minInnerKeys
  <2> QED
    BY <1>2, <2>1, <2>2, nodeSizeAssumption
<1> QED
  BY <1>1, <1>2

-----------------------------------------------------------------------------
(*                     What the searches of the tree do                    *)

(* The allocated nodes are a tree, with heights H and ranges R.            *)
WholeTree(H, R) == IsFiniteSet(DOMAIN nodes) /\ IsTree(nodes, DOMAIN nodes, root, H, R)

(* findLeaf returns the leaf whose range has the key.                      *)
LEMMA FindLeafInRange ==
  ASSUME NEW H, NEW R, WholeTree(H, R), NEW v \in Int
  PROVE  /\ findLeaf(v) \in DOMAIN nodes
         /\ nodes[findLeaf(v)].isLeaf
         /\ v \in R[findLeaf(v)]
<1> DEFINE L == DOMAIN nodes
           steps == Cardinality(L)
           below(n) == nodes[n].pointers[getInsertPoint(nodes[n].keys, v) + 1]
           g == [n \in L |-> IF nodes[n].isLeaf THEN n ELSE below(n)]
           Recursion(f) ==
             f = [d \in 0..steps |-> IF d = 0 THEN root
                                     ELSE LET cur == f[d - 1]
                                          IN IF nodes[cur].isLeaf THEN cur
                                             ELSE nodes[cur].pointers[getInsertPoint(nodes[cur].keys, v) + 1]]
           at == CHOOSE f : Recursion(f)
<1>1. /\ IsFiniteSet(L) /\ IsTree(nodes, L, root, H, R)
  BY DEF WholeTree
<1>2. /\ root \in L /\ R[root] = Int /\ H \in [L -> Nat]
      /\ \A n \in L : (nodes[n].isLeaf <=> H[n] = 0) /\ H[n] <= H[root]
  BY <1>1 DEF IsTree, IsHeap, Levels, Attached
<1>3. steps \in Nat /\ H[root] \in Nat /\ H[root] < steps
  BY <1>1, HeightBound
<1>4. ASSUME NEW n \in L, ~nodes[n].isLeaf
      PROVE  below(n) \in L /\ H[n] = H[below(n)] + 1 /\ (v \in R[n] => v \in R[below(n)])
  BY <1>1, <1>4, Descend
<1>5. g \in [L -> L]
  BY <1>4
<1>6. findLeaf(v) = at[steps]
  BY Zenon DEF findLeaf, at, steps
<1> HIDE DEF steps
<1>7. PICK f \in [Nat -> L] : f[0] = root /\ \A n \in Nat : f[n + 1] = g[f[n]]
  <2>1. root \in L
    BY <1>2
  <2> HIDE DEF g, L
  <2>2. \E f : Iterates(f, L, root, g)
    BY <1>5, <2>1, Iteration
  <2> QED
    BY <2>2 DEF Iterates
<1>8. Recursion([d \in 0..steps |-> f[d]])
  <2> DEFINE q == [d \in 0..steps |-> f[d]]
  <2>1. ASSUME NEW d \in 0..steps
        PROVE  q[d] = IF d = 0 THEN root
                      ELSE IF nodes[q[d - 1]].isLeaf THEN q[d - 1] ELSE below(q[d - 1])
    <3>1. CASE d = 0
      BY <1>7, <3>1
    <3>2. CASE d # 0
      <4>1. d - 1 \in 0..steps /\ d - 1 \in Nat /\ (d - 1) + 1 = d
        BY <1>3, <3>2
      <4>2. f[(d - 1) + 1] = g[f[d - 1]]
        BY <1>7, <4>1
      <4>3. q[d] = g[q[d - 1]] /\ q[d - 1] \in L
        BY <1>7, <4>1, <4>2
      <4> QED
        BY <3>2, <4>3
    <3> QED
      BY <3>1, <3>2
  <2> QED
    BY <2>1
<1>9. Recursion(at)
  <2> HIDE DEF Recursion
  <2> QED
    BY <1>8
<1> HIDE DEF at
<1>10. \A d \in 0..steps : at[d] = f[d]
  <2> DEFINE T == {d \in 0..steps : at[d] = f[d]}
  <2>1. 0 \in T
    BY <1>3, <1>7, <1>9
  <2>2. ASSUME NEW d \in 0..(steps - 1), d \in T
        PROVE  d + 1 \in T
    <3>1. d + 1 \in 0..steps /\ d + 1 # 0 /\ (d + 1) - 1 = d /\ d \in Nat
      BY <1>3
    <3>2. at[d + 1] = IF nodes[at[d]].isLeaf THEN at[d] ELSE below(at[d])
      <4>1. at[d + 1] = IF d + 1 = 0 THEN root
                        ELSE IF nodes[at[(d + 1) - 1]].isLeaf THEN at[(d + 1) - 1]
                             ELSE below(at[(d + 1) - 1])
        BY <1>9, <3>1, Zenon
      <4> HIDE DEF below
      <4> QED
        BY <3>1, <4>1
    <3>3. f[d + 1] = g[f[d]] /\ f[d] \in L /\ at[d] = f[d]
      BY <1>7, <2>2, <3>1
    <3> QED
      BY <3>1, <3>2, <3>3
  <2>3. \A d \in 0..steps : d \in T
    <3> HIDE DEF T
    <3> QED
      BY <1>3, <2>1, <2>2, IntervalInduction
  <2> QED
    BY <2>3
<1>11. \A d \in 0..H[root] : H[f[d]] + d = H[root] /\ v \in R[f[d]]
  <2> DEFINE top == H[root]
             T == {d \in 0..top : H[f[d]] + d = top /\ v \in R[f[d]]}
  <2>1. 0 \in T
    BY <1>2, <1>3, <1>7
  <2>2. ASSUME NEW d \in 0..(top - 1), d \in T
        PROVE  d + 1 \in T
    <3>1. d \in Nat /\ d + 1 \in 0..H[root] /\ f[d] \in L
      BY <1>3, <1>7
    <3>2. H[f[d]] \in Nat /\ H[f[d]] # 0
      BY <1>2, <1>3, <2>2, <3>1
    <3>3. f[d + 1] = below(f[d])
      BY <1>2, <1>7, <3>1, <3>2
    <3>4. /\ below(f[d]) \in L /\ H[f[d]] = H[below(f[d])] + 1
          /\ (v \in R[f[d]] => v \in R[below(f[d])])
      BY <1>2, <1>4, <3>1, <3>2
    <3>5. H[below(f[d])] \in Nat
      BY <1>2, <3>4
    <3> HIDE DEF below
    <3> QED
      BY <1>3, <2>2, <3>1, <3>2, <3>3, <3>4, <3>5
  <2>3. \A d \in 0..top : d \in T
    <3>1. top \in Int /\ 0 \in Int
      BY <1>3
    <3> HIDE DEF T, top
    <3> QED
      BY <2>1, <2>2, <3>1, IntervalInduction
  <2> QED
    BY <2>3
<1> DEFINE leaf == f[H[root]]
<1>12. leaf \in L /\ nodes[leaf].isLeaf /\ v \in R[leaf]
  BY <1>2, <1>3, <1>7, <1>11
<1>13. \A d \in H[root]..steps : f[d] = leaf
  <2> DEFINE top == H[root]
             T == {d \in top..steps : f[d] = leaf}
  <2>1. top \in T
    BY <1>3
  <2>2. ASSUME NEW d \in top..(steps - 1), d \in T
        PROVE  d + 1 \in T
    <3>1. d \in Nat /\ d + 1 \in H[root]..steps
      BY <1>3
    <3>2. f[d + 1] = g[leaf]
      BY <1>7, <2>2, <3>1
    <3> QED
      BY <1>12, <3>1, <3>2
  <2>3. \A d \in top..steps : d \in T
    <3>1. top \in Int /\ steps \in Int
      BY <1>3
    <3> HIDE DEF T, top
    <3> QED
      BY <2>1, <2>2, <3>1, IntervalInduction
  <2> QED
    BY <2>3
<1>14. steps \in H[root]..steps /\ steps \in 0..steps
  BY <1>3
<1>15. findLeaf(v) = leaf
  <2> HIDE DEF leaf
  <2> QED
    BY <1>6, <1>10, <1>13, <1>14
<1> QED
  BY <1>12, <1>15

(* The nodes destroyTreeNodes visits are the allocated ones.               *)
LEMMA AllReachable ==
  ASSUME NEW H, NEW R, WholeTree(H, R)
  PROVE  Reachable = DOMAIN nodes
<1> DEFINE L == DOMAIN nodes
           steps == Cardinality(L)
           Recursion(f) ==
             f = [d \in 0..steps |-> IF d = 0 THEN {root} \ {NULL}
                                     ELSE UNION {Children(n) : n \in f[d - 1]}]
           level == CHOOSE f : Recursion(f)
           row(d) == {n \in L : H[n] + d = H[root]}
           rows == [d \in 0..steps |-> row(d)]
<1>1. /\ IsFiniteSet(L) /\ IsTree(nodes, L, root, H, R) /\ NodeTypes(nodes, L)
  BY DEF WholeTree, IsTree, IsHeap
<1>2. /\ root \in L /\ R[root] = Int /\ H \in [L -> Nat]
      /\ \A n \in L : (nodes[n].isLeaf <=> H[n] = 0) /\ H[n] <= H[root]
      /\ \A n \in L \ {root} : HangsIn(nodes, L, n, nodes[n].parent)
  BY <1>1 DEF IsTree, IsHeap, Levels, Attached
<1>3. steps \in Nat /\ H[root] \in Nat /\ H[root] < steps
  BY <1>1, HeightBound
<1>4. Reachable = UNION {level[d] : d \in 0..steps}
  BY Zenon DEF Reachable, level, steps
<1> HIDE DEF steps
<1>5. row(0) = {root} \ {NULL}
  <2>1. ASSUME NEW n \in L, H[n] = H[root]
        PROVE  n = root
    <3>1. R[n] # {} /\ R[n] \in SUBSET Int /\ R[n] \cap R[root] # {}
      BY <1>1, <1>2 DEF IsTree, IsHeap, Intervals
    <3> QED
      BY <1>1, <1>2, <2>1, <3>1 DEF IsTree, IsHeap, Intervals
  <2>2. root # NULL
    BY <1>1, <1>2, NodeFields
  <2>3. \A n \in L : H[n] + 0 = H[root] <=> n = root
    BY <1>2, <2>1
  <2> QED
    BY <1>2, <2>2, <2>3
<1>6. ASSUME NEW n \in L, NEW c, c \in Children(n)
      PROVE  c \in L /\ H[n] = H[c] + 1
  <2>1. ~nodes[n].isLeaf /\ c \in ToSet(nodes[n].pointers)
    BY <1>6 DEF Children
  <2>2. PICK i \in 1..Len(nodes[n].pointers) : c = nodes[n].pointers[i]
    BY <2>1 DEF ToSet
  <2> QED
    BY <1>1, <2>1, <2>2, ChildOf
<1>7. ASSUME NEW c \in L \ {root}
      PROVE  \E n \in L : c \in Children(n)
  <2>1. PICK i \in 1..Len(nodes[nodes[c].parent].pointers) :
             nodes[nodes[c].parent].pointers[i] = c
    BY <1>2 DEF HangsIn
  <2>2. nodes[c].parent \in L /\ ~nodes[nodes[c].parent].isLeaf
    BY <1>2 DEF HangsIn
  <2> QED
    BY <2>1, <2>2 DEF Children, ToSet
<1>8. ASSUME NEW d \in 0..steps, d # 0
      PROVE  row(d) = UNION {Children(n) : n \in row(d - 1)}
  <2>1. d \in Nat /\ d - 1 \in Nat /\ d - 1 \in 0..steps
    BY <1>3, <1>8
  <2>2. ASSUME NEW c \in row(d)
        PROVE  c \in UNION {Children(n) : n \in row(d - 1)}
    <3>1. c \in L /\ H[c] + d = H[root] /\ H[c] \in Nat
      BY <1>2
    <3>2. c # root
      BY <1>3, <1>8, <2>1, <3>1
    <3>3. PICK n \in L : c \in Children(n)
      BY <1>7, <3>1, <3>2
    <3>4. H[n] = H[c] + 1
      BY <1>6, <3>3
    <3>5. H[n] + (d - 1) = H[root]
      BY <2>1, <3>1, <3>4
    <3> QED
      BY <3>3, <3>5
  <2>3. ASSUME NEW n \in row(d - 1), NEW c \in Children(n)
        PROVE  c \in row(d)
    <3>1. n \in L /\ H[n] + (d - 1) = H[root]
      OBVIOUS
    <3>2. c \in L /\ H[n] = H[c] + 1 /\ H[c] \in Nat
      BY <1>2, <1>6, <3>1
    <3>3. H[c] + d = H[root]
      BY <2>1, <3>1, <3>2
    <3> QED
      BY <3>2, <3>3
  <2> HIDE DEF row
  <2> QED
    BY <2>2, <2>3
<1>9. Recursion(rows)
  <2>1. ASSUME NEW d \in 0..steps
        PROVE  rows[d] = IF d = 0 THEN {root} \ {NULL}
                         ELSE UNION {Children(n) : n \in rows[d - 1]}
    <3>1. CASE d = 0
      BY <1>5, <3>1
    <3>2. CASE d # 0
      <4>1. d - 1 \in 0..steps
        BY <1>3, <3>2
      <4>2. rows[d] = row(d) /\ rows[d - 1] = row(d - 1)
        <5> HIDE DEF row
        <5> QED
          BY <4>1
      <4> HIDE DEF row, rows
      <4> QED
        BY <1>8, <3>2, <4>2
    <3> QED
      BY <3>1, <3>2
  <2>2. rows = [d \in 0..steps |-> rows[d]]
    OBVIOUS
  <2> HIDE DEF rows
  <2> QED
    BY <2>1, <2>2
<1>10. Recursion(level)
  <2> HIDE DEF Recursion
  <2> QED
    BY <1>9
<1> HIDE DEF level
<1>11. \A d \in 0..steps : level[d] = rows[d]
  <2> DEFINE T == {d \in 0..steps : level[d] = rows[d]}
  <2> HIDE DEF rows
  <2>1. 0 \in T
    BY <1>3, <1>9, <1>10
  <2>2. ASSUME NEW d \in 0..(steps - 1), d \in T
        PROVE  d + 1 \in T
    <3>1. d + 1 \in 0..steps /\ d + 1 # 0 /\ (d + 1) - 1 = d
      BY <1>3
    <3>2. level[d + 1] = UNION {Children(n) : n \in level[d]}
      BY <1>10, <3>1
    <3>3. rows[d + 1] = UNION {Children(n) : n \in rows[d]}
      BY <1>9, <3>1
    <3> QED
      BY <2>2, <3>1, <3>2, <3>3
  <2>3. \A d \in 0..steps : d \in T
    <3> HIDE DEF T
    <3> QED
      BY <1>3, <2>1, <2>2, IntervalInduction
  <2> QED
    BY <2>3
<1>12. ASSUME NEW n \in L
       PROVE  \E d \in 0..steps : n \in level[d]
  <2> DEFINE d == H[root] - H[n]
  <2>1. d \in 0..steps /\ H[n] + d = H[root]
    <3>1. H[n] \in Nat /\ H[n] <= H[root]
      BY <1>2
    <3> QED
      BY <1>3, <3>1
  <2> HIDE DEF d
  <2>2. n \in row(d)
    BY <2>1
  <2> QED
    BY <1>11, <2>1, <2>2
<1>13. \A d \in 0..steps : level[d] \subseteq L
  BY <1>11
<1> QED
  BY <1>4, <1>12, <1>13

-----------------------------------------------------------------------------
(*                     The heap between the steps                          *)

SomeTree(h, L, r) == \E H, R : IsTree(h, L, r, H, R)

SomeForest(h, L, r, a, k, b) == \E H, R : IsForest(h, L, r, H, R, a, k, b)

(* The keys that splits and merges leave in every node but the root: those *)
(* of the right half of a split inner node, which may be one less than     *)
(* deleteEntry's minimum, or of half a leaf.                               *)
leastKeys(node) == IF node.isLeaf THEN minLeafKeys(nodeSize) ELSE rightInnerKeys(nodeSize)

(* The nodes of L, except for those of E, have at least that many keys.    *)
Filled(h, L, E) ==
  \A n \in L : /\ Len(h[n].keys) >= 1 /\ Len(h[n].keys) <= nodeSize
               /\ n \notin E => Len(h[n].keys) >= leastKeys(h[n])

LEMMA Thresholds ==
  ASSUME nodeSize >= 3
  PROVE  /\ nodeSize \in Nat
         /\ minLeafKeys(nodeSize) \in Nat /\ minLeafKeys(nodeSize) >= 1
         /\ minLeafKeys(nodeSize) < nodeSize
         /\ leftLeafKeys(nodeSize) = minLeafKeys(nodeSize)
         /\ rightLeafKeys(nodeSize) \in Nat
         /\ rightLeafKeys(nodeSize) >= minLeafKeys(nodeSize)
         /\ rightLeafKeys(nodeSize) <= nodeSize
         /\ rightInnerKeys(nodeSize) \in Nat /\ rightInnerKeys(nodeSize) >= 1
         /\ leftInnerKeys(nodeSize) \in Nat
         /\ leftInnerKeys(nodeSize) >= rightInnerKeys(nodeSize)
         /\ leftInnerKeys(nodeSize) < nodeSize
         /\ minInnerKeys(nodeSize) \in Nat /\ minInnerKeys(nodeSize) < nodeSize
         /\ rightInnerKeys(nodeSize) <= minInnerKeys(nodeSize)
<1>1. nodeSize \in Nat /\ nodeSize + 1 \in Nat
  BY nodeSizeAssumption
<1>2. /\ getSplitPoint(nodeSize) \in Nat
      /\ nodeSize <= 2 * getSplitPoint(nodeSize)
      /\ 2 * getSplitPoint(nodeSize) <= nodeSize + 1
  BY <1>1, SplitPointIsHalf
<1>3. /\ getSplitPoint(nodeSize + 1) \in Nat
      /\ nodeSize + 1 <= 2 * getSplitPoint(nodeSize + 1)
      /\ 2 * getSplitPoint(nodeSize + 1) <= (nodeSize + 1) + 1
  BY <1>1, SplitPointIsHalf, Zenon
<1> QED
  BY <1>1, <1>2, <1>3
  DEF minLeafKeys, leftLeafKeys, rightLeafKeys, minInnerKeys, leftInnerKeys, rightInnerKeys

LEMMA LeastKeys ==
  ASSUME nodeSize >= 3, NEW node
  PROVE  leastKeys(node) \in Nat /\ leastKeys(node) >= 1
<1>1. CASE node.isLeaf
  BY <1>1, Thresholds DEF leastKeys
<1>2. CASE ~node.isLeaf
  BY <1>2, Thresholds DEF leastKeys
<1> QED
  BY <1>1, <1>2

(* A whole tree with its keys spread as the code leaves them.              *)
Settled(h, r) ==
  /\ IsFiniteSet(DOMAIN h) /\ NodeTypes(h, DOMAIN h)
  /\ SomeTree(h, DOMAIN h, r)
  /\ Filled(h, DOMAIN h, {r})

(* The same while b waits, with separator k, to be hung in behind a.       *)
HalfSplit(h, r, a, k, b) ==
  /\ IsFiniteSet(DOMAIN h) /\ NodeTypes(h, DOMAIN h)
  /\ SomeForest(h, DOMAIN h, r, a, k, b)
  /\ Filled(h, DOMAIN h, {r} \ {a})

MemoryLeft == DOMAIN nodes # Node

LEMMA Malloc ==
  ASSUME DOMAIN nodes \subseteq Node, MemoryLeft
  PROVE  malloc(nodes) \in Node /\ malloc(nodes) \notin DOMAIN nodes
<1>1. \E n \in Node : n \notin DOMAIN nodes
  BY DEF MemoryLeft
<1> QED
  BY <1>1 DEF malloc

-----------------------------------------------------------------------------
(*                               Insertion                                 *)

LEMMA NewTree ==
  ASSUME nodeSize >= 3, DOMAIN nodes = {}, MemoryLeft,
         NEW t \in Time, NEW v \in Value, newTree(t, v)
  PROVE  Settled(nodes', root') /\ root' \in Node
<1> DEFINE new == malloc(nodes)
           leaf == Leaf_new(NULL, <<v>>, << <<t>> >>, NULL, NULL)
<1>1. new \in Node
  BY Malloc
<1> HIDE DEF new
<1>2. /\ root' = new
      /\ DOMAIN nodes' = {new}
      /\ nodes'[new] = leaf
  BY DEF newTree, new, allocated
<1>3. leaf \in LeafRecord
  BY DEF LeafRecord, Leaf_new
<1>4. /\ leaf.isLeaf /\ leaf.parent = NULL /\ leaf.prev = NULL /\ leaf.next = NULL
      /\ leaf.keys = <<v>> /\ leaf.pointers = << <<t>> >>
  BY DEF Leaf_new
<1> HIDE DEF leaf
<1>5. NodeTypes(nodes', {new})
  BY <1>1, <1>2, <1>3 DEF NodeTypes
<1>6. /\ Len(nodes'[new].keys) = 1 /\ Len(nodes'[new].pointers) = 1
      /\ nodes'[new].pointers[1] # <<>>
  BY <1>2, <1>4
<1>7. IsTree(nodes', {new}, new, [n \in {new} |-> 0], [n \in {new} |-> Int])
  BY <1>2, <1>4, <1>5, <1>6, FirstLeaf
<1>8. SomeTree(nodes', DOMAIN nodes', root')
  BY <1>2, <1>7 DEF SomeTree
<1>9. Filled(nodes', DOMAIN nodes', {root'})
  <2> SUFFICES ASSUME NEW n \in DOMAIN nodes'
               PROVE  /\ Len(nodes'[n].keys) >= 1 /\ Len(nodes'[n].keys) <= nodeSize
                      /\ n = root'
    BY DEF Filled
  <2>1. n = new
    BY <1>2
  <2>2. Len(nodes'[n].keys) = 1
    BY <1>6, <2>1
  <2>3. 1 >= 1 /\ 1 <= nodeSize
    BY Thresholds
  <2>4. n = root'
    BY <1>2, <2>1
  <2> QED
    BY <2>2, <2>3, <2>4
<1>10. IsFiniteSet(DOMAIN nodes')
  BY <1>2, FS_Singleton
<1> QED
  BY <1>1, <1>2, <1>5, <1>8, <1>9, <1>10 DEF Settled

LEMMA InToSet ==
  ASSUME NEW s, NEW x
  PROVE  x \in ToSet(s) <=> \E i \in 1..Len(s) : s[i] = x
  BY DEF ToSet

(* A leaf with another array of pointers, and of keys, too.                *)
withPointers(r, ps) == [r EXCEPT !.pointers = ps]
withArrays(r, ks, ps) == [r EXCEPT !.keys = ks, !.pointers = ps]

LEMMA LeafWithPointers ==
  ASSUME NEW r \in LeafRecord, NEW ps \in Seq(Seq(Time)), NEW x, x = withPointers(r, ps)
  PROVE  /\ x \in LeafRecord /\ x.isLeaf /\ x.parent = r.parent
         /\ x.next = r.next /\ x.prev = r.prev /\ x.keys = r.keys /\ x.pointers = ps
  BY DEF LeafRecord, withPointers

LEMMA LeafWithArrays ==
  ASSUME NEW r \in LeafRecord, NEW ks \in Seq(Value), NEW ps \in Seq(Seq(Time)),
         NEW x, x = withArrays(r, ks, ps)
  PROVE  /\ x \in LeafRecord /\ x.isLeaf /\ x.parent = r.parent
         /\ x.next = r.next /\ x.prev = r.prev /\ x.keys = ks /\ x.pointers = ps
  BY DEF LeafRecord, withArrays

(* Without its height and its ranges, LeafChanged for the nodes.           *)
LEMMA DuplicateAdded ==
  ASSUME nodeSize >= 3, Settled(nodes, root), NEW t \in Time, NEW v \in Value,
         addDuplicateToDoublyLinkedList(findLeaf(v), t, v)
  PROVE  Settled(nodes', root')
<1>1. PICK H, R : WholeTree(H, R)
  BY DEF Settled, SomeTree, WholeTree
<1> DEFINE leaf == findLeaf(v)
           i == PositionOf(nodes[leaf].keys, v)
           L == DOMAIN nodes
<1>2. leaf \in L /\ nodes[leaf].isLeaf /\ NodeTypes(nodes, L) /\ IsTree(nodes, L, root, H, R)
  BY <1>1, ValueAssumption, FindLeafInRange DEF Settled, WholeTree
<1>3. nodes[leaf] \in LeafRecord /\ nodes[leaf].keys \in Seq(Int)
  BY <1>2, NodeFields
<1>4. /\ nodes' = [nodes EXCEPT ![leaf].pointers[i] = Append(@, t)] /\ root' = root
      /\ isDuplicateKey(leaf, v)
  BY DEF addDuplicateToDoublyLinkedList
<1> HIDE DEF leaf
<1>5. i \in 1..Len(nodes[leaf].keys)
  <2>1. \E j \in 1..Len(nodes[leaf].keys) : nodes[leaf].keys[j] = v
    BY <1>4, InToSet, Zenon DEF isDuplicateKey
  <2> QED
    BY <1>3, <2>1, PositionOfFinds
<1> HIDE DEF i
<1>6. LeafKeys(nodes, R, leaf) /\ Ascending(nodes[leaf].keys)
  BY <1>2 DEF IsTree, IsHeap, KeysInRange
<1>7. nodes[leaf].pointers \in Seq(Seq(Time)) /\ i \in 1..Len(nodes[leaf].pointers)
  BY <1>3, <1>5, <1>6 DEF LeafRecord, LeafKeys
<1> DEFINE ps == [nodes[leaf].pointers EXCEPT ![i] = Append(@, t)]
<1>8. ps \in Seq(Seq(Time)) /\ Len(ps) = Len(nodes[leaf].pointers)
  BY <1>7
<1>9. \A j \in 1..Len(nodes[leaf].pointers) : nodes[leaf].pointers[j] # <<>> => ps[j] # <<>>
  <2>1. nodes[leaf].pointers[i] \in Seq(Time)
    BY <1>7
  <2>2. Append(nodes[leaf].pointers[i], t) # <<>>
    <3>1. \A q \in Seq(Time) : Append(q, t) # <<>>
      OBVIOUS
    <3> QED
      BY <2>1, <3>1
  <2>3. ps[i] = Append(nodes[leaf].pointers[i], t)
    BY <1>7
  <2>4. \A j \in 1..Len(nodes[leaf].pointers) : j # i => ps[j] = nodes[leaf].pointers[j]
    BY <1>7
  <2> HIDE DEF ps
  <2> QED
    BY <2>2, <2>3, <2>4
<1>10. /\ DOMAIN nodes' = L
       /\ \A n \in L \ {leaf} : nodes'[n] = nodes[n]
       /\ nodes'[leaf] = [nodes[leaf] EXCEPT !.pointers = ps]
  BY <1>2, <1>4
<1> HIDE DEF ps
<1>11. /\ nodes'[leaf] \in LeafRecord
       /\ nodes'[leaf].isLeaf /\ nodes'[leaf].parent = nodes[leaf].parent
       /\ nodes'[leaf].next = nodes[leaf].next /\ nodes'[leaf].prev = nodes[leaf].prev
       /\ nodes'[leaf].keys = nodes[leaf].keys /\ nodes'[leaf].pointers = ps
  <2> DEFINE old == nodes[leaf]
             new == nodes'[leaf]
  <2>1. old \in LeafRecord /\ new = withPointers(old, ps)
    BY <1>3, <1>10, Zenon DEF withPointers
  <2> HIDE DEF old, new
  <2>2. /\ new \in LeafRecord /\ new.isLeaf /\ new.parent = old.parent
        /\ new.next = old.next /\ new.prev = old.prev /\ new.keys = old.keys /\ new.pointers = ps
    BY <1>8, <2>1, LeafWithPointers
  <2> QED
    BY <2>2 DEF old, new
<1>12. NodeTypes(nodes', L)
  BY <1>2, <1>10, <1>11 DEF NodeTypes
<1>13. LeafKeys(nodes', R, leaf)
  BY <1>6, <1>8, <1>9, <1>11 DEF LeafKeys
<1>14. IsTree(nodes', L, root, H, R)
  BY <1>2, <1>6, <1>10, <1>11, <1>12, <1>13, LeafChanged
<1>15. \A n \in L : nodes'[n].keys = nodes[n].keys /\ nodes'[n].isLeaf = nodes[n].isLeaf
  BY <1>2, <1>3, <1>10, <1>11 DEF LeafRecord
<1>16. Filled(nodes', L, {root})
  BY <1>15 DEF Settled, Filled, leastKeys
<1> QED
  BY <1>4, <1>10, <1>12, <1>14, <1>16 DEF Settled, SomeTree

(* The leaf with a new record at its insert point, full or not.            *)
withRecord(leaf, t, v) ==
  LET insertPoint == getInsertPoint(nodes[leaf].keys, v)
  IN  [nodes EXCEPT ![leaf].keys = InsertAt(@, insertPoint + 1, v),
                    ![leaf].pointers = InsertAt(@, insertPoint + 1, <<t>>)]

(* What the leaf is then, and that all the rest stays.                     *)
GotRecord(g, leaf, t, v) ==
  LET insertPoint == getInsertPoint(nodes[leaf].keys, v)
  IN  /\ DOMAIN g = DOMAIN nodes
      /\ \A n \in DOMAIN nodes \ {leaf} : g[n] = nodes[n]
      /\ g[leaf] \in LeafRecord /\ g[leaf].isLeaf /\ g[leaf].parent = nodes[leaf].parent
      /\ g[leaf].next = nodes[leaf].next /\ g[leaf].prev = nodes[leaf].prev
      /\ g[leaf].keys = InsertAt(nodes[leaf].keys, insertPoint + 1, v)
      /\ g[leaf].pointers = InsertAt(nodes[leaf].pointers, insertPoint + 1, <<t>>)
      /\ Len(g[leaf].keys) = Len(nodes[leaf].keys) + 1
      /\ Len(g[leaf].pointers) = Len(nodes[leaf].keys) + 1

LEMMA LeafGetsRecord ==
  ASSUME NEW H, NEW R, WholeTree(H, R), NEW leaf \in DOMAIN nodes, nodes[leaf].isLeaf,
         NEW t \in Time, NEW v \in Value, v \in R[leaf], ~isDuplicateKey(leaf, v)
  PROVE  /\ IsTree(withRecord(leaf, t, v), DOMAIN nodes, root, H, R)
         /\ GotRecord(withRecord(leaf, t, v), leaf, t, v)
<1> DEFINE L == DOMAIN nodes
           s == nodes[leaf].keys
           ps == nodes[leaf].pointers
           j == getInsertPoint(s, v) + 1
           keys == InsertAt(s, j, v)
           pointers == InsertAt(ps, j, <<t>>)
           g == withRecord(leaf, t, v)
<1>1. /\ NodeTypes(nodes, L) /\ IsTree(nodes, L, root, H, R)
      /\ LeafKeys(nodes, R, leaf) /\ Ascending(s)
  BY DEF WholeTree, IsTree, IsHeap, KeysInRange
<1>2. /\ nodes[leaf] \in LeafRecord /\ s \in Seq(Value) /\ s \in Seq(Int)
      /\ ps \in Seq(Seq(Time)) /\ Len(ps) = Len(s) /\ v \in Int
  BY <1>1, NodeFields, ValueAssumption DEF LeafKeys
<1>3. /\ g = [nodes EXCEPT ![leaf].keys = keys, ![leaf].pointers = pointers]
  BY DEF withRecord
<1>4. /\ getInsertPoint(s, v) \in 0..Len(s)
      /\ \A i \in 1..getInsertPoint(s, v) : s[i] <= v
      /\ getInsertPoint(s, v) < Len(s) => s[getInsertPoint(s, v) + 1] > v
  BY <1>2, InsertPointSeparates
<1> HIDE DEF s, ps
<1>5. /\ j \in 1..(Len(s) + 1) /\ j \in Nat
      /\ j > 1 => j - 1 \in 1..Len(s) /\ s[j - 1] <= v
      /\ j <= Len(s) => v < s[j]
  <2>1. Len(s) \in Nat
    BY <1>2
  <2>2. j \in 1..(Len(s) + 1) /\ j \in Nat
    BY <1>4, <2>1
  <2>3. j > 1 => j - 1 \in 1..Len(s) /\ s[j - 1] <= v
    BY <1>4, <2>1
  <2>4. j <= Len(s) => j \in 1..Len(s) /\ v < s[j]
    <3> SUFFICES ASSUME j <= Len(s)
                 PROVE  j \in 1..Len(s) /\ v < s[j]
      OBVIOUS
    <3>1. getInsertPoint(s, v) < Len(s) /\ j \in 1..Len(s)
      BY <1>4, <2>1
    <3>2. s[j] > v
      BY <1>4, <3>1
    <3>3. s[j] \in Int
      BY <1>2, <3>1
    <3> QED
      BY <1>2, <3>1, <3>2, <3>3
  <2> QED
    BY <2>2, <2>3, <2>4
<1> HIDE DEF j
<1>6. j > 1 => s[j - 1] < v
  <2> SUFFICES ASSUME j > 1
               PROVE  s[j - 1] < v
    OBVIOUS
  <2>1. j - 1 \in 1..Len(s) /\ s[j - 1] <= v /\ s[j - 1] \in Int
    BY <1>2, <1>5
  <2>2. s[j - 1] # v
    BY <2>1 DEF isDuplicateKey, ToSet, s
  <2> QED
    BY <1>2, <2>1, <2>2
<1>7. Inserted(s, keys, j, v) /\ keys \in Seq(Value) /\ keys \in Seq(Int)
  BY <1>2, <1>5, InsertAtInserts
<1>8. Inserted(ps, pointers, j, <<t>>) /\ pointers \in Seq(Seq(Time))
  <2>1. <<t>> \in Seq(Time) /\ j \in 1..(Len(ps) + 1)
    BY <1>2, <1>5
  <2> QED
    BY <1>2, <2>1, InsertAtInserts
<1> HIDE DEF keys, pointers
<1>10. Ascending(keys)
  BY <1>1, <1>2, <1>5, <1>6, <1>7, InsertedAscending DEF s
<1>11. Len(keys) = Len(s) + 1 /\ Len(pointers) = Len(s) + 1
  BY <1>2, <1>7, <1>8 DEF Inserted
<1>12. GotRecord(g, leaf, t, v)
  <2>1. /\ DOMAIN g = DOMAIN nodes
        /\ \A n \in DOMAIN nodes \ {leaf} : g[n] = nodes[n]
        /\ g[leaf] = [nodes[leaf] EXCEPT !.keys = keys, !.pointers = pointers]
    BY <1>2, <1>3 DEF LeafRecord
  <2> HIDE DEF g
  <2>2. /\ g[leaf] \in LeafRecord /\ g[leaf].isLeaf /\ g[leaf].parent = nodes[leaf].parent
        /\ g[leaf].next = nodes[leaf].next /\ g[leaf].prev = nodes[leaf].prev
        /\ g[leaf].keys = keys /\ g[leaf].pointers = pointers
    <3> DEFINE old == nodes[leaf]
               new == g[leaf]
    <3>1. old \in LeafRecord /\ new = withArrays(old, keys, pointers)
      BY <1>2, <2>1, Zenon DEF withArrays
    <3>2. keys \in Seq(Value) /\ pointers \in Seq(Seq(Time))
      BY <1>7, <1>8, Zenon
    <3> HIDE DEF old, new
    <3>3. /\ new \in LeafRecord /\ new.isLeaf /\ new.parent = old.parent
          /\ new.next = old.next /\ new.prev = old.prev
          /\ new.keys = keys /\ new.pointers = pointers
      BY <3>1, <3>2, LeafWithArrays
    <3> QED
      BY <3>3 DEF old, new
  <2> QED
    BY <1>11, <2>1, <2>2 DEF GotRecord, keys, pointers, j, s, ps
<1> HIDE DEF g
<1>13. /\ DOMAIN g = L /\ (\A n \in L \ {leaf} : g[n] = nodes[n])
       /\ g[leaf] \in LeafRecord /\ g[leaf].isLeaf /\ g[leaf].parent = nodes[leaf].parent
       /\ g[leaf].next = nodes[leaf].next /\ g[leaf].prev = nodes[leaf].prev
       /\ g[leaf].keys = keys /\ g[leaf].pointers = pointers
  BY <1>12 DEF GotRecord, keys, pointers, j, s, ps
<1>14. NodeTypes(g, L)
  BY <1>1, <1>13 DEF NodeTypes
<1>15. ASSUME NEW i \in 1..(Len(s) + 1)
       PROVE  keys[i] \in R[leaf] /\ pointers[i] # <<>>
  <2>1. Len(s) \in Nat /\ \A m \in 1..Len(s) : s[m] \in R[leaf] /\ ps[m] # <<>>
    BY <1>1, <1>2 DEF LeafKeys, s, ps
  <2>2. CASE i < j
    <3>1. i \in 1..(j - 1) /\ i \in 1..Len(s)
      BY <1>5, <2>1, <2>2
    <3>2. keys[i] = s[i]
      BY <1>7, <3>1 DEF Inserted
    <3>3. pointers[i] = ps[i]
      BY <1>8, <3>1 DEF Inserted
    <3> QED
      BY <2>1, <3>1, <3>2, <3>3
  <2>3. CASE i = j
    <3>1. keys[i] = v
      BY <1>7, <2>3 DEF Inserted
    <3>2. pointers[i] = <<t>>
      BY <1>8, <2>3 DEF Inserted
    <3> QED
      BY <3>1, <3>2
  <2>4. CASE i > j
    <3>1. i - 1 \in j..Len(s) /\ i - 1 \in 1..Len(s) /\ (i - 1) + 1 = i
      BY <1>5, <2>1, <2>4
    <3>2. keys[(i - 1) + 1] = s[i - 1]
      BY <1>7, <3>1 DEF Inserted
    <3>3. pointers[(i - 1) + 1] = ps[i - 1]
      BY <1>2, <1>8, <3>1 DEF Inserted
    <3> QED
      BY <2>1, <3>1, <3>2, <3>3
  <2> QED
    BY <1>5, <2>1, <2>2, <2>3, <2>4
<1>16. LeafKeys(g, R, leaf)
  BY <1>11, <1>13, <1>15 DEF LeafKeys
<1>17. IsTree(g, L, root, H, R)
  BY <1>1, <1>10, <1>13, <1>14, <1>16, LeafChanged
<1> QED
  BY <1>12, <1>17 DEF g

LEMMA RecordInserted ==
  ASSUME nodeSize >= 3, Settled(nodes, root), NEW t \in Time, NEW v \in Value,
         insertRecordIntoLeaf(findLeaf(v), t, v)
  PROVE  Settled(nodes', root')
<1>1. PICK H, R : WholeTree(H, R)
  BY DEF Settled, SomeTree, WholeTree
<1> DEFINE leaf == findLeaf(v)
           g == withRecord(leaf, t, v)
           L == DOMAIN nodes
<1>2. leaf \in L /\ nodes[leaf].isLeaf /\ v \in R[leaf] /\ NodeTypes(nodes, L)
  BY <1>1, ValueAssumption, FindLeafInRange DEF Settled
<1>3. nodes' = g /\ root' = root /\ ~isDuplicateKey(leaf, v) /\ numOfKeys(leaf) < nodeSize
  BY Zenon DEF insertRecordIntoLeaf, withRecord
<1> HIDE DEF leaf
<1>4. IsTree(g, L, root, H, R) /\ GotRecord(g, leaf, t, v)
  BY <1>1, <1>2, <1>3, LeafGetsRecord
<1> HIDE DEF g
<1>5. /\ DOMAIN g = L /\ (\A n \in L \ {leaf} : g[n] = nodes[n])
      /\ g[leaf].isLeaf /\ Len(g[leaf].keys) = Len(nodes[leaf].keys) + 1
  BY <1>4 DEF GotRecord
<1>6. NodeTypes(g, L)
  BY <1>4 DEF IsTree, IsHeap
<1>7. Filled(g, L, {root})
  <2>1. Filled(nodes, L, {root}) /\ Len(nodes[leaf].keys) \in Nat
    BY <1>2, NodeFields DEF Settled
  <2>2. Len(g[leaf].keys) >= 1 /\ Len(g[leaf].keys) <= nodeSize
    <3>1. Len(nodes[leaf].keys) < nodeSize
      BY <1>3, Zenon DEF numOfKeys
    <3>2. nodeSize \in Nat
      BY Thresholds
    <3> QED
      BY <1>5, <2>1, <3>1, <3>2
  <2>3. leaf # root => Len(g[leaf].keys) >= leastKeys(g[leaf])
    <3>1. leaf # root => Len(nodes[leaf].keys) >= leastKeys(nodes[leaf])
      BY <1>2, <2>1 DEF Filled
    <3>2. leastKeys(nodes[leaf]) \in Nat /\ leastKeys(g[leaf]) = leastKeys(nodes[leaf])
      BY <1>2, <1>5, LeastKeys DEF leastKeys
    <3> QED
      BY <1>5, <2>1, <3>1, <3>2
  <2>4. ASSUME NEW n \in L \ {leaf}
        PROVE  /\ Len(g[n].keys) >= 1 /\ Len(g[n].keys) <= nodeSize
               /\ n \notin {root} => Len(g[n].keys) >= leastKeys(g[n])
    BY <1>5, <2>1 DEF Filled
  <2> QED
    BY <2>2, <2>3, <2>4 DEF Filled
<1> QED
  BY <1>3, <1>4, <1>5, <1>6, <1>7 DEF Settled, SomeTree

(* The full leaf with its new record is the two leaves after the split.    *)
LEMMA LeafSplit ==
  ASSUME nodeSize >= 3, Settled(nodes, root), MemoryLeft, NEW t \in Time, NEW v \in Value,
         splitAndInsertIntoLeaves(findLeaf(v), t, v)
  PROVE  /\ call' = insertIntoParentCall(call'.oldChild, call'.newKey, call'.newChild)
         /\ call' \in Call
         /\ HalfSplit(nodes', root', call'.oldChild, call'.newKey, call'.newChild)
         /\ SameEntries(nodes', DOMAIN nodes', withRecord(findLeaf(v), t, v), DOMAIN nodes)
<1>1. PICK H, R : WholeTree(H, R)
  BY DEF Settled, SomeTree, WholeTree
<1> DEFINE a == findLeaf(v)
           big == withRecord(a, t, v)
           two == nodes'
           L == DOMAIN nodes
           b == malloc(nodes)
           split == leftLeafKeys(nodeSize)
           M == L \union {b}
           tempKeys == InsertAt(nodes[a].keys, getInsertPoint(nodes[a].keys, v) + 1, v)
           tempPointers == InsertAt(nodes[a].pointers, getInsertPoint(nodes[a].keys, v) + 1, <<t>>)
           lk == SubSeq(tempKeys, 1, split)
           rk == SubSeq(tempKeys, split + 1, Len(tempKeys))
           lp == SubSeq(tempPointers, 1, split)
           rp == SubSeq(tempPointers, split + 1, Len(tempPointers))
           leftNode == [nodes[a] EXCEPT !.keys = lk, !.pointers = lp, !.next = b]
           rightNode == Leaf_new(nodes[a].parent, rk, rp, a, nodes[a].next)
<1>2. /\ a \in L /\ nodes[a].isLeaf /\ v \in R[a] /\ NodeTypes(nodes, L)
      /\ IsTree(nodes, L, root, H, R)
  BY <1>1, ValueAssumption, FindLeafInRange DEF Settled, WholeTree
<1>3. /\ ~isDuplicateKey(a, v) /\ Len(nodes[a].keys) >= nodeSize /\ root' = root
      /\ two = allocated(SetPrev([nodes EXCEPT ![a] = leftNode], nodes[a].next, b), b, rightNode)
      /\ call' = insertIntoParentCall(a, rightNode.keys[1], b)
  BY Zenon DEF splitAndInsertIntoLeaves, numOfKeys, upperHalf
<1>4. /\ nodes[a] \in LeafRecord /\ a \in Node /\ Len(nodes[a].keys) \in Nat
      /\ nodes[a].parent \in Node \union {NULL} /\ nodes[a].next \in Node \union {NULL}
  <2> HIDE DEF a, L
  <2> QED
    BY <1>2, NodeFields
<1>5. L \subseteq Node /\ NULL \notin L /\ b \in Node /\ b \notin L
  BY <1>2, Malloc, NULLAssumption DEF NodeTypes
<1>6. /\ nodes[a].next # a
      /\ nodes[a].next # NULL => nodes[a].next \in L /\ nodes[nodes[a].next].prev = a
  BY <1>2, <1>5, LeafLinks DEF IsTree, IsHeap
<1> HIDE DEF a, b
<1>7. IsTree(big, L, root, H, R) /\ GotRecord(big, a, t, v)
  BY <1>1, <1>2, <1>3, LeafGetsRecord
<1> HIDE DEF big
<1>8. /\ DOMAIN big = L /\ (\A n \in L \ {a} : big[n] = nodes[n])
      /\ big[a] \in LeafRecord /\ big[a].isLeaf /\ big[a].parent = nodes[a].parent
      /\ big[a].next = nodes[a].next /\ big[a].prev = nodes[a].prev
      /\ big[a].keys = tempKeys /\ big[a].pointers = tempPointers
      /\ Len(tempKeys) = Len(nodes[a].keys) + 1 /\ Len(tempPointers) = Len(nodes[a].keys) + 1
  BY <1>7 DEF GotRecord
<1>9. Len(nodes[a].keys) = nodeSize /\ NodeTypes(big, L)
  <2>1. Len(nodes[a].keys) <= nodeSize
    BY <1>2 DEF Settled, Filled
  <2>2. NodeTypes(big, L)
    BY <1>7, Zenon DEF IsTree, IsHeap
  <2>3. nodeSize \in Nat /\ Len(nodes[a].keys) >= nodeSize
    BY <1>3, Thresholds
  <2> QED
    BY <1>4, <2>1, <2>2, <2>3
<1> HIDE DEF tempKeys, tempPointers
<1>10. /\ tempKeys \in Seq(Value) /\ tempPointers \in Seq(Seq(Time))
       /\ Len(tempKeys) = nodeSize + 1 /\ Len(tempPointers) = nodeSize + 1
  BY <1>8, <1>9 DEF LeafRecord
<1>11. split \in 0..(nodeSize + 1) /\ split \in Nat /\ split >= 1 /\ split <= nodeSize
  BY Thresholds
<1> HIDE DEF split
<1>12. /\ Joined(lk, rk, tempKeys) /\ lk \in Seq(Value) /\ rk \in Seq(Value)
       /\ Len(lk) = split /\ Len(rk) = nodeSize + 1 - split
  <2>1. split \in 0..Len(tempKeys)
    BY <1>10, <1>11
  <2>2. /\ Joined(lk, rk, tempKeys) /\ lk \in Seq(Value) /\ rk \in Seq(Value)
        /\ Len(lk) = split /\ Len(rk) = Len(tempKeys) - split
    BY <1>10, <2>1, HalvesAreJoined
  <2>3. nodeSize \in Nat
    BY Thresholds
  <2> HIDE DEF lk, rk
  <2> QED
    BY <1>10, <1>11, <2>2, <2>3
<1>13. /\ Joined(lp, rp, tempPointers) /\ lp \in Seq(Seq(Time)) /\ rp \in Seq(Seq(Time))
       /\ Len(lp) = split
  BY <1>10, <1>11, HalvesAreJoined
<1> HIDE DEF lk, rk, lp, rp
<1>14. /\ leftNode \in LeafRecord /\ leftNode.isLeaf /\ leftNode.parent = nodes[a].parent
       /\ leftNode.keys = lk
       /\ leftNode.pointers = lp
       /\ leftNode.next = b /\ leftNode.prev = nodes[a].prev
  BY <1>4, <1>5, <1>12, <1>13 DEF LeafRecord
<1>15. /\ rightNode \in LeafRecord /\ rightNode.isLeaf /\ rightNode.parent = nodes[a].parent
       /\ rightNode.keys = rk
       /\ rightNode.pointers = rp
       /\ rightNode.next = nodes[a].next /\ rightNode.prev = a
  BY <1>4, <1>5, <1>12, <1>13 DEF LeafRecord, Leaf_new
<1> HIDE DEF leftNode, rightNode
<1>16. /\ DOMAIN two = M
       /\ two[b] = rightNode /\ two[a] = leftNode
       /\ \A n \in L \ {a} : two[n] = IF n = nodes[a].next THEN [nodes[n] EXCEPT !.prev = b]
                                      ELSE nodes[n]
  <2> DEFINE one == [nodes EXCEPT ![a] = leftNode]
             linked == SetPrev(one, nodes[a].next, b)
  <2>1. DOMAIN one = L /\ one[a] = leftNode /\ \A n \in L \ {a} : one[n] = nodes[n]
    BY <1>2
  <2> HIDE DEF one
  <2>2. /\ DOMAIN linked = L /\ linked[a] = leftNode
        /\ \A n \in L \ {a} : linked[n] = IF n = nodes[a].next THEN [nodes[n] EXCEPT !.prev = b]
                                          ELSE nodes[n]
    BY <1>2, <1>5, <1>6, <2>1 DEF SetPrev
  <2>3. two = allocated(linked, b, rightNode)
    BY <1>3 DEF one
  <2> HIDE DEF linked
  <2> QED
    BY <1>2, <1>5, <2>2, <2>3 DEF allocated
<1> HIDE DEF two
<1>17. ASSUME NEW n \in L \ {a}
       PROVE  /\ two[n] \in LeafRecord \/ two[n] \in InnerRecord
              /\ two[n].isLeaf = nodes[n].isLeaf /\ two[n].parent = nodes[n].parent
              /\ two[n].keys = nodes[n].keys /\ two[n].pointers = nodes[n].pointers
              /\ two[n].next = nodes[n].next
              /\ n # nodes[a].next => two[n].prev = nodes[n].prev
              /\ n = nodes[a].next => two[n].prev = b
  <2>1. nodes[n] \in LeafRecord \/ nodes[n] \in InnerRecord
    BY <1>2 DEF NodeTypes
  <2>2. CASE n # nodes[a].next
    BY <1>16, <2>1, <2>2
  <2>3. CASE n = nodes[a].next
    <3>1. two[n] = [nodes[n] EXCEPT !.prev = b]
      BY <1>16, <2>3
    <3>2. nodes[n] \in LeafRecord
      <4>1. nodes[n].isLeaf
        BY <1>2, <1>5, <2>3, LeafLinks DEF IsTree, IsHeap
      <4> QED
        BY <1>2, <4>1, NodeFields
    <3> QED
      BY <1>5, <2>3, <3>1, <3>2 DEF LeafRecord
  <2> QED
    BY <2>2, <2>3
<1>18. NodeTypes(two, M)
  <2>1. \A n \in M : two[n] \in LeafRecord \/ two[n] \in InnerRecord
    BY <1>14, <1>15, <1>16, <1>17
  <2> QED
    BY <1>5, <1>16, <2>1 DEF NodeTypes
<1>19. M \ {b} = L
  BY <1>5
<1>20. LeafDivided(big, two, M, a, b)
  <2>1. a \in M /\ b \in M /\ a # b
    BY <1>2, <1>5
  <2>2. /\ Joined(two[a].keys, two[b].keys, big[a].keys)
        /\ Joined(two[a].pointers, two[b].pointers, big[a].pointers)
        /\ Len(two[a].pointers) = Len(two[a].keys)
    <3>1. /\ two[a].keys = lk
          /\ two[b].keys = rk
          /\ big[a].keys = tempKeys
          /\ two[a].pointers = lp
          /\ two[b].pointers = rp
          /\ big[a].pointers = tempPointers
      BY <1>8, <1>14, <1>15, <1>16
    <3> QED
      BY <1>12, <1>13, <3>1
  <2>3. /\ big[a].isLeaf /\ two[a].isLeaf /\ two[b].isLeaf
        /\ two[a].parent = big[a].parent /\ two[b].parent = big[a].parent
        /\ two[a].next = b /\ two[b].prev = a
        /\ two[a].prev = big[a].prev /\ two[b].next = big[a].next
    BY <1>8, <1>14, <1>15, <1>16
  <2>4. ASSUME NEW n \in M \ {a, b}
        PROVE  /\ two[n].isLeaf = big[n].isLeaf /\ two[n].parent = big[n].parent
               /\ two[n].keys = big[n].keys /\ two[n].pointers = big[n].pointers
               /\ two[n].next = big[n].next
               /\ n # big[a].next => two[n].prev = big[n].prev
               /\ n = big[a].next => two[n].prev = b /\ big[n].prev = a
    <3>1. n \in L \ {a} /\ big[n] = nodes[n] /\ big[a].next = nodes[a].next
      BY <1>8
    <3>2. n = nodes[a].next => nodes[n].prev = a
      BY <1>5, <1>6, <3>1
    <3> QED
      BY <1>17, <3>1, <3>2
  <2> QED
    BY <1>9, <1>18, <1>19, <2>1, <2>2, <2>3, <2>4 DEF LeafDivided
<1> DEFINE k == rightNode.keys[1]
<1>21. two[a].keys # <<>> /\ two[b].keys # <<>> /\ k = two[b].keys[1] /\ k \in Value
  <2>1. two[a].keys = lk /\ two[b].keys = rk /\ rightNode.keys = rk
    BY <1>14, <1>15, <1>16
  <2>2. Len(lk) >= 1 /\ lk \in Seq(Value) /\ Len(rk) >= 1 /\ rk \in Seq(Value)
    BY <1>11, <1>12, Thresholds
  <2>3. lk # <<>> /\ rk # <<>> /\ rk[1] \in Value
    BY <2>2
  <2> QED
    BY <2>1, <2>3
<1> HIDE DEF k
<1>22. SomeForest(two, M, root, a, k, b)
  BY <1>7, <1>19, <1>20, <1>21, SplitLeaf DEF SomeForest
<1>23. Filled(two, M, {root} \ {a})
  <2>1. /\ Len(two[a].keys) = minLeafKeys(nodeSize)
        /\ Len(two[b].keys) = rightLeafKeys(nodeSize)
    <3>1. Len(two[a].keys) = split /\ Len(two[b].keys) = nodeSize + 1 - split
      BY <1>10, <1>12, <1>14, <1>15, <1>16
    <3> QED
      BY <3>1, Thresholds DEF split, rightLeafKeys
  <2>2. leastKeys(two[a]) = minLeafKeys(nodeSize) /\ leastKeys(two[b]) = minLeafKeys(nodeSize)
    BY <1>14, <1>15, <1>16 DEF leastKeys
  <2>3. ASSUME NEW n \in {a, b}
        PROVE  /\ Len(two[n].keys) >= 1 /\ Len(two[n].keys) <= nodeSize
               /\ Len(two[n].keys) >= leastKeys(two[n])
    BY <2>1, <2>2, Thresholds
  <2>4. ASSUME NEW n \in L \ {a}
        PROVE  /\ Len(two[n].keys) >= 1 /\ Len(two[n].keys) <= nodeSize
               /\ n # root => Len(two[n].keys) >= leastKeys(two[n])
    BY <1>17 DEF Settled, Filled, leastKeys
  <2> QED
    BY <2>3, <2>4 DEF Filled
<1>24. IsFiniteSet(M)
  BY FS_AddElement DEF Settled
<1>25. HalfSplit(two, root, a, k, b)
  BY <1>16, <1>18, <1>22, <1>23, <1>24 DEF HalfSplit
<1>26. call' = insertIntoParentCall(a, k, b) /\ root' = root
  BY <1>3 DEF k
<1>27. call'.oldChild = a /\ call'.newKey = k /\ call'.newChild = b
  BY <1>26 DEF insertIntoParentCall
<1>28. SameEntries(two, DOMAIN two, big, L)
  <2>1. Len(big[a].pointers) = Len(big[a].keys)
    BY <1>8
  <2>2. SameEntries(two, M, big, M \ {b})
    BY <1>20, <2>1, DividedEntries
  <2> QED
    BY <1>16, <1>19, <2>2
<1>29. SameEntries(nodes', DOMAIN nodes', withRecord(findLeaf(v), t, v), DOMAIN nodes)
  BY <1>28 DEF two, big, a
<1> QED
  BY <1>4, <1>5, <1>21, <1>25, <1>26, <1>27, <1>29 DEF Call, insertIntoParentCall, two

(* Another parent leaves a node a node.                                    *)
LEMMA ParentChanged ==
  ASSUME NEW node, node \in LeafRecord \/ node \in InnerRecord,
         NEW parent \in Node \union {NULL}
  PROVE  LET new == [node EXCEPT !.parent = parent]
         IN  /\ new \in LeafRecord \/ new \in InnerRecord
             /\ new.isLeaf = node.isLeaf /\ new.keys = node.keys
             /\ new.pointers = node.pointers /\ new.prev = node.prev /\ new.next = node.next
             /\ new.parent = parent
<1>1. CASE node \in LeafRecord
  BY <1>1 DEF LeafRecord
<1>2. CASE node \in InnerRecord
  BY <1>2 DEF InnerRecord
<1> QED
  BY <1>1, <1>2

(* A split root and its right half get a root above them.                  *)
LEMMA RootGrown ==
  ASSUME nodeSize >= 3, MemoryLeft, NEW a, NEW k, NEW b, HalfSplit(nodes, root, a, k, b),
         insertIntoANewRoot(a, k, b)
  PROVE  Settled(nodes', root') /\ root' \in Node
<1> DEFINE L == DOMAIN nodes
           q == malloc(nodes)
           g == nodes'
           raised == SetParent(nodes, {a, b}, q)
<1>1. PICK H, R : IsForest(nodes, L, root, H, R, a, k, b)
  BY DEF HalfSplit, SomeForest
<1>2. NodeTypes(nodes, L) /\ L \subseteq Node /\ q \in Node /\ q \notin L
  BY Malloc DEF HalfSplit, NodeTypes
<1>3. /\ a \in L /\ b \in L /\ k \in Value /\ a = root
  <2>1. nodes[a].parent = NULL
    BY DEF insertIntoANewRoot
  <2>2. a = root
    BY <1>1, <2>1, ParentOfLeft
  <2> QED
    BY <1>1, <2>2 DEF IsForest, IsPair
<1>4. root' = q /\ g = allocated(raised, q, Node_new(NULL, <<k>>, <<a, b>>))
  BY Zenon DEF insertIntoANewRoot
<1> HIDE DEF q
<1>5. /\ DOMAIN raised = L
      /\ \A n \in L : raised[n] = IF n \in {a, b} THEN [nodes[n] EXCEPT !.parent = q] ELSE nodes[n]
  BY DEF SetParent
<1> HIDE DEF raised
<1>6. /\ DOMAIN g = L \union {q} /\ g[q] = Node_new(NULL, <<k>>, <<a, b>>)
      /\ \A n \in L : g[n] = raised[n]
  BY <1>2, <1>4, <1>5 DEF allocated
<1> HIDE DEF g
<1>7. ASSUME NEW n \in L
      PROVE  /\ g[n] \in LeafRecord \/ g[n] \in InnerRecord
             /\ g[n].isLeaf = nodes[n].isLeaf /\ g[n].keys = nodes[n].keys
             /\ g[n].pointers = nodes[n].pointers
             /\ g[n].next = nodes[n].next /\ g[n].prev = nodes[n].prev
             /\ g[n].parent = IF n \in {a, b} THEN q ELSE nodes[n].parent
  <2>1. nodes[n] \in LeafRecord \/ nodes[n] \in InnerRecord
    BY <1>2 DEF NodeTypes
  <2>2. CASE n \in {a, b}
    <3>1. g[n] = [nodes[n] EXCEPT !.parent = q]
      BY <1>5, <1>6, <2>2
    <3> QED
      BY <1>2, <2>1, <2>2, <3>1, ParentChanged
  <2>3. CASE n \notin {a, b}
    BY <1>5, <1>6, <2>1, <2>3
  <2> QED
    BY <2>2, <2>3
<1>8. /\ g[q] \in InnerRecord /\ ~g[q].isLeaf /\ g[q].parent = NULL
      /\ g[q].keys = <<k>> /\ g[q].pointers = <<a, b>>
  BY <1>2, <1>3, <1>6 DEF Node_new, InnerRecord
<1>9. NodeTypes(g, L \union {q})
  BY <1>2, <1>6, <1>7, <1>8 DEF NodeTypes
<1>10. Raised(nodes, g, L, root, k, b, q)
  BY <1>2, <1>3, <1>7, <1>8, <1>9 DEF Raised
<1>11. SomeTree(g, L \union {q}, q)
  BY <1>1, <1>3, <1>10, GrowRoot DEF SomeTree
<1>12. Filled(g, L \union {q}, {q})
  <2>1. Len(g[q].keys) >= 1 /\ Len(g[q].keys) <= nodeSize
    <3>1. Len(g[q].keys) = 1
      BY <1>8
    <3> QED
      BY <3>1, Thresholds
  <2>2. ASSUME NEW n \in L
        PROVE  /\ Len(g[n].keys) >= 1 /\ Len(g[n].keys) <= nodeSize
               /\ Len(g[n].keys) >= leastKeys(g[n])
    BY <1>3, <1>7 DEF HalfSplit, Filled, leastKeys
  <2> QED
    BY <2>1, <2>2 DEF Filled
<1>13. IsFiniteSet(L \union {q})
  BY FS_AddElement DEF HalfSplit
<1> QED
  BY <1>2, <1>4, <1>6, <1>9, <1>11, <1>12, <1>13 DEF Settled, g

(* The parent p with a new separator and pointer at position j, full or    *)
(* not, and all the rest as it is.                                         *)
withChild(p, j, k, b) ==
  [nodes EXCEPT ![p].keys = InsertAt(@, j, k), ![p].pointers = InsertAt(@, j + 1, b)]

GotChild(g, p, j, k, b) ==
  /\ DOMAIN g = DOMAIN nodes
  /\ \A n \in DOMAIN nodes \ {p} : g[n] = nodes[n]
  /\ g[p] \in InnerRecord /\ ~g[p].isLeaf /\ g[p].parent = nodes[p].parent
  /\ g[p].keys = InsertAt(nodes[p].keys, j, k)
  /\ g[p].pointers = InsertAt(nodes[p].pointers, j + 1, b)
  /\ Len(g[p].keys) = Len(nodes[p].keys) + 1
  /\ Len(g[p].pointers) = Len(nodes[p].keys) + 2

LEMMA ParentGetsChild ==
  ASSUME NEW L, L = DOMAIN nodes, NEW H, NEW R, NEW a, NEW k, NEW b,
         IsForest(nodes, L, root, H, R, a, k, b), NEW p, p = nodes[a].parent, p # NULL,
         NEW j, j = PositionOf(nodes[p].pointers, a)
  PROVE  /\ p \in L /\ p # a /\ p # b /\ ~nodes[p].isLeaf
         /\ IsTree(withChild(p, j, k, b), L, root, H, R)
         /\ GotChild(withChild(p, j, k, b), p, j, k, b)
<1> DEFINE s == nodes[p].keys
           ps == nodes[p].pointers
           keys == InsertAt(s, j, k)
           pointers == InsertAt(ps, j + 1, b)
           g == withChild(p, j, k, b)
<1>1. /\ p \in L /\ p # a /\ p # b /\ ~nodes[p].isLeaf
      /\ j \in 1..Len(ps) /\ ps[j] = a
  BY ParentOfLeft
<1>2. NodeTypes(nodes, L) /\ KeysInRange(nodes, L, R) /\ k \in Value /\ b \in L
  BY DEF IsForest, IsHeap, IsPair
<1>3. nodes[p] \in InnerRecord /\ s \in Seq(Value) /\ ps \in Seq(Node) /\ b \in Node
  BY <1>1, <1>2, NodeFields
<1>4. Len(ps) = Len(s) + 1 /\ Len(s) \in Nat
  BY <1>1, <1>2, <1>3 DEF KeysInRange, InnerKeys
<1> HIDE DEF s, ps
<1>5. Inserted(s, keys, j, k) /\ keys \in Seq(Value)
  <2>1. j \in 1..(Len(s) + 1)
    BY <1>1, <1>4
  <2> QED
    BY <1>2, <1>3, <2>1, InsertAtInserts
<1>6. Inserted(ps, pointers, j + 1, b) /\ pointers \in Seq(Node)
  <2>1. j + 1 \in 1..(Len(ps) + 1)
    BY <1>1, <1>4
  <2> QED
    BY <1>3, <2>1, InsertAtInserts
<1> HIDE DEF keys, pointers
<1>7. Len(keys) = Len(s) + 1 /\ Len(pointers) = Len(s) + 2
  BY <1>4, <1>5, <1>6 DEF Inserted
<1>8. /\ DOMAIN g = L /\ \A n \in L \ {p} : g[n] = nodes[n]
      /\ g[p] = [nodes[p] EXCEPT !.keys = keys, !.pointers = pointers]
  BY <1>1, <1>3 DEF withChild, InnerRecord, keys, pointers, s, ps
<1> HIDE DEF g
<1>9. /\ g[p] \in InnerRecord /\ ~g[p].isLeaf /\ g[p].parent = nodes[p].parent
      /\ g[p].keys = keys /\ g[p].pointers = pointers
  BY <1>3, <1>5, <1>6, <1>8 DEF InnerRecord
<1>10. GotChild(g, p, j, k, b)
  BY <1>7, <1>8, <1>9 DEF GotChild, keys, pointers, s, ps
<1>11. Hung(nodes, g, L, p, j, a, k, b)
  <2>1. L \subseteq DOMAIN g /\ \A n \in L \ {p} : nodes[n] = g[n]
    BY <1>8
  <2> QED
    BY <1>1, <1>3, <1>5, <1>6, <1>9, <2>1 DEF Hung, s, ps
<1>12. IsTree(g, L, root, H, R)
  BY <1>11, HangUp
<1> QED
  BY <1>1, <1>10, <1>12 DEF g

(* A waiting node is hung into a parent that has room.                     *)
LEMMA HungIntoParent ==
  ASSUME nodeSize >= 3, NEW a, NEW k, NEW b, HalfSplit(nodes, root, a, k, b),
         insertIntoTheNode(a, k, b)
  PROVE  Settled(nodes', root')
<1> DEFINE L == DOMAIN nodes
           p == nodes[a].parent
           j == PositionOf(nodes[p].pointers, a)
           g == withChild(p, j, k, b)
<1>1. PICK H, R : IsForest(nodes, L, root, H, R, a, k, b)
  BY DEF HalfSplit, SomeForest
<1>2. p # NULL /\ Len(nodes[p].keys) < nodeSize /\ nodes' = g /\ root' = root
  BY Zenon DEF insertIntoTheNode, withChild, numOfKeys
<1>3. p \in L /\ IsTree(g, L, root, H, R) /\ GotChild(g, p, j, k, b)
  <2> HIDE DEF p, j, L
  <2> QED
    BY <1>1, <1>2, ParentGetsChild DEF j, p, L
<1> HIDE DEF g, p, j
<1>4. /\ DOMAIN g = L /\ (\A n \in L \ {p} : g[n] = nodes[n])
      /\ ~g[p].isLeaf /\ Len(g[p].keys) = Len(nodes[p].keys) + 1
  BY <1>3 DEF GotChild
<1>5. NodeTypes(g, L)
  BY <1>3 DEF IsTree, IsHeap
<1>6. Filled(g, L, {root})
  <2>1. Filled(nodes, L, {root} \ {a}) /\ Len(nodes[p].keys) \in Nat /\ nodeSize \in Nat
    BY <1>3, NodeFields, Thresholds DEF HalfSplit
  <2>2. /\ Len(nodes[p].keys) >= 1
        /\ p # root => Len(nodes[p].keys) >= leastKeys(nodes[p])
    BY <1>3, <2>1 DEF Filled
  <2>3. ~nodes[p].isLeaf
    BY <1>1, <1>2, ParentOfLeft DEF p
  <2>4. leastKeys(g[p]) = leastKeys(nodes[p]) /\ leastKeys(g[p]) \in Nat
    BY <1>4, <2>3, LeastKeys DEF leastKeys
  <2>5. /\ Len(g[p].keys) >= 1 /\ Len(g[p].keys) <= nodeSize
        /\ p # root => Len(g[p].keys) >= leastKeys(g[p])
    BY <1>2, <1>4, <2>1, <2>2, <2>4
  <2>6. ASSUME NEW n \in L \ {p}
        PROVE  /\ Len(g[n].keys) >= 1 /\ Len(g[n].keys) <= nodeSize
               /\ n # root => Len(g[n].keys) >= leastKeys(g[n])
    BY <1>4, <2>1 DEF Filled
  <2> QED
    BY <2>5, <2>6 DEF Filled
<1> QED
  BY <1>2, <1>3, <1>4, <1>5, <1>6 DEF HalfSplit, Settled, SomeTree

(* A full parent with the waiting node hung in is two nodes after the      *)
(* split, and the new one waits.                                           *)
LEMMA InnerSplit ==
  ASSUME nodeSize >= 3, MemoryLeft, NEW a, NEW k, NEW b, HalfSplit(nodes, root, a, k, b),
         splitAndInsertIntoInnerNode(a, k, b)
  PROVE  /\ call' = insertIntoParentCall(call'.oldChild, call'.newKey, call'.newChild)
         /\ call' \in Call
         /\ HalfSplit(nodes', root', call'.oldChild, call'.newKey, call'.newChild)
<1> DEFINE L == DOMAIN nodes
           p == nodes[a].parent
           j == PositionOf(nodes[p].pointers, a)
           g == withChild(p, j, k, b)
           two == nodes'
           q == malloc(nodes)
           M == L \union {q}
           split == leftInnerKeys(nodeSize)
           tempKeys == InsertAt(nodes[p].keys, j, k)
           tempPointers == InsertAt(nodes[p].pointers, j + 1, b)
           sep == tempKeys[split + 1]
           lk == SubSeq(tempKeys, 1, split)
           rk == SubSeq(tempKeys, split + 2, Len(tempKeys))
           lp == SubSeq(tempPointers, 1, split + 1)
           rp == SubSeq(tempPointers, split + 2, Len(tempPointers))
           leftNode == [nodes[p] EXCEPT !.keys = lk, !.pointers = lp]
           rightNode == Node_new(nodes[p].parent, rk, rp)
<1>1. PICK H, R : IsForest(nodes, L, root, H, R, a, k, b)
  BY DEF HalfSplit, SomeForest
<1>2. /\ p # NULL /\ Len(nodes[p].keys) >= nodeSize /\ root' = root
      /\ two = allocated(SetParent([nodes EXCEPT ![p] = leftNode], ToSet(rightNode.pointers), q),
                         q, rightNode)
      /\ call' = insertIntoParentCall(p, sep, q)
  BY Zenon DEF splitAndInsertIntoInnerNode, numOfKeys
<1>3. /\ p \in L /\ ~nodes[p].isLeaf /\ IsTree(g, L, root, H, R) /\ GotChild(g, p, j, k, b)
  <2>1. L = DOMAIN nodes /\ p = nodes[a].parent /\ j = PositionOf(nodes[p].pointers, a)
    OBVIOUS
  <2>2. p # NULL /\ IsForest(nodes, L, root, H, R, a, k, b)
    BY <1>1, <1>2
  <2> HIDE DEF p, j, L
  <2> QED
    BY <2>1, <2>2, ParentGetsChild
<1>4. NodeTypes(nodes, L) /\ L \subseteq Node /\ q \in Node /\ q \notin L
  BY Malloc DEF HalfSplit, NodeTypes
<1> HIDE DEF p, j, g, q
<1>5. /\ nodes[p] \in InnerRecord /\ p \in Node /\ Len(nodes[p].keys) \in Nat
      /\ nodes[p].parent \in Node \union {NULL}
  <2> HIDE DEF L
  <2> QED
    BY <1>3, <1>4, NodeFields
<1>6. /\ DOMAIN g = L /\ (\A n \in L \ {p} : g[n] = nodes[n])
      /\ g[p] \in InnerRecord /\ ~g[p].isLeaf /\ g[p].parent = nodes[p].parent
      /\ g[p].keys = tempKeys /\ g[p].pointers = tempPointers
      /\ Len(tempKeys) = Len(nodes[p].keys) + 1 /\ Len(tempPointers) = Len(nodes[p].keys) + 2
  BY <1>3 DEF GotChild
<1> HIDE DEF tempKeys, tempPointers
<1>7. Len(nodes[p].keys) = nodeSize /\ nodeSize \in Nat /\ NodeTypes(g, L)
  <2>1. Len(nodes[p].keys) <= nodeSize
    BY <1>3 DEF HalfSplit, Filled
  <2> QED
    BY <1>2, <1>3, <1>5, <2>1, Thresholds DEF IsTree, IsHeap
<1>8. /\ tempKeys \in Seq(Value) /\ tempPointers \in Seq(Node)
      /\ Len(tempKeys) = nodeSize + 1 /\ Len(tempPointers) = nodeSize + 2
  BY <1>6, <1>7 DEF InnerRecord
<1>9. split \in Nat /\ split >= 1 /\ split < nodeSize
  BY Thresholds
<1> HIDE DEF split
<1>10. /\ JoinedBy(lk, sep, rk, tempKeys) /\ lk \in Seq(Value) /\ rk \in Seq(Value)
       /\ Len(lk) = split /\ Len(rk) = nodeSize - split
  <2>1. split < Len(tempKeys)
    BY <1>7, <1>8, <1>9
  <2>2. /\ JoinedBy(lk, sep, rk, tempKeys) /\ lk \in Seq(Value) /\ rk \in Seq(Value)
        /\ Len(lk) = split /\ Len(rk) = Len(tempKeys) - split - 1
    BY <1>8, <1>9, <2>1, SidesAreJoined
  <2> HIDE DEF lk, rk, sep
  <2> QED
    BY <1>7, <1>8, <1>9, <2>2
<1>11. /\ Joined(lp, rp, tempPointers) /\ lp \in Seq(Node) /\ rp \in Seq(Node)
       /\ Len(lp) = split + 1
  <2>1. split + 1 \in 0..Len(tempPointers) /\ (split + 1) + 1 = split + 2
    BY <1>7, <1>8, <1>9
  <2> DEFINE up == SubSeq(tempPointers, (split + 1) + 1, Len(tempPointers))
  <2>2. /\ Joined(lp, up, tempPointers) /\ lp \in Seq(Node) /\ up \in Seq(Node)
        /\ Len(lp) = split + 1
    BY <1>8, <2>1, HalvesAreJoined
  <2>3. up = rp
    BY <2>1, Zenon
  <2> HIDE DEF lp, up, rp
  <2> QED
    BY <2>2, <2>3
<1>12. sep \in Value
  <2>1. split + 1 \in 1..Len(tempKeys)
    BY <1>7, <1>8, <1>9
  <2> QED
    BY <1>8, <2>1
<1> HIDE DEF lk, rk, lp, rp, sep
<1>13. /\ leftNode \in InnerRecord /\ ~leftNode.isLeaf /\ leftNode.parent = nodes[p].parent
       /\ leftNode.keys = lk /\ leftNode.pointers = lp
  BY <1>5, <1>10, <1>11 DEF InnerRecord
<1>14. /\ rightNode \in InnerRecord /\ ~rightNode.isLeaf /\ rightNode.parent = nodes[p].parent
       /\ rightNode.keys = rk /\ rightNode.pointers = rp
  BY <1>5, <1>10, <1>11 DEF InnerRecord, Node_new
<1> HIDE DEF leftNode, rightNode
<1>15. ASSUME NEW n \in ToSet(rp)
       PROVE  n \in L /\ n # p /\ g[n].parent = p
  <2>1. PICK i \in 1..Len(rp) : n = rp[i]
    BY DEF ToSet
  <2>2. Len(lp) + i \in 1..Len(tempPointers) /\ tempPointers[Len(lp) + i] = rp[i]
    BY <1>8, <1>11, JoinedAt
  <2>3. g[p].pointers[Len(lp) + i] = n /\ Len(lp) + i \in 1..Len(g[p].pointers)
    BY <1>6, <2>1, <2>2
  <2>4. n \in L /\ g[n].parent = p /\ H[p] = H[n] + 1
    BY <1>3, <1>6, <2>3, ChildOf
  <2>5. H[n] \in Nat
    BY <1>3, <2>4 DEF IsTree, IsHeap, Levels
  <2> QED
    BY <2>4, <2>5
<1>16. /\ DOMAIN two = M
       /\ two[q] = rightNode /\ two[p] = leftNode
       /\ \A n \in L \ {p} : two[n] = IF n \in ToSet(rp) THEN [nodes[n] EXCEPT !.parent = q]
                                      ELSE nodes[n]
  <2> DEFINE one == [nodes EXCEPT ![p] = leftNode]
             moved == SetParent(one, ToSet(rp), q)
  <2>1. DOMAIN one = L /\ one[p] = leftNode /\ \A n \in L \ {p} : one[n] = nodes[n]
    BY <1>3
  <2>2. two = allocated(moved, q, rightNode)
    BY <1>2, <1>14
  <2> HIDE DEF one
  <2>3. /\ DOMAIN moved = L
        /\ \A n \in L : moved[n] = IF n \in ToSet(rp) THEN [one[n] EXCEPT !.parent = q]
                                   ELSE one[n]
    BY <2>1 DEF SetParent
  <2>4. p \notin ToSet(rp)
    BY <1>15
  <2> HIDE DEF moved
  <2>5. /\ moved[p] = leftNode
        /\ \A n \in L \ {p} : moved[n] = IF n \in ToSet(rp) THEN [nodes[n] EXCEPT !.parent = q]
                                         ELSE nodes[n]
    BY <1>3, <2>1, <2>3, <2>4
  <2> QED
    BY <1>3, <1>4, <2>2, <2>3, <2>5 DEF allocated
<1> HIDE DEF two
<1>17. ASSUME NEW n \in L \ {p}
       PROVE  /\ two[n] \in LeafRecord \/ two[n] \in InnerRecord
              /\ two[n].isLeaf = nodes[n].isLeaf
              /\ two[n].keys = nodes[n].keys /\ two[n].pointers = nodes[n].pointers
              /\ two[n].next = nodes[n].next /\ two[n].prev = nodes[n].prev
              /\ n \in ToSet(rp) => two[n].parent = q
              /\ n \notin ToSet(rp) => two[n].parent = nodes[n].parent
  <2>1. nodes[n] \in LeafRecord \/ nodes[n] \in InnerRecord
    BY <1>4 DEF NodeTypes
  <2>2. CASE n \in ToSet(rp)
    <3>1. two[n] = [nodes[n] EXCEPT !.parent = q]
      BY <1>16, <2>2
    <3> QED
      BY <1>4, <2>1, <2>2, <3>1, ParentChanged
  <2>3. CASE n \notin ToSet(rp)
    BY <1>16, <2>1, <2>3
  <2> QED
    BY <2>2, <2>3
<1>18. NodeTypes(two, M)
  <2>1. \A n \in M : two[n] \in LeafRecord \/ two[n] \in InnerRecord
    BY <1>13, <1>14, <1>16, <1>17
  <2> QED
    BY <1>4, <1>16, <2>1 DEF NodeTypes
<1>19. M \ {q} = L
  BY <1>4
<1>20. two[p].keys = lk /\ two[q].keys = rk /\ two[p].pointers = lp /\ two[q].pointers = rp
  BY <1>13, <1>14, <1>16
<1>21. InnerDivided(g, two, M, p, sep, q)
  <2>1. p \in M /\ q \in M /\ p # q
    BY <1>3, <1>4
  <2>2. /\ JoinedBy(two[p].keys, sep, two[q].keys, g[p].keys)
        /\ Joined(two[p].pointers, two[q].pointers, g[p].pointers)
    BY <1>6, <1>10, <1>11, <1>20
  <2>3. Len(two[p].pointers) = Len(two[p].keys) + 1
    BY <1>10, <1>11, <1>20
  <2>4. /\ ~g[p].isLeaf /\ ~two[p].isLeaf /\ ~two[q].isLeaf
        /\ two[p].parent = g[p].parent /\ two[q].parent = g[p].parent
    BY <1>6, <1>13, <1>14, <1>16
  <2>5. ASSUME NEW n \in M \ {p, q}
        PROVE  /\ two[n].isLeaf = g[n].isLeaf
               /\ two[n].keys = g[n].keys /\ two[n].pointers = g[n].pointers
               /\ two[n].next = g[n].next /\ two[n].prev = g[n].prev
               /\ PointsTo(two, q, n) => two[n].parent = q /\ g[n].parent = p
               /\ ~PointsTo(two, q, n) => two[n].parent = g[n].parent
    <3>1. n \in L \ {p} /\ g[n] = nodes[n]
      BY <1>6
    <3>2. PointsTo(two, q, n) <=> n \in ToSet(rp)
      BY <1>20 DEF PointsTo, ToSet
    <3> QED
      BY <1>15, <1>17, <3>1, <3>2
  <2> QED
    BY <1>7, <1>18, <1>19, <2>1, <2>2, <2>3, <2>4, <2>5 DEF InnerDivided
<1>22. SomeForest(two, M, root, p, sep, q)
  BY <1>3, <1>19, <1>21, SplitInner DEF SomeForest
<1>23. Filled(two, M, {root} \ {p})
  <2>1. /\ Len(two[p].keys) = leftInnerKeys(nodeSize)
        /\ Len(two[q].keys) = rightInnerKeys(nodeSize)
    <3>1. Len(two[p].keys) = split /\ Len(two[q].keys) = nodeSize - split
      BY <1>10, <1>20
    <3> QED
      BY <1>9, <3>1, Thresholds DEF split, rightInnerKeys
  <2>2. leastKeys(two[p]) = rightInnerKeys(nodeSize) /\ leastKeys(two[q]) = rightInnerKeys(nodeSize)
    BY <1>13, <1>14, <1>16 DEF leastKeys
  <2>3. rightInnerKeys(nodeSize) <= nodeSize
    BY Thresholds
  <2>4. ASSUME NEW n \in {p, q}
        PROVE  /\ Len(two[n].keys) >= 1 /\ Len(two[n].keys) <= nodeSize
               /\ Len(two[n].keys) >= leastKeys(two[n])
    BY <2>1, <2>2, <2>3, Thresholds
  <2>5. ASSUME NEW n \in L \ {p}
        PROVE  /\ Len(two[n].keys) >= 1 /\ Len(two[n].keys) <= nodeSize
               /\ n # root => Len(two[n].keys) >= leastKeys(two[n])
    BY <1>17 DEF HalfSplit, Filled, leastKeys
  <2> QED
    BY <2>4, <2>5 DEF Filled
<1>24. IsFiniteSet(M)
  BY FS_AddElement DEF HalfSplit
<1>25. HalfSplit(two, root, p, sep, q)
  BY <1>16, <1>18, <1>22, <1>23, <1>24 DEF HalfSplit
<1>26. call' = insertIntoParentCall(p, sep, q) /\ root' = root
  BY <1>2
<1>27. call'.oldChild = p /\ call'.newKey = sep /\ call'.newChild = q
  BY <1>26 DEF insertIntoParentCall
<1> QED
  BY <1>4, <1>5, <1>12, <1>25, <1>26, <1>27 DEF Call, insertIntoParentCall, two

-----------------------------------------------------------------------------
(*                                Deletion                                 *)

(* Pointers j and j + 1 of p are to a and b, with separator k between.     *)
Siblings(h, L, p, j, a, k, b) ==
  /\ p \in L /\ ~h[p].isLeaf
  /\ j \in 1..Len(h[p].keys) /\ k = h[p].keys[j]
  /\ a = h[p].pointers[j] /\ b = h[p].pointers[j + 1]
  /\ a \in L /\ b \in L /\ a # b /\ p # a /\ p # b
  /\ h[a].parent = p /\ h[b].parent = p
  /\ h[a].isLeaf <=> h[b].isLeaf

LEMMA SiblingsAt ==
  ASSUME NEW h, NEW L, NEW r, NEW H, NEW R, IsTree(h, L, r, H, R),
         NEW p \in L, ~h[p].isLeaf, NEW j \in 1..Len(h[p].keys)
  PROVE  Siblings(h, L, p, j, h[p].pointers[j], h[p].keys[j], h[p].pointers[j + 1])
<1> DEFINE a == h[p].pointers[j]
           b == h[p].pointers[j + 1]
<1>1. h[p].keys \in Seq(Int) /\ Len(h[p].pointers) = Len(h[p].keys) + 1
  BY NodeFields DEF IsTree, IsHeap, KeysInRange, InnerKeys
<1>2. j \in 1..Len(h[p].pointers) /\ j + 1 \in 1..Len(h[p].pointers) /\ j # j + 1
  BY <1>1
<1>3. /\ a \in L /\ h[a].parent = p /\ H[p] = H[a] + 1
      /\ b \in L /\ h[b].parent = p /\ H[p] = H[b] + 1
  BY <1>2, ChildOf
<1>4. a # b
  BY <1>2, ChildrenDiffer DEF IsTree
<1>5. /\ H \in [L -> Nat]
      /\ \A n \in L : h[n].isLeaf <=> H[n] = 0
  BY DEF IsTree, IsHeap, Levels
<1>6. H[a] = H[b] /\ p # a /\ p # b
  BY <1>3, <1>5
<1> QED
  BY <1>3, <1>4, <1>5, <1>6 DEF Siblings

(* A node below the root has a sibling in a parent that has a key.         *)
LEMMA SiblingOf ==
  ASSUME NEW h, NEW L, NEW r, NEW H, NEW R, IsTree(h, L, r, H, R), NEW node \in L, node # r,
         NEW p, p = h[node].parent, Len(h[p].keys) >= 1,
         NEW m, m = PositionOf(h[p].pointers, node)
  PROVE  /\ m \in Nat /\ p \in L /\ ~h[p].isLeaf
         /\ m = 1 => Siblings(h, L, p, 1, node, h[p].keys[1], h[p].pointers[2])
         /\ m # 1 => Siblings(h, L, p, m - 1, h[p].pointers[m - 1], h[p].keys[m - 1], node)
<1>1. HangsIn(h, L, node, p)
  BY DEF IsTree, IsHeap, Attached
<1>2. p \in L /\ ~h[p].isLeaf
  BY <1>1 DEF HangsIn
<1>3. PICK i \in 1..Len(h[p].pointers) : h[p].pointers[i] = node
  BY <1>1 DEF HangsIn
<1>4. m = i
  BY <1>2, <1>3, ChildPosition DEF IsTree
<1>5. Len(h[p].keys) \in Nat /\ Len(h[p].pointers) = Len(h[p].keys) + 1
  BY <1>2, NodeFields DEF IsTree, IsHeap, KeysInRange, InnerKeys
<1>6. CASE m = 1
  <2>1. 1 \in 1..Len(h[p].keys) /\ 1 + 1 = 2
    BY <1>5
  <2>2. Siblings(h, L, p, 1, h[p].pointers[1], h[p].keys[1], h[p].pointers[1 + 1])
    BY <1>2, <2>1, SiblingsAt
  <2> QED
    BY <1>2, <1>3, <1>4, <1>6, <2>1, <2>2
<1>7. CASE m # 1
  <2>1. m - 1 \in 1..Len(h[p].keys) /\ (m - 1) + 1 = m /\ m \in Nat
    BY <1>3, <1>4, <1>5, <1>7
  <2>2. Siblings(h, L, p, m - 1, h[p].pointers[m - 1], h[p].keys[m - 1], h[p].pointers[(m - 1) + 1])
    BY <1>2, <2>1, SiblingsAt
  <2> QED
    BY <1>2, <1>3, <1>4, <1>7, <2>1, <2>2
<1> QED
  BY <1>6, <1>7

(* The parent without one of its keys and the pointer behind it.           *)
takenOut(h, p, j) ==
  [h EXCEPT ![p].keys = RemoveAt(@, j), ![p].pointers = RemoveAt(@, j + 1)]

LostChild(loose, h, p, j) ==
  /\ DOMAIN loose = DOMAIN h
  /\ \A n \in DOMAIN h \ {p} : loose[n] = h[n]
  /\ loose[p] \in InnerRecord /\ ~loose[p].isLeaf /\ loose[p].parent = h[p].parent
  /\ loose[p].keys = RemoveAt(h[p].keys, j)
  /\ loose[p].pointers = RemoveAt(h[p].pointers, j + 1)
  /\ Inserted(loose[p].keys, h[p].keys, j, h[p].keys[j])
  /\ Inserted(loose[p].pointers, h[p].pointers, j + 1, h[p].pointers[j + 1])

LEMMA TakenOut ==
  ASSUME NEW h, NEW L, NodeTypes(h, L), NEW p \in L, ~h[p].isLeaf,
         NEW j \in 1..Len(h[p].keys), Len(h[p].pointers) = Len(h[p].keys) + 1,
         NEW loose, loose = takenOut(h, p, j)
  PROVE  LostChild(loose, h, p, j)
<1> DEFINE ks == RemoveAt(h[p].keys, j)
           ps == RemoveAt(h[p].pointers, j + 1)
<1>1. h[p] \in InnerRecord /\ h[p].keys \in Seq(Value) /\ h[p].pointers \in Seq(Node) /\ p \in DOMAIN h
  BY NodeFields DEF NodeTypes
<1>2. Inserted(ks, h[p].keys, j, h[p].keys[j]) /\ ks \in Seq(Value)
  BY <1>1, RemoveAtTakesOut
<1>3. Inserted(ps, h[p].pointers, j + 1, h[p].pointers[j + 1]) /\ ps \in Seq(Node)
  <2>1. j + 1 \in 1..Len(h[p].pointers)
    BY <1>1
  <2> QED
    BY <1>1, <2>1, RemoveAtTakesOut
<1> HIDE DEF ks, ps
<1>4. /\ DOMAIN loose = DOMAIN h
      /\ loose[p] = [h[p] EXCEPT !.keys = ks, !.pointers = ps]
      /\ \A n \in DOMAIN h \ {p} : loose[n] = h[n]
  BY <1>1 DEF takenOut, InnerRecord, ks, ps
<1>5. /\ loose[p] \in InnerRecord /\ ~loose[p].isLeaf /\ loose[p].parent = h[p].parent
      /\ loose[p].keys = ks /\ loose[p].pointers = ps
  BY <1>1, <1>2, <1>3, <1>4 DEF InnerRecord
<1> QED
  BY <1>2, <1>3, <1>4, <1>5 DEF LostChild, ks, ps

LEMMA TakenOutHangs ==
  ASSUME NEW h, NEW L, NodeTypes(h, L), NEW p \in L, ~h[p].isLeaf,
         NEW j \in 1..Len(h[p].keys), Len(h[p].pointers) = Len(h[p].keys) + 1,
         NEW a, NEW k, NEW b,
         k = h[p].keys[j], a = h[p].pointers[j], b = h[p].pointers[j + 1],
         NEW loose, loose = takenOut(h, p, j)
  PROVE  Hung(loose, h, L, p, j, a, k, b)
<1>2. h[p] \in InnerRecord /\ Len(h[p].keys) \in Nat /\ L \subseteq DOMAIN h
  BY NodeFields DEF NodeTypes
<1>3. /\ DOMAIN loose = DOMAIN h /\ loose[p] \in InnerRecord
      /\ Inserted(loose[p].keys, h[p].keys, j, k)
      /\ Inserted(loose[p].pointers, h[p].pointers, j + 1, b)
      /\ loose[p].parent = h[p].parent
      /\ \A n \in DOMAIN h \ {p} : loose[n] = h[n]
  <2>1. LostChild(loose, h, p, j)
    BY TakenOut
  <2> QED
    BY <2>1 DEF LostChild
<1>4. j \in 1..Len(loose[p].pointers) /\ loose[p].pointers[j] = a
  <2>1. Len(loose[p].pointers) = Len(h[p].keys)
    <3>1. /\ Len(h[p].pointers) = Len(loose[p].pointers) + 1
          /\ loose[p].pointers \in Seq(Node)
      BY <1>3 DEF Inserted, InnerRecord
    <3>2. Len(loose[p].pointers) \in Nat
      BY <3>1
    <3> QED
      BY <1>2, <3>1, <3>2
  <2>2. j \in 1..((j + 1) - 1)
    BY <1>2
  <2>3. h[p].pointers[j] = loose[p].pointers[j]
    BY <1>3, <2>2 DEF Inserted
  <2> QED
    BY <1>2, <2>1, <2>3
<1> QED
  BY <1>2, <1>3, <1>4 DEF Hung

(* Without their separator two siblings are a node and one that waits.     *)
LEMMA SiblingsTakenOut ==
  ASSUME NEW h, NEW L, NEW r, NEW H, NEW R, IsTree(h, L, r, H, R),
         NEW p, NEW j, NEW a, NEW k, NEW b, Siblings(h, L, p, j, a, k, b),
         NEW loose, loose = takenOut(h, p, j)
  PROVE  /\ Hung(loose, h, L, p, j, a, k, b)
         /\ IsForest(loose, L, r, H, R, a, k, b)
         /\ NodeTypes(loose, L)
<1>1. /\ NodeTypes(h, L) /\ p \in L /\ ~h[p].isLeaf /\ j \in 1..Len(h[p].keys)
      /\ Len(h[p].pointers) = Len(h[p].keys) + 1
      /\ k = h[p].keys[j] /\ a = h[p].pointers[j] /\ b = h[p].pointers[j + 1]
  BY DEF Siblings, IsTree, IsHeap, KeysInRange, InnerKeys
<1>2. Hung(loose, h, L, p, j, a, k, b)
  BY <1>1, TakenOutHangs
<1>3. IsForest(loose, L, r, H, R, a, k, b)
  BY <1>2, TakeOut
<1> QED
  BY <1>2, <1>3 DEF IsForest, IsHeap

(* The heap of mergeNodes.                                                 *)
mergedNode(h, a, k, b) ==
  [h[a] EXCEPT !.keys = IF h[a].isLeaf THEN @ \o h[b].keys ELSE @ \o <<k>> \o h[b].keys,
               !.pointers = @ \o h[b].pointers,
               !.next = IF h[a].isLeaf THEN h[b].next ELSE @]

mergedHeap(h, a, k, b) ==
  LET withMerged == [h EXCEPT ![a] = mergedNode(h, a, k, b)]
  IN  IF h[a].isLeaf THEN SetPrev(withMerged, h[b].next, a)
      ELSE SetParent(withMerged, ToSet(mergedNode(h, a, k, b).pointers), a)

Merged(g, h, p, a, k, b) ==
  /\ DOMAIN g = DOMAIN h /\ NodeTypes(g, DOMAIN h)
  /\ g[p] = h[p]
  /\ g[a].isLeaf <=> h[a].isLeaf
  /\ h[a].isLeaf => g[a].keys = h[a].keys \o h[b].keys
  /\ ~h[a].isLeaf => g[a].keys = h[a].keys \o <<k>> \o h[b].keys
  /\ \A n \in DOMAIN h \ {a} : /\ g[n].isLeaf <=> h[n].isLeaf
                               /\ g[n].keys = h[n].keys

(* Two leaves become one, and the leaf after them links back to it.        *)
LEMMA LeavesMerged ==
  ASSUME NEW h, NEW L, NEW r, NEW H, NEW R, IsTree(h, L, r, H, R), NodeTypes(h, DOMAIN h),
         NEW p, NEW j, NEW a, NEW k, NEW b, Siblings(h, L, p, j, a, k, b), h[a].isLeaf,
         NEW g, g = mergedHeap(h, a, k, b)
  PROVE  /\ Merged(g, h, p, a, k, b)
         /\ LeafDivided(takenOut(g, p, j), takenOut(h, p, j), L, a, b)
<1> DEFINE loose == takenOut(h, p, j)
           big == takenOut(g, p, j)
           z == h[b].next
           one == mergedNode(h, a, k, b)
           keys == h[a].keys \o h[b].keys
           pointers == h[a].pointers \o h[b].pointers
<1>1. /\ NodeTypes(h, L) /\ L \subseteq DOMAIN h /\ Chain(h, L, R) /\ KeysInRange(h, L, R)
      /\ NULL \notin L /\ p \in L /\ ~h[p].isLeaf /\ a \in L /\ b \in L /\ a # b /\ p # a /\ p # b
      /\ j \in 1..Len(h[p].keys) /\ Len(h[p].pointers) = Len(h[p].keys) + 1
      /\ h[a].parent = h[b].parent /\ h[b].isLeaf
  BY NULLAssumption DEF Siblings, IsTree, IsHeap, NodeTypes, KeysInRange, InnerKeys
<1>2. /\ h[a] \in LeafRecord /\ h[b] \in LeafRecord
      /\ h[a].keys \in Seq(Value) /\ h[b].keys \in Seq(Value)
      /\ h[a].pointers \in Seq(Seq(Time)) /\ h[b].pointers \in Seq(Seq(Time))
      /\ Len(h[a].pointers) = Len(h[a].keys)
  BY <1>1, NodeFields DEF KeysInRange, LeafKeys
<1>3. IsForest(loose, L, r, H, R, a, k, b) /\ NodeTypes(loose, L)
  BY SiblingsTakenOut
<1>4. Meets(R[a], R[b]) /\ ~Meets(R[b], R[a])
  <2>1. /\ k - 1 \in R[a] /\ k \in R[b] /\ k \in Int
        /\ (\A x \in R[a] : x < k) /\ (\A x \in R[b] : k <= x)
    BY <1>3, ValueAssumption DEF IsForest, IsPair
  <2>2. /\ (k - 1) + 1 \in R[b] \ R[a]
    BY <2>1
  <2>3. R[a] \in SUBSET Int /\ R[b] \in SUBSET Int
    BY <1>1 DEF IsTree, IsHeap, Intervals
  <2> QED
    BY <2>1, <2>2, <2>3 DEF Meets
<1>5. h[a].next = b /\ h[b].prev = a
  BY <1>1, <1>4 DEF Chain, LeafSet
<1>6. z # a /\ z # b /\ z \in Node \union {NULL}
  <2>1. z # a
    BY <1>1, <1>4 DEF Chain, LeafSet
  <2>2. z # b
    BY <1>1, LeafLinks
  <2>3. z \in Node \union {NULL}
    BY <1>2 DEF LeafRecord
  <2> QED
    BY <2>1, <2>2, <2>3
<1>7. z # NULL => z \in L /\ h[z].isLeaf /\ h[z].prev = b /\ z # p /\ h[z] \in LeafRecord
  <2>1. z # NULL => z \in L /\ h[z].isLeaf /\ h[z].prev = b
    BY <1>1, LeafLinks
  <2> HIDE DEF z
  <2> QED
    BY <1>1, <2>1, NodeFields
<1>8. /\ Joined(h[a].keys, h[b].keys, keys) /\ keys \in Seq(Value)
      /\ Joined(h[a].pointers, h[b].pointers, pointers) /\ pointers \in Seq(Seq(Time))
  BY <1>2, ConcatJoined
<1>9. one = [h[a] EXCEPT !.keys = keys, !.pointers = pointers, !.next = z]
  BY <1>2 DEF mergedNode, LeafRecord
<1> HIDE DEF keys, pointers, one, z
<1>10. /\ one \in LeafRecord /\ one.isLeaf /\ one.keys = keys /\ one.pointers = pointers
       /\ one.next = z /\ one.prev = h[a].prev /\ one.parent = h[a].parent
  BY <1>2, <1>6, <1>8, <1>9 DEF LeafRecord
<1>11. /\ DOMAIN g = DOMAIN h /\ g[a] = one
       /\ \A n \in DOMAIN h \ {a} : g[n] = IF n = z THEN [h[n] EXCEPT !.prev = a] ELSE h[n]
  <2> DEFINE w == [h EXCEPT ![a] = one]
  <2>1. DOMAIN w = DOMAIN h /\ w[a] = one /\ \A n \in DOMAIN h \ {a} : w[n] = h[n]
    BY <1>1
  <2>2. g = SetPrev(w, z, a)
    BY DEF mergedHeap, one, z
  <2> HIDE DEF w
  <2>3. CASE z = NULL
    <3>1. z \notin DOMAIN h
      BY <2>3, NULLAssumption DEF NodeTypes
    <3> QED
      BY <2>1, <2>2, <2>3, <3>1 DEF SetPrev
  <2>4. CASE z # NULL
    BY <1>1, <1>6, <1>7, <2>1, <2>2, <2>4 DEF SetPrev
  <2> QED
    BY <2>3, <2>4
<1>12. ASSUME NEW n \in DOMAIN h \ {a}
       PROVE  /\ g[n] \in LeafRecord \/ g[n] \in InnerRecord
              /\ g[n].isLeaf = h[n].isLeaf /\ g[n].parent = h[n].parent
              /\ g[n].keys = h[n].keys /\ g[n].pointers = h[n].pointers
              /\ g[n].next = h[n].next
              /\ n # z => g[n] = h[n]
              /\ n = z => g[n].prev = a /\ h[n].prev = b
  <2>1. h[n] \in LeafRecord \/ h[n] \in InnerRecord
    BY DEF NodeTypes
  <2>2. CASE n # z
    BY <1>11, <2>1, <2>2
  <2>3. CASE n = z
    <3>1. h[n] \in LeafRecord /\ h[n].prev = b
      BY <1>7, <2>3, NULLAssumption DEF NodeTypes
    <3>2. g[n] = [h[n] EXCEPT !.prev = a]
      BY <1>11, <2>3
    <3>3. a \in Node
      BY <1>1 DEF NodeTypes
    <3> QED
      BY <2>3, <3>1, <3>2, <3>3 DEF LeafRecord
  <2> QED
    BY <2>2, <2>3
<1>13. NodeTypes(g, DOMAIN h)
  <2>1. \A n \in DOMAIN h : g[n] \in LeafRecord \/ g[n] \in InnerRecord
    BY <1>10, <1>11, <1>12
  <2> QED
    BY <1>11, <2>1 DEF NodeTypes
<1>14. p # z /\ g[p] = h[p]
  <2>1. p # z
    BY <1>1, <1>7
  <2> QED
    BY <1>1, <1>12, <2>1
<1>15. Merged(g, h, p, a, k, b)
  BY <1>1, <1>10, <1>11, <1>12, <1>13, <1>14 DEF Merged, keys
<1>16. LostChild(loose, h, p, j)
  BY <1>1, TakenOut
<1>17. LostChild(big, g, p, j)
  <2>1. NodeTypes(g, L)
    BY <1>1, <1>11, <1>13 DEF NodeTypes
  <2> QED
    BY <1>1, <1>14, <2>1, TakenOut
<1> HIDE DEF loose, big
<1>18. /\ big[a] = one /\ loose[a] = h[a] /\ loose[b] = h[b]
       /\ \A n \in L \ {p} : big[n] = g[n] /\ loose[n] = h[n]
       /\ DOMAIN big = DOMAIN h
  BY <1>1, <1>11, <1>16, <1>17 DEF LostChild
<1>19. NodeTypes(big, L \ {b})
  <2>1. \A n \in L : big[n] \in LeafRecord \/ big[n] \in InnerRecord
    BY <1>1, <1>13, <1>17, <1>18 DEF NodeTypes, LostChild
  <2> QED
    BY <1>1, <1>18, <2>1 DEF NodeTypes
<1>20. ASSUME NEW n \in L \ {a, b}
       PROVE  /\ loose[n].isLeaf = big[n].isLeaf /\ loose[n].parent = big[n].parent
              /\ loose[n].keys = big[n].keys /\ loose[n].pointers = big[n].pointers
              /\ loose[n].next = big[n].next
              /\ n # z => loose[n].prev = big[n].prev
              /\ n = z => loose[n].prev = b /\ big[n].prev = a
  <2>1. CASE n # p
    BY <1>1, <1>12, <1>18, <2>1
  <2>2. CASE n = p
    <3>1. /\ loose[p] \in InnerRecord /\ big[p] \in InnerRecord
          /\ loose[p].parent = big[p].parent /\ loose[p].keys = big[p].keys
          /\ loose[p].pointers = big[p].pointers
      BY <1>14, <1>16, <1>17 DEF LostChild
    <3> QED
      BY <1>14, <2>2, <3>1 DEF InnerRecord
  <2> QED
    BY <2>1, <2>2
<1>21. LeafDivided(big, loose, L, a, b)
  <2>1. /\ big[a].isLeaf /\ loose[a].isLeaf /\ loose[b].isLeaf
        /\ loose[a].parent = big[a].parent /\ loose[b].parent = big[a].parent
        /\ Joined(loose[a].keys, loose[b].keys, big[a].keys)
        /\ Joined(loose[a].pointers, loose[b].pointers, big[a].pointers)
        /\ Len(loose[a].pointers) = Len(loose[a].keys)
        /\ loose[a].next = b /\ loose[b].prev = a
        /\ loose[a].prev = big[a].prev /\ loose[b].next = big[a].next /\ big[a].next = z
    BY <1>1, <1>2, <1>5, <1>8, <1>10, <1>18 DEF z
  <2> QED
    BY <1>1, <1>3, <1>19, <1>20, <2>1 DEF LeafDivided
<1> QED
  BY <1>15, <1>21 DEF big, loose

LEMMA PointedToIsInSet ==
  ASSUME NEW h, NEW n, NEW c
  PROVE  c \in ToSet(h[n].pointers) <=> PointsTo(h, n, c)
  BY InToSet, Zenon DEF PointsTo

(* What a node points to has it as its parent.                             *)
LEMMA ParentOfPointed ==
  ASSUME NEW h, NEW L, NEW r, NEW H, NEW R, IsTree(h, L, r, H, R),
         NEW n \in L, ~h[n].isLeaf, NEW c, PointsTo(h, n, c)
  PROVE  h[c].parent = n
<1>1. PICK i \in 1..Len(h[n].pointers) : h[n].pointers[i] = c
  BY Zenon DEF PointsTo
<1>2. h[h[n].pointers[i]].parent = n
  BY ChildOf
<1> QED
  BY <1>1, <1>2

(* What hangs from two joined arrays hangs from one of them.               *)
LEMMA JoinedElements ==
  ASSUME NEW S, NEW s \in Seq(S), NEW u \in Seq(S), NEW t \in Seq(S), Joined(s, u, t), NEW x
  PROVE  x \in ToSet(t) <=> x \in ToSet(s) \/ x \in ToSet(u)
<1>1. ASSUME x \in ToSet(t)
      PROVE  x \in ToSet(s) \/ x \in ToSet(u)
  <2>1. PICK i \in 1..Len(t) : t[i] = x
    BY <1>1, InToSet
  <2>2. i \in Nat
    OBVIOUS
  <2>3. i \in 1..Len(s) \/ (i > Len(s) /\ i - Len(s) \in 1..Len(u))
    BY <2>2, JoinedAt
  <2>4. CASE i \in 1..Len(s)
    <3>1. t[i] = s[i]
      BY <2>2, <2>4, JoinedAt
    <3> QED
      BY <2>1, <2>4, <3>1, InToSet
  <2>5. CASE i - Len(s) \in 1..Len(u)
    <3>1. i - Len(s) \in Nat /\ Len(s) + (i - Len(s)) = i
      BY <2>5
    <3>2. t[Len(s) + (i - Len(s))] = u[i - Len(s)]
      BY <2>5, <3>1, JoinedAt
    <3> QED
      BY <2>1, <2>5, <3>1, <3>2, InToSet
  <2> QED
    BY <2>3, <2>4, <2>5
<1>2. ASSUME x \in ToSet(s)
      PROVE  x \in ToSet(t)
  <2>1. PICK i \in 1..Len(s) : s[i] = x
    BY <1>2, InToSet
  <2>2. i \in 1..Len(t) /\ t[i] = s[i]
    BY JoinedAt
  <2> QED
    BY <2>1, <2>2, InToSet
<1>3. ASSUME x \in ToSet(u)
      PROVE  x \in ToSet(t)
  <2>1. PICK i \in 1..Len(u) : u[i] = x
    BY <1>3, InToSet
  <2>2. Len(s) + i \in 1..Len(t) /\ t[Len(s) + i] = u[i]
    BY JoinedAt
  <2> QED
    BY <2>1, <2>2, InToSet
<1> QED
  BY <1>1, <1>2, <1>3

(* Two inner nodes become one, with their separator between, and all its   *)
(* children point to it.                                                   *)
LEMMA InnersMerged ==
  ASSUME NEW h, NEW L, NEW r, NEW H, NEW R, IsTree(h, L, r, H, R), NodeTypes(h, DOMAIN h),
         NEW p, NEW j, NEW a, NEW k, NEW b, Siblings(h, L, p, j, a, k, b), ~h[a].isLeaf,
         NEW g, g = mergedHeap(h, a, k, b)
  PROVE  /\ Merged(g, h, p, a, k, b)
         /\ InnerDivided(takenOut(g, p, j), takenOut(h, p, j), L, a, k, b)
<1> DEFINE loose == takenOut(h, p, j)
           big == takenOut(g, p, j)
           one == mergedNode(h, a, k, b)
           keys == h[a].keys \o <<k>> \o h[b].keys
           pointers == h[a].pointers \o h[b].pointers
<1>1. /\ NodeTypes(h, L) /\ L \subseteq DOMAIN h /\ KeysInRange(h, L, R)
      /\ p \in L /\ ~h[p].isLeaf /\ a \in L /\ b \in L /\ a # b /\ p # a /\ p # b
      /\ j \in 1..Len(h[p].keys) /\ Len(h[p].pointers) = Len(h[p].keys) + 1
      /\ h[a].parent = h[b].parent /\ ~h[b].isLeaf
      /\ H \in [L -> Nat]
  BY DEF Siblings, IsTree, IsHeap, NodeTypes, KeysInRange, InnerKeys, Levels
<1>2. /\ h[a] \in InnerRecord /\ h[b] \in InnerRecord
      /\ h[a].keys \in Seq(Value) /\ h[b].keys \in Seq(Value)
      /\ h[a].pointers \in Seq(Node) /\ h[b].pointers \in Seq(Node)
      /\ Len(h[a].pointers) = Len(h[a].keys) + 1
  BY <1>1, NodeFields DEF KeysInRange, InnerKeys
<1>3. IsForest(loose, L, r, H, R, a, k, b) /\ NodeTypes(loose, L)
  BY SiblingsTakenOut
<1>4. k \in Value
  BY <1>3 DEF IsForest, IsPair
<1>5. /\ JoinedBy(h[a].keys, k, h[b].keys, keys) /\ keys \in Seq(Value)
      /\ Joined(h[a].pointers, h[b].pointers, pointers) /\ pointers \in Seq(Node)
  BY <1>2, <1>4, ConcatJoined, ConcatJoinedBy
<1>6. one = [h[a] EXCEPT !.keys = keys, !.pointers = pointers]
  <2>1. h[a] = [h[a] EXCEPT !.next = h[a].next]
    BY <1>2 DEF InnerRecord
  <2> QED
    BY <1>1, <1>2, <2>1 DEF mergedNode, InnerRecord
<1> HIDE DEF keys, pointers, one
<1>7. /\ one \in InnerRecord /\ ~one.isLeaf /\ one.keys = keys /\ one.pointers = pointers
      /\ one.parent = h[a].parent
  BY <1>2, <1>5, <1>6 DEF InnerRecord
<1>8. ASSUME NEW n \in {a, b}, NEW c \in ToSet(h[n].pointers)
      PROVE  c \in L /\ h[c].parent = n /\ c # a /\ c # b /\ c # p
  <2>1. PICK i \in 1..Len(h[n].pointers) : h[n].pointers[i] = c
    BY InToSet
  <2>2. n \in L /\ ~h[n].isLeaf
    BY <1>1
  <2>3. c \in L /\ h[c].parent = n /\ H[n] = H[c] + 1
    BY <2>1, <2>2, ChildOf
  <2>4. H[a] = H[b]
    BY <1>3 DEF IsForest, IsPair
  <2>5. H[p] = H[a] + 1
    <3>1. j \in 1..Len(h[p].pointers) /\ h[p].pointers[j] = a
      <4>1. Len(h[p].keys) \in Nat
        BY <1>1, NodeFields
      <4> QED
        BY <1>1, <4>1 DEF Siblings
    <3> QED
      BY <1>1, <3>1, ChildOf
  <2> QED
    BY <1>1, <2>2, <2>3, <2>4, <2>5
<1>9. \A c : c \in ToSet(pointers) <=> c \in ToSet(h[a].pointers) \/ c \in ToSet(h[b].pointers)
  BY <1>2, <1>5, JoinedElements
<1>10. /\ DOMAIN g = DOMAIN h /\ g[a] = one
       /\ \A n \in DOMAIN h \ {a} : g[n] = IF n \in ToSet(pointers) THEN [h[n] EXCEPT !.parent = a]
                                           ELSE h[n]
  <2> DEFINE w == [h EXCEPT ![a] = one]
  <2>1. DOMAIN w = DOMAIN h /\ w[a] = one /\ \A n \in DOMAIN h \ {a} : w[n] = h[n]
    BY <1>1
  <2>2. g = SetParent(w, ToSet(pointers), a)
    BY <1>7 DEF mergedHeap, one
  <2> HIDE DEF w
  <2>3. a \notin ToSet(pointers)
    BY <1>8, <1>9
  <2> QED
    BY <1>1, <2>1, <2>2, <2>3 DEF SetParent
<1>11. ASSUME NEW n \in DOMAIN h \ {a}
       PROVE  /\ g[n] \in LeafRecord \/ g[n] \in InnerRecord
              /\ g[n].isLeaf = h[n].isLeaf
              /\ g[n].keys = h[n].keys /\ g[n].pointers = h[n].pointers
              /\ g[n].next = h[n].next /\ g[n].prev = h[n].prev
              /\ n \in ToSet(pointers) => g[n].parent = a
              /\ n \notin ToSet(pointers) => g[n] = h[n]
  <2>1. (h[n] \in LeafRecord \/ h[n] \in InnerRecord) /\ a \in Node
    BY <1>1 DEF NodeTypes
  <2>2. CASE n \notin ToSet(pointers)
    BY <1>10, <2>1, <2>2
  <2>3. CASE n \in ToSet(pointers)
    <3>1. g[n] = [h[n] EXCEPT !.parent = a]
      BY <1>10, <2>3
    <3> QED
      BY <2>1, <2>3, <3>1, ParentChanged
  <2> QED
    BY <2>2, <2>3
<1>12. NodeTypes(g, DOMAIN h)
  <2>1. \A n \in DOMAIN h : g[n] \in LeafRecord \/ g[n] \in InnerRecord
    BY <1>7, <1>10, <1>11
  <2> QED
    BY <1>10, <2>1 DEF NodeTypes
<1>13. p \notin ToSet(pointers) /\ g[p] = h[p]
  <2>1. p \notin ToSet(pointers)
    BY <1>8, <1>9
  <2> QED
    BY <1>1, <1>11, <2>1
<1>14. Merged(g, h, p, a, k, b)
  BY <1>1, <1>7, <1>10, <1>11, <1>12, <1>13 DEF Merged, keys
<1>15. LostChild(loose, h, p, j)
  BY <1>1, TakenOut
<1>16. LostChild(big, g, p, j)
  <2>1. NodeTypes(g, L)
    BY <1>1, <1>10, <1>12 DEF NodeTypes
  <2> QED
    BY <1>1, <1>13, <2>1, TakenOut
<1> HIDE DEF loose, big
<1>17. /\ big[a] = one /\ loose[a] = h[a] /\ loose[b] = h[b]
       /\ \A n \in L \ {p} : big[n] = g[n] /\ loose[n] = h[n]
       /\ DOMAIN big = DOMAIN h
  BY <1>1, <1>10, <1>15, <1>16 DEF LostChild
<1>18. NodeTypes(big, L \ {b})
  <2>1. \A n \in L : big[n] \in LeafRecord \/ big[n] \in InnerRecord
    BY <1>1, <1>12, <1>16, <1>17 DEF NodeTypes, LostChild
  <2> QED
    BY <1>1, <1>17, <2>1 DEF NodeTypes
<1>19. \A n : PointsTo(loose, b, n) <=> n \in ToSet(h[b].pointers)
  BY <1>17, InToSet DEF PointsTo
<1>20. ASSUME NEW n \in L \ {a, b}
       PROVE  /\ loose[n].isLeaf = big[n].isLeaf
              /\ loose[n].keys = big[n].keys /\ loose[n].pointers = big[n].pointers
              /\ loose[n].next = big[n].next /\ loose[n].prev = big[n].prev
              /\ PointsTo(loose, b, n) => loose[n].parent = b /\ big[n].parent = a
              /\ ~PointsTo(loose, b, n) => loose[n].parent = big[n].parent
  <2>1. CASE n # p
    <3>1. big[n] = g[n] /\ loose[n] = h[n] /\ n \in DOMAIN h \ {a}
      BY <1>1, <1>17, <2>1
    <3>2. n \in ToSet(h[b].pointers) => h[n].parent = b /\ g[n].parent = a
      BY <1>8, <1>9, <1>11, <3>1
    <3>3. n \notin ToSet(h[b].pointers) => h[n].parent = g[n].parent
      BY <1>8, <1>9, <1>11, <3>1
    <3> QED
      BY <1>11, <1>19, <3>1, <3>2, <3>3
  <2>2. CASE n = p
    <3>1. /\ loose[p] \in InnerRecord /\ big[p] \in InnerRecord
          /\ loose[p].parent = big[p].parent /\ loose[p].keys = big[p].keys
          /\ loose[p].pointers = big[p].pointers
      BY <1>13, <1>15, <1>16 DEF LostChild
    <3>2. ~PointsTo(loose, b, p)
      BY <1>9, <1>13, <1>19
    <3> QED
      BY <2>2, <3>1, <3>2 DEF InnerRecord
  <2> QED
    BY <2>1, <2>2
<1>21. InnerDivided(big, loose, L, a, k, b)
  <2>1. /\ ~big[a].isLeaf /\ ~loose[a].isLeaf /\ ~loose[b].isLeaf
        /\ loose[a].parent = big[a].parent /\ loose[b].parent = big[a].parent
        /\ JoinedBy(loose[a].keys, k, loose[b].keys, big[a].keys)
        /\ Joined(loose[a].pointers, loose[b].pointers, big[a].pointers)
        /\ Len(loose[a].pointers) = Len(loose[a].keys) + 1
    BY <1>1, <1>2, <1>5, <1>7, <1>17
  <2> QED
    BY <1>1, <1>3, <1>18, <1>20, <2>1 DEF InnerDivided
<1> QED
  BY <1>14, <1>21 DEF big, loose

LEMMA NodesMerged ==
  ASSUME NEW h, NEW L, NEW r, NEW H, NEW R, IsTree(h, L, r, H, R), NodeTypes(h, DOMAIN h),
         NEW p, NEW j, NEW a, NEW k, NEW b, Siblings(h, L, p, j, a, k, b),
         NEW g, g = mergedHeap(h, a, k, b)
  PROVE  /\ Merged(g, h, p, a, k, b)
         /\ SomeTree(takenOut(g, p, j), L \ {b}, r)
         /\ SameEntries(g, L \ {b}, h, L)
<1> DEFINE loose == takenOut(h, p, j)
           big == takenOut(g, p, j)
           Outcome == /\ Merged(g, h, p, a, k, b)
                      /\ SomeTree(big, L \ {b}, r)
                      /\ SameEntries(loose, L, big, L \ {b})
<1>1. IsForest(loose, L, r, H, R, a, k, b) /\ Hung(loose, h, L, p, j, a, k, b)
  BY SiblingsTakenOut
<1>2. ASSUME h[a].isLeaf PROVE Outcome
  <2>1. Merged(g, h, p, a, k, b) /\ LeafDivided(big, loose, L, a, b)
    BY <1>2, LeavesMerged
  <2>2. IsTree(big, L \ {b}, r, Without(H, L, b), Without(Covered(R, a, b), L, b))
    <3> HIDE DEF loose, big
    <3> QED  BY <1>1, <2>1, JoinLeaf
  <2> HIDE DEF loose, big
  <2>3. SameEntries(loose, L, big, L \ {b})
    <3>1. a \in L \ {b} /\ big[a].isLeaf
      BY <2>1 DEF LeafDivided
    <3>2. Len(big[a].pointers) = Len(big[a].keys)
      BY <2>2, <3>1 DEF IsTree, IsHeap, KeysInRange, LeafKeys
    <3> QED
      BY <2>1, <3>2, DividedEntries
  <2> QED  BY <2>1, <2>2, <2>3 DEF SomeTree
<1>3. ASSUME ~h[a].isLeaf PROVE Outcome
  <2>1. Merged(g, h, p, a, k, b) /\ InnerDivided(big, loose, L, a, k, b)
    BY <1>3, InnersMerged
  <2>2. IsTree(big, L \ {b}, r, Without(H, L, b), Without(Covered(R, a, b), L, b))
    <3> HIDE DEF loose, big
    <3> QED  BY <1>1, <2>1, JoinInner
  <2> HIDE DEF loose, big
  <2>3. SameEntries(loose, L, big, L \ {b})
    <3>1. /\ ~big[a].isLeaf /\ ~loose[a].isLeaf /\ ~loose[b].isLeaf
          /\ \A n \in L \ {a, b} : /\ loose[n].isLeaf = big[n].isLeaf
                                   /\ loose[n].keys = big[n].keys
                                   /\ loose[n].pointers = big[n].pointers
      BY <2>1 DEF InnerDivided
    <3>2. LeafSet(loose, L) = LeafSet(big, L \ {b})
      BY <3>1 DEF LeafSet
    <3>3. \A l \in LeafSet(big, L \ {b}) : l \in L \ {a, b}
      BY <3>1 DEF LeafSet
    <3> QED
      BY <3>1, <3>2, <3>3, SameLeafContents
  <2> QED  BY <2>1, <2>2, <2>3 DEF SomeTree
<1>4. Outcome
  BY <1>2, <1>3
<1>5. SameEntries(loose, L, h, L)
  BY <1>1, HungEntries
<1>6. SameEntries(big, L \ {b}, g, L \ {b})
  <2>1. /\ NodeTypes(g, DOMAIN h) /\ DOMAIN g = DOMAIN h /\ g[p] = h[p]
    BY <1>4 DEF Merged
  <2>2. /\ p \in DOMAIN h /\ ~h[p].isLeaf /\ j \in 1..Len(h[p].keys) /\ L \subseteq DOMAIN h
        /\ Len(h[p].pointers) = Len(h[p].keys) + 1
    BY DEF Siblings, IsTree, IsHeap, KeysInRange, InnerKeys, NodeTypes
  <2>3. LostChild(big, g, p, j)
    <3> HIDE DEF Outcome, loose
    <3> QED  BY <2>1, <2>2, TakenOut
  <2> HIDE DEF big
  <2>4. /\ ~big[p].isLeaf /\ ~g[p].isLeaf
        /\ \A n \in (L \ {b}) \ {p} : big[n] = g[n]
    BY <2>1, <2>2, <2>3 DEF LostChild
  <2> QED
    BY <2>4, InnerNodeChanged
<1> HIDE DEF loose, big
<1>7. SameEntries(g, L \ {b}, h, L)
  BY <1>4, <1>5, <1>6, Zenon DEF SameEntries
<1> QED
  BY <1>4, <1>7 DEF big

(* A tree with a node that has just lost an entry.                         *)
Reduced(h, L, r, node) ==
  /\ IsFiniteSet(DOMAIN h) /\ NodeTypes(h, DOMAIN h)
  /\ L \subseteq DOMAIN h /\ node \in L
  /\ SomeTree(h, L, r)
  /\ Filled(h, L \ {node}, {r})
  /\ Len(h[node].keys) <= nodeSize
  /\ node # r => Len(h[node].keys) + 1 >= leastKeys(h[node])

(* A tree but for key k and pointer b in p, the entry of a merged node.    *)
EntryLeft(h, L, r, p, k, b) ==
  /\ IsFiniteSet(DOMAIN h) /\ NodeTypes(h, DOMAIN h)
  /\ L \subseteq DOMAIN h /\ p \in L /\ ~h[p].isLeaf
  /\ Filled(h, L, {r})
  /\ Len(h[p].pointers) = Len(h[p].keys) + 1
  /\ PositionOf(h[p].keys, k) \in 1..Len(h[p].keys)
  /\ h[p].keys[PositionOf(h[p].keys, k)] = k
  /\ h[p].pointers[PositionOf(h[p].keys, k) + 1] = b
  /\ PositionOf(h[p].pointers, b) = PositionOf(h[p].keys, k) + 1
  /\ SomeTree(takenOut(h, p, PositionOf(h[p].keys, k)), L, r)

(* Siblings a and b, with the separator when they are inner nodes, fit into *)
(* one node.                                                               *)
RoomForBoth(h, a, b) ==
  /\ h[a].isLeaf => Len(h[a].keys) + Len(h[b].keys) <= nodeSize
  /\ ~h[a].isLeaf => Len(h[a].keys) + 1 + Len(h[b].keys) <= nodeSize

(* Their merge leaves the entry of b in their parent.                      *)
LeftToParent(g, h, L, r, p, k, b) ==
  /\ EntryLeft(g, L \ {b}, r, p, k, b) /\ DOMAIN g = DOMAIN h
  /\ p \in Node /\ k \in Value /\ b \in Node

(* Merging a node that is short of keys with a sibling, when one node can  *)
(* hold both.                                                              *)
LEMMA MergeLeavesEntry ==
  ASSUME nodeSize >= 3, NEW h, NEW L, NEW r, NEW node, Reduced(h, L, r, node), node # r,
         NEW p, NEW j, NEW a, NEW k, NEW b, Siblings(h, L, p, j, a, k, b),
         NEW other \in {a, b}, node \in {a, b}, node # other, RoomForBoth(h, a, b),
         NEW g, g = mergedHeap(h, a, k, b)
  PROVE  LeftToParent(g, h, L, r, p, k, b)
<1>1. /\ NodeTypes(h, DOMAIN h) /\ NodeTypes(h, L) /\ L \subseteq DOMAIN h
      /\ IsFiniteSet(DOMAIN h)
      /\ p \in L /\ ~h[p].isLeaf /\ a \in L /\ b \in L /\ a # b /\ p # a /\ p # b
      /\ h[a].parent = p /\ h[b].parent = p
      /\ (h[a].isLeaf <=> h[b].isLeaf)
      /\ j \in 1..Len(h[p].keys) /\ k = h[p].keys[j] /\ b = h[p].pointers[j + 1]
  BY DEF Reduced, Siblings, NodeTypes
<1>2. PICK H, R : IsTree(h, L, r, H, R)
  BY DEF Reduced, SomeTree
<1>3. Merged(g, h, p, a, k, b) /\ SomeTree(takenOut(g, p, j), L \ {b}, r)
  BY <1>1, <1>2, NodesMerged
<1>4. /\ h[p].keys \in Seq(Int) /\ h[p].keys \in Seq(Value) /\ h[p].pointers \in Seq(Node)
      /\ Ascending(h[p].keys)
      /\ Len(h[p].pointers) = Len(h[p].keys) + 1
  BY <1>1, <1>2, NodeFields DEF IsTree, IsHeap, KeysInRange, InnerKeys
<1>5. /\ p \in Node /\ b \in Node
  BY <1>1, NodeFields
<1>6. k \in Value
  BY <1>1, <1>4
<1>7. PositionOf(h[p].keys, k) = j
  BY <1>1, <1>4, KeyPosition
<1>8. PositionOf(h[p].pointers, b) = j + 1
  <2>1. j + 1 \in 1..Len(h[p].pointers)
    BY <1>1, <1>4
  <2>2. PositionOf(h[p].pointers, h[p].pointers[j + 1]) = j + 1
    <3>1. IsHeap(h, L, r, H, R, R, {})
      BY <1>2 DEF IsTree
    <3> QED
      BY <1>1, <2>1, <3>1, ChildPosition
  <2> QED
    BY <1>1, <2>2
<1>9. Filled(g, L \ {b}, {r})
  <2>1. /\ (g[a].isLeaf <=> h[a].isLeaf)
        /\ (h[a].isLeaf => g[a].keys = h[a].keys \o h[b].keys)
        /\ (~h[a].isLeaf => g[a].keys = h[a].keys \o <<k>> \o h[b].keys)
        /\ \A n \in DOMAIN h \ {a} : /\ g[n].isLeaf <=> h[n].isLeaf
                                     /\ g[n].keys = h[n].keys
    BY <1>3 DEF Merged
  <2>2. \A n \in L \ {a, b} : /\ Len(g[n].keys) >= 1 /\ Len(g[n].keys) <= nodeSize
                              /\ n # r => Len(g[n].keys) >= leastKeys(g[n])
    <3> SUFFICES ASSUME NEW n \in L \ {a, b}
                 PROVE  /\ Len(g[n].keys) >= 1 /\ Len(g[n].keys) <= nodeSize
                        /\ n # r => Len(g[n].keys) >= leastKeys(g[n])
      OBVIOUS
    <3>1. /\ Len(h[n].keys) >= 1 /\ Len(h[n].keys) <= nodeSize
          /\ n # r => Len(h[n].keys) >= leastKeys(h[n])
      BY DEF Reduced, Filled
    <3>2. (g[n].isLeaf <=> h[n].isLeaf) /\ g[n].keys = h[n].keys
      BY <1>1, <2>1
    <3>3. leastKeys(g[n]) = leastKeys(h[n])
      BY <3>2 DEF leastKeys
    <3> QED
      BY <3>1, <3>2, <3>3
  <2>3. other \in {a, b} /\ other # r /\ other \in L
    <3>1. h[r].parent = NULL
      BY <1>2 DEF IsTree, IsHeap, Attached
    <3>2. h[other].parent = p
      BY <1>1
    <3> QED
      BY <1>1, <1>5, <3>1, <3>2, NULLAssumption
  <2>4. Len(h[other].keys) >= leastKeys(h[other])
    BY <2>3 DEF Reduced, Filled
  <2>5. /\ h[a].keys \in Seq(Value) /\ h[b].keys \in Seq(Value)
        /\ Len(h[a].keys) \in Nat /\ Len(h[b].keys) \in Nat
        /\ h[a].isLeaf \in BOOLEAN
    BY <1>1, NodeFields
  <2>6. /\ h[a].isLeaf => Len(g[a].keys) = Len(h[a].keys) + Len(h[b].keys)
        /\ ~h[a].isLeaf => Len(g[a].keys) = Len(h[a].keys) + 1 + Len(h[b].keys)
    <3>1. Len(h[a].keys \o h[b].keys) = Len(h[a].keys) + Len(h[b].keys)
      BY <2>5
    <3>2. Len(h[a].keys \o <<k>> \o h[b].keys) = Len(h[a].keys) + 1 + Len(h[b].keys)
      BY <1>6, <2>5
    <3> QED
      BY <2>1, <3>1, <3>2
  <2>7. leastKeys(h[other]) = leastKeys(g[a])
    BY <1>1, <2>1, <2>3 DEF leastKeys
  <2>8. leastKeys(g[a]) \in Nat /\ leastKeys(g[a]) >= 1
    BY LeastKeys
  <2>9. Len(g[a].keys) >= leastKeys(g[a])
    <3>1. Len(h[a].keys) >= leastKeys(g[a]) \/ Len(h[b].keys) >= leastKeys(g[a])
      BY <2>3, <2>4, <2>7
    <3>2. Len(g[a].keys) >= Len(h[a].keys) /\ Len(g[a].keys) >= Len(h[b].keys)
      <4> DEFINE x == Len(h[a].keys)
                 y == Len(h[b].keys)
                 z == Len(g[a].keys)
      <4>1. x \in Nat /\ y \in Nat /\ (z = x + y \/ z = x + 1 + y)
        BY <2>5, <2>6
      <4> HIDE DEF x, y, z
      <4>2. z >= x /\ z >= y
        BY <4>1
      <4> QED
        BY <4>2 DEF x, y, z
    <3>3. Len(g[a].keys) \in Nat
      BY <2>5, <2>6
    <3> QED
      BY <2>5, <2>8, <3>1, <3>2, <3>3
  <2>10. Len(g[a].keys) >= 1 /\ Len(g[a].keys) <= nodeSize
    <3>1. Len(g[a].keys) <= nodeSize
      BY <2>5, <2>6 DEF RoomForBoth
    <3>2. Len(g[a].keys) \in Nat
      BY <2>5, <2>6
    <3> QED
      BY <2>8, <2>9, <3>1, <3>2
  <2> QED
    BY <2>2, <2>9, <2>10 DEF Filled
<1>10. /\ DOMAIN g = DOMAIN h /\ NodeTypes(g, DOMAIN g) /\ g[p] = h[p]
  BY <1>3 DEF Merged
<1>11. /\ IsFiniteSet(DOMAIN g) /\ L \ {b} \subseteq DOMAIN g /\ p \in L \ {b} /\ ~g[p].isLeaf
       /\ Len(g[p].pointers) = Len(g[p].keys) + 1
       /\ PositionOf(g[p].keys, k) = j
       /\ j \in 1..Len(g[p].keys) /\ g[p].keys[j] = k /\ g[p].pointers[j + 1] = b
       /\ PositionOf(g[p].pointers, b) = j + 1
  BY <1>1, <1>4, <1>7, <1>8, <1>10
<1>12. EntryLeft(g, L \ {b}, r, p, k, b)
  <2> USE <1>3, <1>9, <1>10, <1>11
  <2>1. SomeTree(takenOut(g, p, PositionOf(g[p].keys, k)), L \ {b}, r)
    OBVIOUS
  <2> QED
    BY <2>1 DEF EntryLeft
<1> QED
  BY <1>5, <1>6, <1>10, <1>12 DEF LeftToParent

-----------------------------------------------------------------------------
(* Redistribution: entries move between siblings a and b, whose separator  *)
(* becomes k.                                                              *)
Redistributed(g, h, L, p, j, a, k, b) ==
  /\ DOMAIN g = DOMAIN h /\ NodeTypes(g, DOMAIN h)
  /\ k \in Int
  /\ g[p].keys = [h[p].keys EXCEPT ![j] = k] /\ g[p].pointers = h[p].pointers
  /\ \A n \in L : /\ g[n].isLeaf = h[n].isLeaf
                  /\ g[n].next = h[n].next /\ g[n].prev = h[n].prev
  /\ \A n \in L \ {a, b, p} : g[n].keys = h[n].keys /\ g[n].pointers = h[n].pointers

(* Out of the parent they differ from the siblings before in nothing else. *)
OutOfParent(two, loose, L, a, b) ==
  /\ NodeTypes(two, L)
  /\ \A n \in L : /\ two[n].isLeaf = loose[n].isLeaf
                  /\ two[n].next = loose[n].next /\ two[n].prev = loose[n].prev
  /\ \A n \in L \ {a, b} : two[n].keys = loose[n].keys /\ two[n].pointers = loose[n].pointers

LEMMA RemoveReplaced ==
  ASSUME NEW s \in Seq(Int), NEW i \in 1..Len(s), NEW e \in Int
  PROVE  RemoveAt([s EXCEPT ![i] = e], i) = RemoveAt(s, i)
<1> DEFINE t == [s EXCEPT ![i] = e]
<1>1. /\ t \in Seq(Int) /\ Len(t) = Len(s) /\ Len(s) \in Nat
      /\ \A m \in 1..Len(s) : m # i => t[m] = s[m]
  OBVIOUS
<1> HIDE DEF t
<1>2. /\ RemoveAt(s, i) \in Seq(Int) /\ Len(RemoveAt(s, i)) = Len(s) - 1
      /\ \A m \in 1..(Len(s) - 1) : RemoveAt(s, i)[m] = IF m < i THEN s[m] ELSE s[m + 1]
  BY RemoveAtElements
<1>3. /\ RemoveAt(t, i) \in Seq(Int) /\ Len(RemoveAt(t, i)) = Len(s) - 1
      /\ \A m \in 1..(Len(s) - 1) : RemoveAt(t, i)[m] = IF m < i THEN t[m] ELSE t[m + 1]
  <2>1. t \in Seq(Int) /\ i \in 1..Len(t) /\ Len(t) = Len(s)
    BY <1>1
  <2>2. /\ RemoveAt(t, i) \in Seq(Int) /\ Len(RemoveAt(t, i)) = Len(t) - 1
        /\ \A m \in 1..(Len(t) - 1) : RemoveAt(t, i)[m] = IF m < i THEN t[m] ELSE t[m + 1]
    BY <2>1, RemoveAtElements
  <2> QED
    BY <2>1, <2>2
<1>4. ASSUME NEW m \in 1..(Len(s) - 1)
      PROVE  RemoveAt(t, i)[m] = RemoveAt(s, i)[m]
  <2>1. CASE m < i
    <3>1. m \in 1..Len(s) /\ m # i
      BY <1>1, <2>1
    <3> QED
      BY <1>1, <1>2, <1>3, <2>1, <3>1
  <2>2. CASE ~(m < i)
    <3>1. m + 1 \in 1..Len(s) /\ m + 1 # i
      BY <1>1, <2>2
    <3> QED
      BY <1>1, <1>2, <1>3, <2>2, <3>1
  <2> QED
    BY <2>1, <2>2
<1>5. RemoveAt(t, i) = RemoveAt(s, i)
  BY <1>2, <1>3, <1>4, SeqEqual
<1> QED
  BY <1>5 DEF t

LEMMA RedistributedOutOfParent ==
  ASSUME NEW h, NEW L, NEW r, NEW H, NEW R, IsTree(h, L, r, H, R), NodeTypes(h, DOMAIN h),
         NEW p, NEW j, NEW a, NEW k1, NEW b, Siblings(h, L, p, j, a, k1, b),
         NEW k, NEW g, Redistributed(g, h, L, p, j, a, k, b),
         NEW loose, loose = takenOut(h, p, j), NEW two, two = takenOut(g, p, j)
  PROVE  /\ OutOfParent(two, loose, L, a, b)
         /\ Hung(two, g, L, p, j, a, k, b)
         /\ \A n \in L \ {p} : two[n] = g[n] /\ loose[n] = h[n]
         /\ two[p].parent = g[p].parent /\ loose[p].parent = h[p].parent
<1>1. /\ NodeTypes(h, L) /\ L \subseteq DOMAIN h /\ p \in L /\ ~h[p].isLeaf
      /\ j \in 1..Len(h[p].keys) /\ Len(h[p].pointers) = Len(h[p].keys) + 1
      /\ a = h[p].pointers[j] /\ b = h[p].pointers[j + 1] /\ p # a /\ p # b
      /\ a \in L /\ b \in L
  BY DEF Siblings, IsTree, IsHeap, KeysInRange, InnerKeys, NodeTypes
<1>2. /\ DOMAIN g = DOMAIN h /\ NodeTypes(g, L) /\ k \in Int
      /\ g[p].keys = [h[p].keys EXCEPT ![j] = k] /\ g[p].pointers = h[p].pointers
      /\ \A n \in L : /\ g[n].isLeaf = h[n].isLeaf
                      /\ g[n].next = h[n].next /\ g[n].prev = h[n].prev
      /\ \A n \in L \ {a, b, p} : g[n].keys = h[n].keys /\ g[n].pointers = h[n].pointers
  BY <1>1 DEF Redistributed, NodeTypes
<1>3. /\ h[p].keys \in Seq(Int) /\ Len(g[p].keys) = Len(h[p].keys)
      /\ g[p].keys[j] = k /\ ~g[p].isLeaf
  <2>1. h[p].keys \in Seq(Int)
    BY <1>1, NodeFields
  <2> QED
    BY <1>1, <1>2, <2>1
<1>4. LostChild(loose, h, p, j)
  BY <1>1, TakenOut
<1>5. LostChild(two, g, p, j)
  BY <1>1, <1>2, <1>3, TakenOut
<1>6. Hung(two, g, L, p, j, a, k, b)
  BY <1>1, <1>2, <1>3, TakenOutHangs
<1>7. /\ \A n \in L \ {p} : two[n] = g[n] /\ loose[n] = h[n]
      /\ two[p].parent = g[p].parent /\ loose[p].parent = h[p].parent
  BY <1>1, <1>2, <1>4, <1>5 DEF LostChild
<1>8. two[p].keys = loose[p].keys /\ two[p].pointers = loose[p].pointers
  <2>1. RemoveAt(g[p].keys, j) = RemoveAt(h[p].keys, j)
    BY <1>1, <1>2, <1>3, RemoveReplaced
  <2> QED
    BY <1>2, <1>4, <1>5, <2>1 DEF LostChild
<1>9. NodeTypes(two, L)
  BY <1>6, HungFields, <1>2
<1>10. /\ two[p].isLeaf = loose[p].isLeaf
       /\ two[p].next = loose[p].next /\ two[p].prev = loose[p].prev
  BY <1>4, <1>5 DEF LostChild, InnerRecord
<1>11. OutOfParent(two, loose, L, a, b)
  <2>1. \A n \in L : /\ two[n].isLeaf = loose[n].isLeaf
                     /\ two[n].next = loose[n].next /\ two[n].prev = loose[n].prev
    BY <1>2, <1>7, <1>10
  <2>2. \A n \in L \ {a, b} : two[n].keys = loose[n].keys /\ two[n].pointers = loose[n].pointers
    BY <1>2, <1>7, <1>8
  <2> QED
    BY <1>9, <2>1, <2>2 DEF OutOfParent
<1> QED
  BY <1>6, <1>7, <1>11

LEMMA LeavesRedistributed ==
  ASSUME NEW h, NEW L, NEW r, NEW H, NEW R, IsTree(h, L, r, H, R), NodeTypes(h, DOMAIN h),
         NEW p, NEW j, NEW a, NEW k1, NEW b, Siblings(h, L, p, j, a, k1, b), h[a].isLeaf,
         NEW k, NEW g, Redistributed(g, h, L, p, j, a, k, b),
         \A n \in L : g[n].parent = h[n].parent,
         Joined(g[a].keys, g[b].keys, h[a].keys \o h[b].keys),
         Joined(g[a].pointers, g[b].pointers, h[a].pointers \o h[b].pointers),
         Len(g[a].pointers) = Len(g[a].keys),
         g[a].keys # <<>>, g[b].keys # <<>>, k = g[b].keys[1]
  PROVE  SomeTree(g, L, r) /\ SameEntries(g, L, h, L)
<1> DEFINE loose == takenOut(h, p, j)
           two == takenOut(g, p, j)
           m == mergedHeap(h, a, k1, b)
           big == takenOut(m, p, j)
           H1 == Without(H, L, b)
           R1 == Without(Covered(R, a, b), L, b)
<1>1. /\ OutOfParent(two, loose, L, a, b)
      /\ Hung(two, g, L, p, j, a, k, b)
      /\ \A n \in L \ {p} : two[n] = g[n] /\ loose[n] = h[n]
      /\ two[p].parent = g[p].parent /\ loose[p].parent = h[p].parent
  BY RedistributedOutOfParent
<1>2. Merged(m, h, p, a, k1, b) /\ LeafDivided(big, loose, L, a, b)
  BY LeavesMerged
<1>3. IsForest(loose, L, r, H, R, a, k1, b)
  BY SiblingsTakenOut
<1>4. /\ NodeTypes(h, L) /\ L \subseteq DOMAIN h
      /\ p \in L /\ ~h[p].isLeaf /\ p # a /\ p # b /\ a \in L /\ b \in L
      /\ j \in 1..Len(h[p].keys) /\ Len(h[p].pointers) = Len(h[p].keys) + 1
  BY DEF Siblings, IsTree, IsHeap, KeysInRange, InnerKeys, NodeTypes
<1>5. big[a] = m[a] /\ m[a].keys = h[a].keys \o h[b].keys
  <2>1. /\ m[p] = h[p] /\ NodeTypes(m, L) /\ DOMAIN m = DOMAIN h
        /\ m[a].keys = h[a].keys \o h[b].keys
    BY <1>2, <1>4 DEF Merged, NodeTypes
  <2>2. LostChild(big, m, p, j)
    <3> HIDE DEF m
    <3> QED  BY <1>4, <2>1, TakenOut
  <2> HIDE DEF m, big
  <2> QED
    BY <1>4, <2>1, <2>2 DEF LostChild
<1>6. big[a].pointers = h[a].pointers \o h[b].pointers
  <2>1. Joined(loose[a].pointers, loose[b].pointers, big[a].pointers)
    BY <1>2 DEF LeafDivided
  <2>2. Joined(h[a].pointers, h[b].pointers, big[a].pointers)
    BY <1>1, <1>4, <2>1
  <2>3. /\ h[a].pointers \in Seq(Seq(Time)) /\ h[b].pointers \in Seq(Seq(Time))
    <3>1. NodeTypes(h, L) /\ a \in L /\ b \in L /\ h[a].isLeaf /\ h[b].isLeaf
      BY <1>4, Zenon DEF Siblings
    <3> QED
      BY <3>1, NodeFields
  <2>4. big[a].pointers \in Seq(Seq(Time))
    <3>1. NodeTypes(big, L \ {b}) /\ big[a].isLeaf /\ a \in L \ {b}
      BY <1>2 DEF LeafDivided
    <3> HIDE DEF big
    <3> QED
      BY <3>1, NodeFields
  <2> HIDE DEF big
  <2>5. /\ Joined(h[a].pointers, h[b].pointers, h[a].pointers \o h[b].pointers)
        /\ h[a].pointers \o h[b].pointers \in Seq(Seq(Time))
    BY <2>3, ConcatJoined
  <2> QED
    BY <2>2, <2>3, <2>4, <2>5, JoinedOnce
<1> HIDE DEF loose, two, m, big
<1>7. LeafDivided(big, two, L, a, b)
  <2>1. /\ a \in L /\ b \in L /\ a # b
        /\ NodeTypes(big, L \ {b}) /\ NodeTypes(two, L)
        /\ big[a].isLeaf /\ two[a].isLeaf /\ two[b].isLeaf
        /\ two[a].parent = big[a].parent /\ two[b].parent = big[a].parent
    BY <1>1, <1>2, <1>4 DEF LeafDivided, OutOfParent
  <2>2. Joined(two[a].keys, two[b].keys, big[a].keys)
    BY <1>1, <1>4, <1>5
  <2>3. Joined(two[a].pointers, two[b].pointers, big[a].pointers)
    BY <1>1, <1>4, <1>6
  <2>4. Len(two[a].pointers) = Len(two[a].keys)
    BY <1>1, <1>4
  <2>5. /\ two[a].next = b /\ two[b].prev = a
        /\ two[a].prev = big[a].prev /\ two[b].next = big[a].next
    BY <1>1, <1>2, <1>4 DEF LeafDivided, OutOfParent
  <2>6. ASSUME NEW n \in L \ {a, b}
        PROVE  /\ two[n].isLeaf = big[n].isLeaf /\ two[n].parent = big[n].parent
               /\ two[n].keys = big[n].keys /\ two[n].pointers = big[n].pointers
               /\ two[n].next = big[n].next
               /\ n # big[a].next => two[n].prev = big[n].prev
               /\ n = big[a].next => two[n].prev = b /\ big[n].prev = a
    <3>1. two[n].parent = loose[n].parent
      BY <1>1, <1>4
    <3> QED
      BY <1>1, <1>2, <3>1 DEF LeafDivided, OutOfParent
  <2> QED
    BY <2>1, <2>2, <2>3, <2>4, <2>5, <2>6 DEF LeafDivided
<1>8. IsTree(big, L \ {b}, r, H1, R1)
  BY <1>2, <1>3, JoinLeaf
<1> HIDE DEF H1, R1
<1>9. two[a].keys # <<>> /\ two[b].keys # <<>> /\ k = two[b].keys[1]
  BY <1>1, <1>4
<1>10. IsForest(two, L, r, LevelsWith(H1, L, a, b), RangesWith(R1, L, a, k, b), a, k, b)
  BY <1>7, <1>8, <1>9, SplitLeaf
<1>11. IsTree(g, L, r, LevelsWith(H1, L, a, b), RangesWith(R1, L, a, k, b))
  BY <1>1, <1>10, HangUp
<1>12. SameEntries(g, L, h, L)
  <2>1. Len(big[a].pointers) = Len(big[a].keys)
    <3>1. a \in L \ {b} /\ big[a].isLeaf
      BY <1>7 DEF LeafDivided
    <3> QED
      BY <1>8, <3>1 DEF IsTree, IsHeap, KeysInRange, LeafKeys
  <2>2. SameEntries(two, L, big, L \ {b}) /\ SameEntries(loose, L, big, L \ {b})
    BY <1>2, <1>7, <2>1, DividedEntries
  <2>3. Hung(loose, h, L, p, j, a, k1, b)
    BY SiblingsTakenOut DEF loose
  <2>4. SameEntries(two, L, g, L) /\ SameEntries(loose, L, h, L)
    BY <1>1, <2>3, HungEntries
  <2> QED
    BY <2>2, <2>4, Zenon DEF SameEntries
<1> QED
  BY <1>11, <1>12 DEF SomeTree

LEMMA InnersRedistributed ==
  ASSUME NEW h, NEW L, NEW r, NEW H, NEW R, IsTree(h, L, r, H, R), NodeTypes(h, DOMAIN h),
         NEW p, NEW j, NEW a, NEW k1, NEW b, Siblings(h, L, p, j, a, k1, b), ~h[a].isLeaf,
         NEW k, NEW g, Redistributed(g, h, L, p, j, a, k, b),
         \A n \in L : /\ PointsTo(g, a, n) => g[n].parent = a
                      /\ PointsTo(g, b, n) => g[n].parent = b
                      /\ ~PointsTo(g, a, n) /\ ~PointsTo(g, b, n) => g[n].parent = h[n].parent,
         g[p].parent = h[p].parent,
         g[a].parent = h[a].parent, g[b].parent = h[b].parent,
         JoinedBy(g[a].keys, k, g[b].keys, h[a].keys \o <<k1>> \o h[b].keys),
         Joined(g[a].pointers, g[b].pointers, h[a].pointers \o h[b].pointers),
         Len(g[a].pointers) = Len(g[a].keys) + 1
  PROVE  SomeTree(g, L, r) /\ SameEntries(g, L, h, L)
<1> DEFINE loose == takenOut(h, p, j)
           two == takenOut(g, p, j)
           m == mergedHeap(h, a, k1, b)
           big == takenOut(m, p, j)
           H1 == Without(H, L, b)
           R1 == Without(Covered(R, a, b), L, b)
<1>1. /\ OutOfParent(two, loose, L, a, b)
      /\ Hung(two, g, L, p, j, a, k, b)
      /\ \A n \in L \ {p} : two[n] = g[n] /\ loose[n] = h[n]
      /\ two[p].parent = g[p].parent /\ loose[p].parent = h[p].parent
  BY RedistributedOutOfParent
<1>2. Merged(m, h, p, a, k1, b) /\ InnerDivided(big, loose, L, a, k1, b)
  BY InnersMerged
<1>3. IsForest(loose, L, r, H, R, a, k1, b)
  BY SiblingsTakenOut
<1>4. /\ NodeTypes(h, L) /\ L \subseteq DOMAIN h
      /\ p \in L /\ ~h[p].isLeaf /\ p # a /\ p # b /\ a \in L /\ b \in L /\ ~h[b].isLeaf
      /\ j \in 1..Len(h[p].keys) /\ Len(h[p].pointers) = Len(h[p].keys) + 1
  BY DEF Siblings, IsTree, IsHeap, KeysInRange, InnerKeys, NodeTypes
<1>5. big[a] = m[a] /\ m[a].keys = h[a].keys \o <<k1>> \o h[b].keys
  <2>1. /\ m[p] = h[p] /\ NodeTypes(m, L) /\ DOMAIN m = DOMAIN h
        /\ m[a].keys = h[a].keys \o <<k1>> \o h[b].keys
    BY <1>2, <1>4 DEF Merged, NodeTypes
  <2>2. LostChild(big, m, p, j)
    <3> HIDE DEF m
    <3> QED  BY <1>4, <2>1, TakenOut
  <2> HIDE DEF m, big
  <2> QED
    BY <1>4, <2>1, <2>2 DEF LostChild
<1> DEFINE ps == h[a].pointers \o h[b].pointers
<1>6. /\ Joined(h[a].pointers, h[b].pointers, ps) /\ ps \in Seq(Node)
      /\ h[a].pointers \in Seq(Node) /\ h[b].pointers \in Seq(Node)
  <2>1. h[a].pointers \in Seq(Node) /\ h[b].pointers \in Seq(Node)
    BY <1>4, NodeFields
  <2> QED
    BY <2>1, ConcatJoined
<1>7. big[a].pointers = ps
  <2>1. Joined(loose[a].pointers, loose[b].pointers, big[a].pointers)
    BY <1>2 DEF InnerDivided
  <2>2. Joined(h[a].pointers, h[b].pointers, big[a].pointers)
    BY <1>1, <1>4, <2>1
  <2>3. big[a].pointers \in Seq(Node)
    <3>1. NodeTypes(big, L \ {b}) /\ ~big[a].isLeaf /\ a \in L \ {b}
      BY <1>2 DEF InnerDivided
    <3> HIDE DEF big
    <3> QED
      BY <3>1, NodeFields
  <2> HIDE DEF big, ps
  <2> QED
    BY <1>6, <2>2, <2>3, JoinedOnce
<1> HIDE DEF loose, two, m, big, ps
<1>8. Joined(g[a].pointers, g[b].pointers, ps)
  BY DEF ps
<1>9. ASSUME NEW n
      PROVE  PointsTo(g, a, n) \/ PointsTo(g, b, n) <=> PointsTo(h, a, n) \/ PointsTo(h, b, n)
  <2>1. g[a].pointers \in Seq(Node) /\ g[b].pointers \in Seq(Node)
    <3>1. NodeTypes(two, L) /\ ~two[a].isLeaf /\ ~two[b].isLeaf
      BY <1>1, <1>2, <1>4 DEF OutOfParent, InnerDivided
    <3>2. two[a].pointers \in Seq(Node) /\ two[b].pointers \in Seq(Node)
      BY <1>4, <3>1, NodeFields
    <3> QED
      BY <1>1, <1>4, <3>2
  <2>2. n \in ToSet(ps) <=> n \in ToSet(g[a].pointers) \/ n \in ToSet(g[b].pointers)
    BY <1>6, <1>8, <2>1, JoinedElements
  <2>3. n \in ToSet(ps) <=> n \in ToSet(h[a].pointers) \/ n \in ToSet(h[b].pointers)
    BY <1>6, JoinedElements
  <2>4. /\ n \in ToSet(g[a].pointers) <=> PointsTo(g, a, n)
        /\ n \in ToSet(g[b].pointers) <=> PointsTo(g, b, n)
        /\ n \in ToSet(h[a].pointers) <=> PointsTo(h, a, n)
        /\ n \in ToSet(h[b].pointers) <=> PointsTo(h, b, n)
    BY PointedToIsInSet
  <2> QED
    BY <2>2, <2>3, <2>4
<1>10. ASSUME NEW n \in L \ {a, b}
       PROVE  /\ PointsTo(two, b, n) => two[n].parent = b /\ big[n].parent = a
              /\ ~PointsTo(two, b, n) => two[n].parent = big[n].parent
  <2>1. /\ PointsTo(two, b, n) <=> PointsTo(g, b, n)
        /\ PointsTo(loose, b, n) <=> PointsTo(h, b, n)
    BY <1>1, <1>4 DEF PointsTo
  <2>2. two[n].parent = g[n].parent /\ loose[n].parent = h[n].parent
    BY <1>1, <1>4
  <2>3. /\ PointsTo(h, b, n) => big[n].parent = a
        /\ ~PointsTo(h, b, n) => big[n].parent = h[n].parent
    BY <1>2, <2>1, <2>2 DEF InnerDivided
  <2>4. PointsTo(h, a, n) => h[n].parent = a
    BY <1>4, ChildOf DEF PointsTo
  <2>5. PointsTo(h, a, n) \/ PointsTo(h, b, n) => big[n].parent = a
    BY <2>3, <2>4
  <2>6. ~PointsTo(h, a, n) /\ ~PointsTo(h, b, n) => big[n].parent = h[n].parent
    BY <2>3
  <2> QED
    BY <1>9, <2>1, <2>2, <2>5, <2>6
<1>11. InnerDivided(big, two, L, a, k, b)
  <2>1. /\ a \in L /\ b \in L /\ a # b
        /\ NodeTypes(big, L \ {b}) /\ NodeTypes(two, L)
        /\ ~big[a].isLeaf /\ ~two[a].isLeaf /\ ~two[b].isLeaf
    BY <1>1, <1>2, <1>4 DEF InnerDivided, OutOfParent
  <2>2. two[a].parent = big[a].parent /\ two[b].parent = big[a].parent
    <3>1. loose[a].parent = big[a].parent /\ loose[b].parent = big[a].parent
      BY <1>2 DEF InnerDivided
    <3> QED
      BY <1>1, <1>4, <3>1
  <2>3. JoinedBy(two[a].keys, k, two[b].keys, big[a].keys)
    BY <1>1, <1>4, <1>5
  <2>4. Joined(two[a].pointers, two[b].pointers, big[a].pointers)
    BY <1>1, <1>4, <1>7, <1>8
  <2>5. Len(two[a].pointers) = Len(two[a].keys) + 1
    BY <1>1, <1>4
  <2>6. ASSUME NEW n \in L \ {a, b}
        PROVE  /\ two[n].isLeaf = big[n].isLeaf
               /\ two[n].keys = big[n].keys /\ two[n].pointers = big[n].pointers
               /\ two[n].next = big[n].next /\ two[n].prev = big[n].prev
    BY <1>1, <1>2 DEF InnerDivided, OutOfParent
  <2> QED
    BY <1>10, <2>1, <2>2, <2>3, <2>4, <2>5, <2>6 DEF InnerDivided
<1>12. IsTree(big, L \ {b}, r, H1, R1)
  BY <1>2, <1>3, JoinInner
<1> HIDE DEF H1, R1
<1>13. IsForest(two, L, r, LevelsWith(H1, L, a, b), RangesWith(R1, L, a, k, b), a, k, b)
  BY <1>11, <1>12, SplitInner
<1>14. IsTree(g, L, r, LevelsWith(H1, L, a, b), RangesWith(R1, L, a, k, b))
  BY <1>1, <1>13, HangUp
<1>15. SameEntries(g, L, h, L)
  <2>1. \A n \in L : g[n].isLeaf = h[n].isLeaf
    BY DEF Redistributed
  <2>2. LeafSet(g, L) = LeafSet(h, L)
    BY <2>1 DEF LeafSet
  <2>3. \A l \in LeafSet(h, L) : l \in L \ {a, b, p}
    BY <1>4 DEF LeafSet
  <2>4. \A l \in L \ {a, b, p} : g[l].keys = h[l].keys /\ g[l].pointers = h[l].pointers
    BY DEF Redistributed
  <2> QED
    BY <2>2, <2>3, <2>4, SameLeafContents
<1> QED
  BY <1>14, <1>15 DEF SomeTree

(* The heap after x and y, siblings under p, got new contents and          *)
(* separator j of p became k.                                              *)
withMoved(h, p, j, k, x, newX, y, newY) ==
  [h EXCEPT ![x] = newX, ![y] = newY, ![p].keys[j] = k]

EntryMoved(g, h, p, j, k, x, newX, y, newY) ==
  /\ DOMAIN g = DOMAIN h /\ NodeTypes(g, DOMAIN h)
  /\ g[x] = newX /\ g[y] = newY
  /\ g[p].keys = [h[p].keys EXCEPT ![j] = k] /\ g[p].pointers = h[p].pointers
  /\ g[p].parent = h[p].parent /\ g[p].isLeaf = h[p].isLeaf
  /\ g[p].next = h[p].next /\ g[p].prev = h[p].prev
  /\ Len(g[p].keys) = Len(h[p].keys)
  /\ \A n \in DOMAIN h \ {x, y, p} : g[n] = h[n]

LEMMA EntryMoves ==
  ASSUME NEW h, NodeTypes(h, DOMAIN h), NEW p \in DOMAIN h, ~h[p].isLeaf,
         NEW j \in 1..Len(h[p].keys), NEW k \in Value,
         NEW x \in DOMAIN h, NEW y \in DOMAIN h, x # y, p # x, p # y,
         NEW newX, newX \in LeafRecord \/ newX \in InnerRecord,
         NEW newY, newY \in LeafRecord \/ newY \in InnerRecord,
         NEW g, g = withMoved(h, p, j, k, x, newX, y, newY)
  PROVE  EntryMoved(g, h, p, j, k, x, newX, y, newY)
<1> DEFINE newP == [h[p] EXCEPT !.keys[j] = k]
<1>1. h[p] \in InnerRecord /\ h[p].keys \in Seq(Value)
  BY NodeFields
<1>2. /\ DOMAIN g = DOMAIN h
      /\ g[x] = newX /\ g[y] = newY /\ g[p] = newP
      /\ \A n \in DOMAIN h \ {x, y, p} : g[n] = h[n]
  BY DEF withMoved
<1>3. /\ [h[p].keys EXCEPT ![j] = k] \in Seq(Value)
      /\ Len([h[p].keys EXCEPT ![j] = k]) = Len(h[p].keys)
  BY <1>1
<1>4. /\ newP.keys = [h[p].keys EXCEPT ![j] = k] /\ newP.pointers = h[p].pointers
      /\ newP.parent = h[p].parent /\ newP.isLeaf = h[p].isLeaf
      /\ newP.next = h[p].next /\ newP.prev = h[p].prev
      /\ newP \in InnerRecord
  BY <1>1, <1>3 DEF InnerRecord
<1> HIDE DEF newP
<1>5. NodeTypes(g, DOMAIN h)
  <2>1. \A n \in DOMAIN h : g[n] \in LeafRecord \/ g[n] \in InnerRecord
    BY <1>2, <1>4 DEF NodeTypes
  <2> QED
    BY <1>2, <2>1 DEF NodeTypes
<1>6. Len(g[p].keys) = Len(h[p].keys)
  BY <1>2, <1>3, <1>4
<1> QED
  BY <1>2, <1>4, <1>5, <1>6 DEF EntryMoved

(* A node with one more entry in front or behind, or without its first or  *)
(* last one.                                                               *)
withFirst(node, key, moved) ==
  [node EXCEPT !.keys = <<key>> \o @, !.pointers = <<moved>> \o @]

withLast(node, key, moved) ==
  [node EXCEPT !.keys = Append(@, key), !.pointers = Append(@, moved)]

withoutFirst(node) == [node EXCEPT !.keys = Tail(@), !.pointers = Tail(@)]

withoutLast(node) == [node EXCEPT !.keys = Front(@), !.pointers = Front(@)]

(* Records of a kind with other keys and pointers.                         *)
Refilled(new, node, keys, pointers) ==
  /\ new \in LeafRecord \/ new \in InnerRecord
  /\ new.keys = keys /\ new.pointers = pointers
  /\ new.isLeaf = node.isLeaf /\ new.parent = node.parent
  /\ new.next = node.next /\ new.prev = node.prev

LEMMA Refills ==
  ASSUME NEW node, NEW keys \in Seq(Value), NEW pointers,
         \/ node \in LeafRecord /\ pointers \in Seq(Seq(Time))
         \/ node \in InnerRecord /\ pointers \in Seq(Node)
  PROVE  Refilled([node EXCEPT !.keys = keys, !.pointers = pointers], node, keys, pointers)
BY DEF Refilled, LeafRecord, InnerRecord

(* SetParent for one node.                                                 *)
ParentSet(g, h, c, x) ==
  /\ DOMAIN g = DOMAIN h /\ NodeTypes(g, DOMAIN h)
  /\ \A n \in DOMAIN h :
       /\ g[n].isLeaf = h[n].isLeaf /\ g[n].keys = h[n].keys
       /\ g[n].pointers = h[n].pointers
       /\ g[n].next = h[n].next /\ g[n].prev = h[n].prev
       /\ n = c => g[n].parent = x
       /\ n # c => g[n].parent = h[n].parent

LEMMA OneParentSet ==
  ASSUME NEW h, NodeTypes(h, DOMAIN h), NEW c, NEW x \in Node \union {NULL},
         NEW g, g = SetParent(h, {c}, x)
  PROVE  ParentSet(g, h, c, x)
<1>1. DOMAIN g = DOMAIN h
  BY DEF SetParent
<1>2. ASSUME NEW n \in DOMAIN h
      PROVE  /\ g[n] \in LeafRecord \/ g[n] \in InnerRecord
             /\ g[n].isLeaf = h[n].isLeaf /\ g[n].keys = h[n].keys
             /\ g[n].pointers = h[n].pointers
             /\ g[n].next = h[n].next /\ g[n].prev = h[n].prev
             /\ n = c => g[n].parent = x
             /\ n # c => g[n].parent = h[n].parent
  <2>1. h[n] \in LeafRecord \/ h[n] \in InnerRecord
    BY DEF NodeTypes
  <2>2. CASE n = c
    <3> DEFINE new == [h[n] EXCEPT !.parent = x]
    <3>1. g[n] = new
      BY <2>2 DEF SetParent
    <3>2. /\ new \in LeafRecord \/ new \in InnerRecord
          /\ new.isLeaf = h[n].isLeaf /\ new.keys = h[n].keys
          /\ new.pointers = h[n].pointers /\ new.prev = h[n].prev /\ new.next = h[n].next
          /\ new.parent = x
      BY <2>1, ParentChanged
    <3> HIDE DEF new
    <3> QED
      BY <2>2, <3>1, <3>2
  <2>3. CASE n # c
    <3>1. g[n] = h[n]
      BY <2>3 DEF SetParent
    <3> QED
      BY <2>1, <2>3, <3>1
  <2> QED
    BY <2>2, <2>3
<1>3. NodeTypes(g, DOMAIN h)
  BY <1>1, <1>2 DEF NodeTypes
<1> QED
  BY <1>1, <1>2, <1>3 DEF ParentSet

ContentsMoved(f, h, L, p, j, a, k, b, x, kx, px, y, ky, py) ==
  /\ Redistributed(f, h, L, p, j, a, k, b)
  /\ f[x].keys = kx /\ f[x].pointers = px /\ f[y].keys = ky /\ f[y].pointers = py
  /\ \A n \in L : f[n].parent = h[n].parent
  /\ Len(f[p].keys) = Len(h[p].keys)

LEMMA MovedIsRedistributed ==
  ASSUME NEW h, NodeTypes(h, DOMAIN h), NEW L, L \subseteq DOMAIN h,
         NEW p, NEW j, NEW a, NEW k1, NEW b, Siblings(h, L, p, j, a, k1, b), NEW k \in Value,
         NEW x, NEW y, (x = a /\ y = b) \/ (x = b /\ y = a),
         NEW newX, NEW newY, NEW kx, NEW px, NEW ky, NEW py,
         Refilled(newX, h[x], kx, px), Refilled(newY, h[y], ky, py),
         NEW f, f = withMoved(h, p, j, k, x, newX, y, newY)
  PROVE  ContentsMoved(f, h, L, p, j, a, k, b, x, kx, px, y, ky, py)
<1>1. /\ p \in L /\ ~h[p].isLeaf /\ j \in 1..Len(h[p].keys)
      /\ x \in L /\ y \in L /\ x # y /\ p # x /\ p # y
      /\ x \in DOMAIN h /\ y \in DOMAIN h /\ p \in DOMAIN h
  BY DEF Siblings
<1>2. /\ newX \in LeafRecord \/ newX \in InnerRecord
      /\ newY \in LeafRecord \/ newY \in InnerRecord
  BY DEF Refilled
<1>3. EntryMoved(f, h, p, j, k, x, newX, y, newY)
  BY <1>1, <1>2, EntryMoves
<1>4. f[x].keys = kx /\ f[x].pointers = px /\ f[y].keys = ky /\ f[y].pointers = py
  BY <1>3 DEF EntryMoved, Refilled
<1>5. ASSUME NEW n \in L
      PROVE  /\ f[n].isLeaf = h[n].isLeaf /\ f[n].parent = h[n].parent
             /\ f[n].next = h[n].next /\ f[n].prev = h[n].prev
  BY <1>3 DEF EntryMoved, Refilled
<1>6. \A n \in L \ {a, b, p} : f[n].keys = h[n].keys /\ f[n].pointers = h[n].pointers
  BY <1>3 DEF EntryMoved
<1>7. k \in Int
  BY ValueAssumption
<1> QED
  BY <1>3, <1>4, <1>5, <1>6, <1>7 DEF EntryMoved, Redistributed, ContentsMoved

(* One key more in `to', one less in `from'.                               *)
KeyMoved(g, h, L, from, to) ==
  /\ DOMAIN g = DOMAIN h /\ NodeTypes(g, DOMAIN h)
  /\ Len(g[from].keys) = Len(h[from].keys) - 1
  /\ Len(g[to].keys) = Len(h[to].keys) + 1
  /\ \A n \in L : g[n].isLeaf = h[n].isLeaf
  /\ \A n \in L \ {from, to} : Len(g[n].keys) = Len(h[n].keys)

LEMMA MovedKeyCounts ==
  ASSUME NEW h, NEW L, NEW p, NEW j, NEW a, NEW k, NEW b, NEW f,
         Redistributed(f, h, L, p, j, a, k, b), Len(f[p].keys) = Len(h[p].keys),
         NEW from, NEW to, {from, to} = {a, b},
         Len(f[from].keys) = Len(h[from].keys) - 1,
         Len(f[to].keys) = Len(h[to].keys) + 1
  PROVE  KeyMoved(f, h, L, from, to)
<1>1. \A n \in L \ {from, to} : Len(f[n].keys) = Len(h[n].keys)
  BY DEF Redistributed
<1> QED
  BY <1>1 DEF Redistributed, KeyMoved

(* A child of one sibling changes its parent to the other one.             *)
ChildMoved(g, f, h, L, p, j, a, k, b, c, to) ==
  /\ Redistributed(g, h, L, p, j, a, k, b)
  /\ \A n \in L : g[n].keys = f[n].keys /\ g[n].pointers = f[n].pointers
  /\ g[p].parent = h[p].parent
  /\ g[a].parent = h[a].parent /\ g[b].parent = h[b].parent
  /\ \A n \in L : /\ n = c => g[n].parent = to
                  /\ n # c => g[n].parent = h[n].parent

LEMMA ChildMoves ==
  ASSUME NEW h, NEW L, NEW r, NEW H, NEW R, IsTree(h, L, r, H, R), L \subseteq DOMAIN h,
         NEW p, NEW j, NEW a, NEW k1, NEW b, Siblings(h, L, p, j, a, k1, b), ~h[a].isLeaf,
         NEW k, NEW f, Redistributed(f, h, L, p, j, a, k, b),
         \A n \in L : f[n].parent = h[n].parent,
         NEW from, NEW to, {from, to} = {a, b},
         NEW c, PointsTo(h, from, c), NEW g, g = SetParent(f, {c}, to)
  PROVE  ChildMoved(g, f, h, L, p, j, a, k, b, c, to)
<1>1. /\ p \in L /\ a \in L /\ b \in L /\ ~h[from].isLeaf /\ from \in L /\ to \in L
      /\ h[a].parent = p /\ h[b].parent = p
  BY DEF Siblings
<1>2. c # p /\ c # a /\ c # b
  <2>1. PICK i \in 1..Len(h[from].pointers) : h[from].pointers[i] = c
    BY DEF PointsTo
  <2>2. c \in L /\ h[c].parent = from /\ H[from] = H[c] + 1
    BY <1>1, <2>1, ChildOf
  <2>3. H[p] = H[a] + 1 /\ H[p] = H[b] + 1
    <3>1. /\ ~h[p].isLeaf /\ j \in 1..Len(h[p].keys)
          /\ a = h[p].pointers[j] /\ b = h[p].pointers[j + 1]
      BY DEF Siblings
    <3>2. Len(h[p].pointers) = Len(h[p].keys) + 1 /\ Len(h[p].keys) \in Nat
      BY <1>1, <3>1, NodeFields DEF IsTree, IsHeap, KeysInRange, InnerKeys
    <3>3. j \in 1..Len(h[p].pointers) /\ j + 1 \in 1..Len(h[p].pointers)
      BY <3>1, <3>2
    <3> QED
      BY <1>1, <3>1, <3>3, ChildOf
  <2>4. H \in [L -> Nat]
    BY DEF IsTree, IsHeap, Levels
  <2>5. H[c] \in Nat /\ H[a] \in Nat /\ H[b] \in Nat /\ H[p] \in Nat /\ (from = a \/ from = b)
    BY <1>1, <2>2, <2>4
  <2> QED
    BY <2>2, <2>3, <2>5
<1>3. to \in Node /\ NodeTypes(f, DOMAIN f) /\ DOMAIN f = DOMAIN h
  <2>1. NodeTypes(f, DOMAIN f) /\ DOMAIN f = DOMAIN h /\ to \in DOMAIN f
    BY <1>1 DEF Redistributed
  <2> QED
    BY <2>1, NodeFields
<1>4. ParentSet(g, f, c, to)
  <2>1. to \in Node \union {NULL}
    BY <1>3
  <2> QED
    BY <1>3, <2>1, OneParentSet
<1>5. /\ DOMAIN g = DOMAIN h /\ NodeTypes(g, DOMAIN h)
      /\ \A n \in L : /\ g[n].isLeaf = f[n].isLeaf /\ g[n].keys = f[n].keys
                      /\ g[n].pointers = f[n].pointers
                      /\ g[n].next = f[n].next /\ g[n].prev = f[n].prev
                      /\ n = c => g[n].parent = to
                      /\ n # c => g[n].parent = f[n].parent
  BY <1>3, <1>4 DEF ParentSet
<1>6. Redistributed(g, h, L, p, j, a, k, b)
  <2>1. k \in Int /\ g[p].keys = [h[p].keys EXCEPT ![j] = k] /\ g[p].pointers = h[p].pointers
    BY <1>1, <1>5 DEF Redistributed
  <2>2. \A n \in L : /\ g[n].isLeaf = h[n].isLeaf
                     /\ g[n].next = h[n].next /\ g[n].prev = h[n].prev
    <3>1. \A n \in L : /\ f[n].isLeaf = h[n].isLeaf
                       /\ f[n].next = h[n].next /\ f[n].prev = h[n].prev
      BY Zenon DEF Redistributed
    <3> QED
      BY <1>5, <3>1
  <2>3. \A n \in L \ {a, b, p} : g[n].keys = h[n].keys /\ g[n].pointers = h[n].pointers
    <3>1. \A n \in L \ {a, b, p} : f[n].keys = h[n].keys /\ f[n].pointers = h[n].pointers
      BY Zenon DEF Redistributed
    <3> QED
      BY <1>5, <3>1
  <2> QED
    BY <1>5, <2>1, <2>2, <2>3 DEF Redistributed
<1>7. \A n \in L : /\ n = c => g[n].parent = to
                   /\ n # c => g[n].parent = h[n].parent
  BY <1>5
<1>8. g[p].parent = h[p].parent /\ g[a].parent = h[a].parent /\ g[b].parent = h[b].parent
  BY <1>1, <1>2, <1>7
<1> QED
  BY <1>5, <1>6, <1>7, <1>8 DEF ChildMoved

(* redestributeNodes from the left sibling.                                *)
LEMMA TakenFromLeft ==
  ASSUME NEW h, NEW L, NEW r, NEW H, NEW R, IsTree(h, L, r, H, R), NodeTypes(h, DOMAIN h),
         L \subseteq DOMAIN h, NEW p, NEW kIndex \in Int, NEW a, NEW k1, NEW b,
         NEW j, j = kIndex + 1, Siblings(h, L, p, j, a, k1, b), Len(h[a].keys) >= 2,
         NEW g, g = takeFromLeftNeighbour(h, b, a, kIndex, k1)
  PROVE  SomeTree(g, L, r) /\ KeyMoved(g, h, L, a, b) /\ SameEntries(g, L, h, L)
<1> DEFINE key == IF h[b].isLeaf THEN Last(h[a].keys) ELSE k1
           k == Last(h[a].keys)
           moved == Last(h[a].pointers)
           newB == withFirst(h[b], key, moved)
           newA == withoutLast(h[a])
           f == withMoved(h, p, j, k, b, newB, a, newA)
           kb == <<key>> \o h[b].keys
           pb == <<moved>> \o h[b].pointers
           ka == Front(h[a].keys)
           pa == Front(h[a].pointers)
<1>1. /\ NodeTypes(h, L) /\ p \in L /\ a \in L /\ b \in L /\ a # b /\ p # a /\ p # b
      /\ h[a].parent = p /\ h[b].parent = p /\ ~h[p].isLeaf
      /\ (h[a].isLeaf <=> h[b].isLeaf)
      /\ j \in 1..Len(h[p].keys) /\ k1 = h[p].keys[j]
  BY DEF Siblings, IsTree, IsHeap
<1>2. /\ h[a].keys \in Seq(Value) /\ h[b].keys \in Seq(Value) /\ h[p].keys \in Seq(Value)
      /\ Len(h[a].keys) \in Nat /\ Len(h[b].keys) \in Nat
      /\ h[a].isLeaf \in BOOLEAN /\ h[b].isLeaf \in BOOLEAN
  BY <1>1, NodeFields
<1>3. /\ k = h[a].keys[Len(h[a].keys)] /\ k \in Value /\ k1 \in Value /\ key \in Value
      /\ h[a].keys # <<>>
  <2>1. Len(h[a].keys) \in 1..Len(h[a].keys)
    BY <1>2
  <2> QED
    BY <1>1, <1>2, <2>1 DEF Last
<1>4. /\ <<key>> \o h[b].keys \in Seq(Value) /\ Len(<<key>> \o h[b].keys) = Len(h[b].keys) + 1
      /\ (<<key>> \o h[b].keys)[1] = key
      /\ Front(h[a].keys) \in Seq(Value) /\ Len(Front(h[a].keys)) = Len(h[a].keys) - 1
  BY <1>2, <1>3, EnlargedElements, FrontElements
<1>5. g = IF h[b].isLeaf THEN f ELSE SetParent(f, {moved}, b)
  BY <1>1 DEF takeFromLeftNeighbour, withFirst, withoutLast, withMoved, lastPointer
<1> HIDE DEF f
<1>6. CASE h[a].isLeaf
  <2>1. /\ h[a] \in LeafRecord /\ h[b] \in LeafRecord
        /\ h[a].pointers \in Seq(Seq(Time)) /\ h[b].pointers \in Seq(Seq(Time))
        /\ Len(h[a].pointers) = Len(h[a].keys) /\ Len(h[b].pointers) = Len(h[b].keys)
    BY <1>1, <1>6, NodeFields DEF IsTree, IsHeap, KeysInRange, LeafKeys
  <2>2. /\ h[a].pointers # <<>> /\ moved \in Seq(Time)
    <3>1. Len(h[a].pointers) \in 1..Len(h[a].pointers)
      BY <1>2, <2>1
    <3> QED
      BY <2>1, <3>1 DEF Last
  <2>3. /\ <<moved>> \o h[b].pointers \in Seq(Seq(Time))
        /\ Front(h[a].pointers) \in Seq(Seq(Time))
        /\ Len(Front(h[a].pointers)) = Len(h[a].pointers) - 1
    BY <2>1, <2>2, EnlargedElements, FrontElements
  <2>4. Refilled(newB, h[b], <<key>> \o h[b].keys, <<moved>> \o h[b].pointers)
    BY <1>4, <2>1, <2>3, Refills DEF withFirst
  <2>5. Refilled(newA, h[a], Front(h[a].keys), Front(h[a].pointers))
    BY <1>4, <2>1, <2>3, Refills DEF withoutLast
  <2> HIDE DEF newA, newB
  <2>6. /\ Redistributed(f, h, L, p, j, a, k, b)
        /\ f[b].keys = <<key>> \o h[b].keys /\ f[b].pointers = <<moved>> \o h[b].pointers
        /\ f[a].keys = Front(h[a].keys) /\ f[a].pointers = Front(h[a].pointers)
        /\ \A n \in L : f[n].parent = h[n].parent
        /\ Len(f[p].keys) = Len(h[p].keys)
    <3>1. f = withMoved(h, p, j, k, b, newB, a, newA)
      BY DEF f
    <3>2. Refilled(newB, h[b], kb, pb) /\ Refilled(newA, h[a], ka, pa)
      BY <2>4, <2>5
    <3>3. k \in Value
      BY <1>3
    <3> HIDE DEF key, k, moved, f, kb, pb, ka, pa
    <3>4. ContentsMoved(f, h, L, p, j, a, k, b, b, kb, pb, a, ka, pa)
      BY <3>1, <3>2, <3>3, MovedIsRedistributed
    <3> QED
      BY <3>4 DEF ContentsMoved, kb, pb, ka, pa
  <2>7. KeyMoved(f, h, L, a, b)
    <3>1. Len(f[a].keys) = Len(h[a].keys) - 1 /\ Len(f[b].keys) = Len(h[b].keys) + 1
      BY <1>4, <2>6
    <3> HIDE DEF k
    <3> QED
      BY <2>6, <3>1, MovedKeyCounts
  <2>8. key = k
    BY <1>1, <1>6
  <2>9. /\ h[a].keys \o h[b].keys \in Seq(Value)
        /\ Joined(h[a].keys, h[b].keys, h[a].keys \o h[b].keys)
        /\ h[a].pointers \o h[b].pointers \in Seq(Seq(Time))
        /\ Joined(h[a].pointers, h[b].pointers, h[a].pointers \o h[b].pointers)
    BY <1>2, <2>1, ConcatJoined
  <2>10. /\ Joined(Front(h[a].keys), <<k>> \o h[b].keys, h[a].keys \o h[b].keys)
         /\ Joined(Front(h[a].pointers), <<moved>> \o h[b].pointers, h[a].pointers \o h[b].pointers)
    BY <1>2, <1>3, <2>1, <2>2, <2>9, LastMoves
  <2>11. Len(f[a].pointers) = Len(f[a].keys) /\ f[a].keys # <<>> /\ f[b].keys # <<>>
    <3>1. Len(f[a].keys) >= 1 /\ Len(f[b].keys) >= 1
      <4>1. Len(f[a].keys) = Len(h[a].keys) - 1 /\ Len(f[b].keys) = Len(h[b].keys) + 1
        BY <1>4, <2>6
      <4>2. Len(h[a].keys) \in Nat /\ Len(h[b].keys) \in Nat
        BY <1>2, Zenon
      <4> QED
        BY <4>1, <4>2
    <3> QED
      BY <1>2, <1>4, <2>1, <2>3, <2>6, <3>1
  <2>12. k = f[b].keys[1]
    BY <1>4, <2>6, <2>8
  <2>13. /\ Joined(f[a].keys, f[b].keys, h[a].keys \o h[b].keys)
         /\ Joined(f[a].pointers, f[b].pointers, h[a].pointers \o h[b].pointers)
    BY <2>6, <2>8, <2>10
  <2> HIDE DEF k, key, moved
  <2>14. SomeTree(f, L, r) /\ SameEntries(f, L, h, L)
    BY <1>6, <2>6, <2>11, <2>12, <2>13, LeavesRedistributed
  <2> QED
    BY <1>1, <1>5, <1>6, <2>7, <2>14
<1>7. CASE ~h[a].isLeaf
  <2>1. /\ h[a] \in InnerRecord /\ h[b] \in InnerRecord /\ ~h[b].isLeaf
        /\ h[a].pointers \in Seq(Node) /\ h[b].pointers \in Seq(Node)
        /\ Len(h[a].pointers) = Len(h[a].keys) + 1 /\ Len(h[b].pointers) = Len(h[b].keys) + 1
    BY <1>1, <1>7, NodeFields DEF IsTree, IsHeap, KeysInRange, InnerKeys
  <2> DEFINE m == Len(h[a].pointers)
  <2>2. /\ h[a].pointers # <<>> /\ moved \in Node /\ moved = h[a].pointers[m] /\ m \in 1..m
    <3>1. Len(h[a].pointers) \in 1..Len(h[a].pointers)
      BY <1>2, <2>1
    <3> QED
      BY <2>1, <3>1 DEF Last
  <2>3. /\ <<moved>> \o h[b].pointers \in Seq(Node)
        /\ Len(<<moved>> \o h[b].pointers) = Len(h[b].pointers) + 1
        /\ (<<moved>> \o h[b].pointers)[1] = moved
        /\ \A i \in 1..Len(h[b].pointers) : (<<moved>> \o h[b].pointers)[i + 1] = h[b].pointers[i]
        /\ Front(h[a].pointers) \in Seq(Node)
        /\ Len(Front(h[a].pointers)) = m - 1
        /\ \A i \in 1..(m - 1) : Front(h[a].pointers)[i] = h[a].pointers[i]
    <3>1. /\ Front(h[a].pointers) \in Seq(Node)
          /\ Len(Front(h[a].pointers)) = m - 1
          /\ \A i \in 1..(m - 1) : Front(h[a].pointers)[i] = h[a].pointers[i]
      BY <2>1, <2>2, FrontElements
    <3> HIDE DEF moved
    <3>2. /\ <<moved>> \o h[b].pointers \in Seq(Node)
          /\ Len(<<moved>> \o h[b].pointers) = Len(h[b].pointers) + 1
          /\ (<<moved>> \o h[b].pointers)[1] = moved
          /\ \A i \in 1..Len(h[b].pointers) : (<<moved>> \o h[b].pointers)[i + 1] = h[b].pointers[i]
      <4> DEFINE s == h[b].pointers
      <4>1. s \in Seq(Node) /\ moved \in Node
        BY <2>1, <2>2
      <4> HIDE DEF s
      <4>2. /\ <<moved>> \o s \in Seq(Node) /\ Len(<<moved>> \o s) = Len(s) + 1
            /\ (<<moved>> \o s)[1] = moved
            /\ \A i \in 1..Len(s) : (<<moved>> \o s)[i + 1] = s[i]
        BY <4>1, EnlargedElements
      <4> QED
        BY <4>2 DEF s
    <3> QED
      BY <3>1, <3>2
  <2>4. Refilled(newB, h[b], <<key>> \o h[b].keys, <<moved>> \o h[b].pointers)
    BY <1>4, <2>1, <2>3, Refills DEF withFirst
  <2>5. Refilled(newA, h[a], Front(h[a].keys), Front(h[a].pointers))
    BY <1>4, <2>1, <2>3, Refills DEF withoutLast
  <2> HIDE DEF newA, newB
  <2>6. /\ Redistributed(f, h, L, p, j, a, k, b)
        /\ f[b].keys = <<key>> \o h[b].keys /\ f[b].pointers = <<moved>> \o h[b].pointers
        /\ f[a].keys = Front(h[a].keys) /\ f[a].pointers = Front(h[a].pointers)
        /\ \A n \in L : f[n].parent = h[n].parent
        /\ Len(f[p].keys) = Len(h[p].keys)
    <3>1. f = withMoved(h, p, j, k, b, newB, a, newA)
      BY DEF f
    <3>2. Refilled(newB, h[b], kb, pb) /\ Refilled(newA, h[a], ka, pa)
      BY <2>4, <2>5
    <3>3. k \in Value
      BY <1>3
    <3> HIDE DEF key, k, moved, f, kb, pb, ka, pa
    <3>4. ContentsMoved(f, h, L, p, j, a, k, b, b, kb, pb, a, ka, pa)
      BY <3>1, <3>2, <3>3, MovedIsRedistributed
    <3> QED
      BY <3>4 DEF ContentsMoved, kb, pb, ka, pa
  <2>7. g = SetParent(f, {moved}, b) /\ PointsTo(h, a, moved)
    BY <1>5, <2>1, <2>2 DEF PointsTo
  <2> HIDE DEF moved
  <2>8. /\ Redistributed(g, h, L, p, j, a, k, b)
        /\ \A n \in L : g[n].keys = f[n].keys /\ g[n].pointers = f[n].pointers
        /\ g[p].parent = h[p].parent
        /\ g[a].parent = h[a].parent /\ g[b].parent = h[b].parent
        /\ \A n \in L : /\ n = moved => g[n].parent = b
                        /\ n # moved => g[n].parent = h[n].parent
    <3> HIDE DEF k, key
    <3>1. ChildMoved(g, f, h, L, p, j, a, k, b, moved, b)
      BY <1>7, <2>6, <2>7, ChildMoves
    <3> QED
      BY <3>1 DEF ChildMoved
  <2>9. /\ g[b].keys = <<k1>> \o h[b].keys /\ g[b].pointers = <<moved>> \o h[b].pointers
        /\ g[a].keys = Front(h[a].keys) /\ g[a].pointers = Front(h[a].pointers)
        /\ Len(g[p].keys) = Len(h[p].keys)
    BY <1>1, <2>1, <2>6, <2>8
  <2>10. KeyMoved(g, h, L, a, b)
    <3>1. Len(g[a].keys) = Len(h[a].keys) - 1 /\ Len(g[b].keys) = Len(h[b].keys) + 1
      BY <1>1, <1>4, <2>1, <2>9
    <3> HIDE DEF k
    <3> QED
      BY <2>8, <2>9, <3>1, MovedKeyCounts
  <2>11. /\ PointsTo(g, b, moved)
         /\ \A n : PointsTo(g, b, n) => n = moved \/ PointsTo(h, b, n)
    <3>1. ASSUME NEW n, PointsTo(g, b, n), n # moved
          PROVE  PointsTo(h, b, n)
      <4>1. PICK i \in 1..Len(g[b].pointers) : g[b].pointers[i] = n
        BY <3>1 DEF PointsTo
      <4>2. i # 1
        BY <2>3, <2>9, <3>1, <4>1
      <4>3. i - 1 \in 1..Len(h[b].pointers) /\ (i - 1) + 1 = i
        BY <1>2, <2>1, <2>3, <2>9, <4>1, <4>2
      <4>4. g[b].pointers[i] = h[b].pointers[i - 1]
        BY <2>3, <2>9, <4>3
      <4> QED
        BY <4>1, <4>3, <4>4 DEF PointsTo
    <3>2. 1 \in 1..Len(g[b].pointers)
      BY <1>2, <2>1, <2>3, <2>9
    <3> QED
      BY <2>3, <2>9, <3>1, <3>2 DEF PointsTo
  <2>12. \A n : PointsTo(g, a, n) => n # moved /\ PointsTo(h, a, n)
    <3> SUFFICES ASSUME NEW n, PointsTo(g, a, n)
                 PROVE  n # moved /\ PointsTo(h, a, n)
      OBVIOUS
    <3>1. PICK i \in 1..Len(g[a].pointers) : g[a].pointers[i] = n
      BY DEF PointsTo
    <3>2. i \in 1..(m - 1) /\ i \in 1..m /\ i # m
      <4>1. Len(g[a].pointers) = m - 1 /\ m \in Nat
        BY <1>2, <2>1, <2>3, <2>9
      <4> HIDE DEF m
      <4> QED
        BY <4>1
    <3>3. n = h[a].pointers[i]
      BY <2>3, <2>9, <3>1, <3>2
    <3>4. IsHeap(h, L, r, H, R, R, {})
      BY DEF IsTree
    <3>5. n # moved
      BY <1>1, <1>7, <2>2, <3>2, <3>3, <3>4, ChildrenDiffer
    <3> QED
      BY <3>2, <3>3, <3>5 DEF PointsTo
  <2>13. ASSUME NEW n \in L
         PROVE  /\ PointsTo(g, a, n) => g[n].parent = a
                /\ PointsTo(g, b, n) => g[n].parent = b
                /\ ~PointsTo(g, a, n) /\ ~PointsTo(g, b, n) => g[n].parent = h[n].parent
    <3>1. /\ PointsTo(h, a, n) => h[n].parent = a
          /\ PointsTo(h, b, n) => h[n].parent = b
      BY <1>1, <1>7, <2>1, ParentOfPointed
    <3> QED
      BY <2>8, <2>11, <2>12, <3>1
  <2>14. /\ JoinedBy(Front(h[a].keys), k, <<k1>> \o h[b].keys, h[a].keys \o <<k1>> \o h[b].keys)
    <3>1. /\ h[a].keys \o <<k1>> \o h[b].keys \in Seq(Value)
          /\ JoinedBy(h[a].keys, k1, h[b].keys, h[a].keys \o <<k1>> \o h[b].keys)
      BY <1>2, <1>3, ConcatJoinedBy
    <3> QED
      BY <1>2, <1>3, <3>1, LastMovesUp
  <2>15. Joined(Front(h[a].pointers), <<moved>> \o h[b].pointers, h[a].pointers \o h[b].pointers)
    <3>1. /\ h[a].pointers \o h[b].pointers \in Seq(Node)
          /\ Joined(h[a].pointers, h[b].pointers, h[a].pointers \o h[b].pointers)
      BY <2>1, ConcatJoined
    <3> QED
      BY <2>1, <2>2, <3>1, LastMoves DEF moved
  <2>16. /\ JoinedBy(g[a].keys, k, g[b].keys, h[a].keys \o <<k1>> \o h[b].keys)
         /\ Joined(g[a].pointers, g[b].pointers, h[a].pointers \o h[b].pointers)
    BY <2>9, <2>14, <2>15
  <2>17. Len(g[a].pointers) = Len(g[a].keys) + 1
    BY <1>2, <1>4, <2>1, <2>3, <2>9
  <2> HIDE DEF k, key
  <2>18. SomeTree(g, L, r) /\ SameEntries(g, L, h, L)
    BY <1>7, <2>8, <2>13, <2>16, <2>17, InnersRedistributed
  <2> QED
    BY <2>10, <2>18
<1> QED
  BY <1>2, <1>6, <1>7

(* redestributeNodes from the right sibling.                               *)
LEMMA TakenFromRight ==
  ASSUME NEW h, NEW L, NEW r, NEW H, NEW R, IsTree(h, L, r, H, R), NodeTypes(h, DOMAIN h),
         L \subseteq DOMAIN h, NEW p, NEW kIndex \in Int, NEW a, NEW k1, NEW b,
         NEW j, j = kIndex + 1, Siblings(h, L, p, j, a, k1, b), Len(h[b].keys) >= 2,
         NEW g, g = takeFromRightNeighbour(h, a, b, kIndex, k1)
  PROVE  SomeTree(g, L, r) /\ KeyMoved(g, h, L, b, a) /\ SameEntries(g, L, h, L)
<1> DEFINE key == IF h[a].isLeaf THEN Head(h[b].keys) ELSE k1
           k == newSeparator(h[b])
           moved == Head(h[b].pointers)
           newA == withLast(h[a], key, moved)
           newB == withoutFirst(h[b])
           f == withMoved(h, p, j, k, a, newA, b, newB)
           ka == Append(h[a].keys, key)
           pa == Append(h[a].pointers, moved)
           kb == Tail(h[b].keys)
           pb == Tail(h[b].pointers)
<1>1. /\ NodeTypes(h, L) /\ p \in L /\ a \in L /\ b \in L /\ a # b /\ p # a /\ p # b
      /\ h[a].parent = p /\ h[b].parent = p /\ ~h[p].isLeaf
      /\ (h[a].isLeaf <=> h[b].isLeaf)
      /\ j \in 1..Len(h[p].keys) /\ k1 = h[p].keys[j]
  BY DEF Siblings, IsTree, IsHeap
<1>2. /\ h[a].keys \in Seq(Value) /\ h[b].keys \in Seq(Value) /\ h[p].keys \in Seq(Value)
      /\ Len(h[a].keys) \in Nat /\ Len(h[b].keys) \in Nat
      /\ h[a].isLeaf \in BOOLEAN /\ h[b].isLeaf \in BOOLEAN
  BY <1>1, NodeFields
<1>3. /\ h[b].keys # <<>> /\ Head(h[b].keys) = h[b].keys[1] /\ Head(h[b].keys) \in Value
      /\ k1 \in Value /\ key \in Value /\ k \in Value
  <2>1. 1 \in 1..Len(h[b].keys) /\ 2 \in 1..Len(h[b].keys)
    BY <1>2
  <2>2. h[b].keys # <<>> /\ Head(h[b].keys) = h[b].keys[1]
    BY <1>2, <2>1
  <2>3. h[b].keys[1] \in Value /\ h[b].keys[2] \in Value /\ k1 \in Value
    BY <1>1, <1>2, <2>1
  <2> QED
    BY <2>2, <2>3 DEF newSeparator
<1>4. /\ ka \in Seq(Value) /\ Len(ka) = Len(h[a].keys) + 1
      /\ kb \in Seq(Value) /\ Len(kb) = Len(h[b].keys) - 1
      /\ \A i \in 1..(Len(h[b].keys) - 1) : kb[i] = h[b].keys[i + 1]
  <2>1. /\ kb \in Seq(Value) /\ Len(kb) = Len(h[b].keys) - 1
        /\ \A i \in 1..(Len(h[b].keys) - 1) : kb[i] = h[b].keys[i + 1]
    BY <1>2, <1>3, TailElements
  <2> HIDE DEF key
  <2>2. ka \in Seq(Value) /\ Len(ka) = Len(h[a].keys) + 1
    BY <1>2, <1>3, EnlargedElements
  <2> QED
    BY <2>1, <2>2
<1>5. g = IF h[a].isLeaf THEN f ELSE SetParent(f, {moved}, a)
  BY <1>1 DEF takeFromRightNeighbour, withLast, withoutFirst, withMoved
<1> HIDE DEF f
<1>6. CASE h[a].isLeaf
  <2>1. /\ h[a] \in LeafRecord /\ h[b] \in LeafRecord
        /\ h[a].pointers \in Seq(Seq(Time)) /\ h[b].pointers \in Seq(Seq(Time))
        /\ Len(h[a].pointers) = Len(h[a].keys) /\ Len(h[b].pointers) = Len(h[b].keys)
    BY <1>1, <1>6, NodeFields DEF IsTree, IsHeap, KeysInRange, LeafKeys
  <2>2. /\ h[b].pointers # <<>> /\ moved \in Seq(Time)
        /\ pb \in Seq(Seq(Time)) /\ Len(pb) = Len(h[b].pointers) - 1
    <3>1. h[b].pointers # <<>>
      BY <1>2, <2>1
    <3> QED
      BY <2>1, <3>1, TailElements
  <2>3. pa \in Seq(Seq(Time)) /\ Len(pa) = Len(h[a].pointers) + 1
    <3> DEFINE s == h[a].pointers
    <3>1. s \in Seq(Seq(Time)) /\ moved \in Seq(Time)
      BY <2>1, <2>2
    <3> HIDE DEF s, moved
    <3>2. Append(s, moved) \in Seq(Seq(Time)) /\ Len(Append(s, moved)) = Len(s) + 1
      BY <3>1, EnlargedElements
    <3> QED
      BY <3>2 DEF s
  <2>4. Refilled(newA, h[a], ka, pa)
    BY <1>4, <2>1, <2>3, Refills DEF withLast
  <2>5. Refilled(newB, h[b], kb, pb)
    BY <1>4, <2>1, <2>2, Refills DEF withoutFirst
  <2> HIDE DEF newA, newB
  <2>6. /\ Redistributed(f, h, L, p, j, a, k, b)
        /\ f[a].keys = ka /\ f[a].pointers = pa /\ f[b].keys = kb /\ f[b].pointers = pb
        /\ \A n \in L : f[n].parent = h[n].parent
        /\ Len(f[p].keys) = Len(h[p].keys)
    <3>1. f = withMoved(h, p, j, k, a, newA, b, newB) /\ k \in Value
      BY <1>3 DEF f
    <3> HIDE DEF key, k, moved, f, ka, pa, kb, pb
    <3>2. ContentsMoved(f, h, L, p, j, a, k, b, a, ka, pa, b, kb, pb)
      BY <2>4, <2>5, <3>1, MovedIsRedistributed
    <3> QED
      BY <3>2 DEF ContentsMoved
  <2>7. KeyMoved(f, h, L, b, a)
    <3>1. Len(f[b].keys) = Len(h[b].keys) - 1 /\ Len(f[a].keys) = Len(h[a].keys) + 1
      BY <1>4, <2>6
    <3> HIDE DEF k, ka, pa, kb, pb
    <3>2. Redistributed(f, h, L, p, j, a, k, b) /\ Len(f[p].keys) = Len(h[p].keys)
      BY <2>6, Zenon
    <3>3. {b, a} = {a, b}
      OBVIOUS
    <3> QED
      BY <3>1, <3>2, <3>3, MovedKeyCounts
  <2>8. key = Head(h[b].keys)
    BY <1>6
  <2>9. /\ h[a].keys \o h[b].keys \in Seq(Value)
        /\ Joined(h[a].keys, h[b].keys, h[a].keys \o h[b].keys)
        /\ h[a].pointers \o h[b].pointers \in Seq(Seq(Time))
        /\ Joined(h[a].pointers, h[b].pointers, h[a].pointers \o h[b].pointers)
    BY <1>2, <2>1, ConcatJoined
  <2>10. Joined(ka, kb, h[a].keys \o h[b].keys)
    <3>1. Joined(Append(h[a].keys, Head(h[b].keys)), Tail(h[b].keys), h[a].keys \o h[b].keys)
      BY <1>2, <1>3, <2>9, FirstMoves
    <3> QED
      BY <2>8, <3>1
  <2>11. Joined(pa, pb, h[a].pointers \o h[b].pointers)
    BY <2>1, <2>2, <2>9, FirstMoves
  <2>12. k = kb[1]
    <3>1. k = h[b].keys[2]
      BY <1>1, <1>6 DEF newSeparator
    <3>2. 1 \in 1..(Len(h[b].keys) - 1)
      BY <1>2
    <3>3. kb[1] = h[b].keys[1 + 1]
      BY <1>4, <3>2
    <3> QED
      BY <3>1, <3>3
  <2> HIDE DEF k, key, moved, ka, pa, kb, pb
  <2>13. Len(f[a].pointers) = Len(f[a].keys) /\ f[a].keys # <<>> /\ f[b].keys # <<>>
    <3>1. Len(f[a].keys) >= 1 /\ Len(f[b].keys) >= 1
      <4>1. Len(f[a].keys) = Len(h[a].keys) + 1 /\ Len(f[b].keys) = Len(h[b].keys) - 1
        BY <1>4, <2>6
      <4>2. Len(h[a].keys) \in Nat /\ Len(h[b].keys) \in Nat
        BY <1>2, Zenon
      <4> QED
        BY <4>1, <4>2
    <3>2. Len(f[a].pointers) = Len(f[a].keys)
      BY <1>4, <2>1, <2>3, <2>6
    <3>3. f[a].keys # <<>> /\ f[b].keys # <<>>
      BY <3>1
    <3> QED
      BY <3>2, <3>3
  <2>14. SomeTree(f, L, r) /\ SameEntries(f, L, h, L)
    <3>1. /\ Joined(f[a].keys, f[b].keys, h[a].keys \o h[b].keys)
          /\ Joined(f[a].pointers, f[b].pointers, h[a].pointers \o h[b].pointers)
          /\ k = f[b].keys[1]
      BY <2>6, <2>10, <2>11, <2>12
    <3> QED
      BY <1>6, <2>6, <2>13, <3>1, LeavesRedistributed
  <2> QED
    BY <1>5, <1>6, <2>7, <2>14
<1>7. CASE ~h[a].isLeaf
  <2>1. /\ h[a] \in InnerRecord /\ h[b] \in InnerRecord /\ ~h[b].isLeaf
        /\ h[a].pointers \in Seq(Node) /\ h[b].pointers \in Seq(Node)
        /\ Len(h[a].pointers) = Len(h[a].keys) + 1 /\ Len(h[b].pointers) = Len(h[b].keys) + 1
    BY <1>1, <1>7, NodeFields DEF IsTree, IsHeap, KeysInRange, InnerKeys
  <2> DEFINE m == Len(h[b].pointers)
             q == Len(h[a].pointers)
  <2>2. /\ h[b].pointers # <<>> /\ moved \in Node /\ moved = h[b].pointers[1] /\ 1 \in 1..m
        /\ m \in Nat /\ q \in Nat
        /\ pb \in Seq(Node) /\ Len(pb) = m - 1
        /\ \A i \in 1..(m - 1) : pb[i] = h[b].pointers[i + 1]
    <3>1. m \in Nat /\ q \in Nat /\ m >= 3
      <4>1. Len(h[b].keys) \in Nat /\ Len(h[a].keys) \in Nat
        BY <1>2, Zenon
      <4>2. m = Len(h[b].keys) + 1 /\ q = Len(h[a].keys) + 1
        BY <2>1, Zenon
      <4> HIDE DEF m, q
      <4> QED
        BY <4>1, <4>2
    <3>2. h[b].pointers # <<>>
      BY <2>1, <3>1
    <3> DEFINE s == h[b].pointers
    <3>3. s \in Seq(Node) /\ s # <<>>
      BY <2>1, <3>2
    <3> HIDE DEF s
    <3>4. /\ Tail(s) \in Seq(Node) /\ Head(s) \in Node /\ Head(s) = s[1]
          /\ Len(Tail(s)) = Len(s) - 1
          /\ \A i \in 1..(Len(s) - 1) : Tail(s)[i] = s[i + 1]
      BY <3>3, TailElements
    <3>5. /\ pb \in Seq(Node) /\ moved \in Node /\ moved = h[b].pointers[1] /\ Len(pb) = m - 1
          /\ \A i \in 1..(m - 1) : pb[i] = h[b].pointers[i + 1]
      BY <3>4 DEF s
    <3>6. 1 \in 1..m
      BY <3>1
    <3> HIDE DEF m, q, pb, moved
    <3> QED
      BY <3>1, <3>2, <3>5, <3>6
  <2>3. /\ pa \in Seq(Node) /\ Len(pa) = q + 1 /\ pa[q + 1] = moved
        /\ \A i \in 1..q : pa[i] = h[a].pointers[i]
    <3> DEFINE s == h[a].pointers
    <3>1. s \in Seq(Node) /\ moved \in Node
      BY <2>1, <2>2
    <3> HIDE DEF s, moved
    <3>2. /\ Append(s, moved) \in Seq(Node) /\ Len(Append(s, moved)) = Len(s) + 1
          /\ Append(s, moved)[Len(s) + 1] = moved
          /\ \A i \in 1..Len(s) : Append(s, moved)[i] = s[i]
      BY <3>1, EnlargedElements
    <3> QED
      BY <3>2 DEF s
  <2>4. Refilled(newA, h[a], ka, pa)
    BY <1>4, <2>1, <2>3, Refills DEF withLast
  <2>5. Refilled(newB, h[b], kb, pb)
    BY <1>4, <2>1, <2>2, Refills DEF withoutFirst
  <2> HIDE DEF newA, newB
  <2>6. /\ Redistributed(f, h, L, p, j, a, k, b)
        /\ f[a].keys = ka /\ f[a].pointers = pa /\ f[b].keys = kb /\ f[b].pointers = pb
        /\ \A n \in L : f[n].parent = h[n].parent
        /\ Len(f[p].keys) = Len(h[p].keys)
    <3>1. f = withMoved(h, p, j, k, a, newA, b, newB) /\ k \in Value
      BY <1>3 DEF f
    <3> HIDE DEF key, k, moved, f, ka, pa, kb, pb
    <3>2. ContentsMoved(f, h, L, p, j, a, k, b, a, ka, pa, b, kb, pb)
      BY <2>4, <2>5, <3>1, MovedIsRedistributed
    <3> QED
      BY <3>2 DEF ContentsMoved
  <2>7. g = SetParent(f, {moved}, a) /\ PointsTo(h, b, moved)
    BY <1>5, <1>7, <2>1, <2>2 DEF PointsTo
  <2>8. JoinedBy(ka, k, kb, h[a].keys \o <<k1>> \o h[b].keys)
    <3>1. /\ h[a].keys \o <<k1>> \o h[b].keys \in Seq(Value)
          /\ JoinedBy(h[a].keys, k1, h[b].keys, h[a].keys \o <<k1>> \o h[b].keys)
      BY <1>2, <1>3, ConcatJoinedBy
    <3>2. JoinedBy(Append(h[a].keys, k1), Head(h[b].keys), Tail(h[b].keys),
                   h[a].keys \o <<k1>> \o h[b].keys)
      BY <1>2, <1>3, <3>1, FirstMovesUp
    <3>3. key = k1 /\ k = Head(h[b].keys)
      BY <1>3, <1>7, <2>1 DEF newSeparator
    <3> QED
      BY <3>2, <3>3
  <2>9. Joined(pa, pb, h[a].pointers \o h[b].pointers)
    <3>1. /\ h[a].pointers \o h[b].pointers \in Seq(Node)
          /\ Joined(h[a].pointers, h[b].pointers, h[a].pointers \o h[b].pointers)
      BY <2>1, ConcatJoined
    <3> QED
      BY <2>1, <2>2, <3>1, FirstMoves
  <2> HIDE DEF moved, k, key, ka, pa, kb, pb
  <2>10. /\ Redistributed(g, h, L, p, j, a, k, b)
         /\ \A n \in L : g[n].keys = f[n].keys /\ g[n].pointers = f[n].pointers
         /\ g[p].parent = h[p].parent
         /\ g[a].parent = h[a].parent /\ g[b].parent = h[b].parent
         /\ \A n \in L : /\ n = moved => g[n].parent = a
                         /\ n # moved => g[n].parent = h[n].parent
    <3>1. {b, a} = {a, b}
      OBVIOUS
    <3>2. ChildMoved(g, f, h, L, p, j, a, k, b, moved, a)
      BY <1>7, <2>6, <2>7, <3>1, ChildMoves
    <3> QED
      BY <3>2 DEF ChildMoved
  <2>11. /\ g[a].keys = ka /\ g[a].pointers = pa /\ g[b].keys = kb /\ g[b].pointers = pb
         /\ Len(g[p].keys) = Len(h[p].keys)
    BY <1>1, <2>6, <2>10
  <2>12. KeyMoved(g, h, L, b, a)
    <3>1. Len(g[b].keys) = Len(h[b].keys) - 1 /\ Len(g[a].keys) = Len(h[a].keys) + 1
      BY <1>4, <2>11
    <3>2. {b, a} = {a, b}
      OBVIOUS
    <3>3. Redistributed(g, h, L, p, j, a, k, b) /\ Len(g[p].keys) = Len(h[p].keys)
      BY <2>10, <2>11
    <3> QED
      BY <3>1, <3>2, <3>3, MovedKeyCounts
  <2>13. \A n : PointsTo(g, a, n) => n = moved \/ PointsTo(h, a, n)
    <3> SUFFICES ASSUME NEW n, PointsTo(g, a, n)
                 PROVE  n = moved \/ PointsTo(h, a, n)
      OBVIOUS
    <3>1. PICK i \in 1..Len(g[a].pointers) : g[a].pointers[i] = n
      BY DEF PointsTo
    <3>2. i = q + 1 \/ i \in 1..q
      BY <2>2, <2>3, <2>11, <3>1
    <3> QED
      BY <2>3, <2>11, <3>1, <3>2 DEF PointsTo
  <2>14. PointsTo(g, a, moved)
    <3>1. q + 1 \in 1..Len(g[a].pointers)
      BY <2>2, <2>3, <2>11
    <3> QED
      BY <2>3, <2>11, <3>1 DEF PointsTo
  <2>15. \A n : PointsTo(g, b, n) => n # moved /\ PointsTo(h, b, n)
    <3> SUFFICES ASSUME NEW n, PointsTo(g, b, n)
                 PROVE  n # moved /\ PointsTo(h, b, n)
      OBVIOUS
    <3>1. PICK i \in 1..Len(g[b].pointers) : g[b].pointers[i] = n
      BY DEF PointsTo
    <3>2. i \in 1..(m - 1) /\ i + 1 \in 1..m /\ i + 1 # 1
      BY <2>2, <2>11, <3>1
    <3>3. n = h[b].pointers[i + 1]
      BY <2>2, <2>11, <3>1, <3>2
    <3>4. IsHeap(h, L, r, H, R, R, {})
      BY DEF IsTree
    <3>5. n # moved
      BY <1>1, <2>1, <2>2, <3>2, <3>3, <3>4, ChildrenDiffer
    <3> QED
      BY <3>2, <3>3, <3>5 DEF PointsTo
  <2>16. ASSUME NEW n \in L
         PROVE  /\ PointsTo(g, a, n) => g[n].parent = a
                /\ PointsTo(g, b, n) => g[n].parent = b
                /\ ~PointsTo(g, a, n) /\ ~PointsTo(g, b, n) => g[n].parent = h[n].parent
    <3>1. /\ PointsTo(h, a, n) => h[n].parent = a
          /\ PointsTo(h, b, n) => h[n].parent = b
      BY <1>1, <1>7, <2>1, ParentOfPointed
    <3> QED
      BY <2>10, <2>13, <2>14, <2>15, <3>1
  <2>17. Len(g[a].pointers) = Len(g[a].keys) + 1
    BY <1>2, <1>4, <2>1, <2>3, <2>11
  <2>18. SomeTree(g, L, r) /\ SameEntries(g, L, h, L)
    <3>1. /\ JoinedBy(g[a].keys, k, g[b].keys, h[a].keys \o <<k1>> \o h[b].keys)
          /\ Joined(g[a].pointers, g[b].pointers, h[a].pointers \o h[b].pointers)
      BY <2>8, <2>9, <2>11
    <3> QED
      BY <1>7, <2>10, <2>16, <2>17, <3>1, InnersRedistributed
  <2> QED
    BY <2>12, <2>18
<1> QED
  BY <1>2, <1>6, <1>7

-----------------------------------------------------------------------------
(*                   The state between two steps                           *)

(* Between calls, an empty heap or a settled tree.                         *)
Stored(h, r) == (r = NULL /\ DOMAIN h = {}) \/ (r \in Node /\ Settled(h, r))

(* The heap that each pending call finds.                                  *)
Consistent(h, r, c, u) ==
  /\ c \in Call
  /\ c.fn = "none" => u = {} /\ Stored(h, r)
  /\ c.fn = "destroyed" => u = {} /\ DOMAIN h = {} /\ r \in Node
  /\ c.fn = "insertIntoParent" => /\ u = {} /\ r \in Node
                                  /\ HalfSplit(h, r, c.oldChild, c.newKey, c.newChild)
  /\ c.fn = "deleteEntry" => /\ u \subseteq DOMAIN h /\ r \in Node
                             /\ EntryLeft(h, DOMAIN h \ u, r, c.node, c.toDelete, c.pointer)

(* Such a heap, with the entries of h. *)
KeepsEntries(g, r, c, u, h, L) == Consistent(g, r, c, u) /\ SameEntries(g, DOMAIN g \ u, h, L)

LEMMA FreeKeeps ==
  ASSUME NEW h, NEW u
  PROVE  /\ DOMAIN free(h, u) = DOMAIN h \ u
         /\ \A n \in DOMAIN h \ u : free(h, u)[n] = h[n]
BY DEF free, Restrict

LEMMA ReturnedCall ==
  /\ Returned \in Call /\ Returned.fn = "none"
  /\ Destroyed \in Call /\ Destroyed.fn = "destroyed"
BY DEF Returned, Destroyed, Call

(* The last deleteEntry frees the right nodes of the merges before it.     *)
LEMMA ReturnSettles ==
  ASSUME nodeSize >= 3, NEW heap, NEW r \in Node, NEW L, L = DOMAIN heap \ unfreed,
         IsFiniteSet(DOMAIN heap), NodeTypes(heap, DOMAIN heap), SomeTree(heap, L, r),
         Filled(heap, L, {r}), ReturnFromDelete(heap), root' = r
  PROVE  KeepsEntries(nodes', root', call', unfreed', heap, L)
<1>1. nodes' = free(heap, unfreed) /\ unfreed' = {} /\ call' = Returned
  BY DEF ReturnFromDelete
<1>2. DOMAIN nodes' = L /\ \A n \in L : nodes'[n] = heap[n]
  BY <1>1, FreeKeeps
<1>3. IsFiniteSet(L)
  BY FS_Subset
<1>4. NodeTypes(nodes', DOMAIN nodes')
  BY <1>2 DEF NodeTypes
<1>5. SomeTree(nodes', DOMAIN nodes', r)
  <2>1. PICK H, R : IsTree(heap, L, r, H, R)
    BY DEF SomeTree
  <2>2. IsTree(nodes', L, r, H, R)
    BY <1>2, <2>1, SameTree
  <2> QED
    BY <1>2, <2>2 DEF SomeTree
<1>6. Filled(nodes', DOMAIN nodes', {r})
  BY <1>2 DEF Filled
<1>7. Settled(nodes', root')
  BY <1>2, <1>3, <1>4, <1>5, <1>6 DEF Settled
<1>8. Stored(nodes', root')
  BY <1>7 DEF Stored
<1>9. SameEntries(nodes', L, heap, L)
  <2>1. LeafSet(nodes', L) = LeafSet(heap, L)
    BY <1>2 DEF LeafSet
  <2> QED
    BY <1>2, <2>1, SameLeafContents DEF LeafSet
<1>10. DOMAIN nodes' \ unfreed' = L
  BY <1>1, <1>2
<1> QED
  BY <1>1, <1>8, <1>9, <1>10, ReturnedCall DEF Consistent, KeepsEntries

(* adjustTheRoot for a root without keys.                                  *)
LEMMA EmptyRootLeaves ==
  ASSUME nodeSize >= 3, NEW h, NEW L, L = DOMAIN h \ unfreed, unfreed \subseteq DOMAIN h,
         NEW r, r = root, Reduced(h, L, r, r), h[r].keys = <<>>, adjustTheRoot(h)
  PROVE  KeepsEntries(nodes', root', call', unfreed', h, L)
<1>1. /\ IsFiniteSet(DOMAIN h) /\ NodeTypes(h, DOMAIN h) /\ L \subseteq DOMAIN h /\ r \in L
      /\ Filled(h, L \ {r}, {r})
  BY DEF Reduced
<1>2. PICK H, R : IsTree(h, L, r, H, R)
  BY DEF Reduced, SomeTree
<1>3. NodeTypes(h, L)
  BY <1>1 DEF NodeTypes
<1>4. CASE h[r].isLeaf
  <2> DEFINE g == free(SetParent(h, {NULL}, NULL), {r})
  <2>1. L = {r}
    BY <1>2, <1>4, LeafRootAlone
  <2>2. root' = NULL /\ ReturnFromDelete(g)
    BY <1>4 DEF adjustTheRoot
  <2>3. DOMAIN g = DOMAIN h \ {r}
    BY FreeKeeps DEF SetParent
  <2> HIDE DEF g
  <2>4. nodes' = free(g, unfreed) /\ unfreed' = {} /\ call' = Returned
    BY <2>2 DEF ReturnFromDelete
  <2>5. DOMAIN nodes' = {}
    <3>1. DOMAIN free(g, unfreed) = DOMAIN g \ unfreed
      BY FreeKeeps
    <3> QED
      BY <2>1, <2>3, <2>4, <3>1
  <2>6. Stored(nodes', root')
    BY <2>2, <2>5 DEF Stored
  <2>7. h[r].keys = <<>>
    OBVIOUS
  <2>8. SameEntries(nodes', DOMAIN nodes' \ unfreed', h, L)
    <3>1. \A v, x : ~HasEntry(h, L, v, x)
      BY <2>1, <2>7 DEF HasEntry, LeafSet, ArrayHas
    <3>2. \A v, x : ~HasEntry(nodes', DOMAIN nodes' \ unfreed', v, x)
      BY <2>5 DEF HasEntry, LeafSet
    <3> QED
      BY <3>1, <3>2 DEF SameEntries
  <2> QED
    BY <2>4, <2>6, <2>8, ReturnedCall DEF Consistent, KeepsEntries
<1>5. CASE ~h[r].isLeaf
  <2> DEFINE c == h[r].pointers[1]
             f == SetParent(h, {c}, NULL)
             g == free(f, {r})
  <2>1. root' = c /\ ReturnFromDelete(g)
    BY <1>5 DEF adjustTheRoot
  <2>2. ParentSet(f, h, c, NULL)
    BY <1>1, OneParentSet
  <2> HIDE DEF f
  <2>3. /\ DOMAIN f = DOMAIN h /\ NodeTypes(f, DOMAIN h)
        /\ \A n \in DOMAIN h :
             /\ f[n].isLeaf = h[n].isLeaf /\ f[n].keys = h[n].keys
             /\ f[n].pointers = h[n].pointers
             /\ f[n].next = h[n].next /\ f[n].prev = h[n].prev
             /\ n = c => f[n].parent = NULL
             /\ n # c => f[n].parent = h[n].parent
    BY <2>2 DEF ParentSet
  <2>4. DOMAIN g = DOMAIN h \ {r} /\ \A n \in DOMAIN h \ {r} : g[n] = f[n]
    <3>1. DOMAIN g = DOMAIN f \ {r} /\ \A n \in DOMAIN f \ {r} : g[n] = f[n]
      BY FreeKeeps
    <3>2. DOMAIN f = DOMAIN h
      BY <2>3
    <3> HIDE DEF g
    <3> QED
      BY <3>1, <3>2
  <2> HIDE DEF g
  <2>5. NodeTypes(g, DOMAIN g) /\ NodeTypes(g, L \ {r})
    BY <1>1, <2>3, <2>4 DEF NodeTypes
  <2>6. \A n \in L \ {r} :
          /\ g[n].isLeaf = h[n].isLeaf /\ g[n].keys = h[n].keys /\ g[n].pointers = h[n].pointers
          /\ g[n].next = h[n].next /\ g[n].prev = h[n].prev
          /\ n = c => g[n].parent = NULL
          /\ n # c => g[n].parent = h[n].parent
    BY <1>1, <2>3, <2>4
  <2>7. Lowered(h, g, L, r, c)
    <3>1. \A n \in L \ {r} : g[n].parent = IF n = c THEN NULL ELSE h[n].parent
      BY <2>6
    <3> QED
      BY <1>5, <2>5, <2>6, <3>1 DEF Lowered
  <2>8. SomeTree(g, L \ {r}, c)
    <3> HIDE DEF c
    <3>1. IsTree(g, L \ {r}, c, Without(H, L, r), Without(R, L, r))
      BY <1>2, <2>7, ShrinkRoot
    <3> QED
      BY <3>1 DEF SomeTree
  <2>9. Filled(g, L \ {r}, {c})
    <3> SUFFICES ASSUME NEW n \in L \ {r}
                 PROVE  /\ Len(g[n].keys) >= 1 /\ Len(g[n].keys) <= nodeSize
                        /\ Len(g[n].keys) >= leastKeys(g[n])
      BY DEF Filled
    <3>1. /\ Len(h[n].keys) >= 1 /\ Len(h[n].keys) <= nodeSize
          /\ Len(h[n].keys) >= leastKeys(h[n])
      BY <1>1 DEF Filled
    <3>2. leastKeys(g[n]) = leastKeys(h[n]) /\ g[n].keys = h[n].keys
      BY <2>6 DEF leastKeys
    <3> QED
      BY <3>1, <3>2
  <2>10. IsFiniteSet(DOMAIN g)
    BY <1>1, <2>4, FS_Subset
  <2>11. L \ {r} = DOMAIN g \ unfreed
    BY <2>4
  <2>12. c \in Node
    <3>1. c \in L \ {r}
      BY <2>8 DEF SomeTree, IsTree, IsHeap, Attached
    <3> QED
      BY <1>3, <3>1, NodeFields
  <2> HIDE DEF c
  <2>13. KeepsEntries(nodes', root', call', unfreed', g, L \ {r})
    BY <2>1, <2>5, <2>8, <2>9, <2>10, <2>11, <2>12, ReturnSettles
  <2>14. SameEntries(g, L \ {r}, h, L)
    <3>1. LeafSet(g, L \ {r}) = LeafSet(h, L)
      BY <1>5, <2>6 DEF LeafSet
    <3>2. LeafSet(h, L) \subseteq L \ {r}
      BY <1>5 DEF LeafSet
    <3> QED
      BY <2>6, <3>1, <3>2, SameLeafContents
  <2> QED
    BY <2>13, <2>14, SameEntriesAgain DEF KeepsEntries
<1> QED
  BY <1>1, <1>3, <1>4, <1>5, NodeFields

(* What deleteEntry's comparison with the capacity decides.                *)
LEMMA MergeOrSpare ==
  ASSUME nodeSize >= 3, NEW node, nodes[node].isLeaf \in BOOLEAN,
         NEW x \in Nat, x < minNumberofKeys(node), NEW y \in 0..nodeSize
  PROVE  /\ y + x < capacity(node) /\ nodes[node].isLeaf => y + x <= nodeSize
         /\ y + x < capacity(node) /\ ~nodes[node].isLeaf => y + 1 + x <= nodeSize
         /\ ~(y + x < capacity(node)) => y - 1 >= leastKeys(nodes[node])
         /\ x + 1 <= nodeSize
<1> DEFINE leaf == nodes[node].isLeaf
           low == minNumberofKeys(node)
<1>1. IF y + x < capacity(node)
      THEN y + x + (IF leaf THEN 0 ELSE 1) <= nodeSize
      ELSE y - 1 >= low
  BY DeleteEntryKeepsOccupancy
<1>2. /\ low \in Nat /\ low < nodeSize /\ leastKeys(nodes[node]) <= low
      /\ nodeSize \in Nat /\ leastKeys(nodes[node]) \in Nat
  BY Thresholds DEF minNumberofKeys, leastKeys
<1> HIDE DEF low
<1>3. CASE leaf
  <2>1. IF y + x < capacity(node) THEN y + x + 0 <= nodeSize ELSE y - 1 >= low
    BY <1>1, <1>3
  <2> QED
    BY <1>2, <1>3, <2>1 DEF low
<1>4. CASE ~leaf
  <2>1. IF y + x < capacity(node) THEN y + x + 1 <= nodeSize ELSE y - 1 >= low
    BY <1>1, <1>4
  <2> QED
    BY <1>2, <1>4, <2>1 DEF low
<1> QED
  BY <1>3, <1>4

(* An entry from the neighbour is enough.                                  *)
LEMMA RedistributionSettles ==
  ASSUME nodeSize >= 3, NEW h, NEW L, L = DOMAIN h \ unfreed, NEW r \in Node,
         NEW node, Reduced(h, L, r, node), node # r,
         NEW from \in L, from # node, h[from].isLeaf <=> h[node].isLeaf,
         Len(h[node].keys) + 1 <= nodeSize,
         Len(h[from].keys) - 1 >= leastKeys(h[from]), Len(h[from].keys) <= nodeSize,
         NEW g, SomeTree(g, L, r), KeyMoved(g, h, L, from, node), SameEntries(g, L, h, L),
         ReturnFromDelete(g), root' = r
  PROVE  KeepsEntries(nodes', root', call', unfreed', h, L)
<1>1. /\ IsFiniteSet(DOMAIN h) /\ NodeTypes(h, DOMAIN h) /\ NodeTypes(h, L)
      /\ L \subseteq DOMAIN h /\ node \in L
      /\ Filled(h, L \ {node}, {r})
      /\ Len(h[node].keys) + 1 >= leastKeys(h[node])
  BY DEF Reduced, NodeTypes
<1>2. /\ DOMAIN g = DOMAIN h /\ NodeTypes(g, DOMAIN g)
      /\ Len(g[from].keys) = Len(h[from].keys) - 1
      /\ Len(g[node].keys) = Len(h[node].keys) + 1
      /\ \A n \in L : g[n].isLeaf = h[n].isLeaf
      /\ \A n \in L \ {from, node} : Len(g[n].keys) = Len(h[n].keys)
  BY DEF KeyMoved
<1>3. \A n \in L : leastKeys(g[n]) = leastKeys(h[n])
  BY <1>2 DEF leastKeys
<1>4. /\ Len(h[node].keys) \in Nat /\ Len(h[from].keys) \in Nat
      /\ leastKeys(h[node]) \in Nat /\ leastKeys(h[node]) >= 1
      /\ leastKeys(h[from]) \in Nat /\ leastKeys(h[from]) >= 1
  <2>1. h[node].keys \in Seq(Value) /\ h[from].keys \in Seq(Value)
    BY <1>1, NodeFields
  <2> QED
    BY <2>1, LeastKeys
<1>5. nodeSize \in Nat
  BY nodeSizeAssumption
<1>6. Filled(g, L, {r})
  <2> SUFFICES ASSUME NEW n \in L
               PROVE  /\ Len(g[n].keys) >= 1 /\ Len(g[n].keys) <= nodeSize
                      /\ n # r => Len(g[n].keys) >= leastKeys(g[n])
    BY DEF Filled
  <2>1. CASE n = node
    BY <1>1, <1>2, <1>3, <1>4, <1>5, <2>1
  <2>2. CASE n = from
    BY <1>2, <1>3, <1>4, <1>5, <2>2
  <2>3. CASE n # node /\ n # from
    BY <1>1, <1>2, <1>3, <2>3 DEF Filled
  <2> QED
    BY <2>1, <2>2, <2>3
<1>7. KeepsEntries(nodes', root', call', unfreed', g, L)
  BY <1>1, <1>2, <1>6, ReturnSettles
<1> QED
  BY <1>7, SameEntriesAgain DEF KeepsEntries

(* The call that mergeNodes leaves to its parent.                          *)
LEMMA MergeLeavesCall ==
  ASSUME nodeSize >= 3, NEW h, NEW L, L = DOMAIN h \ unfreed, unfreed \subseteq DOMAIN h,
         NEW r \in Node, NEW node, Reduced(h, L, r, node), node # r,
         NEW p, NEW j, NEW a, NEW k, NEW b, Siblings(h, L, p, j, a, k, b),
         NEW other \in {a, b}, node \in {a, b}, node # other, RoomForBoth(h, a, b),
         mergeNodes(h, a, b, k), root = r
  PROVE  KeepsEntries(nodes', root', call', unfreed', h, L)
<1> DEFINE g == mergedHeap(h, a, k, b)
<1>1. nodes' = g
  BY DEF mergeNodes, mergedHeap, mergedNode
<1>2. /\ call' = deleteEntryCall(p, k, b) /\ unfreed' = unfreed \union {b} /\ root' = r
      /\ b \in L
  BY DEF mergeNodes, Siblings
<1>3. /\ EntryLeft(g, L \ {b}, r, p, k, b) /\ DOMAIN g = DOMAIN h
      /\ p \in Node /\ k \in Value /\ b \in Node
  <2>1. g = mergedHeap(h, a, k, b)
    OBVIOUS
  <2> HIDE DEF g
  <2>2. LeftToParent(g, h, L, r, p, k, b)
    BY <2>1, MergeLeavesEntry
  <2> QED
    BY <2>2 DEF LeftToParent
<1>6. SameEntries(g, L \ {b}, h, L)
  <2>1. g = mergedHeap(h, a, k, b)
    OBVIOUS
  <2> HIDE DEF g
  <2>2. PICK H, R : IsTree(h, L, r, H, R)
    BY DEF Reduced, SomeTree
  <2>3. NodeTypes(h, DOMAIN h)
    BY DEF Reduced
  <2> QED
    BY <2>1, <2>2, <2>3, NodesMerged
<1> HIDE DEF g
<1>4. /\ call'.fn = "deleteEntry" /\ call'.node = p /\ call'.toDelete = k /\ call'.pointer = b
      /\ call' \in Call
  BY <1>2, <1>3 DEF deleteEntryCall, Call
<1>5. DOMAIN g \ unfreed' = L \ {b} /\ unfreed' \subseteq DOMAIN g
  BY <1>2, <1>3
<1> QED
  BY <1>1, <1>2, <1>3, <1>4, <1>5, <1>6 DEF Consistent, KeepsEntries

(* A node short of keys: mergeOrRedistribute.                              *)
LEMMA ShortNode ==
  ASSUME nodeSize >= 3, NEW h, NEW L, L = DOMAIN h \ unfreed, unfreed \subseteq DOMAIN h,
         NEW r \in Node, root = r, NEW node, Reduced(h, L, r, node), node # r,
         nodes[node].isLeaf = h[node].isLeaf,
         Len(h[node].keys) < minNumberofKeys(node), mergeOrRedistribute(h, node)
  PROVE  KeepsEntries(nodes', root', call', unfreed', h, L)
<1> DEFINE p == h[node].parent
           m == PositionOf(h[p].pointers, node)
<1>1. /\ IsFiniteSet(DOMAIN h) /\ NodeTypes(h, DOMAIN h) /\ NodeTypes(h, L)
      /\ L \subseteq DOMAIN h /\ node \in L
      /\ Filled(h, L \ {node}, {r})
  BY DEF Reduced, NodeTypes
<1>2. PICK H, R : IsTree(h, L, r, H, R)
  BY DEF Reduced, SomeTree
<1>3. p \in L /\ p # node
  <2>1. HangsIn(h, L, node, p)
    BY <1>1, <1>2 DEF IsTree, IsHeap, Attached
  <2>2. PICK i \in 1..Len(h[p].pointers) : h[p].pointers[i] = node
    BY <2>1 DEF HangsIn
  <2>3. p \in L /\ ~h[p].isLeaf
    BY <2>1 DEF HangsIn
  <2> HIDE DEF p
  <2>4. H[p] = H[node] + 1
    BY <1>2, <2>2, <2>3, ChildOf
  <2>5. H[node] \in Nat /\ H[p] \in Nat
    BY <1>1, <1>2, <2>3 DEF IsTree, IsHeap, Levels
  <2> QED
    BY <2>3, <2>4, <2>5
<1>4. Len(h[p].keys) >= 1
  BY <1>1, <1>3 DEF Filled
<1>5. /\ m \in Nat
      /\ m = 1 => Siblings(h, L, p, 1, node, h[p].keys[1], h[p].pointers[2])
      /\ m # 1 => Siblings(h, L, p, m - 1, h[p].pointers[m - 1], h[p].keys[m - 1], node)
  <2>1. p = h[node].parent /\ m = PositionOf(h[p].pointers, node)
    OBVIOUS
  <2> HIDE DEF p, m
  <2> QED
    BY <1>1, <1>2, <1>4, <2>1, SiblingOf
<1>6. nodes[node].isLeaf \in BOOLEAN /\ Len(h[node].keys) \in Nat
  <2>1. h[node].isLeaf \in BOOLEAN /\ h[node].keys \in Seq(Value)
    BY <1>1, NodeFields
  <2> QED
    BY <2>1
<1>7. ASSUME NEW nb \in L, nb # node
      PROVE  Len(h[nb].keys) \in 0..nodeSize
  <2>1. h[nb].keys \in Seq(Value)
    BY <1>1, <1>7, NodeFields
  <2>2. Len(h[nb].keys) >= 1 /\ Len(h[nb].keys) <= nodeSize
    BY <1>7, <1>1 DEF Filled
  <2> QED
    BY <2>1, <2>2, nodeSizeAssumption
<1>8. CASE m = 1
  <2> DEFINE nb == h[p].pointers[2]
             k == h[p].keys[1]
             y == Len(h[nb].keys)
             x == Len(h[node].keys)
             g == takeFromRightNeighbour(h, node, nb, 0, k)
  <2>1. Siblings(h, L, p, 1, node, k, nb)
    BY <1>5, <1>8
  <2>2. IF y + x < capacity(node) THEN mergeNodes(h, node, nb, k)
        ELSE UNCHANGED root /\ ReturnFromDelete(g)
    <3> DEFINE q == m
    <3>1. getNeighbourIndex(h, node) = q - 2
      BY DEF getNeighbourIndex
    <3>2. getNeighbourIndex(h, node) = -1
      <4> HIDE DEF q
      <4>1. q = 1
        BY <1>8 DEF q
      <4> QED
        BY <3>1, <4>1
    <3>3. 0 + 1 = 1 /\ 1 + 1 = 2
      OBVIOUS
    <3> QED
      BY <3>2, <3>3 DEF mergeOrRedistribute
  <2>3. nb \in L /\ nb # node /\ (h[nb].isLeaf <=> h[node].isLeaf)
    BY <2>1 DEF Siblings
  <2>4. y \in 0..nodeSize /\ x \in Nat /\ x < minNumberofKeys(node)
    BY <1>6, <1>7, <2>3
  <2>5. k = k /\ g = takeFromRightNeighbour(h, node, nb, 0, k)
    OBVIOUS
  <2> HIDE DEF g, k, nb, p, m
  <2>6. /\ y + x < capacity(node) /\ nodes[node].isLeaf => y + x <= nodeSize
        /\ y + x < capacity(node) /\ ~nodes[node].isLeaf => y + 1 + x <= nodeSize
        /\ ~(y + x < capacity(node)) => y - 1 >= leastKeys(nodes[node])
        /\ x + 1 <= nodeSize
    <3> HIDE DEF x, y
    <3> QED
      BY <1>6, <2>4, MergeOrSpare
  <2>7. CASE y + x < capacity(node)
    <3>1. mergeNodes(h, node, nb, k)
      BY <2>2, <2>7
    <3>2. RoomForBoth(h, node, nb)
      <4> HIDE DEF x, y
      <4>1. h[node].isLeaf => x + y <= nodeSize
        BY <2>4, <2>6, <2>7
      <4>2. ~h[node].isLeaf => x + 1 + y <= nodeSize
        BY <2>4, <2>6, <2>7
      <4> QED
        BY <4>1, <4>2 DEF RoomForBoth, x, y
    <3>3. nb \in {node, nb} /\ node \in {node, nb}
      OBVIOUS
    <3> QED
      BY <2>1, <2>3, <3>1, <3>2, <3>3, MergeLeavesCall
  <2>8. CASE ~(y + x < capacity(node))
    <3>1. root' = r /\ ReturnFromDelete(g)
      BY <2>2, <2>8
    <3>2. y - 1 >= leastKeys(h[nb])
      <4>1. leastKeys(h[nb]) = leastKeys(nodes[node])
        BY <2>3 DEF leastKeys
      <4> QED
        BY <2>6, <2>8, <4>1
    <3>3. y >= 2
      <4>1. leastKeys(h[nb]) \in Nat /\ leastKeys(h[nb]) >= 1
        BY LeastKeys
      <4> QED
        BY <2>4, <3>2, <4>1
    <3>4. SomeTree(g, L, r) /\ KeyMoved(g, h, L, nb, node) /\ SameEntries(g, L, h, L)
      <4>1. 0 \in Int /\ 1 = 0 + 1
        OBVIOUS
      <4> QED
        BY <1>1, <1>2, <2>1, <2>5, <3>3, <4>1, TakenFromRight
    <3>5. Len(h[nb].keys) <= nodeSize
      BY <2>4
    <3> QED
      BY <2>3, <2>6, <3>1, <3>2, <3>4, <3>5, RedistributionSettles
  <2> QED
    BY <2>7, <2>8
<1>9. CASE m # 1
  <2> DEFINE nb == h[p].pointers[m - 1]
             k == h[p].keys[m - 1]
             y == Len(h[nb].keys)
             x == Len(h[node].keys)
             g == takeFromLeftNeighbour(h, node, nb, m - 2, k)
  <2>1. Siblings(h, L, p, m - 1, nb, k, node)
    BY <1>5, <1>9
  <2>2. IF y + x < capacity(node) THEN mergeNodes(h, nb, node, k)
        ELSE UNCHANGED root /\ ReturnFromDelete(g)
    <3>1. m \in Nat
      BY <1>5
    <3> DEFINE q == m
    <3>2. (q - 2) + 1 = q - 1 /\ ~(q - 2 = -1)
      <4> HIDE DEF m
      <4> QED  BY <1>9, <3>1
    <3>3. getNeighbourIndex(h, node) = q - 2
      BY DEF getNeighbourIndex
    <3> QED
      BY <3>2, <3>3 DEF mergeOrRedistribute
  <2>3. nb \in L /\ nb # node /\ (h[nb].isLeaf <=> h[node].isLeaf)
    BY <2>1 DEF Siblings
  <2>4. y \in 0..nodeSize /\ x \in Nat /\ x < minNumberofKeys(node)
    BY <1>6, <1>7, <2>3
  <2>5. g = takeFromLeftNeighbour(h, node, nb, m - 2, k)
    OBVIOUS
  <2> HIDE DEF g, k, nb, p, m
  <2>6. /\ y + x < capacity(node) /\ nodes[node].isLeaf => y + x <= nodeSize
        /\ y + x < capacity(node) /\ ~nodes[node].isLeaf => y + 1 + x <= nodeSize
        /\ ~(y + x < capacity(node)) => y - 1 >= leastKeys(nodes[node])
        /\ x + 1 <= nodeSize
    <3> HIDE DEF x, y
    <3> QED
      BY <1>6, <2>4, MergeOrSpare
  <2>7. CASE y + x < capacity(node)
    <3>1. mergeNodes(h, nb, node, k)
      BY <2>2, <2>7
    <3>2. RoomForBoth(h, nb, node)
      <4> HIDE DEF x, y
      <4>1. h[nb].isLeaf => y + x <= nodeSize
        BY <2>3, <2>4, <2>6, <2>7
      <4>2. ~h[nb].isLeaf => y + 1 + x <= nodeSize
        BY <2>3, <2>4, <2>6, <2>7
      <4> QED
        BY <4>1, <4>2 DEF RoomForBoth, x, y
    <3>3. nb \in {nb, node} /\ node \in {nb, node}
      OBVIOUS
    <3> QED
      BY <2>1, <2>3, <3>1, <3>2, <3>3, MergeLeavesCall
  <2>8. CASE ~(y + x < capacity(node))
    <3>1. root' = r /\ ReturnFromDelete(g)
      BY <2>2, <2>8
    <3>2. y - 1 >= leastKeys(h[nb])
      <4>1. leastKeys(h[nb]) = leastKeys(nodes[node])
        BY <2>3 DEF leastKeys
      <4> QED
        BY <2>6, <2>8, <4>1
    <3>3. y >= 2
      <4>1. leastKeys(h[nb]) \in Nat /\ leastKeys(h[nb]) >= 1
        BY LeastKeys
      <4> QED
        BY <2>4, <3>2, <4>1
    <3>4. SomeTree(g, L, r) /\ KeyMoved(g, h, L, nb, node) /\ SameEntries(g, L, h, L)
      <4>1. m - 2 \in Int /\ m - 1 = (m - 2) + 1
        BY <1>5
      <4> QED
        BY <1>1, <1>2, <2>1, <2>5, <3>3, <4>1, TakenFromLeft
    <3>5. Len(h[nb].keys) <= nodeSize
      BY <2>4
    <3> QED
      BY <2>3, <2>6, <3>1, <3>2, <3>4, <3>5, RedistributionSettles
  <2> QED
    BY <2>7, <2>8
<1> QED
  BY <1>8, <1>9

(* deleteEntry, from the heap that has lost its entry.                     *)
LEMMA EntryRemoved ==
  ASSUME nodeSize >= 3, NEW h, NEW L, L = DOMAIN h \ unfreed, unfreed \subseteq DOMAIN h,
         root \in Node, NEW node, Reduced(h, L, root, node),
         nodes[node].isLeaf = h[node].isLeaf,
         NEW toDelete, NEW pointer, h = removeEntryFromTheNode(node, toDelete, pointer),
         deleteEntry(node, toDelete, pointer)
  PROVE  KeepsEntries(nodes', root', call', unfreed', h, L)
<1>1. IF node = root THEN adjustTheRoot(h)
      ELSE IF Len(h[node].keys) >= minNumberofKeys(node)
           THEN ReturnFromDelete(h) /\ UNCHANGED root
           ELSE mergeOrRedistribute(h, node)
  BY DEF deleteEntry
<1>2. /\ IsFiniteSet(DOMAIN h) /\ NodeTypes(h, DOMAIN h) /\ NodeTypes(h, L)
      /\ L \subseteq DOMAIN h /\ node \in L /\ SomeTree(h, L, root)
      /\ Filled(h, L \ {node}, {root})
      /\ Len(h[node].keys) <= nodeSize
  BY DEF Reduced, NodeTypes
<1>3. h[node].isLeaf \in BOOLEAN /\ h[node].keys \in Seq(Value)
  BY <1>2, NodeFields
<1>4. /\ leastKeys(h[node]) \in Nat /\ leastKeys(h[node]) >= 1
      /\ minNumberofKeys(node) \in Nat /\ leastKeys(h[node]) <= minNumberofKeys(node)
  <2>1. leastKeys(h[node]) \in Nat /\ leastKeys(h[node]) >= 1
    BY LeastKeys
  <2>2. minNumberofKeys(node) \in Nat /\ leastKeys(nodes[node]) <= minNumberofKeys(node)
    BY Thresholds DEF minNumberofKeys, leastKeys
  <2>3. leastKeys(nodes[node]) = leastKeys(h[node])
    BY DEF leastKeys
  <2> QED
    BY <2>1, <2>2, <2>3
<1>5. ASSUME Len(h[node].keys) >= 1, node # root => Len(h[node].keys) >= leastKeys(h[node])
      PROVE  Filled(h, L, {root})
  BY <1>2, <1>5 DEF Filled
<1>6. CASE node = root /\ h[root].keys = <<>>
  <2>1. adjustTheRoot(h) /\ Reduced(h, L, root, root)
    BY <1>1, <1>6
  <2> QED
    BY <1>6, <2>1, EmptyRootLeaves
<1>7. CASE node = root /\ h[root].keys # <<>>
  <2>1. ReturnFromDelete(h) /\ root' = root
    BY <1>1, <1>7 DEF adjustTheRoot
  <2>2. Len(h[node].keys) >= 1
    BY <1>3, <1>7
  <2>3. Filled(h, L, {root})
    BY <1>5, <1>7, <2>2
  <2> QED
    BY <1>2, <2>1, <2>3, ReturnSettles
<1>8. CASE node # root /\ Len(h[node].keys) >= minNumberofKeys(node)
  <2>1. ReturnFromDelete(h) /\ root' = root
    BY <1>1, <1>8
  <2>2. Len(h[node].keys) \in Nat
    BY <1>3
  <2>3. Len(h[node].keys) >= 1 /\ Len(h[node].keys) >= leastKeys(h[node])
    BY <1>4, <1>8, <2>2
  <2>4. Filled(h, L, {root})
    BY <1>5, <2>3
  <2> QED
    BY <1>2, <2>1, <2>4, ReturnSettles
<1>9. CASE node # root /\ ~(Len(h[node].keys) >= minNumberofKeys(node))
  <2>1. mergeOrRedistribute(h, node)
    BY <1>1, <1>9
  <2>2. Len(h[node].keys) < minNumberofKeys(node)
    <3>1. Len(h[node].keys) \in Nat
      BY <1>3
    <3> QED
      BY <1>4, <1>9, <3>1
  <2> QED
    BY <1>9, <2>1, <2>2, ShortNode
<1> QED
  BY <1>6, <1>7, <1>8, <1>9

(* deleteEntry for the entry of a merged node.                             *)
LEMMA ParentEntryDeleted ==
  ASSUME nodeSize >= 3, unfreed \subseteq DOMAIN nodes, root \in Node, NEW p, NEW k, NEW b,
         EntryLeft(nodes, DOMAIN nodes \ unfreed, root, p, k, b), deleteEntry(p, k, b)
  PROVE  KeepsEntries(nodes', root', call', unfreed', nodes, DOMAIN nodes \ unfreed)
<1> DEFINE L == DOMAIN nodes \ unfreed
           j == PositionOf(nodes[p].keys, k)
           h == removeEntryFromTheNode(p, k, b)
<1>1. /\ IsFiniteSet(DOMAIN nodes) /\ NodeTypes(nodes, DOMAIN nodes) /\ NodeTypes(nodes, L)
      /\ L \subseteq DOMAIN nodes /\ p \in L /\ ~nodes[p].isLeaf
      /\ Filled(nodes, L, {root})
      /\ Len(nodes[p].pointers) = Len(nodes[p].keys) + 1
      /\ j \in 1..Len(nodes[p].keys)
      /\ PositionOf(nodes[p].pointers, b) = j + 1
      /\ SomeTree(takenOut(nodes, p, j), L, root)
  BY DEF EntryLeft, NodeTypes
<1>2. h = takenOut(nodes, p, j)
  BY <1>1 DEF removeEntryFromTheNode, takenOut
<1>3. h = removeEntryFromTheNode(p, k, b)
  OBVIOUS
<1>4. L = DOMAIN nodes \ unfreed
  OBVIOUS
<1> HIDE DEF h, j, L
<1>5. LostChild(h, nodes, p, j)
  BY <1>1, <1>2, TakenOut
<1>6. /\ DOMAIN h = DOMAIN nodes /\ \A n \in DOMAIN nodes \ {p} : h[n] = nodes[n]
      /\ h[p] \in InnerRecord /\ ~h[p].isLeaf
      /\ h[p].keys = RemoveAt(nodes[p].keys, j)
  BY <1>5 DEF LostChild
<1>7. NodeTypes(h, DOMAIN h)
  BY <1>1, <1>6 DEF NodeTypes
<1>8. /\ Len(h[p].keys) = Len(nodes[p].keys) - 1 /\ Len(nodes[p].keys) \in Nat
      /\ nodes[p].isLeaf \in BOOLEAN
  <2>1. nodes[p].keys \in Seq(Value) /\ nodes[p].isLeaf \in BOOLEAN
    BY <1>1, NodeFields
  <2>2. Len(RemoveAt(nodes[p].keys, j)) = Len(nodes[p].keys) - 1
    BY <1>1, <2>1, RemoveAtElements
  <2> QED
    BY <1>6, <2>1, <2>2
<1>9. nodes[p].isLeaf = h[p].isLeaf
  <2>1. h[p].isLeaf = FALSE
    BY <1>6 DEF InnerRecord
  <2> QED
    BY <1>1, <1>8, <2>1
<1>10. /\ Len(nodes[p].keys) <= nodeSize
       /\ p # root => Len(nodes[p].keys) >= leastKeys(nodes[p])
       /\ leastKeys(h[p]) = leastKeys(nodes[p])
  BY <1>1, <1>9 DEF Filled, leastKeys
<1>11. Filled(h, L \ {p}, {root})
  BY <1>1, <1>6 DEF Filled
<1>12. /\ Len(h[p].keys) <= nodeSize
       /\ p # root => Len(h[p].keys) + 1 >= leastKeys(h[p])
  <2>1. leastKeys(h[p]) \in Nat /\ nodeSize \in Nat
    BY LeastKeys, nodeSizeAssumption
  <2> QED
    BY <1>8, <1>10, <2>1
<1>13. Reduced(h, L, root, p)
  BY <1>1, <1>2, <1>6, <1>7, <1>11, <1>12 DEF Reduced
<1>14. SameEntries(h, L, nodes, L)
  BY <1>1, <1>6, InnerNodeChanged
<1>15. KeepsEntries(nodes', root', call', unfreed', h, L)
  BY <1>3, <1>4, <1>6, <1>9, <1>13, EntryRemoved
<1> QED
  BY <1>4, <1>14, <1>15, SameEntriesAgain DEF KeepsEntries

(* A leaf without one of its entries.                                      *)
withoutEntry(h, leaf, i) ==
  [h EXCEPT ![leaf].keys = RemoveAt(@, i), ![leaf].pointers = RemoveAt(@, i)]

LostEntry(g, h, leaf, i) ==
  /\ DOMAIN g = DOMAIN h
  /\ \A n \in DOMAIN h \ {leaf} : g[n] = h[n]
  /\ g[leaf] \in LeafRecord /\ g[leaf].isLeaf /\ g[leaf].parent = h[leaf].parent
  /\ g[leaf].next = h[leaf].next /\ g[leaf].prev = h[leaf].prev
  /\ g[leaf].keys = RemoveAt(h[leaf].keys, i)
  /\ g[leaf].pointers = RemoveAt(h[leaf].pointers, i)

LEMMA LeafLosesEntry ==
  ASSUME NEW h, NEW L, NEW r, NEW H, NEW R, IsTree(h, L, r, H, R), L = DOMAIN h,
         NEW leaf \in L, h[leaf].isLeaf, NEW i \in 1..Len(h[leaf].keys),
         NEW g, g = withoutEntry(h, leaf, i)
  PROVE  IsTree(g, L, r, H, R) /\ LostEntry(g, h, leaf, i)
<1>1. NodeTypes(h, L) /\ LeafKeys(h, R, leaf) /\ Ascending(h[leaf].keys)
  BY DEF IsTree, IsHeap, KeysInRange
<1> DEFINE keys == h[leaf].keys
           pointers == h[leaf].pointers
<1>2. /\ keys \in Seq(Int) /\ keys \in Seq(Value) /\ h[leaf] \in LeafRecord
      /\ pointers \in Seq(Seq(Time)) /\ Len(pointers) = Len(keys)
      /\ i \in 1..Len(pointers) /\ i \in 1..Len(keys)
  BY <1>1, NodeFields DEF LeafKeys
<1> HIDE DEF keys, pointers
<1>3. /\ RemoveAt(keys, i) \in Seq(Value)
      /\ RemoveAt(keys, i) \in Seq(Int) /\ Len(RemoveAt(keys, i)) = Len(keys) - 1
      /\ \A m \in 1..(Len(keys) - 1) : RemoveAt(keys, i)[m] = IF m < i THEN keys[m] ELSE keys[m + 1]
  BY <1>2, RemoveAtElements
<1>4. /\ RemoveAt(pointers, i) \in Seq(Seq(Time)) /\ Len(RemoveAt(pointers, i)) = Len(pointers) - 1
      /\ \A m \in 1..(Len(pointers) - 1) :
           RemoveAt(pointers, i)[m] = IF m < i THEN pointers[m] ELSE pointers[m + 1]
  BY <1>2, RemoveAtElements
<1>5. Ascending(RemoveAt(keys, i))
  <2>1. Inserted(RemoveAt(keys, i), keys, i, keys[i])
    BY <1>2, RemoveAtTakesOut
  <2>2. Ascending(keys) /\ keys[i] \in Int /\ i \in Nat
    BY <1>1, <1>2 DEF keys
  <2> QED
    BY <1>2, <1>3, <2>1, <2>2, RemovedAscending
<1>6. LostEntry(g, h, leaf, i)
  <2>1. /\ DOMAIN g = DOMAIN h /\ \A n \in DOMAIN h \ {leaf} : g[n] = h[n]
        /\ g[leaf] = [h[leaf] EXCEPT !.keys = RemoveAt(keys, i), !.pointers = RemoveAt(pointers, i)]
    BY Zenon DEF withoutEntry, keys, pointers
  <2>2. /\ g[leaf] \in LeafRecord /\ g[leaf].isLeaf /\ g[leaf].parent = h[leaf].parent
        /\ g[leaf].next = h[leaf].next /\ g[leaf].prev = h[leaf].prev
        /\ g[leaf].keys = RemoveAt(keys, i) /\ g[leaf].pointers = RemoveAt(pointers, i)
    BY <1>2, <1>3, <1>4, <2>1 DEF LeafRecord
  <2> QED
    BY <2>1, <2>2 DEF LostEntry, keys, pointers
<1>7. LeafKeys(g, R, leaf)
  <2>1. \A m \in 1..Len(keys) : keys[m] \in R[leaf] /\ pointers[m] # <<>>
    BY <1>1 DEF LeafKeys, keys, pointers
  <2>2. Len(keys) \in Nat
    BY <1>2
  <2>3. ASSUME NEW m \in 1..(Len(keys) - 1)
        PROVE  RemoveAt(keys, i)[m] \in R[leaf] /\ RemoveAt(pointers, i)[m] # <<>>
    <3>1. m \in 1..Len(keys) /\ m + 1 \in 1..Len(keys) /\ m \in 1..(Len(pointers) - 1)
      BY <1>2, <2>2
    <3> QED
      BY <1>3, <1>4, <2>1, <3>1
  <2>4. g[leaf].keys = RemoveAt(keys, i) /\ g[leaf].pointers = RemoveAt(pointers, i)
    BY <1>6 DEF LostEntry, keys, pointers
  <2> QED
    BY <1>2, <1>3, <1>4, <2>3, <2>4 DEF LeafKeys
<1>8. NodeTypes(g, L)
  BY <1>1, <1>6 DEF NodeTypes, LostEntry
<1>9. IsTree(g, L, r, H, R)
  <2>1. /\ \A n \in L \ {leaf} : g[n] = h[n]
        /\ g[leaf].isLeaf /\ g[leaf].parent = h[leaf].parent
        /\ g[leaf].next = h[leaf].next /\ g[leaf].prev = h[leaf].prev
        /\ Ascending(g[leaf].keys)
    BY <1>5, <1>6 DEF LostEntry, keys
  <2> QED
    BY <1>7, <1>8, <2>1, LeafChanged
<1> QED
  BY <1>6, <1>9

(* A leaf with another list, not empty, at one of its keys.                *)
withList(h, leaf, i, times) == [h EXCEPT ![leaf].pointers[i] = times]

ListChanged(g, h, L, r, H, R) ==
  /\ DOMAIN g = L /\ NodeTypes(g, L) /\ IsTree(g, L, r, H, R)
  /\ \A n \in L : g[n].keys = h[n].keys /\ g[n].isLeaf = h[n].isLeaf

LEMMA ListReplaced ==
  ASSUME NEW h, NEW L, L = DOMAIN h, NEW r, NEW H, NEW R, IsTree(h, L, r, H, R),
         NEW leaf \in L, h[leaf].isLeaf, NEW i \in 1..Len(h[leaf].keys),
         NEW times \in Seq(Time), times # <<>>,
         NEW g, g = withList(h, leaf, i, times)
  PROVE  ListChanged(g, h, L, r, H, R)
<1>1. NodeTypes(h, L) /\ LeafKeys(h, R, leaf) /\ Ascending(h[leaf].keys)
  BY DEF IsTree, IsHeap, KeysInRange
<1>2. h[leaf] \in LeafRecord /\ h[leaf].pointers \in Seq(Seq(Time))
  BY <1>1, NodeFields
<1>3. i \in 1..Len(h[leaf].pointers)
  BY <1>1 DEF LeafKeys
<1> DEFINE ps == [h[leaf].pointers EXCEPT ![i] = times]
<1>4. /\ ps \in Seq(Seq(Time)) /\ Len(ps) = Len(h[leaf].pointers)
      /\ \A j \in 1..Len(h[leaf].pointers) : h[leaf].pointers[j] # <<>> => ps[j] # <<>>
  BY <1>2, <1>3
<1>5. /\ DOMAIN g = L
      /\ \A n \in L \ {leaf} : g[n] = h[n]
      /\ g[leaf] = [h[leaf] EXCEPT !.pointers = ps]
  BY Zenon DEF withList
<1> HIDE DEF ps
<1>6. /\ g[leaf] \in LeafRecord
      /\ g[leaf].isLeaf /\ g[leaf].parent = h[leaf].parent
      /\ g[leaf].next = h[leaf].next /\ g[leaf].prev = h[leaf].prev
      /\ g[leaf].keys = h[leaf].keys /\ g[leaf].pointers = ps
  BY <1>2, <1>4, <1>5 DEF LeafRecord
<1>7. NodeTypes(g, L)
  BY <1>1, <1>5, <1>6 DEF NodeTypes
<1>8. LeafKeys(g, R, leaf) /\ Ascending(g[leaf].keys)
  BY <1>1, <1>4, <1>6 DEF LeafKeys
<1>9. IsTree(g, L, r, H, R)
  <2>1. /\ \A n \in L \ {leaf} : g[n] = h[n]
        /\ g[leaf].isLeaf /\ g[leaf].parent = h[leaf].parent
        /\ g[leaf].next = h[leaf].next /\ g[leaf].prev = h[leaf].prev
    BY <1>5, <1>6
  <2> QED
    BY <1>7, <1>8, <2>1, LeafChanged
<1>10. \A n \in L : g[n].keys = h[n].keys /\ g[n].isLeaf = h[n].isLeaf
  <2>1. h[leaf].isLeaf = TRUE /\ g[leaf].isLeaf = TRUE
    BY <1>2, <1>6 DEF LeafRecord
  <2> QED
    BY <1>5, <1>6, <2>1
<1> QED
  BY <1>5, <1>7, <1>9, <1>10 DEF ListChanged

LEMMA TailLeft ==
  ASSUME NEW S, NEW s \in Seq(S), Len(s) > 1
  PROVE  Tail(s) \in Seq(S) /\ Tail(s) # <<>>
<1> DEFINE u == Tail(s)
<1>1. s # <<>>
  OBVIOUS
<1>2. u \in Seq(S) /\ Len(u) = Len(s) - 1 /\ Len(s) \in Nat
  BY <1>1, TailElements
<1> HIDE DEF u
<1>3. u # <<>>
  BY <1>2
<1> QED
  BY <1>2, <1>3 DEF u

(* delete of one of several times of a key.                                *)
LEMMA OldestTimeDropped ==
  ASSUME nodeSize >= 3, Settled(nodes, root), NEW v \in Value,
         NEW leaf, leaf = findLeaf(v), isDuplicateKey(leaf, v),
         NEW i, i = PositionOf(nodes[leaf].keys, v), Len(nodes[leaf].pointers[i]) > 1
  PROVE  Settled(withList(nodes, leaf, i, Tail(nodes[leaf].pointers[i])), root)
<1>1. PICK H, R : WholeTree(H, R)
  BY DEF Settled, SomeTree, WholeTree
<1> DEFINE L == DOMAIN nodes
           times == nodes[leaf].pointers[i]
           g == withList(nodes, leaf, i, Tail(times))
<1>2. leaf \in L /\ nodes[leaf].isLeaf /\ NodeTypes(nodes, L) /\ IsTree(nodes, L, root, H, R)
  BY <1>1, ValueAssumption, FindLeafInRange DEF Settled, WholeTree
<1>3. i \in 1..Len(nodes[leaf].keys)
  <2>1. \E j \in 1..Len(nodes[leaf].keys) : nodes[leaf].keys[j] = v
    BY InToSet DEF isDuplicateKey
  <2>2. nodes[leaf].keys \in Seq(Int)
    BY <1>2, NodeFields
  <2> QED
    BY <2>1, <2>2, PositionOfFinds
<1>4. LeafKeys(nodes, R, leaf)
  BY <1>2 DEF IsTree, IsHeap, KeysInRange
<1>5. times \in Seq(Time)
  <2>1. nodes[leaf].pointers \in Seq(Seq(Time))
    BY <1>2, NodeFields
  <2>2. i \in 1..Len(nodes[leaf].pointers)
    BY <1>3, <1>4 DEF LeafKeys
  <2> QED
    BY <2>1, <2>2
<1>6. Len(times) > 1 /\ g = withList(nodes, leaf, i, Tail(times))
  OBVIOUS
<1> HIDE DEF times, g
<1>7. Tail(times) \in Seq(Time) /\ Tail(times) # <<>>
  BY <1>5, <1>6, TailLeft
<1>8. ListChanged(g, nodes, L, root, H, R)
  BY <1>2, <1>3, <1>6, <1>7, ListReplaced
<1>9. /\ DOMAIN g = L /\ NodeTypes(g, L) /\ IsTree(g, L, root, H, R)
      /\ \A n \in L : g[n].keys = nodes[n].keys /\ g[n].isLeaf = nodes[n].isLeaf
  BY <1>8 DEF ListChanged
<1>10. Filled(g, L, {root}) /\ IsFiniteSet(L)
  BY <1>9 DEF Settled, Filled, leastKeys
<1>11. Settled(g, root)
  BY <1>9, <1>10 DEF Settled, SomeTree
<1> QED
  BY <1>11 DEF g, times

(* Where the search for a key of a leaf ends.                              *)
LEMMA KeyFound ==
  ASSUME NEW L, NodeTypes(nodes, L), NEW leaf \in L, NEW v, isDuplicateKey(leaf, v),
         NEW i, i = PositionOf(nodes[leaf].keys, v)
  PROVE  i \in 1..Len(nodes[leaf].keys) /\ nodes[leaf].keys[i] = v
<1>1. \E j \in 1..Len(nodes[leaf].keys) : nodes[leaf].keys[j] = v
  BY InToSet DEF isDuplicateKey
<1>2. nodes[leaf].keys \in Seq(Int)
  BY NodeFields
<1> QED
  BY <1>1, <1>2, PositionOfFinds

(* delete of the only time of a key, from the heap without its entry on.   *)
LEMMA LastTimeDropped ==
  ASSUME nodeSize >= 3, unfreed = {}, root \in Node, Settled(nodes, root),
         NEW H, NEW R, WholeTree(H, R),
         NEW leaf \in DOMAIN nodes, nodes[leaf].isLeaf, NEW v,
         NEW i \in 1..Len(nodes[leaf].keys), i = PositionOf(nodes[leaf].keys, v),
         deleteEntry(leaf, v, NULL)
  PROVE  \E h : /\ LostEntry(h, nodes, leaf, i)
                /\ KeepsEntries(nodes', root', call', unfreed', h, DOMAIN nodes)
<1> DEFINE L == DOMAIN nodes
<1>2. leaf \in L /\ nodes[leaf].isLeaf /\ NodeTypes(nodes, L) /\ IsTree(nodes, L, root, H, R)
  BY DEF Settled, WholeTree
<1> DEFINE h == removeEntryFromTheNode(leaf, v, NULL)
<1>6. i \in 1..Len(nodes[leaf].keys) /\ nodes[leaf].keys \in Seq(Int)
  BY <1>2, NodeFields
<1>7. h = withoutEntry(nodes, leaf, i)
  BY <1>2 DEF removeEntryFromTheNode, withoutEntry
<1>8. h = removeEntryFromTheNode(leaf, v, NULL)
  OBVIOUS
<1> HIDE DEF h
<1>9. IsTree(h, L, root, H, R) /\ LostEntry(h, nodes, leaf, i)
  BY <1>2, <1>6, <1>7, LeafLosesEntry
<1>10. /\ DOMAIN h = L /\ \A n \in L \ {leaf} : h[n] = nodes[n]
      /\ h[leaf] \in LeafRecord /\ h[leaf].isLeaf
      /\ h[leaf].keys = RemoveAt(nodes[leaf].keys, i)
  BY <1>9 DEF LostEntry
<1>11. NodeTypes(h, L)
  BY <1>2, <1>10 DEF NodeTypes
<1>12. nodes[leaf].isLeaf = h[leaf].isLeaf
  <2>1. nodes[leaf].isLeaf \in BOOLEAN /\ h[leaf].isLeaf \in BOOLEAN
    BY <1>2, <1>11, NodeFields
  <2> QED
    BY <1>2, <1>10, <2>1
<1>13. Len(h[leaf].keys) = Len(nodes[leaf].keys) - 1 /\ Len(nodes[leaf].keys) \in Nat
  <2>1. Len(RemoveAt(nodes[leaf].keys, i)) = Len(nodes[leaf].keys) - 1
    BY <1>6, RemoveAtElements
  <2> QED
    BY <1>6, <1>10, <2>1
<1>14. /\ IsFiniteSet(L) /\ Len(nodes[leaf].keys) <= nodeSize
       /\ leaf # root => Len(nodes[leaf].keys) >= leastKeys(nodes[leaf])
       /\ leastKeys(h[leaf]) = leastKeys(nodes[leaf])
  BY <1>2, <1>12 DEF Settled, Filled, leastKeys
<1>15. Filled(h, L \ {leaf}, {root})
  BY <1>10 DEF Settled, Filled
<1>16. /\ Len(h[leaf].keys) <= nodeSize
       /\ leaf # root => Len(h[leaf].keys) + 1 >= leastKeys(h[leaf])
  <2>1. leastKeys(h[leaf]) \in Nat /\ nodeSize \in Nat
    BY LeastKeys, nodeSizeAssumption
  <2> QED
    BY <1>13, <1>14, <2>1
<1>17. Reduced(h, L, root, leaf)
  BY <1>2, <1>9, <1>10, <1>11, <1>14, <1>15, <1>16 DEF Reduced, SomeTree
<1>18. L = DOMAIN h \ unfreed /\ unfreed \subseteq DOMAIN h
  BY <1>10
<1>19. KeepsEntries(nodes', root', call', unfreed', h, L)
  BY <1>8, <1>12, <1>17, <1>18, EntryRemoved
<1> QED
  BY <1>9, <1>19

LEMMA KeyDeleted ==
  ASSUME nodeSize >= 3, unfreed = {}, call = Returned, root \in Node, Settled(nodes, root),
         NEW v \in Value, delete(v)
  PROVE  Consistent(nodes', root', call', unfreed')
<1> DEFINE leaf == findLeaf(v)
           i == PositionOf(nodes[leaf].keys, v)
           L == DOMAIN nodes
<1>1. PICK H, R : WholeTree(H, R)
  BY DEF Settled, SomeTree, WholeTree
<1>2. leaf \in L /\ nodes[leaf].isLeaf /\ NodeTypes(nodes, L) /\ IsTree(nodes, L, root, H, R)
  BY <1>1, ValueAssumption, FindLeafInRange DEF Settled, WholeTree
<1>3. IF ~ isDuplicateKey(leaf, v) THEN UNCHANGED treeVars
      ELSE IF Len(nodes[leaf].pointers[i]) > 1
           THEN /\ nodes' = [nodes EXCEPT ![leaf].pointers[i] = Tail(@)]
                /\ UNCHANGED <<root, call, unfreed>>
           ELSE deleteEntry(leaf, v, NULL)
  BY DEF delete
<1>4. leaf = findLeaf(v) /\ i = PositionOf(nodes[leaf].keys, v)
  OBVIOUS
<1> HIDE DEF leaf, i
<1>5. CASE ~isDuplicateKey(leaf, v)
  <2>1. nodes' = nodes /\ root' = root /\ call' = Returned /\ unfreed' = {}
    BY <1>3, <1>5 DEF treeVars
  <2>2. Stored(nodes', root')
    BY <2>1 DEF Stored
  <2> QED
    BY <2>1, <2>2, ReturnedCall DEF Consistent
<1>6. CASE isDuplicateKey(leaf, v) /\ Len(nodes[leaf].pointers[i]) > 1
  <2>1. nodes' = withList(nodes, leaf, i, Tail(nodes[leaf].pointers[i]))
    BY <1>3, <1>6 DEF withList
  <2>2. root' = root /\ call' = Returned /\ unfreed' = {}
    BY <1>3, <1>6
  <2>3. Settled(nodes', root')
    BY <1>4, <1>6, <2>1, <2>2, OldestTimeDropped
  <2>4. Stored(nodes', root')
    BY <2>2, <2>3 DEF Stored
  <2> QED
    BY <2>2, <2>4, ReturnedCall DEF Consistent
<1>7. CASE isDuplicateKey(leaf, v) /\ ~(Len(nodes[leaf].pointers[i]) > 1)
  <2>1. deleteEntry(leaf, v, NULL)
    BY <1>3, <1>7
  <2>2. \E h : /\ LostEntry(h, nodes, leaf, i)
              /\ KeepsEntries(nodes', root', call', unfreed', h, DOMAIN nodes)
    <3>1. i \in 1..Len(nodes[leaf].keys)
      BY <1>2, <1>4, <1>7, KeyFound
    <3> QED
      BY <1>1, <1>2, <1>4, <2>1, <3>1, LastTimeDropped
  <2> QED
    BY <2>2 DEF KeepsEntries
<1> QED
  BY <1>5, <1>6, <1>7

-----------------------------------------------------------------------------
(*                         The inductive invariant                         *)

TreeInv == Consistent(nodes, root, call, unfreed)

LEMMA EmptyTreeConsistent == Init => TreeInv
<1> SUFFICES ASSUME Init PROVE TreeInv
  OBVIOUS
<1>1. root = NULL /\ nodes = <<>> /\ call = Returned /\ unfreed = {}
  BY DEF Init
<1>2. DOMAIN nodes = {}
  BY <1>1
<1>3. Stored(nodes, root)
  BY <1>1, <1>2 DEF Stored
<1> QED
  BY <1>1, <1>3, ReturnedCall DEF TreeInv, Consistent

(* What a step between calls leaves.                                       *)
LEMMA StoredAgain ==
  ASSUME Stored(nodes', root'), call' = Returned, unfreed' = {}
  PROVE  Consistent(nodes', root', call', unfreed')
BY ReturnedCall DEF Consistent

LEMMA HalfSplitAgain ==
  ASSUME call' = insertIntoParentCall(call'.oldChild, call'.newKey, call'.newChild),
         call' \in Call, unfreed' = {}, root' \in Node,
         HalfSplit(nodes', root', call'.oldChild, call'.newKey, call'.newChild)
  PROVE  Consistent(nodes', root', call', unfreed')
<1>1. call'.fn = "insertIntoParent"
  BY DEF insertIntoParentCall
<1> QED
  BY <1>1 DEF Consistent

LEMMA AddKeepsTree ==
  ASSUME nodeSize >= 3, MemoryLeft, TreeInv, NEW t \in Time, NEW v \in Value,
         addRecordToTree(t, v)
  PROVE  Consistent(nodes', root', call', unfreed')
<1>1. call = Returned /\ unfreed = {} /\ Stored(nodes, root)
  BY ReturnedCall DEF addRecordToTree, TreeInv, Consistent
<1>2. CASE newTree(t, v)
  <2>1. root = NULL /\ call' = Returned /\ unfreed' = {}
    BY <1>1, <1>2 DEF newTree
  <2>2. DOMAIN nodes = {}
    BY <1>1, <2>1, NULLAssumption DEF Stored
  <2>3. Settled(nodes', root') /\ root' \in Node
    BY <1>2, <2>2, NewTree
  <2> QED
    BY <2>1, <2>3, StoredAgain DEF Stored
<1>3. CASE root # NULL
  <2>1. root \in Node /\ Settled(nodes, root)
    BY <1>1, <1>3 DEF Stored
  <2>2. CASE addDuplicateToDoublyLinkedList(findLeaf(v), t, v)
    <3>1. root' = root /\ call' = Returned /\ unfreed' = {}
      BY <1>1, <2>2 DEF addDuplicateToDoublyLinkedList
    <3>2. Settled(nodes', root')
      BY <2>1, <2>2, DuplicateAdded
    <3> QED
      BY <2>1, <3>1, <3>2, StoredAgain DEF Stored
  <2>3. CASE insertRecordIntoLeaf(findLeaf(v), t, v)
    <3>1. root' = root /\ call' = Returned /\ unfreed' = {}
      BY <1>1, <2>3 DEF insertRecordIntoLeaf
    <3>2. Settled(nodes', root')
      BY <2>1, <2>3, RecordInserted
    <3> QED
      BY <2>1, <3>1, <3>2, StoredAgain DEF Stored
  <2>4. CASE splitAndInsertIntoLeaves(findLeaf(v), t, v)
    <3>1. root' = root /\ unfreed' = {}
      BY <1>1, <2>4 DEF splitAndInsertIntoLeaves
    <3>2. /\ call' = insertIntoParentCall(call'.oldChild, call'.newKey, call'.newChild)
          /\ call' \in Call
          /\ HalfSplit(nodes', root', call'.oldChild, call'.newKey, call'.newChild)
      BY <2>1, <2>4, LeafSplit
    <3> QED
      BY <2>1, <3>1, <3>2, HalfSplitAgain
  <2>5. \/ newTree(t, v)
        \/ addDuplicateToDoublyLinkedList(findLeaf(v), t, v)
        \/ insertRecordIntoLeaf(findLeaf(v), t, v)
        \/ splitAndInsertIntoLeaves(findLeaf(v), t, v)
    BY DEF addRecordToTree
  <2> QED
    BY <1>2, <2>2, <2>3, <2>4, <2>5
<1> QED
  BY <1>2, <1>3 DEF addRecordToTree

LEMMA DeleteKeepsTree ==
  ASSUME nodeSize >= 3, TreeInv, NEW v \in Value, delete(v)
  PROVE  Consistent(nodes', root', call', unfreed')
<1>1. call = Returned /\ root # NULL
  BY DEF delete
<1>2. unfreed = {} /\ Stored(nodes, root)
  BY <1>1, ReturnedCall DEF TreeInv, Consistent
<1>3. root \in Node /\ Settled(nodes, root)
  BY <1>1, <1>2 DEF Stored
<1> QED
  BY <1>1, <1>2, <1>3, KeyDeleted

LEMMA InsertIntoParentKeepsTree ==
  ASSUME nodeSize >= 3, MemoryLeft, TreeInv, insertIntoParent
  PROVE  Consistent(nodes', root', call', unfreed')
<1> DEFINE a == call.oldChild
           k == call.newKey
           b == call.newChild
<1>1. call.fn = "insertIntoParent"
  BY DEF insertIntoParent
<1>2. unfreed = {} /\ root \in Node /\ HalfSplit(nodes, root, a, k, b)
  BY <1>1 DEF TreeInv, Consistent
<1>3. \/ insertIntoANewRoot(a, k, b)
      \/ insertIntoTheNode(a, k, b)
      \/ splitAndInsertIntoInnerNode(a, k, b)
  BY DEF insertIntoParent
<1> HIDE DEF a, k, b
<1>4. CASE insertIntoANewRoot(a, k, b)
  <2>1. call' = Returned /\ unfreed' = {}
    BY <1>2, <1>4 DEF insertIntoANewRoot
  <2>2. Settled(nodes', root') /\ root' \in Node
    BY <1>2, <1>4, RootGrown
  <2> QED
    BY <2>1, <2>2, StoredAgain DEF Stored
<1>5. CASE insertIntoTheNode(a, k, b)
  <2>1. call' = Returned /\ unfreed' = {} /\ root' = root
    BY <1>2, <1>5 DEF insertIntoTheNode
  <2>2. Settled(nodes', root')
    BY <1>2, <1>5, HungIntoParent
  <2> QED
    BY <1>2, <2>1, <2>2, StoredAgain DEF Stored
<1>6. CASE splitAndInsertIntoInnerNode(a, k, b)
  <2>1. unfreed' = {} /\ root' = root
    BY <1>2, <1>6 DEF splitAndInsertIntoInnerNode
  <2>2. /\ call' = insertIntoParentCall(call'.oldChild, call'.newKey, call'.newChild)
        /\ call' \in Call
        /\ HalfSplit(nodes', root', call'.oldChild, call'.newKey, call'.newChild)
    BY <1>2, <1>6, InnerSplit
  <2> QED
    BY <1>2, <2>1, <2>2, HalfSplitAgain
<1> QED
  BY <1>3, <1>4, <1>5, <1>6

LEMMA DeleteFromParentKeepsTree ==
  ASSUME nodeSize >= 3, TreeInv, deleteEntryFromParent
  PROVE  Consistent(nodes', root', call', unfreed')
<1>1. call.fn = "deleteEntry" /\ deleteEntry(call.node, call.toDelete, call.pointer)
  BY DEF deleteEntryFromParent
<1>2. /\ unfreed \subseteq DOMAIN nodes /\ root \in Node
      /\ EntryLeft(nodes, DOMAIN nodes \ unfreed, root, call.node, call.toDelete, call.pointer)
  BY <1>1 DEF TreeInv, Consistent
<1> QED
  BY <1>1, <1>2, ParentEntryDeleted DEF KeepsEntries

LEMMA DestroyKeepsTree ==
  ASSUME TreeInv, BPlusTree_destroy
  PROVE  Consistent(nodes', root', call', unfreed')
<1>1. /\ call = Returned /\ root # NULL /\ nodes' = free(nodes, Reachable)
      /\ call' = Destroyed /\ root' = root /\ unfreed' = unfreed
  BY DEF BPlusTree_destroy
<1>2. unfreed = {} /\ root \in Node /\ Settled(nodes, root)
  BY <1>1, ReturnedCall DEF TreeInv, Consistent, Stored
<1>3. PICK H, R : WholeTree(H, R)
  BY <1>2 DEF Settled, SomeTree, WholeTree
<1>4. Reachable = DOMAIN nodes
  BY <1>3, AllReachable
<1>5. DOMAIN nodes' = {}
  <2>1. DOMAIN free(nodes, DOMAIN nodes) = DOMAIN nodes \ DOMAIN nodes
    BY FreeKeeps
  <2> QED
    BY <1>1, <1>4, <2>1
<1> QED
  BY <1>1, <1>2, <1>5, ReturnedCall DEF Consistent

LEMMA NewKeepsTree ==
  ASSUME TreeInv, BPlusTree_new
  PROVE  Consistent(nodes', root', call', unfreed')
<1>1. call = Destroyed /\ root' = NULL /\ call' = Returned /\ nodes' = nodes /\ unfreed' = unfreed
  BY DEF BPlusTree_new
<1>2. unfreed = {} /\ DOMAIN nodes = {}
  BY <1>1, ReturnedCall DEF TreeInv, Consistent
<1> QED
  BY <1>1, <1>2, StoredAgain DEF Stored

LEMMA StepKeepsTree ==
  ASSUME nodeSize >= 3, MemoryLeft, TreeInv, [Next]_treeVars
  PROVE  TreeInv'
<1>1. CASE UNCHANGED treeVars
  BY <1>1 DEF treeVars, TreeInv
<1>2. CASE Next
  <2> SUFFICES Consistent(nodes', root', call', unfreed')
    BY DEF TreeInv
  <2>1. ASSUME NEW t \in Time, NEW v \in Value, addRecordToTree(t, v)
        PROVE  Consistent(nodes', root', call', unfreed')
    BY <2>1, AddKeepsTree
  <2>2. ASSUME NEW v \in Value, delete(v)
        PROVE  Consistent(nodes', root', call', unfreed')
    BY <2>2, DeleteKeepsTree
  <2>3. CASE insertIntoParent
    BY <2>3, InsertIntoParentKeepsTree
  <2>4. CASE deleteEntryFromParent
    BY <2>4, DeleteFromParentKeepsTree
  <2>5. CASE BPlusTree_destroy
    BY <2>5, DestroyKeepsTree
  <2>6. CASE BPlusTree_new
    BY <2>6, NewKeepsTree
  <2> QED
    BY <1>2, <2>1, <2>2, <2>3, <2>4, <2>5, <2>6 DEF Next, Recurse
<1> QED
  BY <1>1, <1>2

(* In every behaviour in which malloc always finds an address, the heap is *)
(* the tree, or the half-changed tree, that the pending call expects.      *)
THEOREM TreeAlwaysConsistent ==
  ASSUME nodeSize >= 3
  PROVE  Spec /\ []MemoryLeft => []TreeInv
<1>1. Init => TreeInv
  BY EmptyTreeConsistent
<1>2. TreeInv /\ MemoryLeft /\ [Next]_treeVars => TreeInv'
  BY StepKeepsTree
<1> QED
  BY <1>1, <1>2, PTL DEF Spec

LEMMA FiniteHeap ==
  ASSUME TreeInv
  PROVE  IsFiniteSet(DOMAIN nodes)
<1>1. call \in Call
  BY DEF TreeInv, Consistent
<1>2. call.fn \in {"none", "destroyed", "insertIntoParent", "deleteEntry"}
  BY <1>1 DEF Call, Returned, Destroyed
<1>3. CASE call.fn = "none"
  BY <1>3, FS_EmptySet DEF TreeInv, Consistent, Stored, Settled
<1>4. CASE call.fn = "destroyed"
  BY <1>4, FS_EmptySet DEF TreeInv, Consistent
<1>5. CASE call.fn = "insertIntoParent"
  BY <1>5 DEF TreeInv, Consistent, HalfSplit
<1>6. CASE call.fn = "deleteEntry"
  BY <1>6 DEF TreeInv, Consistent, EntryLeft
<1> QED
  BY <1>2, <1>3, <1>4, <1>5, <1>6

(* With endlessly many addresses malloc always finds one: the hypothesis   *)
(* []MemoryLeft of the theorems here and below is then true.               *)
THEOREM EndlessMemoryIsLeft ==
  ASSUME nodeSize >= 3, ~IsFiniteSet(Node)
  PROVE  Spec => []MemoryLeft
<1>1. TreeInv => MemoryLeft
  BY FiniteHeap DEF MemoryLeft
<1>2. Init => TreeInv
  BY EmptyTreeConsistent
<1>3. TreeInv /\ [Next]_treeVars => TreeInv'
  BY <1>1, StepKeepsTree
<1> QED
  BY <1>1, <1>2, <1>3, PTL DEF Spec

-----------------------------------------------------------------------------
(*                      What the invariant says                            *)

LEMMA CallKinds ==
  ASSUME TreeInv
  PROVE  \/ call = Returned /\ call.fn = "none"
         \/ call = Destroyed /\ call.fn = "destroyed"
         \/ call.fn = "insertIntoParent"
         \/ call.fn = "deleteEntry"
BY DEF TreeInv, Consistent, Call, Returned, Destroyed

(* The whole tree that a call finds.                                       *)
LEMMA TreeBetweenCalls ==
  ASSUME TreeInv, call = Returned, root # NULL
  PROVE  /\ unfreed = {} /\ root \in Node /\ Settled(nodes, root)
         /\ \E H, R : WholeTree(H, R)
BY ReturnedCall DEF TreeInv, Consistent, Stored, Settled, SomeTree, WholeTree

LEMMA NoTreeBetweenCalls ==
  ASSUME TreeInv, call = Returned, root = NULL
  PROVE  unfreed = {} /\ DOMAIN nodes = {}
BY ReturnedCall, NULLAssumption DEF TreeInv, Consistent, Stored

LEMMA ConsistentTypes == TreeInv => TypeOK
<1> SUFFICES ASSUME TreeInv PROVE TypeOK
  OBVIOUS
<1>1. /\ NodeTypes(nodes, DOMAIN nodes) /\ root \in Node \union {NULL}
      /\ call \in Call /\ unfreed \subseteq DOMAIN nodes
  <2>1. ASSUME DOMAIN nodes = {}
        PROVE  NodeTypes(nodes, DOMAIN nodes)
    BY <2>1 DEF NodeTypes
  <2>2. call \in Call
    BY DEF TreeInv, Consistent
  <2>3. CASE call.fn = "none"
    BY <2>1, <2>2, <2>3 DEF TreeInv, Consistent, Stored, Settled
  <2>4. CASE call.fn = "destroyed"
    BY <2>1, <2>2, <2>4 DEF TreeInv, Consistent
  <2>5. CASE call.fn = "insertIntoParent"
    BY <2>2, <2>5 DEF TreeInv, Consistent, HalfSplit
  <2>6. CASE call.fn = "deleteEntry"
    BY <2>2, <2>6 DEF TreeInv, Consistent, EntryLeft
  <2> QED
    BY <2>3, <2>4, <2>5, <2>6, CallKinds
<1>2. \A n \in DOMAIN nodes : nodes[n] \in IF nodes[n].isLeaf THEN LeafRecord ELSE InnerRecord
  BY <1>1, NodeFields
<1> QED
  BY <1>1, <1>2 DEF TypeOK, NodeTypes

(* BPlusTree's TypeOK: the heap holds leaves and inner nodes, and every    *)
(* pointer the code follows is one.                                        *)
THEOREM TreeTypeCorrect ==
  ASSUME nodeSize >= 3
  PROVE  Spec /\ []MemoryLeft => []TypeOK
BY TreeAlwaysConsistent, ConsistentTypes, PTL

LEMMA TreeKeysFound ==
  ASSUME TreeInv
  PROVE  EveryKeyIsFound
<1> SUFFICES ASSUME call = Returned, NEW leaf \in Leaves, NEW i \in 1..numOfKeys(leaf)
             PROVE  findLeaf(nodes[leaf].keys[i]) = leaf
  BY DEF EveryKeyIsFound
<1>1. leaf \in DOMAIN nodes /\ nodes[leaf].isLeaf /\ i \in 1..Len(nodes[leaf].keys)
  BY DEF Leaves, LiveNodes, numOfKeys
<1>2. root # NULL
  BY <1>1, NoTreeBetweenCalls
<1>3. PICK H, R : WholeTree(H, R)
  BY <1>2, TreeBetweenCalls
<1>4. IsTree(nodes, DOMAIN nodes, root, H, R) /\ NodeTypes(nodes, DOMAIN nodes)
  BY <1>3 DEF WholeTree, IsTree, IsHeap
<1> DEFINE v == nodes[leaf].keys[i]
           l == findLeaf(v)
<1>5. v \in R[leaf]
  BY <1>1, <1>4 DEF IsTree, IsHeap, KeysInRange, LeafKeys
<1>6. v \in Int
  <2>1. nodes[leaf].keys \in Seq(Int)
    BY <1>1, <1>4, NodeFields
  <2> QED
    BY <1>1, <2>1
<1> HIDE DEF v
<1>7. l \in DOMAIN nodes /\ nodes[l].isLeaf /\ v \in R[l]
  BY <1>3, <1>6, FindLeafInRange
<1> HIDE DEF l
<1>8. H[l] = 0 /\ H[leaf] = 0
  BY <1>1, <1>4, <1>7 DEF IsTree, IsHeap, Levels
<1>9. l = leaf
  BY <1>1, <1>4, <1>5, <1>7, <1>8 DEF IsTree, IsHeap, Intervals
<1> QED
  BY <1>9 DEF l, v

(* EveryKeyIsFound: no split, merge or redistribution leaves a separator   *)
(* that hides a key from findLeaf.                                         *)
THEOREM EveryKeyStaysFindable ==
  ASSUME nodeSize >= 3
  PROVE  Spec /\ []MemoryLeft => []EveryKeyIsFound
<1>1. TreeInv => EveryKeyIsFound
  BY TreeKeysFound
<1> QED
  BY <1>1, TreeAlwaysConsistent, PTL

LEMMA TreeParents ==
  ASSUME TreeInv
  PROVE  ParentPointers
<1> SUFFICES ASSUME call = Returned
             PROVE  /\ root # NULL => nodes[root].parent = NULL
                    /\ \A n \in InnerNodes : /\ Len(nodes[n].pointers) = numOfKeys(n) + 1
                                             /\ IsInjective(nodes[n].pointers)
                    /\ \A n \in LiveNodes \ {root} :
                         {p \in InnerNodes : n \in Children(p)} = {nodes[n].parent}
  BY DEF ParentPointers
<1>1. CASE root = NULL
  <2>1. LiveNodes = {}
    BY <1>1, NoTreeBetweenCalls DEF LiveNodes
  <2> QED
    BY <1>1, <2>1 DEF InnerNodes
<1>2. CASE root # NULL
  <2>1. PICK H, R : WholeTree(H, R)
    BY <1>2, TreeBetweenCalls
  <2> DEFINE L == DOMAIN nodes
  <2>2. IsTree(nodes, L, root, H, R) /\ IsHeap(nodes, L, root, H, R, R, {})
        /\ NodeTypes(nodes, L)
    BY <2>1 DEF WholeTree, IsTree, IsHeap
  <2>3. LiveNodes = L /\ \A n : n \in InnerNodes <=> n \in L /\ ~nodes[n].isLeaf
    BY <1>2, TreeBetweenCalls DEF LiveNodes, InnerNodes, Leaves
  <2>4. nodes[root].parent = NULL
    BY <2>2 DEF IsHeap, Attached
  <2>5. ASSUME NEW n \in InnerNodes
        PROVE  /\ Len(nodes[n].pointers) = numOfKeys(n) + 1
               /\ IsInjective(nodes[n].pointers)
    <3>1. n \in L /\ ~nodes[n].isLeaf
      BY <2>3
    <3>2. Len(nodes[n].pointers) = numOfKeys(n) + 1
      BY <2>2, <3>1 DEF IsHeap, KeysInRange, InnerKeys, numOfKeys
    <3>3. nodes[n].pointers \in Seq(Node)
      BY <2>2, <3>1, NodeFields
    <3>4. \A i, m \in 1..Len(nodes[n].pointers) :
            nodes[n].pointers[i] = nodes[n].pointers[m] => i = m
      BY <2>2, <3>1, ChildrenDiffer
    <3>5. DOMAIN nodes[n].pointers = 1..Len(nodes[n].pointers)
      BY <3>3
    <3> QED
      BY <3>2, <3>4, <3>5 DEF IsInjective
  <2>6. ASSUME NEW n \in L \ {root}
        PROVE  {p \in InnerNodes : n \in Children(p)} = {nodes[n].parent}
    <3>1. HangsIn(nodes, L, n, nodes[n].parent)
      BY <2>2 DEF IsHeap, Attached
    <3>2. /\ nodes[n].parent \in InnerNodes
          /\ n \in Children(nodes[n].parent)
      BY <2>3, <3>1, InToSet DEF HangsIn, Children
    <3>3. ASSUME NEW p \in InnerNodes, n \in Children(p)
          PROVE  p = nodes[n].parent
      <4>1. p \in L /\ ~nodes[p].isLeaf
        BY <2>3
      <4>2. PICK i \in 1..Len(nodes[p].pointers) : nodes[p].pointers[i] = n
        BY <3>3, <4>1, InToSet DEF Children
      <4> QED
        BY <2>2, <4>1, <4>2, ChildOf
    <3> QED
      BY <3>2, <3>3
  <2> QED
    BY <2>3, <2>4, <2>5, <2>6
<1> QED
  BY <1>1, <1>2

(* ParentPointers: parent pointers and child pointers agree after every    *)
(* split, merge and redistribution.                                        *)
THEOREM ParentsAndChildrenAgree ==
  ASSUME nodeSize >= 3
  PROVE  Spec /\ []MemoryLeft => []ParentPointers
<1>1. TreeInv => ParentPointers
  BY TreeParents
<1> QED
  BY <1>1, TreeAlwaysConsistent, PTL

LEMMA PendingEntries ==
  ASSUME TreeInv
  PROVE  PendingCallFindsItsEntry
<1>1. ASSUME call.fn = "insertIntoParent"
      PROVE  LET parent == nodes[call.oldChild].parent
             IN  /\ nodes[call.newChild].parent = parent
                 /\ parent = NULL => call.oldChild = root
                 /\ parent # NULL => call.oldChild \in Children(parent)
  <2> DEFINE a == call.oldChild
             b == call.newChild
             parent == nodes[a].parent
             L == DOMAIN nodes
  <2>1. HalfSplit(nodes, root, a, call.newKey, b)
    BY <1>1 DEF TreeInv, Consistent
  <2>2. PICK H, R : IsForest(nodes, L, root, H, R, a, call.newKey, b)
    BY <2>1 DEF HalfSplit, SomeForest
  <2> HIDE DEF a, b
  <2>3. nodes[b].parent = parent
    BY <2>2 DEF IsForest, IsPair
  <2>4. IF parent = NULL THEN a = root
        ELSE /\ ~nodes[parent].isLeaf
             /\ PositionOf(nodes[parent].pointers, a) \in 1..Len(nodes[parent].pointers)
             /\ nodes[parent].pointers[PositionOf(nodes[parent].pointers, a)] = a
    BY <2>2, ParentOfLeft
  <2>5. parent # NULL => a \in Children(parent)
    BY <2>4, InToSet DEF Children
  <2> QED
    BY <2>3, <2>4, <2>5 DEF a, b
<1>2. ASSUME call.fn = "deleteEntry"
      PROVE  \E i \in 1..numOfKeys(call.node) :
               /\ nodes[call.node].keys[i] = call.toDelete
               /\ nodes[call.node].pointers[i + 1] = call.pointer
  BY <1>2 DEF TreeInv, Consistent, EntryLeft, numOfKeys
<1> QED
  BY <1>1, <1>2 DEF PendingCallFindsItsEntry

(* PendingCallFindsItsEntry: the unbounded searches of                     *)
(* getLeftPointerPosition and removeEntryFromTheNode end, and a deleteEntry *)
(* that recurs removes the key on the left of the pointer it removes.      *)
THEOREM PendingCallsFindTheirEntries ==
  ASSUME nodeSize >= 3
  PROVE  Spec /\ []MemoryLeft => []PendingCallFindsItsEntry
<1>1. TreeInv => PendingCallFindsItsEntry
  BY PendingEntries
<1> QED
  BY <1>1, TreeAlwaysConsistent, PTL

LEMMA NothingReachable ==
  ASSUME DOMAIN nodes = {}, root = NULL
  PROVE  Reachable = {}
<1> DEFINE steps == Cardinality(DOMAIN nodes)
           Recursion(f) ==
             f = [d \in 0..steps |-> IF d = 0 THEN {root} \ {NULL}
                                     ELSE UNION {Children(n) : n \in f[d - 1]}]
           level == CHOOSE f : Recursion(f)
           rows == [d \in 0..0 |-> {}]
<1>1. Reachable = UNION {level[d] : d \in 0..steps}
  BY Zenon DEF Reachable, level, steps
<1>2. steps = 0
  BY FS_EmptySet
<1> HIDE DEF steps
<1>3. Recursion(rows)
  <2>1. \A d \in 0..0 : d = 0
    OBVIOUS
  <2> QED
    BY <1>2, <2>1
<1>4. Recursion(level)
  <2> HIDE DEF Recursion
  <2> QED
    BY <1>3
<1> HIDE DEF level
<1>5. level[0] = {}
  BY <1>2, <1>4
<1>6. 0..steps = {0}
  BY <1>2
<1> QED
  BY <1>1, <1>5, <1>6

LEMMA AllNodesInTree ==
  ASSUME TreeInv
  PROVE  NothingLeaks
<1>1. ASSUME call = Returned
      PROVE  DOMAIN nodes = Reachable /\ unfreed = {}
  <2>1. CASE root = NULL
    BY <1>1, <2>1, NoTreeBetweenCalls, NothingReachable
  <2>2. CASE root # NULL
    BY <1>1, <2>2, TreeBetweenCalls, AllReachable
  <2> QED
    BY <2>1, <2>2
<1>2. ASSUME call = Destroyed
      PROVE  DOMAIN nodes = {}
  BY <1>2, ReturnedCall DEF TreeInv, Consistent
<1> QED
  BY <1>1, <1>2 DEF NothingLeaks

(* NothingLeaks: between calls the allocated nodes are the nodes of the    *)
(* tree, and BPlusTree_destroy frees them all.                             *)
THEOREM NoNodeLeaks ==
  ASSUME nodeSize >= 3
  PROVE  Spec /\ []MemoryLeft => []NothingLeaks
<1>1. TreeInv => NothingLeaks
  BY AllNodesInTree
<1> QED
  BY <1>1, TreeAlwaysConsistent, PTL

LEMMA OddNodesHaveMinimum ==
  ASSUME nodeSize >= 3, nodeSize % 2 = 1, TreeInv
  PROVE  Occupancy
<1> SUFFICES ASSUME call = Returned, NEW n \in LiveNodes
             PROVE  /\ numOfKeys(n) <= nodeSize
                    /\ n # root => numOfKeys(n) >= minNumberofKeys(n)
  BY DEF Occupancy
<1>1. n \in DOMAIN nodes
  BY DEF LiveNodes
<1>2. Settled(nodes, root)
  BY <1>1, NoTreeBetweenCalls, TreeBetweenCalls
<1>3. /\ numOfKeys(n) <= nodeSize
      /\ n # root => numOfKeys(n) >= leastKeys(nodes[n])
  BY <1>1, <1>2 DEF Settled, Filled, numOfKeys
<1>4. rightInnerKeys(nodeSize) = minInnerKeys(nodeSize)
  <2>1. rightInnerKeys(nodeSize) \in minInnerKeys(nodeSize)..nodeSize
    BY InnerSplitOfOddNodes, nodeSizeAssumption
  <2>2. /\ rightInnerKeys(nodeSize) \in Nat /\ minInnerKeys(nodeSize) \in Nat
        /\ rightInnerKeys(nodeSize) <= minInnerKeys(nodeSize)
    BY Thresholds
  <2> QED
    BY <2>1, <2>2
<1>5. leastKeys(nodes[n]) = minNumberofKeys(n)
  BY <1>4 DEF leastKeys, minNumberofKeys
<1> QED
  BY <1>3, <1>5

(* Occupancy, for odd node sizes (for even ones a split leaves its right   *)
(* half one key short, see InnerSplitOfEvenNodes): no node is overfull and *)
(* none but the root has fewer keys than deleteEntry's minimum.            *)
THEOREM OddNodesStayOccupied ==
  ASSUME nodeSize >= 3, nodeSize % 2 = 1
  PROVE  Spec /\ []MemoryLeft => []Occupancy
<1>1. TreeInv => Occupancy
  BY OddNodesHaveMinimum
<1> QED
  BY <1>1, TreeAlwaysConsistent, PTL

LEMMA ParentsHaveKeys ==
  ASSUME TreeInv
  PROVE  NeighbourExists
<1> SUFFICES ASSUME NEW n \in LiveNodes, nodes[n].parent # NULL
             PROVE  numOfKeys(nodes[n].parent) >= 1
  BY DEF NeighbourExists
<1> DEFINE L == LiveNodes
           p == nodes[n].parent
<1>1. n \in DOMAIN nodes /\ L = DOMAIN nodes \ unfreed
  BY DEF LiveNodes
<1> HIDE DEF L
<1>2. ASSUME p \in L, NEW E, Filled(nodes, L, E)
      PROVE  numOfKeys(p) >= 1
  BY <1>2 DEF Filled, numOfKeys
<1>3. CASE call = Returned
  <2>1. Settled(nodes, root) /\ unfreed = {}
    BY <1>1, <1>3, NoTreeBetweenCalls, TreeBetweenCalls
  <2>2. L = DOMAIN nodes /\ Filled(nodes, L, {root})
    BY <1>1, <2>1 DEF Settled
  <2>3. p \in L
    BY <1>1, <2>1, <2>2 DEF Settled, SomeTree, IsTree, IsHeap, Attached, HangsIn
  <2> QED
    BY <1>2, <2>2, <2>3
<1>4. CASE call = Destroyed
  BY <1>1, <1>4, ReturnedCall DEF TreeInv, Consistent
<1>5. CASE call.fn = "insertIntoParent"
  <2>1. unfreed = {} /\ HalfSplit(nodes, root, call.oldChild, call.newKey, call.newChild)
    BY <1>5 DEF TreeInv, Consistent
  <2>2. L = DOMAIN nodes /\ Filled(nodes, L, {root} \ {call.oldChild})
    BY <1>1, <2>1 DEF HalfSplit
  <2> DEFINE a == call.oldChild
             k == call.newKey
             b == call.newChild
  <2>3. PICK H, R : IsForest(nodes, L, root, H, R, a, k, b)
    BY <2>1, <2>2 DEF HalfSplit, SomeForest
  <2> HIDE DEF a, k, b
  <2>4. CASE n = b
    <3>1. p = nodes[a].parent
      BY <2>3, <2>4 DEF IsForest, IsPair
    <3>2. p \in L
      BY <2>3, <3>1, ParentOfLeft
    <3> QED
      BY <1>2, <2>2, <3>2
  <2>5. CASE n # b
    <3>1. n \in L \ ({b} \union {root})
      <4>1. nodes[root].parent = NULL
        BY <2>3 DEF IsForest, IsHeap, Attached
      <4> QED
        BY <1>1, <2>2, <2>5, <4>1
    <3>2. p \in L
      BY <2>3, <3>1 DEF IsForest, IsHeap, Attached, HangsIn
    <3> QED
      BY <1>2, <2>2, <3>2
  <2> QED
    BY <2>4, <2>5
<1>6. CASE call.fn = "deleteEntry"
  <2> DEFINE q == call.node
             j == PositionOf(nodes[q].keys, call.toDelete)
             h == takenOut(nodes, q, j)
  <2>1. EntryLeft(nodes, L, root, q, call.toDelete, call.pointer)
    BY <1>1, <1>6 DEF TreeInv, Consistent
  <2>2. /\ NodeTypes(nodes, DOMAIN nodes) /\ NodeTypes(nodes, L) /\ q \in L /\ ~nodes[q].isLeaf
        /\ Filled(nodes, L, {root}) /\ SomeTree(h, L, root)
        /\ Len(nodes[q].pointers) = Len(nodes[q].keys) + 1 /\ j \in 1..Len(nodes[q].keys)
    BY <2>1 DEF EntryLeft, NodeTypes
  <2>3. h = takenOut(nodes, q, j)
    OBVIOUS
  <2> HIDE DEF h, j, q
  <2>4. LostChild(h, nodes, q, j)
    BY <2>2, <2>3, TakenOut
  <2>5. h[n].parent = p
    BY <1>1, <2>4 DEF LostChild
  <2>6. p \in L
    <3>1. PICK H, R : IsTree(h, L, root, H, R)
      BY <2>2 DEF SomeTree
    <3>2. h[root].parent = NULL
      BY <3>1 DEF IsTree, IsHeap, Attached
    <3>3. n \in L \ ({} \union {root})
      BY <2>5, <3>2 DEF L
    <3> QED
      BY <2>5, <3>1, <3>3 DEF IsTree, IsHeap, Attached, HangsIn
  <2> QED
    BY <1>2, <2>2, <2>6
<1> QED
  BY <1>3, <1>4, <1>5, <1>6, CallKinds

(* NeighbourExists: whenever deleteEntry looks for a neighbour in a        *)
(* parent, the parent has a separator and so a second child.               *)
THEOREM NeighboursAlwaysExist ==
  ASSUME nodeSize >= 3
  PROVE  Spec /\ []MemoryLeft => []NeighbourExists
<1>1. TreeInv => NeighbourExists
  BY ParentsHaveKeys
<1> QED
  BY <1>1, TreeAlwaysConsistent, PTL

-----------------------------------------------------------------------------
(*                           The row of leaves                             *)

(* The live leaves, with the range of values each stands for.              *)
LeafRow(h, L, R) ==
  /\ NodeTypes(h, L) /\ R \in [L -> SUBSET Int] /\ Chain(h, L, R)
  /\ \A l \in LeafSet(h, L) : R[l] # {} /\ Convex(R[l])
  /\ \A l, m \in LeafSet(h, L) : l # m => R[l] \cap R[m] = {}
  /\ \A l \in LeafSet(h, L) : /\ Ascending(h[l].keys) /\ LeafKeys(h, R, l)
                              /\ Len(h[l].keys) >= 1

LEMMA HeapHasRow ==
  ASSUME NEW h, NEW L, NEW r, NEW H, NEW R, NEW W, NEW B, IsHeap(h, L, r, H, R, W, B),
         NEW E, Filled(h, L, E)
  PROVE  LeafRow(h, L, R)
<1>1. /\ NodeTypes(h, L) /\ R \in [L -> SUBSET Int] /\ Chain(h, L, R)
      /\ \A l \in L : R[l] # {} /\ Convex(R[l])
      /\ \A l, m \in L : H[l] = H[m] /\ l # m => R[l] \cap R[m] = {}
      /\ \A l \in L : h[l].isLeaf => H[l] = 0
      /\ \A l \in L : Ascending(h[l].keys) /\ (h[l].isLeaf => LeafKeys(h, R, l))
  BY DEF IsHeap, Intervals, Levels, KeysInRange
<1>2. \A l \in L : Len(h[l].keys) >= 1
  BY DEF Filled
<1>3. \A l, m \in LeafSet(h, L) : l # m => R[l] \cap R[m] = {}
  BY <1>1 DEF LeafSet
<1> QED
  BY <1>1, <1>2, <1>3 DEF LeafRow, LeafSet

(* Other inner nodes do not change it.                                     *)
LEMMA RowOfSameLeaves ==
  ASSUME NEW h, NEW g, NEW L, NEW R, LeafRow(h, L, R), NodeTypes(g, L),
         \A n \in L : g[n].isLeaf <=> h[n].isLeaf,
         \A n \in L : h[n].isLeaf => g[n] = h[n]
  PROVE  LeafRow(g, L, R)
<1>1. LeafSet(g, L) = LeafSet(h, L) /\ \A l \in LeafSet(h, L) : g[l] = h[l]
  BY DEF LeafSet
<1>2. \A l \in LeafSet(h, L) : LeafKeys(h, R, l) => LeafKeys(g, R, l)
  BY <1>1 DEF LeafKeys
<1>3. Chain(g, L, R)
  <2>1. Chain(h, L, R)
    BY DEF LeafRow
  <2>2. \A l \in LeafSet(h, L) : g[l].next = h[l].next /\ g[l].prev = h[l].prev /\ R[l] = R[l]
    BY <1>1
  <2> QED
    BY <1>1, <2>1, <2>2, SameLeaves
<1> QED
  BY <1>1, <1>2, <1>3 DEF LeafRow

LEMMA LiveLeavesInRow ==
  ASSUME TreeInv, LiveNodes # {}
  PROVE  \E R : LeafRow(nodes, LiveNodes, R)
<1> DEFINE L == LiveNodes
<1>1. L # {} /\ L = DOMAIN nodes \ unfreed
  BY DEF LiveNodes
<1> HIDE DEF L
<1>2. CASE call = Returned
  <2>1. Settled(nodes, root) /\ unfreed = {}
    BY <1>1, <1>2, NoTreeBetweenCalls, TreeBetweenCalls
  <2>2. L = DOMAIN nodes /\ Filled(nodes, L, {root})
    BY <1>1, <2>1 DEF Settled
  <2>3. PICK H, R : IsTree(nodes, L, root, H, R)
    BY <2>1, <2>2 DEF Settled, SomeTree
  <2>4. LeafRow(nodes, L, R)
    BY <2>2, <2>3, HeapHasRow DEF IsTree
  <2> QED
    BY <2>4 DEF L
<1>3. CASE call = Destroyed
  BY <1>1, <1>3, ReturnedCall DEF TreeInv, Consistent
<1>4. CASE call.fn = "insertIntoParent"
  <2>1. unfreed = {} /\ HalfSplit(nodes, root, call.oldChild, call.newKey, call.newChild)
    BY <1>4 DEF TreeInv, Consistent
  <2>2. L = DOMAIN nodes /\ Filled(nodes, L, {root} \ {call.oldChild})
    BY <1>1, <2>1 DEF HalfSplit
  <2>3. PICK H, R : IsForest(nodes, L, root, H, R, call.oldChild, call.newKey, call.newChild)
    BY <2>1, <2>2 DEF HalfSplit, SomeForest
  <2>4. LeafRow(nodes, L, R)
    BY <2>2, <2>3, HeapHasRow DEF IsForest
  <2> QED
    BY <2>4 DEF L
<1>5. CASE call.fn = "deleteEntry"
  <2> DEFINE q == call.node
             j == PositionOf(nodes[q].keys, call.toDelete)
             h == takenOut(nodes, q, j)
  <2>1. EntryLeft(nodes, L, root, q, call.toDelete, call.pointer)
    BY <1>1, <1>5 DEF TreeInv, Consistent
  <2>2. /\ NodeTypes(nodes, DOMAIN nodes) /\ NodeTypes(nodes, L) /\ q \in L /\ ~nodes[q].isLeaf
        /\ Filled(nodes, L, {root}) /\ SomeTree(h, L, root)
        /\ Len(nodes[q].pointers) = Len(nodes[q].keys) + 1 /\ j \in 1..Len(nodes[q].keys)
    BY <2>1 DEF EntryLeft, NodeTypes
  <2>3. h = takenOut(nodes, q, j)
    OBVIOUS
  <2> HIDE DEF h, j, q
  <2>4. LostChild(h, nodes, q, j)
    BY <2>2, <2>3, TakenOut
  <2>5. /\ ~h[q].isLeaf /\ \A n \in L : n # q => h[n] = nodes[n]
    BY <1>1, <2>4 DEF LostChild
  <2>6. PICK H, R : IsTree(h, L, root, H, R)
    BY <2>2 DEF SomeTree
  <2>7. IsHeap(h, L, root, H, R, R, {})
    BY <2>6 DEF IsTree
  <2>8. LeafRow(nodes, L, R)
    <3>1. /\ NodeTypes(h, L) /\ R \in [L -> SUBSET Int] /\ Chain(h, L, R)
          /\ \A l \in L : R[l] # {} /\ Convex(R[l])
          /\ \A l, m \in L : H[l] = H[m] /\ l # m => R[l] \cap R[m] = {}
          /\ \A l \in L : h[l].isLeaf => H[l] = 0
          /\ \A l \in L : Ascending(h[l].keys) /\ (h[l].isLeaf => LeafKeys(h, R, l))
      BY <2>7 DEF IsHeap, Intervals, Levels, KeysInRange
    <3>2. \A l \in LeafSet(h, L) : Len(h[l].keys) >= 1
      BY <2>2, <2>5 DEF LeafSet, Filled
    <3>3. \A l, m \in LeafSet(h, L) : l # m => R[l] \cap R[m] = {}
      BY <3>1 DEF LeafSet
    <3>4. LeafRow(h, L, R)
      BY <3>1, <3>2, <3>3 DEF LeafRow, LeafSet
    <3>5. /\ \A n \in L : nodes[n].isLeaf <=> h[n].isLeaf
          /\ \A n \in L : h[n].isLeaf => nodes[n] = h[n]
      BY <2>2, <2>5
    <3> QED
      BY <2>2, <3>4, <3>5, RowOfSameLeaves
  <2> QED
    BY <2>8 DEF L
<1> QED
  BY <1>2, <1>3, <1>4, <1>5, CallKinds

LEMMA MeetsLess ==
  ASSUME NEW A \in SUBSET Int, NEW B \in SUBSET Int, Convex(A), Convex(B), A \cap B = {},
         Meets(A, B), NEW x \in A, NEW y \in B
  PROVE  x < y
<1>1. PICK a \in A : a + 1 \in B
  BY DEF Meets
<1>2. SUFFICES ASSUME y <= x PROVE FALSE
  OBVIOUS
<1>3. CASE x <= a
  <2>1. y <= x /\ x <= a + 1 /\ x \in Int
    BY <1>2, <1>3
  <2>2. x \in B
    BY <1>1, <2>1 DEF Convex
  <2> QED
    BY <2>2
<1>4. CASE a < x
  <2>1. a <= a + 1 /\ a + 1 <= x /\ a + 1 \in Int
    BY <1>4
  <2>2. a + 1 \in A
    BY <1>1, <2>1 DEF Convex
  <2> QED
    BY <1>1, <2>2
<1> QED
  BY <1>3, <1>4

LEMMA RowIsChain ==
  ASSUME NEW R, LeafRow(nodes, LiveNodes, R)
  PROVE  LeafChain
<1>1. Leaves = LeafSet(nodes, LiveNodes)
  BY DEF Leaves, LeafSet
<1>2. /\ NodeTypes(nodes, LiveNodes) /\ R \in [LiveNodes -> SUBSET Int]
      /\ Chain(nodes, LiveNodes, R) /\ Leaves \subseteq LiveNodes
      /\ \A l \in Leaves : R[l] # {} /\ Convex(R[l])
      /\ \A l, m \in Leaves : l # m => R[l] \cap R[m] = {}
      /\ \A l \in Leaves : /\ Ascending(nodes[l].keys) /\ LeafKeys(nodes, R, l)
                           /\ Len(nodes[l].keys) >= 1
  BY <1>1 DEF LeafRow, Leaves
<1>3. /\ \A l \in Leaves : /\ nodes[l].next \in Leaves \union {NULL}
                           /\ nodes[l].prev \in Leaves \union {NULL}
      /\ \A l, m \in Leaves : /\ nodes[l].next = m <=> Meets(R[l], R[m])
                              /\ nodes[m].prev = l <=> Meets(R[l], R[m])
      /\ \E f \in Leaves : \A l \in Leaves : nodes[l].prev = NULL <=> l = f
  BY <1>1, <1>2 DEF Chain
<1>4. ASSUME NEW leaf \in Leaves, NEW next, next = nodes[leaf].next, next # NULL
      PROVE  /\ next \in Leaves /\ nodes[next].prev = leaf
             /\ Last(nodes[leaf].keys) < Head(nodes[next].keys)
  <2>1. next \in Leaves /\ Meets(R[leaf], R[next]) /\ nodes[next].prev = leaf
    BY <1>3, <1>4
  <2>2. leaf # next
    <3>1. ~Meets(R[leaf], R[leaf])
      BY DEF Meets
    <3> QED
      BY <2>1, <3>1
  <2> DEFINE s == nodes[leaf].keys
             u == nodes[next].keys
  <2>3. /\ s \in Seq(Int) /\ u \in Seq(Int) /\ Len(s) >= 1 /\ Len(u) >= 1
        /\ \A i \in 1..Len(s) : s[i] \in R[leaf]
        /\ \A i \in 1..Len(u) : u[i] \in R[next]
    BY <1>2, <2>1, NodeFields DEF LeafKeys
  <2> HIDE DEF s, u
  <2>4. Last(s) \in R[leaf] /\ Head(u) \in R[next]
    <3>1. Last(s) = s[Len(s)] /\ Len(s) \in 1..Len(s)
      BY <2>3 DEF Last
    <3>2. u # <<>> /\ 1 \in 1..Len(u)
      BY <2>3
    <3>3. Head(u) = u[1]
      BY <2>3, <3>2
    <3> QED
      BY <2>3, <3>1, <3>2, <3>3
  <2>5. /\ R[leaf] \in SUBSET Int /\ R[next] \in SUBSET Int
        /\ Convex(R[leaf]) /\ Convex(R[next]) /\ R[leaf] \cap R[next] = {}
    BY <1>2, <2>1, <2>2
  <2>6. Last(s) < Head(u)
    BY <2>1, <2>4, <2>5, MeetsLess
  <2> QED
    BY <2>1, <2>6 DEF s, u
<1>5. ASSUME NEW leaf \in Leaves, NEW prev, prev = nodes[leaf].prev, prev # NULL
      PROVE  prev \in Leaves /\ nodes[prev].next = leaf
  BY <1>3, <1>5
<1>6. Cardinality({leaf \in Leaves : nodes[leaf].prev = NULL}) = 1
  <2>1. PICK f \in Leaves : \A l \in Leaves : nodes[l].prev = NULL <=> l = f
    BY <1>3
  <2>2. {leaf \in Leaves : nodes[leaf].prev = NULL} = {f}
    BY <2>1
  <2> QED
    BY <2>2, FS_Singleton
<1> QED
  BY <1>2, <1>4, <1>5, <1>6 DEF LeafChain

LEMMA LeavesChained ==
  ASSUME TreeInv
  PROVE  LeafChain
<1>1. CASE LiveNodes = {}
  BY <1>1 DEF LeafChain, Leaves
<1>2. CASE LiveNodes # {}
  BY <1>2, LiveLeavesInRow, RowIsChain
<1> QED
  BY <1>1, <1>2

(* LeafChain: at every moment, also in the middle of a cascade, the links  *)
(* make one chain of all the leaves in ascending key order.                *)
THEOREM LeavesStayChained ==
  ASSUME nodeSize >= 3
  PROVE  Spec /\ []MemoryLeft => []LeafChain
<1>1. TreeInv => LeafChain
  BY LeavesChained
<1> QED
  BY <1>1, TreeAlwaysConsistent, PTL

-----------------------------------------------------------------------------
(*                          Equal descents                                 *)

LEMMA HeightsAgree ==
  ASSUME TreeInv
  PROVE  Balanced
<1> SUFFICES ASSUME call = Returned PROVE Balanced
  BY DEF Balanced
<1> DEFINE L == DOMAIN nodes
           Recursion(f) ==
             f = [n \in L |-> IF nodes[n].isLeaf THEN 1 ELSE 1 + f[nodes[n].pointers[1]]]
           height == CHOOSE f : Recursion(f)
<1>1. SUFFICES \A n \in InnerNodes : \A c1, c2 \in Children(n) : height[c1] = height[c2]
  BY <1>1, Zenon DEF Balanced, height
<1>2. CASE root = NULL
  BY <1>2, NoTreeBetweenCalls DEF InnerNodes, LiveNodes
<1>3. CASE root # NULL
  <2>1. PICK H, R : WholeTree(H, R)
    BY <1>3, TreeBetweenCalls
  <2>2. IsTree(nodes, L, root, H, R) /\ H \in [L -> Nat]
        /\ \A n \in L : nodes[n].isLeaf <=> H[n] = 0
    BY <2>1 DEF WholeTree, IsTree, IsHeap, Levels
  <2>3. ASSUME NEW n \in L, ~nodes[n].isLeaf, NEW c, c \in Children(n)
        PROVE  c \in L /\ H[n] = H[c] + 1
    <3>1. PICK i \in 1..Len(nodes[n].pointers) : nodes[n].pointers[i] = c
      BY <2>3, InToSet DEF Children
    <3> QED
      BY <2>2, <2>3, <3>1, ChildOf
  <2>4. ASSUME NEW n \in L, ~nodes[n].isLeaf
        PROVE  nodes[n].pointers[1] \in L /\ H[n] = H[nodes[n].pointers[1]] + 1
    <3>1. /\ nodes[n].keys \in Seq(Int) /\ Len(nodes[n].pointers) = Len(nodes[n].keys) + 1
      BY <2>2, <2>4, NodeFields DEF IsTree, IsHeap, KeysInRange, InnerKeys
    <3>2. 1 \in 1..Len(nodes[n].pointers)
      <4>1. Len(nodes[n].keys) \in Nat
        BY <3>1
      <4> QED
        BY <3>1, <4>1
    <3> QED
      BY <2>2, <2>4, <3>2, ChildOf
  <2> DEFINE g == [n \in L |-> H[n] + 1]
  <2>5. Recursion(g)
    <3>1. ASSUME NEW n \in L
          PROVE  g[n] = IF nodes[n].isLeaf THEN 1 ELSE 1 + g[nodes[n].pointers[1]]
      <4>1. CASE nodes[n].isLeaf
        BY <2>2, <4>1
      <4>2. CASE ~nodes[n].isLeaf
        <5> DEFINE c == nodes[n].pointers[1]
        <5>1. c \in L /\ H[n] = H[c] + 1 /\ H[c] \in Nat
          BY <2>2, <2>4, <4>2
        <5> HIDE DEF c
        <5>2. g[n] = 1 + g[c]
          BY <5>1
        <5> QED
          BY <4>2, <5>2 DEF c
      <4> QED
        BY <4>1, <4>2
    <3>2. g = [n \in L |-> g[n]]
      OBVIOUS
    <3> HIDE DEF g
    <3> QED
      BY <3>1, <3>2
  <2>6. Recursion(height)
    <3> HIDE DEF Recursion
    <3> QED
      BY <2>5
  <2> HIDE DEF height
  <2> DEFINE T == {k \in Nat : \A n \in L : H[n] = k => height[n] = k + 1}
  <2>7. 0 \in T
    BY <2>2, <2>6
  <2>8. ASSUME NEW k \in Nat, k \in T
        PROVE  k + 1 \in T
    <3> SUFFICES ASSUME NEW n \in L, H[n] = k + 1
                 PROVE  height[n] = (k + 1) + 1
      OBVIOUS
    <3> DEFINE c == nodes[n].pointers[1]
    <3>1. ~nodes[n].isLeaf
      BY <2>2
    <3>2. c \in L /\ H[c] = k
      BY <2>2, <2>4, <3>1
    <3>3. height[n] = 1 + height[c]
      BY <2>6, <3>1
    <3>4. height[c] = k + 1
      BY <2>8, <3>2
    <3> HIDE DEF c
    <3> QED
      BY <3>3, <3>4
  <2>9. \A k \in Nat : k \in T
    <3> HIDE DEF T
    <3> QED
      BY <2>7, <2>8, SetInduction
  <2>10. \A n \in L : height[n] = H[n] + 1
    BY <2>2, <2>9
  <2>11. ASSUME NEW n \in InnerNodes, NEW c1 \in Children(n), NEW c2 \in Children(n)
         PROVE  height[c1] = height[c2]
    <3>1. n \in L /\ ~nodes[n].isLeaf
      BY DEF InnerNodes, Leaves, LiveNodes
    <3>2. /\ c1 \in L /\ H[n] = H[c1] + 1 /\ H[c1] \in Nat
          /\ c2 \in L /\ H[n] = H[c2] + 1 /\ H[c2] \in Nat
      BY <2>2, <2>3, <3>1
    <3>3. H[c1] = H[c2]
      BY <3>2
    <3> QED
      BY <2>10, <3>2, <3>3
  <2> QED
    BY <2>11
<1> QED
  BY <1>2, <1>3

(* Balanced: every descent from a node to a leaf has the same length.      *)
THEOREM TreeStaysBalanced ==
  ASSUME nodeSize >= 3
  PROVE  Spec /\ []MemoryLeft => []Balanced
<1>1. TreeInv => Balanced
  BY HeightsAgree
<1> QED
  BY <1>1, TreeAlwaysConsistent, PTL

-----------------------------------------------------------------------------
(*                       What findLeaf's leaf tells                        *)

(* A value that the leaf findLeaf returns does not have is in no leaf.     *)
LEMMA KeyAbsent ==
  ASSUME NEW H, NEW R, WholeTree(H, R), NEW leaf \in DOMAIN nodes, nodes[leaf].isLeaf,
         NEW v, v \in R[leaf], ~isDuplicateKey(leaf, v)
  PROVE  NoEntry(nodes, DOMAIN nodes, v)
<1> DEFINE L == DOMAIN nodes
<1>1. IsTree(nodes, L, root, H, R)
  BY DEF WholeTree
<1> SUFFICES ASSUME NEW l \in L, nodes[l].isLeaf, NEW i \in 1..Len(nodes[l].keys),
                    nodes[l].keys[i] = v
             PROVE  FALSE
  BY DEF NoEntry, HasEntry, ArrayHas, LeafSet
<1>2. LeafKeys(nodes, R, l) /\ H[l] = 0 /\ H[leaf] = 0
  BY <1>1 DEF IsTree, IsHeap, KeysInRange, Levels
<1>3. v \in R[l]
  BY <1>2 DEF LeafKeys
<1>4. H[l] = H[leaf] /\ l # leaf => R[l] \cap R[leaf] = {}
  BY <1>1 DEF IsTree, IsHeap, Intervals
<1>5. l = leaf
  BY <1>2, <1>3, <1>4
<1> QED
  BY <1>5, InToSet DEF isDuplicateKey

(* One that it has is there with its list of times.                        *)
HasList(leaf, i, v) ==
  /\ i \in 1..Len(nodes[leaf].keys) /\ nodes[leaf].keys[i] = v
  /\ nodes[leaf].pointers[i] \in Seq(Time) /\ nodes[leaf].pointers[i] # <<>>
  /\ HasEntry(nodes, DOMAIN nodes, v, nodes[leaf].pointers[i])

LEMMA KeyPresent ==
  ASSUME NEW H, NEW R, WholeTree(H, R), NEW leaf \in DOMAIN nodes, nodes[leaf].isLeaf,
         NEW v, isDuplicateKey(leaf, v), NEW i, i = PositionOf(nodes[leaf].keys, v)
  PROVE  HasList(leaf, i, v)
<1> DEFINE L == DOMAIN nodes
<1>1. NodeTypes(nodes, L) /\ LeafKeys(nodes, R, leaf)
  BY DEF WholeTree, IsTree, IsHeap, KeysInRange
<1>2. i \in 1..Len(nodes[leaf].keys) /\ nodes[leaf].keys[i] = v
  BY <1>1, KeyFound
<1>3. nodes[leaf].pointers \in Seq(Seq(Time)) /\ i \in 1..Len(nodes[leaf].pointers)
  BY <1>1, <1>2, NodeFields DEF LeafKeys
<1>4. nodes[leaf].pointers[i] \in Seq(Time) /\ nodes[leaf].pointers[i] # <<>>
  BY <1>1, <1>2, <1>3 DEF LeafKeys
<1>5. HasEntry(nodes, L, v, nodes[leaf].pointers[i])
  BY <1>2 DEF HasEntry, ArrayHas, LeafSet
<1> QED
  BY <1>2, <1>4, <1>5 DEF HasList

-----------------------------------------------------------------------------
(*                    Entries that a call adds or changes                  *)

(* A leaf of its own: the first record.                                    *)
LEMMA FirstEntry ==
  ASSUME NEW h, NEW g, NEW new, DOMAIN h = {}, DOMAIN g = {new}, g[new].isLeaf,
         NEW v, NEW e, g[new].keys = <<v>>, g[new].pointers = <<e>>
  PROVE  OneEntryMore(g, DOMAIN g, h, DOMAIN h, v, e) /\ NoEntry(h, DOMAIN h, v)
<1>1. LeafSet(g, DOMAIN g) = {new} /\ LeafSet(h, DOMAIN h) = {}
  BY DEF LeafSet
<1>2. \A w, x : ArrayHas(g[new].keys, g[new].pointers, w, x) <=> w = v /\ x = e
  BY DEF ArrayHas
<1>3. \A w, x : HasEntry(g, DOMAIN g, w, x) <=> w = v /\ x = e
  BY <1>1, <1>2 DEF HasEntry
<1>4. \A w, x : ~HasEntry(h, DOMAIN h, w, x)
  BY <1>1 DEF HasEntry
<1> QED
  BY <1>3, <1>4, Zenon DEF OneEntryMore, NoEntry

(* The leaf with the new record, before or instead of its split.           *)
LEMMA RecordEntries ==
  ASSUME NEW H, NEW R, WholeTree(H, R), NEW leaf \in DOMAIN nodes, nodes[leaf].isLeaf,
         NEW t \in Time, NEW v \in Value, v \in R[leaf], ~isDuplicateKey(leaf, v)
  PROVE  OneEntryMore(withRecord(leaf, t, v), DOMAIN nodes, nodes, DOMAIN nodes, v, <<t>>)
<1> DEFINE L == DOMAIN nodes
           g == withRecord(leaf, t, v)
           j == getInsertPoint(nodes[leaf].keys, v) + 1
           s == nodes[leaf].keys
           ps == nodes[leaf].pointers
<1>1. GotRecord(g, leaf, t, v)
  BY LeafGetsRecord
<1> HIDE DEF g
<1>2. /\ \A n \in L \ {leaf} : g[n] = nodes[n]
      /\ g[leaf].isLeaf
      /\ g[leaf].keys = InsertAt(s, j, v) /\ g[leaf].pointers = InsertAt(ps, j, <<t>>)
  BY <1>1 DEF GotRecord
<1>3. NodeTypes(nodes, L) /\ LeafKeys(nodes, R, leaf) /\ R[leaf] \in SUBSET Int
  BY DEF WholeTree, IsTree, IsHeap, KeysInRange, Intervals
<1>4. /\ s \in Seq(Int) /\ ps \in Seq(Seq(Time)) /\ Len(ps) = Len(s)
      /\ v \in Int /\ <<t>> \in Seq(Time)
  BY <1>3, NodeFields, ValueAssumption DEF LeafKeys
<1>5. j \in 1..(Len(s) + 1)
  BY <1>3, <1>4, InsertPointSlot
<1> HIDE DEF j, s, ps
<1>6. Inserted(s, InsertAt(s, j, v), j, v)
  BY <1>4, <1>5, InsertAtInserts
<1>7. Inserted(ps, InsertAt(ps, j, <<t>>), j, <<t>>)
  BY <1>4, <1>5, InsertAtInserts
<1>8. j \in Nat
  BY <1>4, <1>5
<1>9. InsertedLists(s, ps, g[leaf].keys, g[leaf].pointers, j, v, <<t>>)
  BY <1>2, <1>4, <1>6, <1>7, <1>8 DEF InsertedLists
<1>10. OneEntryMore(g, L, nodes, L, v, <<t>>)
  BY <1>2, <1>9, LeafGainsEntry DEF s, ps
<1> QED
  BY <1>10 DEF g

(* The leaf with another list for one of its keys.                         *)
LEMMA ListEntries ==
  ASSUME NEW H, NEW R, WholeTree(H, R), NEW leaf \in DOMAIN nodes, nodes[leaf].isLeaf,
         NEW v, NEW i, HasList(leaf, i, v), NEW e
  PROVE  EntryReplaced(withList(nodes, leaf, i, e), nodes, DOMAIN nodes, v, e)
<1> DEFINE L == DOMAIN nodes
           g == withList(nodes, leaf, i, e)
<1>1. IsTree(nodes, L, root, H, R) /\ NodeTypes(nodes, L)
  BY DEF WholeTree, IsTree, IsHeap
<1>2. nodes[leaf] \in LeafRecord
  BY <1>1, NodeFields
<1>3. i \in 1..Len(nodes[leaf].keys) /\ nodes[leaf].keys[i] = v
  BY DEF HasList
<1>4. /\ g[leaf] = [nodes[leaf] EXCEPT !.pointers[i] = e]
      /\ \A n \in L \ {leaf} : g[n] = nodes[n]
  BY Zenon DEF withList
<1> HIDE DEF g
<1>5. /\ g[leaf].isLeaf /\ g[leaf].keys = nodes[leaf].keys
      /\ g[leaf].pointers = [nodes[leaf].pointers EXCEPT ![i] = e]
  BY <1>2, <1>4 DEF LeafRecord
<1>6. EntryReplaced(g, nodes, L, v, e)
  BY <1>1, <1>3, <1>4, <1>5, ListReplacedEntries
<1> QED
  BY <1>6 DEF g

(* What is an element at one position is no element of the rest.           *)
OnlyAt(s, i, v) == \A n \in 1..Len(s) : s[n] = v => n = i

LEMMA RestLacks ==
  ASSUME NEW a \in Seq(Int), NEW s \in Seq(Int), NEW i, NEW v, Inserted(a, s, i, v),
         OnlyAt(s, i, v)
  PROVE  \A n \in 1..Len(a) : a[n] # v
<1>0. \A n \in 1..Len(s) : s[n] = v => n = i
  BY DEF OnlyAt
<1>1. /\ Len(s) = Len(a) + 1 /\ i \in 1..Len(s)
      /\ \A n \in 1..(i - 1) : s[n] = a[n]
      /\ \A n \in i..Len(a) : s[n + 1] = a[n]
  BY DEF Inserted
<1>2. Len(a) \in Nat /\ i \in Nat
  BY <1>1
<1> SUFFICES ASSUME NEW n \in 1..Len(a), a[n] = v
             PROVE  FALSE
  OBVIOUS
<1>3. CASE n < i
  <2>1. n \in 1..(i - 1) /\ n \in 1..Len(s) /\ n # i
    BY <1>1, <1>2, <1>3
  <2> QED
    BY <1>0, <1>1, <2>1
<1>4. CASE ~(n < i)
  <2>1. n \in i..Len(a) /\ n + 1 \in 1..Len(s) /\ n + 1 # i
    BY <1>1, <1>2, <1>4
  <2> QED
    BY <1>0, <1>1, <2>1
<1> QED
  BY <1>3, <1>4

(* The leaf without a key and its list.                                    *)
LEMMA LostEntries ==
  ASSUME NEW H, NEW R, WholeTree(H, R), NEW leaf \in DOMAIN nodes, nodes[leaf].isLeaf,
         NEW v, NEW i, HasList(leaf, i, v), NEW h, LostEntry(h, nodes, leaf, i)
  PROVE  /\ OneEntryMore(nodes, DOMAIN nodes, h, DOMAIN nodes, v, nodes[leaf].pointers[i])
         /\ NoEntry(h, DOMAIN nodes, v)
<1> DEFINE L == DOMAIN nodes
           s == nodes[leaf].keys
           ps == nodes[leaf].pointers
<1>1. /\ IsTree(nodes, L, root, H, R) /\ NodeTypes(nodes, L) /\ LeafKeys(nodes, R, leaf)
  BY DEF WholeTree, IsTree, IsHeap, KeysInRange
<1>2. /\ s \in Seq(Int) /\ ps \in Seq(Seq(Time)) /\ Len(ps) = Len(s)
      /\ i \in 1..Len(s) /\ s[i] = v
  BY <1>1, NodeFields DEF LeafKeys, HasList
<1>3. /\ \A n \in L \ {leaf} : h[n] = nodes[n]
      /\ h[leaf].isLeaf
      /\ h[leaf].keys = RemoveAt(s, i) /\ h[leaf].pointers = RemoveAt(ps, i)
  BY DEF LostEntry
<1>4. \A l \in L : nodes[l].isLeaf =>
        \A n \in 1..Len(nodes[l].keys) : nodes[l].keys[n] = v => l = leaf /\ n = i
  BY <1>1, <1>2, OneEntryOnly
<1>5. OnlyAt(s, i, v)
  BY <1>4 DEF OnlyAt
<1> HIDE DEF s, ps
<1>6. Inserted(h[leaf].keys, s, i, v) /\ h[leaf].keys \in Seq(Int)
  BY <1>2, <1>3, RemoveAtTakesOut
<1>7. Inserted(h[leaf].pointers, ps, i, ps[i]) /\ h[leaf].pointers \in Seq(Seq(Time))
  BY <1>2, <1>3, RemoveAtTakesOut
<1>8. Len(h[leaf].pointers) = Len(h[leaf].keys)
  <2> DEFINE a == h[leaf].keys
             q == h[leaf].pointers
  <2>1. a \in Seq(Int) /\ q \in Seq(Seq(Time))
    BY <1>6, <1>7
  <2>2. Len(s) = Len(a) + 1 /\ Len(ps) = Len(q) + 1
    BY <1>6, <1>7 DEF Inserted
  <2> HIDE DEF a, q
  <2>3. Len(a) \in Nat /\ Len(q) \in Nat
    BY <2>1
  <2>4. Len(a) = Len(q)
    BY <1>2, <2>2, <2>3
  <2> QED
    BY <2>4 DEF a, q
<1>9. InsertedLists(h[leaf].keys, h[leaf].pointers, s, ps, i, v, ps[i])
  BY <1>2, <1>6, <1>7, <1>8 DEF InsertedLists
<1>10. OneEntryMore(nodes, L, h, L, v, ps[i])
  BY <1>3, <1>9, LeafGainsEntry DEF s, ps
<1>11. \A n \in 1..Len(h[leaf].keys) : h[leaf].keys[n] # v
  BY <1>2, <1>5, <1>6, RestLacks
<1>12. NoEntry(h, L, v)
  <2> SUFFICES ASSUME NEW l \in L, h[l].isLeaf, NEW n \in 1..Len(h[l].keys), h[l].keys[n] = v
               PROVE  FALSE
    BY DEF NoEntry, HasEntry, ArrayHas, LeafSet
  <2> QED
    BY <1>3, <1>4, <1>11
<1> QED
  BY <1>10, <1>12 DEF ps
-----------------------------------------------------------------------------
(*              Hanging a node into its parent moves no entry              *)

(* A new inner node, and leaves that differ in their links only.           *)
LEMMA InnerNodeAdded ==
  ASSUME NEW h, NEW g, NEW new, new \notin DOMAIN h, DOMAIN g = DOMAIN h \union {new},
         ~g[new].isLeaf, \A n \in DOMAIN h : g[n].isLeaf <=> h[n].isLeaf,
         \A n \in DOMAIN h : h[n].isLeaf => /\ g[n].keys = h[n].keys
                                            /\ g[n].pointers = h[n].pointers
  PROVE  SameEntries(g, DOMAIN g, h, DOMAIN h)
<1>1. LeafSet(g, DOMAIN g) = LeafSet(h, DOMAIN h) /\ LeafSet(h, DOMAIN h) \subseteq DOMAIN h
  BY DEF LeafSet
<1>2. \A l \in LeafSet(h, DOMAIN h) : g[l].keys = h[l].keys /\ g[l].pointers = h[l].pointers
  BY DEF LeafSet
<1> QED
  BY <1>1, <1>2, SameLeafContents

LEMMA RootEntries ==
  ASSUME MemoryLeft, NodeTypes(nodes, DOMAIN nodes), NEW a, NEW k, NEW b,
         insertIntoANewRoot(a, k, b)
  PROVE  SameEntries(nodes', DOMAIN nodes', nodes, DOMAIN nodes)
<1> DEFINE L == DOMAIN nodes
           q == malloc(nodes)
           g == nodes'
           raised == SetParent(nodes, {a, b}, q)
<1>1. L \subseteq Node /\ q \in Node /\ q \notin L
  BY Malloc DEF NodeTypes
<1>2. g = allocated(raised, q, Node_new(NULL, <<k>>, <<a, b>>))
  BY Zenon DEF insertIntoANewRoot
<1> HIDE DEF q
<1>3. /\ DOMAIN raised = L
      /\ \A n \in L : raised[n] = IF n \in {a, b} THEN [nodes[n] EXCEPT !.parent = q] ELSE nodes[n]
  BY DEF SetParent
<1> HIDE DEF raised
<1>4. /\ DOMAIN g = L \union {q} /\ g[q] = Node_new(NULL, <<k>>, <<a, b>>)
      /\ \A n \in L : g[n] = raised[n]
  BY <1>1, <1>2, <1>3 DEF allocated
<1> HIDE DEF g
<1>5. ASSUME NEW n \in L
      PROVE  /\ g[n].isLeaf = nodes[n].isLeaf /\ g[n].keys = nodes[n].keys
             /\ g[n].pointers = nodes[n].pointers
  <2>1. nodes[n] \in LeafRecord \/ nodes[n] \in InnerRecord
    BY DEF NodeTypes
  <2>2. CASE n \in {a, b}
    <3>1. g[n] = [nodes[n] EXCEPT !.parent = q]
      BY <1>3, <1>4, <2>2
    <3> QED
      BY <1>1, <2>1, <2>2, <3>1, ParentChanged
  <2>3. CASE n \notin {a, b}
    BY <1>3, <1>4, <2>1, <2>3
  <2> QED
    BY <2>2, <2>3
<1>6. ~g[q].isLeaf
  BY <1>4 DEF Node_new
<1>7. SameEntries(g, DOMAIN g, nodes, L)
  BY <1>1, <1>4, <1>5, <1>6, InnerNodeAdded
<1> QED
  BY <1>7 DEF g

LEMMA NodeEntries ==
  ASSUME NEW a, NEW k, NEW b, HalfSplit(nodes, root, a, k, b), insertIntoTheNode(a, k, b)
  PROVE  SameEntries(nodes', DOMAIN nodes', nodes, DOMAIN nodes)
<1> DEFINE L == DOMAIN nodes
           p == nodes[a].parent
           j == PositionOf(nodes[p].pointers, a)
           g == withChild(p, j, k, b)
<1>1. PICK H, R : IsForest(nodes, L, root, H, R, a, k, b)
  BY DEF HalfSplit, SomeForest
<1>2. p # NULL /\ nodes' = g
  BY Zenon DEF insertIntoTheNode, withChild
<1>3. p \in L /\ ~nodes[p].isLeaf /\ GotChild(g, p, j, k, b)
  <2> HIDE DEF p, j, L
  <2> QED
    BY <1>1, <1>2, ParentGetsChild DEF j, p, L
<1> HIDE DEF g, p, j
<1>4. DOMAIN g = L /\ (\A n \in L \ {p} : g[n] = nodes[n]) /\ ~g[p].isLeaf
  BY <1>3 DEF GotChild
<1>5. SameEntries(g, L, nodes, L)
  BY <1>3, <1>4, InnerNodeChanged
<1> QED
  BY <1>2, <1>4, <1>5

LEMMA InnerSplitEntries ==
  ASSUME MemoryLeft, NEW a, NEW k, NEW b, HalfSplit(nodes, root, a, k, b),
         splitAndInsertIntoInnerNode(a, k, b)
  PROVE  SameEntries(nodes', DOMAIN nodes', nodes, DOMAIN nodes)
<1> DEFINE L == DOMAIN nodes
           g == nodes'
           p == nodes[a].parent
           j == PositionOf(nodes[p].pointers, a)
           q == malloc(nodes)
           split == leftInnerKeys(nodeSize)
           tempKeys == InsertAt(nodes[p].keys, j, k)
           tempPointers == InsertAt(nodes[p].pointers, j + 1, b)
           lk == SubSeq(tempKeys, 1, split)
           lp == SubSeq(tempPointers, 1, split + 1)
           leftNode == [nodes[p] EXCEPT !.keys = lk, !.pointers = lp]
           rightNode == Node_new(nodes[p].parent, SubSeq(tempKeys, split + 2, Len(tempKeys)),
                                 SubSeq(tempPointers, split + 2, Len(tempPointers)))
           withLeft == [nodes EXCEPT ![p] = leftNode]
           moved == ToSet(rightNode.pointers)
           adopted == SetParent(withLeft, moved, q)
<1>1. PICK H, R : IsForest(nodes, L, root, H, R, a, k, b)
  BY DEF HalfSplit, SomeForest
<1>2. p # NULL /\ g = allocated(adopted, q, rightNode)
  BY Zenon DEF splitAndInsertIntoInnerNode
<1>3. p \in L /\ ~nodes[p].isLeaf
  BY <1>1, <1>2, ParentOfLeft
<1>4. NodeTypes(nodes, L) /\ L \subseteq Node /\ q \in Node /\ q \notin L
  BY Malloc DEF HalfSplit, NodeTypes
<1>5. ~rightNode.isLeaf
  BY DEF Node_new
<1> HIDE DEF p, q, tempKeys, tempPointers, lk, lp
<1>6. nodes[p] \in InnerRecord
  <2> HIDE DEF L
  <2> QED
    BY <1>3, <1>4, NodeFields
<1>7. leftNode.isLeaf = FALSE /\ [leftNode EXCEPT !.parent = q].isLeaf = FALSE
  BY <1>6 DEF InnerRecord
<1> HIDE DEF rightNode, leftNode, moved
<1>8. /\ DOMAIN withLeft = L /\ withLeft[p] = leftNode
      /\ \A n \in L \ {p} : withLeft[n] = nodes[n]
  BY <1>3
<1> HIDE DEF withLeft
<1>9. /\ DOMAIN adopted = L
      /\ \A n \in L : adopted[n] = IF n \in moved THEN [withLeft[n] EXCEPT !.parent = q]
                                                  ELSE withLeft[n]
  BY <1>8 DEF SetParent
<1> HIDE DEF adopted
<1>10. /\ DOMAIN g = L \union {q} /\ g[q] = rightNode
       /\ \A n \in L : g[n] = adopted[n]
  BY <1>2, <1>4, <1>9 DEF allocated
<1> HIDE DEF g
<1>11. ~g[p].isLeaf
  BY <1>3, <1>7, <1>8, <1>9, <1>10
<1>12. ASSUME NEW n \in L \ {p}
       PROVE  /\ g[n].isLeaf = nodes[n].isLeaf /\ g[n].keys = nodes[n].keys
              /\ g[n].pointers = nodes[n].pointers
  <2>1. nodes[n] \in LeafRecord \/ nodes[n] \in InnerRecord
    BY <1>4 DEF NodeTypes
  <2>2. CASE n \in moved
    <3>1. g[n] = [nodes[n] EXCEPT !.parent = q]
      BY <1>8, <1>9, <1>10, <2>2
    <3> QED
      BY <1>4, <2>1, <3>1, ParentChanged
  <2>3. CASE n \notin moved
    BY <1>8, <1>9, <1>10, <2>3
  <2> QED
    BY <2>2, <2>3
<1>13. ~g[q].isLeaf
  BY <1>5, <1>10
<1>14. \A n \in L : g[n].isLeaf <=> nodes[n].isLeaf
  BY <1>3, <1>11, <1>12
<1>15. \A n \in L : nodes[n].isLeaf => g[n].keys = nodes[n].keys /\ g[n].pointers = nodes[n].pointers
  BY <1>3, <1>12
<1>16. SameEntries(g, DOMAIN g, nodes, L)
  BY <1>4, <1>10, <1>13, <1>14, <1>15, InnerNodeAdded
<1> QED
  BY <1>16 DEF g
-----------------------------------------------------------------------------
(*                         What each call does                             *)

LEMMA AddChangesIndex ==
  ASSUME nodeSize >= 3, MemoryLeft, TreeInv, NEW t \in Time, NEW v \in Value,
         addRecordToTree(t, v), NEW idx, IndexIs(nodes, LiveNodes, idx)
  PROVE  IndexIs(nodes', LiveNodes', [idx EXCEPT ![v] = Append(@, t)])
<1> DEFINE L == DOMAIN nodes
           leaf == findLeaf(v)
           i == PositionOf(nodes[leaf].keys, v)
           new == [idx EXCEPT ![v] = Append(@, t)]
<1>1. call = Returned /\ unfreed = {} /\ Stored(nodes, root) /\ v \in Int
  BY ReturnedCall, ValueAssumption DEF addRecordToTree, TreeInv, Consistent
<1>2. IndexIs(nodes, L, idx)
  <2>1. LiveNodes = L
    BY <1>1 DEF LiveNodes
  <2> QED
    BY <2>1
<1>3. unfreed' = {}
  BY <1>1 DEF addRecordToTree, newTree, addDuplicateToDoublyLinkedList, insertRecordIntoLeaf,
              splitAndInsertIntoLeaves
<1>4. LiveNodes' = DOMAIN nodes'
  BY <1>3 DEF LiveNodes
<1> SUFFICES IndexIs(nodes', DOMAIN nodes', new)
  BY <1>4
<1> HIDE DEF new
<1>5. new = [idx EXCEPT ![v] = Append(@, t)]
  BY DEF new
<1>6. CASE newTree(t, v)
  <2>1. L = {}
    BY <1>1, <1>6, NULLAssumption DEF newTree, Stored
  <2> DEFINE q == malloc(nodes)
             first == Leaf_new(NULL, <<v>>, << <<t>> >>, NULL, NULL)
  <2>2. nodes' = allocated(nodes, q, first)
    BY <1>6 DEF newTree
  <2>3. first.isLeaf /\ first.keys = <<v>> /\ first.pointers = << <<t>> >>
    BY DEF Leaf_new
  <2> HIDE DEF q, first
  <2>4. DOMAIN nodes' = {q} /\ nodes'[q] = first
    BY <2>1, <2>2 DEF allocated
  <2>5. nodes'[q].isLeaf /\ nodes'[q].keys = <<v>> /\ nodes'[q].pointers = << <<t>> >>
    BY <2>3, <2>4
  <2>6. OneEntryMore(nodes', DOMAIN nodes', nodes, L, v, <<t>>) /\ NoEntry(nodes, L, v)
    BY <2>1, <2>4, <2>5, FirstEntry
  <2> QED
    BY <1>2, <1>5, <2>6, IndexGains
<1>7. CASE root # NULL
  <2>1. Settled(nodes, root)
    BY <1>1, <1>7 DEF Stored
  <2>2. PICK H, R : WholeTree(H, R)
    BY <2>1 DEF Settled, SomeTree, WholeTree
  <2>3. leaf \in L /\ nodes[leaf].isLeaf /\ v \in R[leaf]
    BY <1>1, <2>2, FindLeafInRange
  <2>4. leaf = findLeaf(v) /\ i = PositionOf(nodes[leaf].keys, v)
    OBVIOUS
  <2>5. \/ addDuplicateToDoublyLinkedList(leaf, t, v)
        \/ insertRecordIntoLeaf(leaf, t, v)
        \/ splitAndInsertIntoLeaves(leaf, t, v)
    BY <1>7 DEF addRecordToTree, newTree
  <2> HIDE DEF leaf, i
  <2>6. CASE addDuplicateToDoublyLinkedList(leaf, t, v)
    <3> DEFINE times == nodes[leaf].pointers[i]
               e == Append(times, t)
    <3>1. /\ isDuplicateKey(leaf, v)
          /\ nodes' = [nodes EXCEPT ![leaf].pointers[i] = Append(@, t)]
      BY <2>4, <2>6 DEF addDuplicateToDoublyLinkedList
    <3>2. HasList(leaf, i, v)
      BY <2>2, <2>3, <2>4, <3>1, KeyPresent
    <3>3. nodes' = withList(nodes, leaf, i, e)
      BY <3>1 DEF withList
    <3>4. times \in Seq(Time) /\ HasEntry(nodes, L, v, times)
      BY <3>2 DEF HasList
    <3>5. idx[v] = times
      BY <1>2, <3>4 DEF IndexIs
    <3>6. new = [idx EXCEPT ![v] = e]
      BY <1>5, <3>5
    <3> HIDE DEF times
    <3>7. e \in Seq(Time)
      BY <3>4
    <3> HIDE DEF e
    <3>8. EntryReplaced(nodes', nodes, L, v, e)
      BY <2>2, <2>3, <3>2, <3>3, ListEntries
    <3>9. DOMAIN nodes' = L
      BY <3>1
    <3>10. IndexIs(nodes', L, new)
      BY <1>2, <3>6, <3>7, <3>8, IndexReplaced
    <3> QED
      BY <3>9, <3>10
  <2>7. ASSUME ~isDuplicateKey(leaf, v), SameEntries(nodes', DOMAIN nodes', withRecord(leaf, t, v), L)
        PROVE  IndexIs(nodes', DOMAIN nodes', new)
    <3>1. OneEntryMore(withRecord(leaf, t, v), L, nodes, L, v, <<t>>)
      BY <2>2, <2>3, <2>7, RecordEntries
    <3>2. NoEntry(nodes, L, v)
      BY <2>2, <2>3, <2>7, KeyAbsent
    <3>3. IndexIs(withRecord(leaf, t, v), L, new)
      BY <1>2, <1>5, <3>1, <3>2, IndexGains
    <3> QED
      BY <2>7, <3>3, IndexKept
  <2>8. CASE insertRecordIntoLeaf(leaf, t, v)
    <3>1. ~isDuplicateKey(leaf, v) /\ nodes' = withRecord(leaf, t, v)
      BY <2>8, Zenon DEF insertRecordIntoLeaf, withRecord
    <3>2. DOMAIN withRecord(leaf, t, v) = L
      BY DEF withRecord
    <3>3. SameEntries(nodes', DOMAIN nodes', withRecord(leaf, t, v), L)
      BY <3>1, <3>2, Zenon DEF SameEntries
    <3> QED
      BY <2>7, <3>1, <3>3
  <2>9. CASE splitAndInsertIntoLeaves(leaf, t, v)
    <3>1. ~isDuplicateKey(leaf, v)
      BY <2>9 DEF splitAndInsertIntoLeaves
    <3>2. SameEntries(nodes', DOMAIN nodes', withRecord(leaf, t, v), L)
      BY <2>1, <2>4, <2>9, LeafSplit
    <3> QED
      BY <2>7, <3>1, <3>2
  <2> QED
    BY <2>5, <2>6, <2>8, <2>9
<1> QED
  BY <1>6, <1>7 DEF addRecordToTree

LEMMA DeleteChangesIndex ==
  ASSUME nodeSize >= 3, TreeInv, NEW v \in Value, delete(v),
         NEW idx, IndexIs(nodes, LiveNodes, idx)
  PROVE  IndexIs(nodes', LiveNodes',
                 IF idx[v] = <<>> THEN idx ELSE [idx EXCEPT ![v] = Tail(@)])
<1> DEFINE L == DOMAIN nodes
           leaf == findLeaf(v)
           i == PositionOf(nodes[leaf].keys, v)
           times == nodes[leaf].pointers[i]
           new == IF idx[v] = <<>> THEN idx ELSE [idx EXCEPT ![v] = Tail(@)]
<1>1. call = Returned /\ root # NULL /\ v \in Int
  BY ValueAssumption DEF delete
<1>2. unfreed = {} /\ root \in Node /\ Settled(nodes, root)
  BY <1>1, ReturnedCall DEF TreeInv, Consistent, Stored
<1>3. IndexIs(nodes, L, idx)
  <2>1. LiveNodes = L
    BY <1>2 DEF LiveNodes
  <2> QED
    BY <2>1
<1>4. PICK H, R : WholeTree(H, R)
  BY <1>2 DEF Settled, SomeTree, WholeTree
<1>5. leaf \in L /\ nodes[leaf].isLeaf /\ v \in R[leaf]
  BY <1>1, <1>4, FindLeafInRange
<1>6. leaf = findLeaf(v) /\ i = PositionOf(nodes[leaf].keys, v)
  OBVIOUS
<1>7. IF ~ isDuplicateKey(leaf, v) THEN UNCHANGED treeVars
      ELSE IF Len(times) > 1
           THEN /\ nodes' = [nodes EXCEPT ![leaf].pointers[i] = Tail(@)]
                /\ UNCHANGED <<root, call, unfreed>>
           ELSE deleteEntry(leaf, v, NULL)
  BY DEF delete
<1> HIDE DEF leaf, i
<1>8. CASE ~isDuplicateKey(leaf, v)
  <2>1. NoEntry(nodes, L, v)
    BY <1>4, <1>5, <1>8, KeyAbsent
  <2>2. idx[v] = <<>>
    BY <1>3, <2>1 DEF IndexIs, NoEntry
  <2>3. nodes' = nodes /\ LiveNodes' = LiveNodes
    BY <1>7, <1>8 DEF treeVars, LiveNodes
  <2> QED
    BY <2>2, <2>3
<1>9. ASSUME isDuplicateKey(leaf, v)
      PROVE  /\ HasList(leaf, i, v) /\ i \in 1..Len(nodes[leaf].keys)
             /\ times \in Seq(Time) /\ times # <<>>
             /\ idx[v] = times /\ new = [idx EXCEPT ![v] = Tail(times)]
  <2>1. HasList(leaf, i, v)
    BY <1>4, <1>5, <1>6, <1>9, KeyPresent
  <2>2. /\ times \in Seq(Time) /\ times # <<>> /\ HasEntry(nodes, L, v, times)
        /\ i \in 1..Len(nodes[leaf].keys)
    BY <2>1 DEF HasList
  <2>3. idx[v] = times
    BY <1>3, <2>2 DEF IndexIs
  <2> QED
    BY <2>1, <2>2, <2>3
<1> HIDE DEF times, new
<1>10. CASE isDuplicateKey(leaf, v) /\ Len(times) > 1
  <2>1. nodes' = [nodes EXCEPT ![leaf].pointers[i] = Tail(@)] /\ unfreed' = {}
    BY <1>2, <1>7, <1>10
  <2>2. nodes' = withList(nodes, leaf, i, Tail(times))
    BY <2>1 DEF withList, times
  <2>3. Tail(times) \in Seq(Time)
    BY <1>9, <1>10, TailLeft
  <2>4. EntryReplaced(nodes', nodes, L, v, Tail(times))
    BY <1>4, <1>5, <1>9, <1>10, <2>2, ListEntries
  <2>5. IndexIs(nodes', L, new)
    BY <1>3, <1>9, <1>10, <2>3, <2>4, IndexReplaced
  <2>6. LiveNodes' = L
    BY <2>1 DEF LiveNodes
  <2> QED
    BY <2>5, <2>6 DEF new
<1>11. CASE isDuplicateKey(leaf, v) /\ ~(Len(times) > 1)
  <2>1. deleteEntry(leaf, v, NULL)
    BY <1>7, <1>11
  <2>2. PICK h : /\ LostEntry(h, nodes, leaf, i)
                 /\ KeepsEntries(nodes', root', call', unfreed', h, L)
    BY <1>2, <1>4, <1>5, <1>6, <1>9, <1>11, <2>1, LastTimeDropped
  <2>3. OneEntryMore(nodes, L, h, L, v, times) /\ NoEntry(h, L, v)
    BY <1>4, <1>5, <1>9, <1>11, <2>2, LostEntries DEF times
  <2>4. Tail(times) = <<>>
    <3>1. \A s \in Seq(Time) : s # <<>> /\ ~(Len(s) > 1) => Tail(s) = <<>>
      OBVIOUS
    <3> QED
      BY <1>9, <1>11, <3>1
  <2>5. new = [idx EXCEPT ![v] = <<>>]
    BY <1>9, <1>11, <2>4
  <2>6. IndexIs(h, L, new)
    BY <1>3, <2>3, <2>5, IndexLoses
  <2>7. SameEntries(nodes', DOMAIN nodes' \ unfreed', h, L)
    BY <2>2 DEF KeepsEntries
  <2>8. LiveNodes' = DOMAIN nodes' \ unfreed'
    BY DEF LiveNodes
  <2>9. IndexIs(nodes', DOMAIN nodes' \ unfreed', new)
    BY <2>6, <2>7, IndexKept
  <2> QED
    BY <2>8, <2>9 DEF new
<1> QED
  BY <1>8, <1>10, <1>11 DEF new

(* The recursive calls of an insertion or a deletion change nothing.       *)
LEMMA RecursionKeepsIndex ==
  ASSUME nodeSize >= 3, MemoryLeft, TreeInv, Recurse, NEW idx, IndexIs(nodes, LiveNodes, idx)
  PROVE  IndexIs(nodes', LiveNodes', idx)
<1> SUFFICES SameEntries(nodes', DOMAIN nodes' \ unfreed', nodes, DOMAIN nodes \ unfreed)
  BY IndexKept DEF LiveNodes
<1>1. CASE deleteEntryFromParent
  <2>1. call.fn = "deleteEntry" /\ deleteEntry(call.node, call.toDelete, call.pointer)
    BY <1>1 DEF deleteEntryFromParent
  <2>2. /\ unfreed \subseteq DOMAIN nodes /\ root \in Node
        /\ EntryLeft(nodes, DOMAIN nodes \ unfreed, root, call.node, call.toDelete, call.pointer)
    BY <2>1 DEF TreeInv, Consistent
  <2> QED
    BY <2>1, <2>2, ParentEntryDeleted DEF KeepsEntries
<1>2. CASE insertIntoParent
  <2> DEFINE a == call.oldChild
             k == call.newKey
             b == call.newChild
  <2>1. call.fn = "insertIntoParent"
    BY <1>2 DEF insertIntoParent
  <2>2. unfreed = {} /\ HalfSplit(nodes, root, a, k, b)
    BY <2>1 DEF TreeInv, Consistent
  <2>3. \/ insertIntoANewRoot(a, k, b)
        \/ insertIntoTheNode(a, k, b)
        \/ splitAndInsertIntoInnerNode(a, k, b)
    BY <1>2 DEF insertIntoParent
  <2>4. unfreed' = {}
    BY <2>2, <2>3 DEF insertIntoANewRoot, insertIntoTheNode, splitAndInsertIntoInnerNode
  <2> HIDE DEF a, k, b
  <2>5. NodeTypes(nodes, DOMAIN nodes)
    BY <2>2 DEF HalfSplit
  <2>6. SameEntries(nodes', DOMAIN nodes', nodes, DOMAIN nodes)
    BY <2>2, <2>3, <2>5, RootEntries, NodeEntries, InnerSplitEntries
  <2>7. DOMAIN nodes' \ unfreed' = DOMAIN nodes' /\ DOMAIN nodes \ unfreed = DOMAIN nodes
    BY <2>2, <2>4
  <2> QED
    BY <2>6, <2>7
<1> QED
  BY <1>1, <1>2 DEF Recurse

(* A tree without nodes is the empty index.                                *)
LEMMA NoNodesEmptyIndex ==
  ASSUME NEW h
  PROVE  IndexIs(h, {}, [v \in Value |-> <<>>])
BY DEF IndexIs, HasEntry, LeafSet

LEMMA DestroyClearsIndex ==
  ASSUME TreeInv, BPlusTree_destroy
  PROVE  IndexIs(nodes', LiveNodes', [v \in Value |-> <<>>])
<1>1. /\ call = Returned /\ root # NULL /\ nodes' = free(nodes, Reachable)
      /\ unfreed' = unfreed
  BY DEF BPlusTree_destroy
<1>2. PICK H, R : WholeTree(H, R)
  BY <1>1, TreeBetweenCalls
<1>3. Reachable = DOMAIN nodes
  BY <1>2, AllReachable
<1>4. DOMAIN nodes' = {}
  <2>1. DOMAIN free(nodes, DOMAIN nodes) = DOMAIN nodes \ DOMAIN nodes
    BY FreeKeeps
  <2> QED
    BY <1>1, <1>3, <2>1
<1>5. LiveNodes' = {}
  BY <1>4 DEF LiveNodes
<1> QED
  BY <1>5, NoNodesEmptyIndex

(* The leaves make one index only.                                         *)
LEMMA OneIndex ==
  ASSUME NEW h, NEW L, NEW x, NEW y, IndexIs(h, L, x), IndexIs(h, L, y)
  PROVE  x = y
<1>1. x \in [Value -> Seq(Time)] /\ y \in [Value -> Seq(Time)]
  BY DEF IndexIs
<1>2. ASSUME NEW v \in Value
      PROVE  x[v] = y[v]
  <2>1. x[v] # <<>> => y[v] = x[v]
    BY DEF IndexIs
  <2>2. y[v] # <<>> => x[v] = y[v]
    BY DEF IndexIs
  <2> QED
    BY <2>1, <2>2
<1> QED
  BY <1>1, <1>2
-----------------------------------------------------------------------------
(*                       treeIndex is that index                           *)

LEMMA ZipElements ==
  ASSUME NEW s \in Seq(Int), NEW p \in Seq(Seq(Time)), Len(p) = Len(s), NEW e
  PROVE  e \in ToSet(Zip(s, p)) <=> \E i \in 1..Len(s) : e = <<s[i], p[i]>>
<1> DEFINE z == Zip(s, p)
<1>1. Len(s) \in Nat
  OBVIOUS
<1>2. z = [i \in 1..Len(s) |-> <<s[i], p[i]>>]
  BY <1>1 DEF Zip
<1>3. Len(z) = Len(s) /\ \A i \in 1..Len(s) : z[i] = <<s[i], p[i]>>
  BY <1>1, <1>2
<1> HIDE DEF z
<1>4. e \in ToSet(z) <=> \E i \in 1..Len(z) : z[i] = e
  BY InToSet
<1>5. e \in ToSet(z) <=> \E i \in 1..Len(s) : e = <<s[i], p[i]>>
  BY <1>3, <1>4
<1> QED
  BY <1>5 DEF z

(* A leaf of the row has a list of times for each of its keys, ...         *)
ListsOf(h, R, l) ==
  /\ h[l].keys \in Seq(Int) /\ h[l].pointers \in Seq(Seq(Time))
  /\ Len(h[l].pointers) = Len(h[l].keys)
  /\ \A i \in 1..Len(h[l].keys) : /\ h[l].pointers[i] \in Seq(Time)
                                  /\ h[l].pointers[i] # <<>>
                                  /\ h[l].keys[i] \in R[l]

LEMMA RowLists ==
  ASSUME NEW h, NEW L, NEW R, LeafRow(h, L, R), NEW l \in LeafSet(h, L)
  PROVE  ListsOf(h, R, l)
<1>1. l \in L /\ h[l].isLeaf /\ NodeTypes(h, L) /\ LeafKeys(h, R, l)
  BY DEF LeafRow, LeafSet
<1>2. h[l].keys \in Seq(Int) /\ h[l].pointers \in Seq(Seq(Time))
  BY <1>1, NodeFields
<1>3. Len(h[l].pointers) = Len(h[l].keys)
  BY <1>1 DEF LeafKeys
<1>4. \A i \in 1..Len(h[l].pointers) : h[l].pointers[i] \in Seq(Time)
  BY <1>2
<1> QED
  BY <1>1, <1>2, <1>3, <1>4 DEF LeafKeys, ListsOf

(* ... and no key is in two places of the row.                             *)
LEMMA RowEntryOnce ==
  ASSUME NEW h, NEW L, NEW R, LeafRow(h, L, R), NEW v, NEW x, NEW y,
         HasEntry(h, L, v, x), HasEntry(h, L, v, y)
  PROVE  x = y /\ x \in Seq(Time) /\ x # <<>>
<1>1. PICK l \in LeafSet(h, L) :
        \E i \in 1..Len(h[l].keys) : h[l].keys[i] = v /\ h[l].pointers[i] = x
  BY DEF HasEntry, ArrayHas
<1>2. PICK i \in 1..Len(h[l].keys) : h[l].keys[i] = v /\ h[l].pointers[i] = x
  BY <1>1
<1>3. PICK m \in LeafSet(h, L) :
        \E j \in 1..Len(h[m].keys) : h[m].keys[j] = v /\ h[m].pointers[j] = y
  BY DEF HasEntry, ArrayHas
<1>4. PICK j \in 1..Len(h[m].keys) : h[m].keys[j] = v /\ h[m].pointers[j] = y
  BY <1>3
<1>5. v \in R[l] /\ v \in R[m] /\ x \in Seq(Time) /\ x # <<>>
  <2>1. ListsOf(h, R, l) /\ ListsOf(h, R, m)
    BY RowLists
  <2> QED
    BY <1>2, <1>4, <2>1 DEF ListsOf
<1>6. l = m
  BY <1>5 DEF LeafRow
<1>7. i = j
  <2>1. Ascending(h[l].keys) /\ h[l].keys \in Seq(Int)
    BY RowLists DEF LeafRow, ListsOf
  <2>2. i \in 1..Len(h[l].keys) /\ j \in 1..Len(h[l].keys) /\ h[l].keys[i] = h[l].keys[j]
    BY <1>2, <1>4, <1>6
  <2> QED
    BY <2>1, <2>2, KeyPosition
<1> QED
  BY <1>2, <1>4, <1>5, <1>6, <1>7

TreeIndexed == IndexIs(nodes, LiveNodes, treeIndex)

LEMMA TreeHasIndex == TreeInv => TreeIndexed
<1> SUFFICES ASSUME TreeInv
             PROVE  IndexIs(nodes, LiveNodes, treeIndex)
  BY DEF TreeIndexed
<1> DEFINE entries == UNION {ToSet(Zip(nodes[leaf].keys, nodes[leaf].pointers)) : leaf \in Leaves}
           entry(v) == {e \in entries : e[1] = v}
<1>1. treeIndex = [v \in Value |-> IF entry(v) = {} THEN <<>>
                                   ELSE (CHOOSE e \in entry(v) : TRUE)[2]]
  BY DEF treeIndex
<1>2. Leaves = LeafSet(nodes, LiveNodes)
  BY DEF Leaves, LeafSet
<1>3. CASE LiveNodes = {}
  <2>1. Leaves = {}
    BY <1>3 DEF Leaves
  <2>2. \A v \in Value : entry(v) = {}
    BY <2>1
  <2>3. treeIndex = [v \in Value |-> <<>>]
    <3> HIDE DEF entry, entries
    <3> QED
      BY <1>1, <2>2
  <2> QED
    BY <1>3, <2>3, NoNodesEmptyIndex
<1>4. CASE LiveNodes # {}
  <2>1. PICK R : LeafRow(nodes, LiveNodes, R)
    BY <1>4, LiveLeavesInRow
  <2>2. ASSUME NEW e
        PROVE  e \in entries <=> \E w, x : e = <<w, x>> /\ HasEntry(nodes, LiveNodes, w, x)
    <3>1. \A l \in Leaves : e \in ToSet(Zip(nodes[l].keys, nodes[l].pointers))
            <=> \E i \in 1..Len(nodes[l].keys) : e = <<nodes[l].keys[i], nodes[l].pointers[i]>>
      <4> SUFFICES ASSUME NEW l \in Leaves
                   PROVE  e \in ToSet(Zip(nodes[l].keys, nodes[l].pointers))
                            <=> \E i \in 1..Len(nodes[l].keys) :
                                  e = <<nodes[l].keys[i], nodes[l].pointers[i]>>
        OBVIOUS
      <4>1. ListsOf(nodes, R, l)
        BY <1>2, <2>1, RowLists
      <4>2. /\ nodes[l].keys \in Seq(Int) /\ nodes[l].pointers \in Seq(Seq(Time))
            /\ Len(nodes[l].pointers) = Len(nodes[l].keys)
        BY <4>1 DEF ListsOf
      <4> DEFINE s == nodes[l].keys
                 p == nodes[l].pointers
      <4>3. s \in Seq(Int) /\ p \in Seq(Seq(Time)) /\ Len(p) = Len(s)
        BY <4>2
      <4> HIDE DEF s, p
      <4>4. e \in ToSet(Zip(s, p)) <=> \E i \in 1..Len(s) : e = <<s[i], p[i]>>
        BY <4>3, ZipElements
      <4> QED
        BY <4>4, Zenon DEF s, p
    <3>2. e \in entries <=> \E l \in Leaves : \E i \in 1..Len(nodes[l].keys) :
                              e = <<nodes[l].keys[i], nodes[l].pointers[i]>>
      BY <3>1
    <3> QED
      BY <1>2, <3>2 DEF HasEntry, ArrayHas
  <2> HIDE DEF entries
  <2>3. ASSUME NEW v, NEW x
        PROVE  HasEntry(nodes, LiveNodes, v, x) <=> <<v, x>> \in entry(v)
    BY <2>2
  <2>4. ASSUME NEW v, NEW e \in entry(v)
        PROVE  e = <<v, e[2]>> /\ HasEntry(nodes, LiveNodes, v, e[2])
    BY <2>2
  <2> HIDE DEF entry
  <2>5. ASSUME NEW v \in Value, entry(v) # {}
        PROVE  HasEntry(nodes, LiveNodes, v, treeIndex[v])
    <3>1. PICK e \in entry(v) : e = CHOOSE f \in entry(v) : TRUE
      BY <2>5
    <3>2. treeIndex[v] = e[2]
      BY <1>1, <2>5, <3>1
    <3> QED
      BY <2>4, <3>2
  <2>6. ASSUME NEW v \in Value, entry(v) = {}
        PROVE  treeIndex[v] = <<>> /\ \A x : ~HasEntry(nodes, LiveNodes, v, x)
    BY <1>1, <2>3, <2>6
  <2>7. ASSUME NEW v \in Value
        PROVE  treeIndex[v] \in Seq(Time)
    <3>1. CASE entry(v) = {}
      <4>1. treeIndex[v] = <<>>
        BY <2>6, <3>1
      <4> QED
        BY <4>1
    <3>2. CASE entry(v) # {}
      BY <2>1, <2>5, <3>2, RowEntryOnce
    <3> QED
      BY <3>1, <3>2
  <2>8. treeIndex \in [Value -> Seq(Time)]
    BY <1>1, <2>7
  <2>9. ASSUME NEW v \in Value, NEW x, HasEntry(nodes, LiveNodes, v, x)
        PROVE  treeIndex[v] = x
    <3>1. HasEntry(nodes, LiveNodes, v, treeIndex[v])
      BY <2>5, <2>6, <2>9
    <3> QED
      BY <2>1, <2>9, <3>1, RowEntryOnce
  <2>10. ASSUME NEW v \in Value, treeIndex[v] # <<>>
         PROVE  HasEntry(nodes, LiveNodes, v, treeIndex[v])
    BY <2>5, <2>6, <2>10
  <2> QED
    BY <2>8, <2>9, <2>10 DEF IndexIs
<1> QED
  BY <1>3, <1>4

-----------------------------------------------------------------------------
LEMMA InitIndexed == Init => Index!Init
<1> SUFFICES ASSUME Init
             PROVE  treeIndex = [v \in Value |-> <<>>]
  BY DEF Index!Init, Index!EmptyIndex
<1>1. DOMAIN nodes = {}
  BY DEF Init
<1>2. LiveNodes = {}
  BY <1>1 DEF LiveNodes
<1>3. IndexIs(nodes, LiveNodes, treeIndex)
  BY EmptyTreeConsistent, TreeHasIndex DEF TreeIndexed
<1> QED
  BY <1>2, <1>3, NoNodesEmptyIndex, OneIndex

(* What the calls do to the index as treeIndex reads it off the leaves.    *)
LEMMA AddAppendsTime ==
  ASSUME nodeSize >= 3, MemoryLeft, TreeInv, TreeIndexed, TreeIndexed',
         NEW t \in Time, NEW v \in Value, addRecordToTree(t, v)
  PROVE  treeIndex' = [treeIndex EXCEPT ![v] = Append(@, t)]
<1>1. IndexIs(nodes, LiveNodes, treeIndex) /\ IndexIs(nodes', LiveNodes', treeIndex')
  BY DEF TreeIndexed
<1>2. IndexIs(nodes', LiveNodes', [treeIndex EXCEPT ![v] = Append(@, t)])
  BY <1>1, AddChangesIndex
<1> QED
  BY <1>1, <1>2, OneIndex

LEMMA DeleteDropsFirstTime ==
  ASSUME nodeSize >= 3, TreeInv, TreeIndexed, TreeIndexed', NEW v \in Value, delete(v)
  PROVE  treeIndex' = IF treeIndex[v] = <<>> THEN treeIndex
                      ELSE [treeIndex EXCEPT ![v] = Tail(@)]
<1> DEFINE new == IF treeIndex[v] = <<>> THEN treeIndex
                  ELSE [treeIndex EXCEPT ![v] = Tail(@)]
<1>1. IndexIs(nodes, LiveNodes, treeIndex) /\ IndexIs(nodes', LiveNodes', treeIndex')
  BY DEF TreeIndexed
<1>2. IndexIs(nodes', LiveNodes', new)
  BY <1>1, DeleteChangesIndex
<1> HIDE DEF new
<1>3. treeIndex' = new
  BY <1>1, <1>2, OneIndex
<1> QED
  BY <1>3 DEF new

LEMMA RecursionChangesNothing ==
  ASSUME nodeSize >= 3, MemoryLeft, TreeInv, TreeIndexed, TreeIndexed', Recurse
  PROVE  treeIndex' = treeIndex
<1>1. IndexIs(nodes, LiveNodes, treeIndex) /\ IndexIs(nodes', LiveNodes', treeIndex')
  BY DEF TreeIndexed
<1>2. IndexIs(nodes', LiveNodes', treeIndex)
  BY <1>1, RecursionKeepsIndex
<1> QED
  BY <1>1, <1>2, OneIndex

LEMMA StepIndexed ==
  ASSUME nodeSize >= 3, MemoryLeft, TreeInv, TreeIndexed, TreeIndexed', [Next]_treeVars
  PROVE  [Index!Next]_treeIndex
<1>1. IndexIs(nodes, LiveNodes, treeIndex) /\ IndexIs(nodes', LiveNodes', treeIndex')
  BY DEF TreeIndexed
<1>2. CASE UNCHANGED treeVars
  BY <1>2 DEF treeVars, treeIndex, Leaves, LiveNodes
<1>3. ASSUME NEW t \in Time, NEW v \in Value, addRecordToTree(t, v)
      PROVE  Index!Add(t, v)
  BY <1>3, AddAppendsTime DEF Index!Add, Index!WithRecord
<1>4. ASSUME NEW v \in Value, delete(v)
      PROVE  Index!Delete(v)
  BY <1>4, DeleteDropsFirstTime DEF Index!Delete, Index!WithoutOldest
<1>5. CASE Recurse
  BY <1>5, RecursionChangesNothing
<1>6. CASE BPlusTree_destroy
  <2>1. IndexIs(nodes', LiveNodes', [v \in Value |-> <<>>])
    BY <1>6, DestroyClearsIndex
  <2>2. treeIndex' = [v \in Value |-> <<>>]
    BY <1>1, <2>1, OneIndex
  <2>3. Index!Clear
    BY <2>2 DEF Index!Clear, Index!EmptyIndex
  <2> QED
    BY <2>3 DEF Index!Next
<1>7. CASE BPlusTree_new
  BY <1>7 DEF BPlusTree_new, treeIndex, Leaves, LiveNodes
<1> QED
  BY <1>2, <1>3, <1>4, <1>5, <1>6, <1>7 DEF Next, Index!Next

(* Between calls findLeaf leads to the list of a value that has one.       *)
LEMMA IndexedValueFound ==
  ASSUME TreeInv, TreeIndexed, call = Returned, NEW v \in Value, treeIndex[v] # <<>>
  PROVE  /\ root # NULL
         /\ isDuplicateKey(findLeaf(v), v)
         /\ nodes[findLeaf(v)].pointers[PositionOf(nodes[findLeaf(v)].keys, v)] = treeIndex[v]
<1> DEFINE L == DOMAIN nodes
           leaf == findLeaf(v)
           i == PositionOf(nodes[leaf].keys, v)
<1>1. IndexIs(nodes, LiveNodes, treeIndex)
  BY DEF TreeIndexed
<1>2. HasEntry(nodes, LiveNodes, v, treeIndex[v])
  BY <1>1 DEF IndexIs
<1>3. root # NULL
  <2>1. CASE root = NULL
    BY <1>2, <2>1, NoTreeBetweenCalls DEF HasEntry, LeafSet, LiveNodes
  <2> QED
    BY <2>1
<1>4. LiveNodes = L /\ \E H, R : WholeTree(H, R)
  BY <1>3, TreeBetweenCalls DEF LiveNodes
<1>5. PICK H, R : WholeTree(H, R)
  BY <1>4
<1>6. leaf \in L /\ nodes[leaf].isLeaf /\ v \in R[leaf]
  BY <1>5, FindLeafInRange, ValueAssumption
<1>7. leaf = findLeaf(v) /\ i = PositionOf(nodes[leaf].keys, v)
  OBVIOUS
<1> HIDE DEF leaf, i
<1>8. isDuplicateKey(leaf, v)
  <2>1. CASE ~isDuplicateKey(leaf, v)
    <3>1. NoEntry(nodes, L, v)
      BY <1>5, <1>6, <2>1, KeyAbsent
    <3> QED
      BY <1>2, <1>4, <3>1 DEF NoEntry
  <2> QED
    BY <2>1
<1>9. HasList(leaf, i, v)
  BY <1>5, <1>6, <1>7, <1>8, KeyPresent
<1>10. treeIndex[v] = nodes[leaf].pointers[i]
  BY <1>1, <1>4, <1>9 DEF HasList, IndexIs
<1> QED
  BY <1>3, <1>7, <1>8, <1>10

(* ImplementsTimeIndex: through every split, merge and redistribution the  *)
(* leaves hold, for each value, the times it was added at and not deleted, *)
(* oldest first.  addRecordToTree and delete change that index in their    *)
(* first step as the abstract Add and Delete do; the recursive calls that  *)
(* follow do not change it.                                                *)
THEOREM TreeImplementsTimeIndex ==
  ASSUME nodeSize >= 3
  PROVE  Spec /\ []MemoryLeft => ImplementsTimeIndex
<1>1. MemoryLeft /\ TreeInv /\ TreeIndexed /\ TreeIndexed' /\ [Next]_treeVars
        => [Index!Next]_treeIndex
  BY StepIndexed
<1> QED
  BY <1>1, TreeHasIndex, InitIndexed, TreeAlwaysConsistent, PTL
  DEF Spec, ImplementsTimeIndex, Index!Spec
=============================================================================
