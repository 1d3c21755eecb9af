# Verification of the time series store

The program (`src/main.c`) stores the most recent part of a regular time series twice. A circular
array answers "which value was measured at time *t*", and a B+ tree answers "at which times was
value *v* measured". One function, `shift`, adds a measurement and, once the array is full, drops
the oldest one from both. This directory holds TLA+ models of that store, TLC configurations that
check them on small instances, and TLAPS proofs for all instances of what matters most.

## 1. The system

### Components, their state and their operations

| Component | State in the code | Operations | What must hold |
|---|---|---|---|
| Circular array (`main.c` 29-54, 1591-1635) | `data[size]`, `size`, `count`, `lastUpdatePosition` | `CircularArray_new`, the array's part of `serie_update`, `lookup` | it holds the `size` latest measurements; `lookup` finds exactly those |
| B+ tree (96-184, 777-1575) | `root`, `nodeSize`; nodes with `parent`, `keys`, `pointers`, `prev`, `next` | `addRecordToTree`, `delete`, `findLeaf`, `BPlusTree_new`, `BPlusTree_destroy` | every key can be found, parents and leaf chain agree with the child pointers, nodes keep a minimum of keys, all leaves have one depth, nothing leaks |
| Time lists (59-91, 1148-1167, 1235-1262) | per value a ring of `ListValue`s linked both ways; the leaf points to the oldest | append, drop the oldest, free | a first-in first-out list, links inverse in both directions |
| Series store (663-668, 1591-1613) | array and tree | `shift`, `serie_update` | array and tree hold the same measurements; `delete` drops the record that is overwritten |
| Neighbourhood search (186-199, 274-579) | two cursors: leaf, index in the leaf, `ListValue`; offset in the pattern | `Neighborhood_new`, `Neighborhood_grow`, `Neighborhood_destroy` | starts at its measurement; an answer true is a new time point; measurements come in order of their distance and none is left out |
| Seen time points (`timeset.c`) | a hash table of time points with errors | `TimeSet_new`, `_destroy`, `_contains`, `_add`, `_add_error`, `_size`, two comparison functions | a set that keeps first errors; nothing leaks; comparison functions that sort |
| Hash table (the part of `uthash.h` that `timeset.c` expands, and its sort) | items in a list and in bucket chains, counts, expansion state | find, add, delete, iterate, count, double the buckets, sort | both kinds of links inverse, counts right, every item found, chains bounded |
| Benchmark (`main`) and data set (`createDataSet.c`) | a file, two loop counters, `value` and `t` | write the file; per window size open, read and shift, destroy | each window size is measured on the same regular series; every run ends |
| Examples, printing, interface draft, assertion macros, unit tests | output, comments, fixed inputs | `random_shifts`, `printGivenLevel`, ... | not modelled |

### How they interact

`main` makes one array and one tree per window size, shifts 17.52 million records through them and
destroys both. `shift` calls `serie_update`, which calls `delete` (only when the array is full),
overwrites a cell and calls `addRecordToTree`. `addRecordToTree` may split a leaf and call
`insertIntoParent`, which may split inner nodes up to the root. `delete` shortens a time list or calls
`deleteEntry`, which may merge two nodes and call itself for their parent, up to the root. The
neighbourhood search walks the leaf chain and the time lists. A query has one `Neighborhood` per cell
of its pattern; all share one `TimeSet`, which holds the time points at which a similar pattern ends,
and each skips what any of them has found. The caller of `Neighborhood_grow` adds the time point
(`main.c:575`). A `TimeSet` is a `uthash` table whose items are freed one by one while it is iterated.

Everything runs in one thread. The hard parts are long sequences of legal calls, the order of
statements and of pointer assignments, recursion over a heap whose links are kept by hand, and
arithmetic at boundaries: negative remainders, an unsigned difference narrowed to `int`, different
roundings for odd and even node sizes, memory that is read before it was written. `PROJECT.json`
lists each such hazard at its line.

## 2. The modules

```
   SlidingWindow <------ CircularArray ----+----> SeriesWindow <---- SeriesStore
     (abstract)           (detailed)       |       (array +          (array + BPlusTree,
                                           |        TimeIndex)        statement by statement)
   TimeIndex <---------- BPlusTree --------+----------------------------^
     (abstract)  <-----. (heap of nodes)   uses NodeArrays
        ^               `-- TimeList (ring of ListValues)
        |
        `-- used by Benchmark (main and createDataSet.c)

   SeenTimes <---------- TimeSet           extends HashTable, TimeSetOrder
     (abstract)
   Neighborhood                            on leaf chains as BPlusTree makes them,
                                           with the TimeSet as a set
```

An arrow goes from the detailed module to the specification it is shown to implement.

| Module | Models | State and actions |
|---|---|---|
| `SlidingWindow` | what the array promises | `window`, the measurements held; `Update` |
| `CircularArray` | `CircularArray_new`, `serie_update`'s array part, `lookup` | `data`, `count`, `lastUpdatePosition`; `serie_update`; `lookup` as an operator |
| `TimeIndex` | what the tree promises | `index`, a sequence of times per value; `Add`, `Delete`, `Clear` |
| `NodeArrays` | arithmetic of one node | `getSplitPoint`, `getInsertPoint`, minimum and halves |
| `BPlusTree` | insertion, deletion, destruction | `nodes` (the heap), `root`, `call` (a recursive call that is about to run), `unfreed` (merged nodes not yet freed); `addRecordToTree`, `delete`, `insertIntoParent`, `deleteEntryFromParent`, `BPlusTree_destroy`, `BPlusTree_new` |
| `TimeList` | the ring of one value's times | `list` (allocated `ListValue`s), `first`; one action per function |
| `SeriesWindow` | the store with an atomic `shift` | the array's variables and `index`; `shift` |
| `SeriesStore` | the store as the code runs it | the variables of array and tree and `incoming`; `shiftWhileFilling`, `shiftWhenFull`, `afterDelete`, `treeRecursion` |
| `Neighborhood` | the search for similar values | `leftPosition`, `rightPosition`, `start`, `status` per cell, `timeset`; `Neighborhood_new`, `Neighborhood_grow`, `Neighborhood_destroy` |
| `SeenTimes` | what a `TimeSet` promises | `seen`, the times with their errors; `Add`, `Clear` |
| `HashTable` | the macros of `uthash.h` | `hash`, the table; an operator per macro |
| `TimeSetOrder` | the comparison functions and `HASH_SRT` | operators on the sequence of items |
| `TimeSet` | `timeset.c` on that table | `self`, `memory`, `errors`, the pointers of the destruction's loop; one action per function, `destroyItem` per round of the loop, `HASH_SORT` |
| `Benchmark` | `createDataSet.c`, then `main` | the file, the loop counters, `value`, `t`, `window`, `index`; `writeLine`, `tearLine`, `openFile`, `readRecord`, `destroyStore` |
| `MC...` | instances for TLC | the same actions with bounded inputs |
| `SeriesWindowProofs`, `TimeListProofs`, `BPlusTreeProofs`, `SeriesStoreProofs`, `NeighborhoodProofs`, `BenchmarkProofs`, `TimeSetProofs` | theorems of the modules they are named for | |
| `TreeShapeProofs` | what it is for a heap to be a B+ tree, and what keeps it one | lemmas for `BPlusTreeProofs` |

Some modules contain operators introduced as *mutants*: each is a mapped definition with a plausible
mistake. No specification uses them; `PROJECT.json` pairs every checked property with the mutant that
breaks it.

### How the models correspond to the code

* **Values** are `double`s in the code and are only compared; integers stand for them. **Time
  points** are `unsigned long`s.
* **The time series is regular.** `createDataSet.c`, `random_shifts` and `exampleShifts` all advance
  time by `TIMESTAMP_DIFF`; `serie_update` and `shift` take that as their guard (`IsNextTime`).
  Neither the code nor the models check it, and time does not wrap around.
* **The array.** A cell that was never written holds an arbitrary member of `Garbage`, because
  `malloc` does not clear it. `MinusLong` and `ToInt` are the conversions in `lookup` with widths as
  parameters; `CDiv` and `CMod` truncate as C does.
* **The heap.** A node is a record at an address; `keys` and `pointers` are sequences, so
  `numOfKeys` is a length and position *i* of the code is *i* + 1. The arrays' unused tails are not
  represented: reads outside `numOfKeys` would be errors in TLC. `malloc` returns some free address;
  which one makes no difference, since nothing compares addresses by order, so the model takes one
  and the same heap always arises in one way. `malloc` never returns null, an event the code does not
  handle.
* **Atomicity.** One step is one call up to the next recursive call. There is no other thread, and
  neither loops nor assignments inside a call can be observed from outside it. `insertIntoParent` and
  `deleteEntry` are where a call continues on another level of the tree, so their arguments are kept
  in `call` and every heap in between is a state. After the recursive call `mergeNodes` frees the
  emptied right node, while `deleteEntry` of the parent still compares the pointer to it; `unfreed`
  holds those nodes until the last call returns.
* **`delete` on an empty tree** dereferences null in the code; `root # NULL` is its guard, and
  `DeleteFindsTheRecord` shows that `serie_update` never violates it. `BPlusTree_destroy` has the
  same precondition.
* **Time lists.** `BPlusTree` takes the ring of a value for a sequence of times. `TimeList` models
  the ring itself and shows that it is that sequence. `removeEntryFromTheNode` frees only the
  `ListValue` the leaf points to; `TimeList`'s `removeOnlyTime` has the guard of the caller, `delete`.
* **`Neighborhood`.** The tree does not change while a query runs: nothing in the code mixes shifts with
  growing. The chain of leaves is any way to cut the sorted keys into leaves, so nothing is assumed
  about the order of insertions. Every time point is measured once, so a `ListValue` is known by its
  time and a ring is the sequence of its times (see `TimeList`). One step is one call with the caller's
  `TimeSet_add`; the repository has no caller, so the cells grow in any order. A call that dereferences
  null ends in `nullRead`, after which nothing happens. `distance` is kept in multiples of 1.0 / `Unit`
  because the code truncates it to `long`. `pastSeen` bounds the loops by the number of measurements;
  a walk that took longer would end at a time point that was seen, which `AnswersAreNew` excludes.
* **`HashTable`.** The hash function is any function, and a bucket is the remainder by the number of
  buckets, which is a power of two: that is what masking with `num_bkts - 1` computes. An item is known
  by its key, whose equality is that of `memcmp`. The initial number of buckets and the capacity are
  parameters; uthash has 32 and 10.
* **`TimeSet`.** `malloc` may fail: `TimeSet_new` handles it; in `TimeSet_add_error` the item is written
  to without a check and the table's own requests end in `uthash_fatal`, so the program ends
  (`OutOfMemory`). Nothing in the repository calls `HASH_SORT`, but the comparison functions are
  exported for it (`timeset.h:32-34`); the model's caller sorts at any time. Errors are integers
  with `Tolerance` for 0.0000001.
* **`Benchmark`.** The store is taken as `SeriesWindow` promises it. The generator may stop between two
  lines or within one, in the value or in the time; `Torn` has what `fscanf` then reads, any number of leading
  digits. `value` and `t`
  start with anything and keep what they have when `fscanf` assigns less than two numbers.

## 3. The runs

| Run | Bounds | Shows |
|---|---|---|
| `tree_wide` | node size 3, 10 values, each stored at most once | every interleaving of insertions and deletions: keys stay findable (`EveryKeyIsFound`), parent and child pointers agree (`ParentPointers`), a pending recursive call finds key and pointer it looks for (`PendingCallFindsItsEntry`), nothing leaks or dangles (`NothingLeaks`), nodes keep their minimum (`Occupancy`), `TypeOK` |
| `tree_cascade` | node size 4, 18 values, 12 nodes, keys in one direction, deletions outwards from any key | splits, merges and redistributions over three levels, with inner nodes below the minimum: all leaves have one depth (`Balanced`), the chain of leaves is that of the tree (`LeafChain`), there is always a neighbour to merge with (`NeighbourExists`), the tree implements `TimeIndex`, every call returns (`CallsReturn`) |
| `series` | 5 cells, 2 values, interval 4, `int` of 5 bits, `long` of 6 bits | the array implements `SlidingWindow`; `LookupIsExact` for every time a `long` can hold; index and array agree (`IndexMatchesArray`), `delete` drops the right time (`DeleteDropsTheOldest`) |
| `array_filling` | the same | `LookupFindsOnlyMeasurements` fails (see findings) |
| `store` | 5 cells, 5 values, node size 3 | array and tree implement `SeriesWindow`, with values that occur several times; `delete` finds its record; each shift ends (`ShiftsReturn`) |
| `list` | 4 `ListValue`s, 3 times | the ring implements the queue of `TimeIndex`, its links are inverse and nothing is lost |
| `query` | every tree of 4 measurements with up to 4 values, pattern of 2, both cells | a Neighborhood starts at its measurement (`StartsAtTheMeasurement`), `true` always is a new time point whatever the others do (`AnswersAreNew`), positions stay valid; one that is alone finds everything, nearest first, if the values to its right have one time each (`AloneItFindsAll`, `NearestFirst`) |
| `query_lists` | one cell, 4 measurements, 3 values | `FalseMeansNoneLeft` fails: on the right, times of a value are skipped |
| `query_skips` | two cells, 4 measurements, all values different | `FalseMeansNoneLeft` fails: a candidate met behind a seen time point is lost |
| `query_null` | two cells, 3 measurements, all values different | `NullIsNotRead` fails: the walk dereferences null at the end of the chain |
| `timeset` | 5 time points, 2 hash functions (all in one bucket, spread), threshold 1 from 1 bucket on, `int` of 3 bits, `long` of 4 | links and counts stay right through doublings and sorts (`HashIntegrity`), every time is found and counted (`AnswersAreExact`), chains keep their bound until expansion is inhibited (`ChainsAreBounded`), destruction reads nothing freed (`IterationIsSafe`), nothing leaks, a `TimeSet` implements `SeenTimes`, the sort orders neighbours although the comparisons are not transitive (`NeighboursAreInOrder`), and times that an `int` can hold the distance of are sorted (`SortsByTime`) |
| `benchmark` | 5 records, window sizes 2, 3, 4, values of one and two digits | each round replays the file from its first line (`EveryRoundReplaysTheFile`), array and tree agree even when a short or torn file repeats times (`IndexMatchesWindow`), a complete file gives the regular series that `lookup` relies on (`SeriesIsRegular`), with a file of any length `main` gets to the last window size and ends (`BenchmarkEnds`) |

**Why the bounds are enough.** Three keys per node is the smallest odd size at which splits, merges
and redistributions of both kinds of node differ from each other; four is the smallest even size at
which the right half of an inner split is short but not empty. Ten keys in any order give two levels
of inner nodes in `tree_wide`; `tree_cascade` trades orders of calls for height: keys arrive in one
direction and are deleted outwards from any key, which makes merges and redistributions travel to the
root, on both sides. In `series` the ring turns several times, `int` wraps around within the range of
`long`, times lie in every residue of the interval and unwritten cells hold times that a lookup can
hit. In `store` five values are what it takes for a full array's tree to redistribute as well as merge.
Four measurements make a ring of three next to another value, leaves of one and of several keys, and a
candidate behind a seen one with something left on the other side. With a threshold of one the table
doubles at each of the first items when they collide, and the doublings at the third and fourth are
ineffective, so that the fifth meets a table that no longer expands; five items are merged in three
passes, the last with runs of unequal length. Of the times of `timeset` two are
exactly 2^w apart, and others more than half of that, for an `int` of *w* bits. In `benchmark` a file of 0
to 5 lines meets windows that fill up, turn over, and stay larger than the file.

**Deadlock.** Runs in which input ends say `CHECK_DEADLOCK FALSE`: the series ends with the largest
time, in `MCBPlusTreeTall` keys stop arriving with the first deletion, a query ends when its
Neighborhoods are destroyed or one has dereferenced null, a `TimeSet` ends the program without
memory, and `main` ends. Elsewhere deadlock is checked.

**Fairness.** `CallsReturn` and `ShiftsReturn` assume weak fairness of the program's own
continuation only: the pending recursive call, and the statements of `serie_update` after `delete`.
`BenchmarkEnds` assumes it of the two programs' steps, which read no input but the file. A single
thread that has entered a function runs on; nothing in it waits. No fairness is assumed of new
measurements or calls from outside; that growing a Neighborhood comes to an end follows from
`AnswersAreNew`, since every answer `true` uses up one of finitely many time points.

### Findings

* **`array_filling`.** While the array fills up, `lookup` of a time after the latest measurement
  reads a cell that was never written, and returns true if the memory happens to hold that time.
  `LookupIsExact` is what does hold: on a full array every lookup is exact, before that every lookup
  of a time up to the latest one and no further back than an `int` reaches.
* **`query_lists`.** `getTPlusNeighborHoodPosition` tests `next` and moves to `prev` (`main.c:426`),
  and enters the next key of a leaf at its second oldest time (433). Of several times of one value to
  the right, some are never returned.
* **`query_skips`.** `Neighborhood_grow` stores the position at which a loop over seen time points
  ends (525, 533), although that position is of a candidate which may not be returned in this call.
  The next call starts behind it.
* **`query_null`.** The loops compute the offset time of the position they just moved to before they
  test whether there is one (521-522, 529-530).

`AloneItFindsAll` says when nothing is lost: no other Neighborhood, and single times to the right.

**Node sizes.** The comment at `main.c:1393` splits "in order to preserve the B+ tree properties". For
even node sizes, such as the program's 20, the right half of an inner split has one key fewer than
`deleteEntry`'s minimum. Theorem `InnerSplitOfEvenNodes` says so of all even sizes,
`InnerSplitOfOddNodes` that odd sizes are fine; `tree_cascade` shows that a tree with such nodes
still works. With two keys per node, which `main` does not use, that half has no key at all and a
deletion below it would have no separator and no neighbour; the tree's runs begin at three.

**Sorting by time.** `TimeSetItem_cmp_by_time` returns a difference of two `unsigned long`s as an `int`.
`SortsByTime` holds for times less than 2^31 apart: those of the largest window (525600 intervals of
300), not those of the whole data set (17.52 million intervals). Of times further apart the sort
promises only what `NeighboursAreInOrder` says.

**No data set.** Without the file `fopen` returns null and the first `fscanf` ends the program; the model
has that step (`openFile`), and no property speaks of it, since nothing in the repository says what
should happen. `BenchmarkEnds` is about the runs in which the file exists.

## 4. What is proved

The proofs hold for every value of the constants under the named assumptions of the modules. What they
assume of the program:

* `SizeAssumption`, `DiffAssumption`, `GarbageAssumption`: positive sizes, some unwritten content;
  `WidthAssumption`: the widths of C, and that an `int` can hold the window's length in time, which
  `main`'s largest window of 525600 measurements, 300 apart, respects.
* For the tree, `nodeSizeAssumption`, `NULLAssumption` and `ValueAssumption` (values are compared as
  numbers), and two hypotheses in the statements of its theorems. `nodeSize >= 3`: with one or two keys
  per node an inner split leaves a right half without a key, and the invariants fail. `[]MemoryLeft`:
  `malloc` finds an address, as the code takes for granted. `EndlessMemoryIsLeft` shows that with
  infinitely many addresses every behaviour satisfies it, so the theorems speak of all behaviours then.
* `TreeAssumption` for the search: the leaf chains a query may meet have ascending keys, no empty leaf,
  rings with the oldest time first, one measurement per time, and hold a regular series that is at least
  as long as the pattern. This is what the store's theorems say of a store of at least `patternLength`
  measurements.

**The array** (`SeriesWindowProofs`)

* **`TypeCorrect`, `ArrayImplementsWindow`**. `ArrayTypeOK` alone is not inductive enough for the
  refinement: until the array is full, its records are the cells from 0 to `lastUpdatePosition`, which is
  `FillsInOrder`. With both (`ArrayInv`), a step makes every record one older (`AgesShift`) and the
  refinement mapping, which lists the records by age, takes a step of `SlidingWindow` (`WindowStep`).
* **`LookupCorrect`**. The record with `a` younger ones was taken `a` intervals before the latest
  (`TimesAreRegular`). The narrowed difference is the true one for every time an `int` reaches
  (`NarrowedDifference`), so truncating division finds the record (`StepOfDifference`) and the double
  remainder its cell (`StepBack`). For any other time the cell that is compared, whatever it is, is a
  record with another time (`AnyStepIsInArray`).
* **`IndexCorrect`, `DeleteCorrect`, `WindowTypeCorrect`**. Inductive invariant: `ArrayInv`,
  `RegularTimes` and `IndexMatchesArray`. The record about to be overwritten has the smallest time in
  the array (`OthersAreLater`), so it is the first in the ordered list of its value (`OldestIsFirst`),
  and dropping the first drops it; the new time is the largest, so appending it keeps the order.

**The lists** (`TimeListProofs`): **`ListTypeCorrect`, `LinksCorrect`, `OneRingCorrect`,
`ListImplementsQueue`**. The inductive invariant `RingInv` says that there is an order of all allocated
`ListValue`s, beginning with `first`, in which `next` leads one on, `prev` one back, and the ends lead to
each other. Neither `LinksAreInverse` nor `OneRing` is inductive: a removal needs both, of the neighbours
of the first. That the walk returns this order is an induction along it.

**The tree** (`TreeShapeProofs`, `BPlusTreeProofs`)

* **The inductive invariant** is `TreeInv`, that the heap is what the pending call expects
  (`TreeAlwaysConsistent`). `IsTree(h, L, r, H, R)` says that the nodes `L` of heap `h` are a tree from
  root `r`, in which each node has a height `H` and a range `R` of values: a child has the part of its
  parent's range that a descent sends to its pointer, and is one level below. While an
  `insertIntoParent` is pending there is one node too many: `HalfSplit` says that the two halves are
  neighbouring trees whose ranges together are what the parent's pointer to the left half covers. While a
  `deleteEntry` is pending (`EntryLeft`) the separator and the pointer to remove are adjacent, and
  nothing hangs at that pointer any more. Ranges and heights are not in the code; they exist (`\E`), and
  are what makes the invariant local, so that a split deep down is checked at one node and its parent.
* `TreeShapeProofs` proves once what each repair preserves: hanging a node into its parent and taking
  it out, dividing a node and joining two, growing and shrinking at the root. The cases of
  `insertIntoParent` and `deleteEntry` are compositions of these.
* From `TreeInv` follow, each for every node size from 3 on, **`TreeTypeCorrect`,
  `EveryKeyStaysFindable`, `ParentsAndChildrenAgree`, `PendingCallsFindTheirEntries`, `NoNodeLeaks`,
  `NeighboursAlwaysExist`, `TreeStaysBalanced`** and **`LeavesStayChained`**; the last needs the chain of
  leaves in the order of their ranges. **`OddNodesStayOccupied`** is `Occupancy` for odd sizes: for even
  ones the right half of an inner split is one key below the minimum, and `Occupancy`'s bound says so,
  which `InnerSplitOfEvenNodes` proves and `tree_cascade` checks.
* **`TreeImplementsTimeIndex`**. Additions and deletions change the map from values to times in their
  first step; every later step of a cascade moves entries between nodes and keeps them all
  (`KeepsEntries`), and so is a stutter; destruction empties the map.
* **`LeafSplitKeepsOccupancy`, `InnerSplitOfOddNodes`, `InnerSplitOfEvenNodes`,
  `DeleteEntryKeepsOccupancy`**: the arithmetic by which splits, merges and redistributions keep nodes
  between minimum and capacity, for every node size.

**The store** (`SeriesStoreProofs`): **`StoreAlwaysConsistent`, `StoreImplementsSeriesWindow`,
`DeleteAlwaysFindsTheRecord`**. The store's steps are those of the array, of the tree, and of the
statements between them. The tree's theorems apply through an instance with the store's variables. For
the array the proofs use the index `storeIndex`, in which a record stays until it is overwritten, so
that array and index change in one step, as in `SeriesWindow`, whose theorems then apply as well. That
the deletion which comes first is no step of `SeriesWindow` is because the record heads its list
(`OldestHeadsItsList`).

**The search** (`NeighborhoodProofs`)

* `LeftStep`: a step to the left goes to the measurement before, by value and then by time.
  `RightStep`: a step to the right may turn back in a ring, but goes to something ahead, and what is
  ahead (`AheadRight`) shrinks. So a walk over seen time points ends within as many steps as there are
  measurements (`WalkEnds`), and where it ends is not seen: **`GrowFindsUnseenTimes`**. The inductive
  invariant is that both positions lead to measurements (`IsPlaced`), which is also
  **`PositionsLeadToMeasurements`**.
* **`NewStartsAtTheMeasurement`**. Times are `TIMESTAMP_DIFF` apart, so a measurement of the pattern has
  at most `patternLength` - 1 newer ones of its value (`NewerOfPattern`), and the walk back finds it
  (`SearchFinds`).
* **`AloneNothingIsLeft`, `NearestIsReturnedFirst`**. For a Neighborhood that is alone, with single times
  to its right, the invariant adds `HasFound`: it has found exactly the measurements between its two
  positions, and the right one is the newest of its value. A step on either side then adds the next one
  (`SegmentGrows`), and the order of two truncated distances decides up to 1.0 (`TruncatedDistances`).

**The benchmark** (`BenchmarkProofs`), for every number of records, every range of window sizes and
every set of values, from `BenchmarkAssumption`

* **`RoundsReplayTheFile`, `SeriesFromFileIsRegular`**. Inductive invariant: the times in the file are
  the multiples of `TIMESTAMP_DIFF` (`FileInv`); `fp` follows `i` up to the end of the file, and `value`
  and `t` hold the line read last, which is what a read beyond the end leaves (`ReaderInv`); and
  `EveryRoundReplaysTheFile` itself. `ReplayStep` distinguishes whether the array still fills or drops
  its oldest measurement; regularity follows from the replay and `FileInv`.
* **`ArrayAndTreeAgree`** needs no regularity: a time list has the positions of its value in the array
  in ascending order, also if times repeat or go back. The oldest measurement is in the first position,
  so it heads its list (`OldestLeavesItsList`); all others move down by one (`ListAfterShift`).

**The set of seen times** (`TimeSetProofs`), for every hash function, threshold, initial number of buckets,
widths and tolerance, from `HashAssumption`, `OrderAssumption` and `TimeSetAssumption`; the last says that
times fit into a `long`, so that there are finitely many. Nothing is needed about the number of buckets
being a power of two

* **The inductive invariant** is `SetInv` (`SetIsKept`). `IsTable(f, h, D)` says that table `h` holds exactly
  the items `D`: there is a list `items` of them in which `prev` and `next` lead back and on (`Linked`), and
  for each bucket a chain, linked likewise, of the items that hash to it, in some order; `count`,
  `num_items` and `tail` are what these lists say. `HashIntegrity` alone is not inductive: it does not say
  that an item is in the bucket it hashes to, nor that the two kinds of links have the same items. While
  the set is destroyed `time` and `tmp` are the first two items of the list (`SelfIsKept`).
* For `ChainsAreBounded` the invariant adds `Roomy`, unless expansion is inhibited: every bucket has a load,
  at least its `expand_mult`, which keeps it below its capacity, and the loads add up to no more than there
  are buckets. So when a bucket reaches its capacity there are few enough items for the ideal chain length
  among twice as many buckets to be at most the threshold (`IdealBounds`), and every bucket with more than
  that gets the multiplier it needs.
* A walk along the links of a linked list meets the list (`Follow`), which turns what the macros read from
  links into statements about sequences. The macros are then proved one by one to make a table from a table:
  a new item at the head of a chain (`AtHead`), an item taken out of a list (`RemoveLinks`), `HASH_ADD`,
  `HASH_DELETE`, and the relinking after a sort (`RelinkedLinks`).
* **The doubling** moves item after item in the order of the old chains. After `n` of them the new buckets
  hold exactly the first `n` (`MoveItem`), and at the end all, because the old chains had all
  (`FlattenHasAll`). The new loads are the counts divided by the ideal length (`NewLoads`), and with them no
  bucket is at its capacity (`NewRoom`).
* From `SetInv`: **`TableHasIntegrity`, `ChainsStayBounded`, `AnswersStayExact`, `IterationStaysSafe`,
  `SetLeaksNothing`** and **`SetImplementsSeenTimes`**.
* **The sort: `SortOrdersNeighbours`, `SortOrdersTimes`**. Neither comparison is transitive, so a merged run
  is not sorted in general; but each item of it compares with its successor as not greater, since two
  neighbours were neighbours in one of the runs or the merge compared them (`MergeIsInOrder`). By induction over
  passes runs of 1, 2, 4, ... items are in this order, and the loop ends with a run that has them all. That
  the items remain the same ones holds for any comparison. For times that an `int` can hold the
  distances of, the comparison is that of the numbers, which is transitive.

**Induction.** The provers cannot apply an induction theorem whose parameter is an operator. The proof
modules have instead what can be said of sets and functions, from the well-foundedness of finite sets that
the library proves: `LeastNatural`, `SetInduction`, `IntervalInduction`, and `Iteration`, by which a function
that is defined by recursion in a model exists and has the values it is defined by. Each proof module that
needs them states them at its beginning.

**Only model-checked:** `CallsReturn`, `ShiftsReturn` and `BenchmarkEnds`, which are liveness under fairness
and out of the prover's reach. Every other property of the passing runs is a theorem. The findings are
counterexamples, and so a matter of the runs.

## 5. What is not modelled

* `random_shifts` and `exampleShifts`: fixed inputs that nothing calls; `store` runs every such
  sequence within its bounds. The benchmark's timing and results file.
* Printing, `dbg.h` (logging; `check_mem` is in `TimeSet_new`), `api.h` (comments), Unity and its test,
  `Node_destroy` (never called).
* Of uthash: what `timeset.c` does not use (`HASH_SELECT`, `HASH_CLEAR`, `HASH_REPLACE`, the Bloom filter,
  other hash functions), and the headers `utlist.h`, `utarray.h` and `utstring.h`, which nothing includes.
* A shift between two calls of `Neighborhood_grow`, after which leaf, index and `ListValue` of the
  positions may be gone: no code does that and none says what should then hold.
* `Neighborhood_new` for a value that is not in the tree, or with a time that is more than
  `patternLength` steps back in its ring: the model's caller makes a Neighborhood for a measurement of
  the pattern, which ends with the latest measurement.
* Failing `malloc` outside `TimeSet`, irregular time points in the array, wrap-around of time, NaN as a
  value.

## 6. Plan

1. Core: array, tree, lists, store, their abstract specifications, the proofs above. Done.
2. `Neighborhood` on the leaf chain and the rings; `TimeSet` on its hash table, with the sort;
   `Benchmark` around the store. Done.
3. Proofs: array, lists, tree, store, search, benchmark, hash table and set. Done.
4. Open: the search with several measurements per value to the right and several Neighborhoods, where the
   code does not do what its comment says, could be specified by what it does return.
