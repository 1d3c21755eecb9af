---------------------------- MODULE Neighborhood ----------------------------
(***************************************************************************)
(* The search for similar values: a Neighborhood starts at a measurement   *)
(* of the query pattern and grows along the chain of leaves, to smaller    *)
(* values on its left and to larger ones on its right.                     *)
(*                                                                         *)
(* A query has a pattern of patternLength measurements and a Neighborhood  *)
(* for each of some cells of it; all share one TimeSet.  The time point of *)
(* a value found is moved by the cell's offset to the time point at which  *)
(* a similar pattern ends, and that is what the TimeSet holds.  The caller *)
(* adds it ("offset timestamp will be added later", main.c:575); the       *)
(* repository has no such caller yet, so the order in which the cells grow *)
(* is left open.                                                           *)
(*                                                                         *)
(* The tree does not change during a query.  Every time point is measured  *)
(* once, so that a ListValue is known by its time, and a ring of           *)
(* ListValues is the sequence of its times, oldest first (see TimeList).   *)
(***************************************************************************)
EXTENDS Integers, Sequences, FiniteSets, FiniteSetsExt, SequencesExt

CONSTANTS
  Tree,            \* the leaf chains a query may meet
  patternLength,
  Cell,            \* the cells that have a Neighborhood, by their offsets
  TIMESTAMP_DIFF,
  Unit,            \* a value of 1.0: values are multiples of 1.0 / Unit
  NULL

ASSUME PatternAssumption == patternLength \in Nat \ {0} /\ Cell \subseteq 1..patternLength
ASSUME UnitAssumption == Unit \in Nat \ {0} /\ TIMESTAMP_DIFF \in Nat \ {0}

entriesOf(chain) == UNION {ToSet(leaf) : leaf \in ToSet(chain)}
timesOf(chain) == UNION {ToSet(entry.times) : entry \in entriesOf(chain)}

(* What the store promises of its chain: the keys ascend from leaf to leaf,*)
(* each with its times, oldest first.  The series is regular, with one     *)
(* measurement for every time, and it is as long as the pattern.           *)
IsChain(chain) ==
  /\ chain \in Seq(Seq([key : Int, times : Seq(Nat)]))
  /\ \A leaf \in ToSet(chain) : leaf # <<>>
  /\ \A entry \in entriesOf(chain) :
       /\ entry.times # <<>>
       /\ \A j, k \in 1..Len(entry.times) : j < k => entry.times[j] < entry.times[k]
       /\ \A other \in entriesOf(chain) \ {entry} :
            ToSet(entry.times) \cap ToSet(other.times) = {}
  /\ \A l, m \in 1..Len(chain) : \A i \in 1..Len(chain[l]), j \in 1..Len(chain[m]) :
       l < m \/ (l = m /\ i < j) => chain[l][i].key < chain[m][j].key
  /\ \E oldest, latest \in timesOf(chain) :
       /\ timesOf(chain) = {t \in oldest..latest : (latest - t) % TIMESTAMP_DIFF = 0}
       /\ latest - oldest >= (patternLength - 1) * TIMESTAMP_DIFF
  /\ NULL \notin timesOf(chain)

ASSUME TreeAssumption == \A chain \in Tree : IsChain(chain)

VARIABLES
  leaves,          \* leaves[l][i + 1] has leaf l's keys[i] and pointers[i]
  leftPosition,
  rightPosition,   \* [Cell -> Position], of every Neighborhood
  start,           \* [Cell -> Measurement]: what it is made for
  status,          \* [Cell -> Status]
  timeset          \* the time points in the TimeSet

queryVars == <<leaves, leftPosition, rightPosition, start, status, timeset>>

(* new: grow was not called yet; grown, exhausted: its last answer was     *)
(* true, false; nullRead: it dereferenced a null ListValue.                *)
Status == {"absent", "new", "grown", "exhausted", "nullRead", "destroyed"}

-----------------------------------------------------------------------------
(*                                 The tree                                *)

numOfKeys(l) == Len(leaves[l])
key(l, i) == leaves[l][i + 1].key
ring(l, i) == leaves[l][i + 1].times

(* Measurement_new *)
Measurement(t, v) == [timestamp |-> t, value |-> v]

measurements ==
  UNION {{Measurement(t, entry.key) : t \in ToSet(entry.times)} : entry \in entriesOf(leaves)}

(* The measurement in a cell of the query pattern.  The pattern ends with  *)
(* the latest measurement, which is in cell patternLength.                 *)
latestTime == Max({m.timestamp : m \in measurements})

measurementOf(c) ==
  LET t == latestTime - (patternLength - c) * TIMESTAMP_DIFF
  IN  CHOOSE m \in measurements : m.timestamp = t

-----------------------------------------------------------------------------
(*                                 Positions                               *)

(* NeighborhoodPosition.  A position past either end of the chain has no   *)
(* timeStampPosition and stays in its leaf.                                *)
Position(l, i, t) == [LeafPosition |-> l, indexPosition |-> i, timeStampPosition |-> t]

IsNull(pos) == pos.timeStampPosition = NULL

ringAt(pos) == ring(pos.LeafPosition, pos.indexPosition)

(* timeStampPosition->prev and ->next *)
placeInRing(times, t) == CHOOSE i \in DOMAIN times : times[i] = t
prevIn(times, t) == times[((placeInRing(times, t) - 2) % Len(times)) + 1]
nextIn(times, t) == times[(placeInRing(times, t) % Len(times)) + 1]

isLeftMost(pos) == pos.indexPosition = 0
isRightMost(pos) == pos.indexPosition = numOfKeys(pos.LeafPosition) - 1

(* Mutant of newestTime: the oldest. *)
oldestAsNewest(l, i) == Head(ring(l, i))

(* pointers[i]->prev *)
newestTime(l, i) == Last(ring(l, i))

(* getTMinusNeighborHoodPosition: the next older ListValue of the same     *)
(* key, else the newest of the next smaller key.                           *)
getTMinus(pos) ==
  LET l == pos.LeafPosition
      i == pos.indexPosition
      t == pos.timeStampPosition
      older == prevIn(ringAt(pos), t)
  IN  CASE older < t -> Position(l, i, older)
        [] older >= t /\ ~isLeftMost(pos) -> Position(l, i - 1, newestTime(l, i - 1))
        [] older >= t /\ isLeftMost(pos) /\ l > 1 ->
             Position(l - 1, numOfKeys(l - 1) - 1, newestTime(l - 1, numOfKeys(l - 1) - 1))
        [] OTHER -> Position(l, i, NULL)

(* Mutant of getTPlus: the index moves on and the ListValue does not. *)
getTPlusKeepingTime(pos) ==
  LET l == pos.LeafPosition
      i == pos.indexPosition
      t == pos.timeStampPosition
  IN  CASE nextIn(ringAt(pos), t) > t -> Position(l, i, prevIn(ringAt(pos), t))
        [] nextIn(ringAt(pos), t) <= t /\ ~isRightMost(pos) -> Position(l, i + 1, t)
        [] nextIn(ringAt(pos), t) <= t /\ isRightMost(pos) /\ l < Len(leaves) ->
             Position(l + 1, 0, Head(ring(l + 1, 0)))
        [] OTHER -> Position(l, i, NULL)

(* getTPlusNeighborHoodPosition: it asks whether next is newer and goes to *)
(* prev; it enters a key of the same leaf at the second oldest ListValue   *)
(* and the next leaf at the oldest.                                        *)
getTPlus(pos) ==
  LET l == pos.LeafPosition
      i == pos.indexPosition
      t == pos.timeStampPosition
  IN  CASE nextIn(ringAt(pos), t) > t -> Position(l, i, prevIn(ringAt(pos), t))
        [] nextIn(ringAt(pos), t) <= t /\ ~isRightMost(pos) ->
             Position(l, i + 1, nextIn(ring(l, i + 1), Head(ring(l, i + 1))))
        [] nextIn(ringAt(pos), t) <= t /\ isRightMost(pos) /\ l < Len(leaves) ->
             Position(l + 1, 0, Head(ring(l + 1, 0)))
        [] OTHER -> Position(l, i, NULL)

-----------------------------------------------------------------------------
(*                             Neighborhood_new                            *)

(* Mutant of maxSteps: one step less. *)
maxStepsShort == patternLength - 1

maxSteps == patternLength

(* From the oldest time to the newest and back from there, until time t is *)
(* found or maxSteps are gone.                                             *)
searchTime(times, t) ==
  LET after[n \in Nat] ==
        IF n = 0 THEN Head(times)
        ELSE LET reached == after[n - 1]
             IN  IF reached # t THEN prevIn(times, reached) ELSE reached
  IN  after[maxSteps]

(* Where findLeaf and findLeafKeyIndexAndSetboolIfMultipleListValues find  *)
(* a value of the tree.                                                    *)
placeOf(v) ==
  CHOOSE place \in UNION {{<<l, i>> : i \in 0..(numOfKeys(l) - 1)} : l \in DOMAIN leaves} :
    key(place[1], place[2]) = v

Neighborhood_new(c) ==
  LET m == measurementOf(c)
      l == placeOf(m.value)[1]
      i == placeOf(m.value)[2]
      pos == Position(l, i, searchTime(ring(l, i), m.timestamp))
  IN  /\ status[c] = "absent"
      /\ leftPosition' = [leftPosition EXCEPT ![c] = pos]
      /\ rightPosition' = [rightPosition EXCEPT ![c] = pos]
      /\ start' = [start EXCEPT ![c] = m]
      /\ status' = [status EXCEPT ![c] = "new"]
      /\ UNCHANGED <<leaves, timeset>>

(* Neighborhood_destroy *)
Neighborhood_destroy(c) ==
  /\ status[c] \in {"new", "grown", "exhausted"}
  /\ status' = [status EXCEPT ![c] = "destroyed"]
  /\ leftPosition' = [leftPosition EXCEPT ![c] = NULL]
  /\ rightPosition' = [rightPosition EXCEPT ![c] = NULL]
  /\ start' = [start EXCEPT ![c] = NULL]
  /\ UNCHANGED <<leaves, timeset>>

-----------------------------------------------------------------------------
(*                            Neighborhood_grow                            *)

offset(c) == (patternLength - c) * TIMESTAMP_DIFF

(* getOffsetTime *)
getOffsetTime(c, pos) == pos.timeStampPosition + offset(c)

(* Mutant of isSeen: the set is asked for the time point itself. *)
isSeenWithoutOffset(c, pos) == ~IsNull(pos) /\ pos.timeStampPosition \in timeset

(* TimeSet_contains of the offset time point. *)
isSeen(c, pos) == ~IsNull(pos) /\ getOffsetTime(c, pos) \in timeset

nextPosition(side, pos) == IF side = "left" THEN getTMinus(pos) ELSE getTPlus(pos)

(* The two loops of grow: on to the first position whose time was not      *)
(* seen.  A walk meets every measurement at most once.                     *)
pastSeen(c, side, pos) ==
  LET after[n \in Nat] ==
        IF n = 0 THEN pos
        ELSE LET reached == after[n - 1]
             IN  IF isSeen(c, reached) THEN nextPosition(side, reached) ELSE reached
  IN  after[Cardinality(measurements)]

(* The distance of a position's key from the Neighborhood's, converted     *)
(* from double to long.                                                    *)
distance(c, value) ==
  IF value < start[c].value THEN start[c].value - value ELSE value - start[c].value

difference(c, pos) == distance(c, key(pos.LeafPosition, pos.indexPosition)) \div Unit

(* Mutant of leftIsNext: the smaller value first if there is one. *)
leftAlwaysNext(c, left, right) == ~IsNull(left)

leftIsNext(c, left, right) ==
  /\ ~IsNull(left)
  /\ ~IsNull(right) => difference(c, left) <= difference(c, right)

(* The loop computes getOffsetTime of the position it has reached, also at *)
(* the end of the chain.                                                   *)
readsNull(first, reached) == ~IsNull(first) /\ IsNull(reached)

(* Neighborhood_grow, and the caller's TimeSet_add.  A loop that moves     *)
(* stores where it ended in the Neighborhood, whichever side is returned.  *)
Neighborhood_grow(c) ==
  LET firstLeft == getTMinus(leftPosition[c])
      firstRight == getTPlus(rightPosition[c])
      left == pastSeen(c, "left", firstLeft)
      right == pastSeen(c, "right", firstRight)
      takeLeft == leftIsNext(c, left, right)
      takeRight == ~IsNull(right) /\ ~takeLeft
      found == IF takeLeft THEN {getOffsetTime(c, left)}
               ELSE IF takeRight THEN {getOffsetTime(c, right)} ELSE {}
  IN  /\ status[c] \in {"new", "grown", "exhausted"}
      /\ UNCHANGED <<leaves, start>>
      /\ \/ /\ readsNull(firstLeft, left) \/ readsNull(firstRight, right)
            /\ status' = [status EXCEPT ![c] = "nullRead"]
            /\ UNCHANGED <<leftPosition, rightPosition, timeset>>
         \/ /\ ~readsNull(firstLeft, left) /\ ~readsNull(firstRight, right)
            /\ leftPosition' =
                 [leftPosition EXCEPT ![c] = IF takeLeft \/ left # firstLeft THEN left ELSE @]
            /\ rightPosition' =
                 [rightPosition EXCEPT ![c] = IF takeRight \/ right # firstRight THEN right ELSE @]
            /\ timeset' = timeset \union found
            /\ status' = [status EXCEPT ![c] = IF found # {} THEN "grown" ELSE "exhausted"]

-----------------------------------------------------------------------------
QueryInit ==
  /\ leaves \in Tree
  /\ leftPosition = [c \in Cell |-> NULL]
  /\ rightPosition = [c \in Cell |-> NULL]
  /\ start = [c \in Cell |-> NULL]
  /\ status = [c \in Cell |-> "absent"]
  /\ timeset = {}

(* Nothing follows a null dereference. *)
isRunning == \A c \in Cell : status[c] # "nullRead"

QueryNext ==
  \E c \in Cell :
    /\ isRunning
    /\ \/ Neighborhood_new(c)
       \/ Neighborhood_grow(c)
       \/ Neighborhood_destroy(c)

QuerySpec == QueryInit /\ [][QueryNext]_queryVars

-----------------------------------------------------------------------------
(*                                Properties                               *)

IsPosition(pos) ==
  /\ pos.LeafPosition \in DOMAIN leaves
  /\ pos.indexPosition \in 0..(numOfKeys(pos.LeafPosition) - 1)
  /\ pos.timeStampPosition \in ToSet(ringAt(pos))

(* The positions of a Neighborhood lead to a measurement: the leaf, the    *)
(* index in it and the ListValue belong together, wherever it grew.        *)
QueryTypeOK ==
  /\ status \in [Cell -> Status]
  /\ \A c \in Cell : status[c] \notin {"absent", "destroyed"} =>
       IsPosition(leftPosition[c]) /\ IsPosition(rightPosition[c])

(* A Neighborhood starts at the measurement it is made for.  "The value    *)
(* will be at most patternLength away", main.c:321: the walk over the      *)
(* times of the value is that long, and a measurement of the pattern can   *)
(* have patternLength - 1 newer ones of the same value.                    *)
StartsAtTheMeasurement ==
  \A c \in Cell : status[c] = "new" =>
    LET pos == leftPosition[c]
    IN  /\ rightPosition[c] = pos
        /\ Measurement(pos.timeStampPosition, key(pos.LeafPosition, pos.indexPosition))
             = measurementOf(c)

(* What is still to be found by a Neighborhood. *)
unseen(c) == {m \in measurements \ {start[c]} : m.timestamp + offset(c) \notin timeset}

(* grow finds a time point nobody has seen: with several Neighborhoods     *)
(* growing in any order into one TimeSet, an answer true always adds one.  *)
(* As there are finitely many, a caller that grows until the answer is     *)
(* false comes to an end, also when the walk to the right turns back in a  *)
(* ring.                                                                   *)
AnswersAreNew ==
  [][\A c \in Cell :
       Neighborhood_grow(c) /\ status'[c] = "grown" => timeset' # timeset]_queryVars

(* No other Neighborhood was made, and values from the start's on have no  *)
(* time after the one the walk to the right takes.                         *)
isAlone(c) == \A d \in Cell \ {c} : status[d] = "absent"

isSingleOnTheRight(c) ==
  \A m \in measurements :
    /\ m.value = start[c].value => m.timestamp <= start[c].timestamp
    /\ m.value > start[c].value =>
         \A n \in measurements : n.value = m.value => n = m

(* What a Neighborhood does find: one that is alone, on a tree without     *)
(* several times per value to its right, has returned every measurement    *)
(* when the answer is false, through all leaves and rings on its left.     *)
AloneItFindsAll ==
  \A c \in Cell :
    status[c] = "exhausted" /\ isAlone(c) /\ isSingleOnTheRight(c) => unseen(c) = {}

(* Nearest value first: then no measurement still to be found is nearer    *)
(* than the one just returned by 1.0 or more.  By less than that it can    *)
(* be, as distances are truncated before they are compared.                *)
NearestFirst ==
  [][\A c \in Cell :
       /\ status[c] \in {"new", "grown"} /\ status'[c] = "grown"
       /\ isAlone(c) /\ isSingleOnTheRight(c)
       => \A m \in unseen(c) \ unseen(c)', other \in unseen(c)' :
            distance(c, m.value) < distance(c, other.value) + Unit]_queryVars

(* "The function returns true if there was a new unseen value and false    *)
(* otherwise": after false nothing is left to be found.                    *)
FalseMeansNoneLeft ==
  \A c \in Cell : status[c] = "exhausted" => unseen(c) = {}

(* And grow answers, rather than dereferencing a null ListValue.           *)
NullIsNotRead == isRunning
=============================================================================
