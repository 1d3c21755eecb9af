--------------------------- MODULE MCNeighborhood ---------------------------
(* Neighborhood for TLC: the trees that hold a series of measurements, cut *)
(* into leaves in every way.                                               *)
EXTENDS Neighborhood, FiniteSets, FiniteSetsExt

CONSTANTS
  Series,      \* the number of measurements
  MCValue

(* The times of value v in series s, oldest first. *)
TimesIn(s, v) ==
  [i \in 1..Cardinality({n \in DOMAIN s : s[n] = v}) |->
     TIMESTAMP_DIFF * (CHOOSE n \in DOMAIN s :
        s[n] = v /\ Cardinality({m \in 1..n : s[m] = v}) = i)]

Entries(s) ==
  LET keys == SetToSortSeq(ToSet(s), <)
  IN  [k \in DOMAIN keys |-> [key |-> keys[k], times |-> TimesIn(s, keys[k])]]

(* The chains with the given entries, with a leaf beginning at each of     *)
(* `starts'.                                                               *)
Chain(entries, starts) ==
  LET begin == SetToSortSeq(starts, <)
  IN  [l \in DOMAIN begin |->
        SubSeq(entries, begin[l], IF l = Len(begin) THEN Len(entries) ELSE begin[l + 1] - 1)]

Chains(s) ==
  {Chain(Entries(s), {1} \union starts) : starts \in SUBSET (2..Len(Entries(s)))}

AllSeries == [1..Series -> MCValue]

(* The series in which no value occurs twice. *)
isSingle(s) == \A n, m \in DOMAIN s : s[n] = s[m] => n = m

AllTrees == UNION {Chains(s) : s \in AllSeries}
SingleTrees == UNION {Chains(s) : s \in {r \in AllSeries : isSingle(r)}}
=============================================================================
