------------------------------ MODULE SeenTimes ------------------------------
(***************************************************************************)
(* What a TimeSet promises its caller: it remembers the time points that   *)
(* were added, each with the error it was first added with, until it is    *)
(* cleared as a whole.                                                     *)
(***************************************************************************)
CONSTANTS Time, Error

VARIABLE seen       \* the time points, each with its error

Init == seen = <<>>

(* TimeSet_add, TimeSet_add_error *)
Add(t, e) ==
  seen' = [x \in DOMAIN seen \union {t} |-> IF x \in DOMAIN seen THEN seen[x] ELSE e]

(* TimeSet_destroy *)
Clear == seen' = <<>>

Next == Clear \/ \E t \in Time, e \in Error : Add(t, e)

Spec == Init /\ [][Next]_seen
=============================================================================
