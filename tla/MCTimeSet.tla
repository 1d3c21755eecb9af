------------------------------ MODULE MCTimeSet ------------------------------
(* TimeSet for TLC. *)
EXTENDS TimeSet

(* All keys in one bucket, and keys spread by their low bits.              *)
MCHashFunction == {[k \in Key |-> 0], [k \in Key |-> k]}

(* An item is added with error 0 or, if its time is 1 or 3, 1 or 2. *)
MCError == [t \in Key |-> IF t = 1 THEN {1} ELSE IF t = 3 THEN {2} ELSE {0}]
=============================================================================
