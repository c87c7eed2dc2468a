--------------------------- MODULE MCRequestLimit ---------------------------
(***************************************************************************)
(* Instances of RequestLimit for TLC: a minute of 2 seconds, a day of two  *)
(* or more minutes, and more requests than the limits allow.               *)
(***************************************************************************)
EXTENDS RequestLimit, TLC

CONSTANTS r1, r2, r3

Symmetry == Permutations(Requests)

\* The minute limit is lowered, and the daily quota raised, while the counters stay.
Changed == << [minute |-> 2, day |-> 2], [minute |-> 1, day |-> 3] >>
=============================================================================
