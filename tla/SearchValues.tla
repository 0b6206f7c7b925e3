---------------------------- MODULE SearchValues ----------------------------
(***************************************************************************)
(* enum Value and the two conversions between the search, where a mate     *)
(* score counts the plies from the root, and the hash table, where it      *)
(* counts the plies from the stored position.                              *)
(***************************************************************************)
EXTENDS Integers

CONSTANT MAX_DEPTH     \* the greatest ply of the search
ASSUME DepthAssumption == MAX_DEPTH \in Nat /\ MAX_DEPTH < 4000

VALUE_DRAW == 0
VALUE_NONE == -15001
VALUE_MIN == -10000
VALUE_MAX == 10000
VALUE_CHECKMATE == VALUE_MAX
VALUE_CHECKMATE_THRESHOLD == VALUE_CHECKMATE - MAX_DEPTH - 1

abs(v) == IF v < 0 THEN -v ELSE v
isCheckMateValue(v) == VALUE_CHECKMATE_THRESHOLD < abs(v) /\ abs(v) <= VALUE_CHECKMATE
validValue(v) == (VALUE_MIN <= v /\ v <= VALUE_MAX) \/ v = VALUE_NONE

valueToTt(v, ply) ==
  IF isCheckMateValue(v) THEN (IF v > 0 THEN v + ply ELSE v - ply) ELSE v

(* Seeded fault: the distance is not taken back off. *)
valueFromTtUnconverted(v, ply) == v

valueFromTt(v, ply) ==
  IF isCheckMateValue(v) THEN (IF v > 0 THEN v - ply ELSE v + ply) ELSE v
=============================================================================
