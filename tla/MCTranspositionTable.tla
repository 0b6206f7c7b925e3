------------------------ MODULE MCTranspositionTable ------------------------
(* Instances of TranspositionTable for TLC: the results that are stored. *)
EXTENDS TranspositionTable

R(d, m, v, ty, ev) == [depth |-> d, move |-> m, value |-> v, type |-> ty, eval |-> ev]

EvalOnly == R(0, MOVE_NONE, VALUE_NONE, "NONE", "e1")  \* after evaluate()

UsualResults ==
  {EvalOnly,
   R(1, MOVE_NONE, "v1", "ALPHA", "e1"),       \* quiescence search, fail low
   R(1, "m1", "v2", "EXACT", VALUE_NONE),      \* in check
   R(63, "m2", "v1", "BETA", "e1"),            \* the deepest that fits
   R(64, "m2", "v2", "BETA", VALUE_NONE),      \* the first that does not
   R(127, "m1", "v1", "EXACT", "e1")}          \* DEPTH_MAX
=============================================================================
