--------------------------- MODULE MCSearchControl ---------------------------
(* Instances of SearchControl for TLC: the limits a GUI may send. *)
EXTENDS SearchControl

L(p, i, t, n, b) ==
  [ponder |-> p, infinite |-> i, timed |-> t, nodes |-> n, bounded |-> b]

Timed    == L(FALSE, FALSE, TRUE,  FALSE, FALSE)  \* go wtime .. btime ..
Depth    == L(FALSE, FALSE, FALSE, FALSE, TRUE)   \* go depth ..
Nodes    == L(FALSE, FALSE, FALSE, TRUE,  FALSE)  \* go nodes ..
Infinite == L(FALSE, TRUE,  FALSE, FALSE, FALSE)  \* go infinite
Ponder   == L(TRUE,  FALSE, TRUE,  FALSE, FALSE)  \* go ponder wtime ..
PonderDepth   == L(TRUE,  FALSE, FALSE, FALSE, TRUE)  \* go ponder depth ..
TimedNodes    == L(FALSE, FALSE, TRUE,  TRUE,  FALSE) \* go wtime .. nodes ..
Nothing == NoLimits                                   \* go

OnlyInfinite == {Infinite}
UsualLimits == {Timed, Depth, Nodes, TimedNodes, Infinite, Ponder, PonderDepth, Nothing}
=============================================================================
