----------------------------- MODULE UciSession -----------------------------
(***************************************************************************)
(* What a UCI engine promises the GUI about "go" and "bestmove", whatever  *)
(* its threads look like: every go is answered by exactly one bestmove, a  *)
(* new search starts only after the previous one was answered, a search    *)
(* that must wait (ponder, infinite) is answered only after the GUI said   *)
(* stop or ponderhit, and once it has said so the answer comes.            *)
(*                                                                         *)
(* SearchControl implements this specification.                            *)
(***************************************************************************)
VARIABLES
  phase,  \* "idle", "thinking", or "told": stop or ponderhit has arrived
  free    \* the current search may answer before it is told

vars == <<phase, free>>

Init == phase = "idle" /\ free \in BOOLEAN

Go ==
  /\ phase = "idle"
  /\ phase' = "thinking"
  /\ free' \in BOOLEAN

Tell == phase = "thinking" /\ phase' = "told" /\ UNCHANGED free

Answer ==
  /\ phase = "told" \/ (phase = "thinking" /\ free)
  /\ phase' = "idle"
  /\ UNCHANGED free

Next == Go \/ Tell \/ Answer

Spec == Init /\ [][Next]_vars

FairSpec == Spec /\ WF_vars(phase = "told" /\ Answer)
=============================================================================
