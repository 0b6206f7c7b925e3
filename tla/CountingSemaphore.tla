-------------------------- MODULE CountingSemaphore --------------------------
(***************************************************************************)
(* What a semaphore promises its callers, whatever its mutex and condition *)
(* variable do: a permit is taken only when there is one, a caller that    *)
(* waits for a permit gives up only when there is none, and as long as     *)
(* there are both a permit and a caller waiting for one, permits are       *)
(* taken.                                                                  *)
(*                                                                         *)
(* Semaphore implements this specification.                                *)
(***************************************************************************)
EXTENDS Naturals

CONSTANT Threads

VARIABLES
  permits, \* how many permits are free
  blocked  \* the threads inside getOrWait, getOrWaitFor or getOrWaitUntil

vars == <<permits, blocked>>

Init == permits \in Nat /\ blocked = {}

Take(t) == permits > 0 /\ permits' = permits - 1 /\ blocked' = blocked \ {t}

Block(t) == permits = 0 /\ blocked' = blocked \cup {t} /\ UNCHANGED permits

GiveUp(t) == t \in blocked /\ permits = 0 /\ blocked' = blocked \ {t} /\ UNCHANGED permits

Release == permits' = permits + 1 /\ UNCHANGED blocked

Reset == permits' = 1 /\ UNCHANGED blocked

Next ==
  \/ \E t \in Threads : Take(t) \/ Block(t) \/ GiveUp(t)
  \/ Release \/ Reset

Spec == Init /\ [][Next]_vars

TakeBlocked == \E t \in blocked : Take(t)

FairSpec == Spec /\ WF_vars(TakeBlocked)
=============================================================================
