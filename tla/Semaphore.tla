------------------------------ MODULE Semaphore ------------------------------
(***************************************************************************)
(* basic_semaphore: a counter guarded by a mutex, and a condition variable *)
(* on which the callers of the waiting operations sleep.                   *)
(*                                                                         *)
(* Every critical section of the mutex is one action.  A waiting operation *)
(* consists of several: it sleeps, is woken (by a notification, or for no  *)
(* reason), or its deadline passes, and must then get the mutex again to   *)
(* test the counter.  In between any other operation may come first.       *)
(***************************************************************************)
EXTENDS Naturals, FiniteSets

CONSTANTS
  Threads,      \* the callers
  InitialCount, \* the constructor's argument
  MaxCount      \* bound on the counter: release is called below it only

ASSUME ThreadsAssumption == IsFiniteSet(Threads)
ASSUME CountAssumption == InitialCount \in Nat /\ MaxCount \in Nat

VARIABLES
  mCount,
  pc   \* where each caller is

vars == <<mCount, pc>>

(* sleep, sleepUntil: in mCv.wait, in mCv.wait_for or mCv.wait_until;      *)
(* woken, wokenUntil: wants the mutex, to test the counter once more;      *)
(* expired: its deadline has passed; it wants the mutex for a last test.   *)
Labels == {"idle", "sleep", "sleepUntil", "woken", "wokenUntil", "expired"}

Asleep == {t \in Threads : pc[t] \in {"sleep", "sleepUntil"}}
Awake  == {t \in Threads : pc[t] \in {"woken", "wokenUntil", "expired"}}

Goto(t, label) == pc' = [pc EXCEPT ![t] = label]

Wakened(t) == IF pc[t] = "sleep" THEN "woken" ELSE "wokenUntil"
Resumed(t) == IF pc[t] = "woken" THEN "sleep" ELSE "sleepUntil"

(* mCv.notify_one: some sleeping thread, if there is any. *)
NotifyOne ==
  IF Asleep = {}
  THEN UNCHANGED pc
  ELSE \E t \in Asleep : Goto(t, Wakened(t))

Init ==
  /\ mCount = InitialCount
  /\ pc = [t \in Threads |-> "idle"]

-----------------------------------------------------------------------------
(* get() returns true; when the counter is 0 it changes nothing. *)
Get(t) ==
  /\ pc[t] = "idle" /\ mCount > 0
  /\ mCount' = mCount - 1
  /\ UNCHANGED pc

(* getOrWait (label sleep), getOrWaitFor and getOrWaitUntil (sleepUntil):  *)
(* a free permit is taken like in get(), otherwise the caller goes to      *)
(* sleep, giving up the mutex in the same instant.                         *)
Wait(t, label) ==
  /\ pc[t] = "idle" /\ mCount = 0
  /\ Goto(t, label)
  /\ UNCHANGED mCount

(* Seeded faults: release or reset wakes nobody. *)
ReleaseSilently ==
  /\ mCount < MaxCount
  /\ mCount' = mCount + 1
  /\ UNCHANGED pc
ResetSilently == mCount' = 1 /\ UNCHANGED pc

Release ==
  /\ mCount < MaxCount
  /\ mCount' = mCount + 1
  /\ NotifyOne

Reset ==
  /\ mCount' = 1
  /\ NotifyOne

SpuriousWakeup(t) ==
  /\ t \in Asleep
  /\ Goto(t, Wakened(t))
  /\ UNCHANGED mCount

Timeout(t) ==
  /\ pc[t] \in {"sleepUntil", "wokenUntil"}
  /\ Goto(t, "expired")
  /\ UNCHANGED mCount

(* The predicate of the wait holds: the operation takes the permit. *)
TakeAwake(t) ==
  /\ t \in Awake /\ mCount > 0
  /\ mCount' = mCount - 1
  /\ Goto(t, "idle")

(* It does not hold: back to sleep, or return false after the deadline. *)
SleepAgain(t) ==
  /\ pc[t] \in {"woken", "wokenUntil"} /\ mCount = 0
  /\ Goto(t, Resumed(t))
  /\ UNCHANGED mCount

(* Seeded faults: a passed deadline is final, the predicate is not tested; *)
(* or the thread goes on waiting after its deadline.                       *)
GiveUpUntested(t) ==
  /\ pc[t] = "expired"
  /\ Goto(t, "idle")
  /\ UNCHANGED mCount
GiveUpNever(t) ==
  /\ pc[t] = "expired" /\ mCount = 0
  /\ Goto(t, "sleepUntil")
  /\ UNCHANGED mCount

GiveUp(t) ==
  /\ pc[t] = "expired" /\ mCount = 0
  /\ Goto(t, "idle")
  /\ UNCHANGED mCount

Retest(t) == TakeAwake(t) \/ SleepAgain(t) \/ GiveUp(t)

Step(t) ==
  \/ Get(t) \/ Wait(t, "sleep") \/ Wait(t, "sleepUntil")
  \/ SpuriousWakeup(t) \/ Timeout(t) \/ TakeAwake(t) \/ SleepAgain(t) \/ GiveUp(t)

Next == (\E t \in Threads : Step(t)) \/ Release \/ Reset

Spec == Init /\ [][Next]_vars

(* A thread that is awake gets the mutex in the end, and deadlines pass;   *)
(* nobody has to call an operation, and wakeups without reason need not    *)
(* happen.                                                                 *)
FairSpec == Spec /\ \A t \in Threads : WF_vars(Retest(t)) /\ WF_vars(Timeout(t))

-----------------------------------------------------------------------------
TypeOK ==
  /\ mCount \in Nat
  /\ pc \in [Threads -> Labels]

(* No wakeup is lost: as long as somebody sleeps, every free permit is      *)
(* matched by a thread that is awake and will test the counter.  (A         *)
(* notification may have gone to a thread that then finds the permit taken  *)
(* by get(), or that has been woken already for another reason.)            *)
NoLostWakeup == Asleep # {} => mCount <= Cardinality(Awake)

Counting == INSTANCE CountingSemaphore WITH
  permits <- mCount,
  blocked <- {t \in Threads : pc[t] # "idle"}

(* The operations implement a counting semaphore: a permit is never taken   *)
(* twice, and a timed wait fails only when there is no permit.              *)
CountsPermits == Counting!Spec

(* While there is a free permit and a caller waiting for one, the permit    *)
(* does not stay there: a waiting caller takes it unless another does.      *)
PermitsAreTaken == Counting!FairSpec

(* getOrWaitFor and getOrWaitUntil return, with or without a permit.        *)
DeadlinesHold == \A t \in Threads : pc[t] = "sleepUntil" ~> pc[t] = "idle"
=============================================================================
