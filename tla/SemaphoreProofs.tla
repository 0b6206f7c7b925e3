--------------------------- MODULE SemaphoreProofs ---------------------------
(***************************************************************************)
(* Theorems about Semaphore, for any finite set of threads and any counter: *)
(* no wakeup is lost, and every step is a step of CountingSemaphore.        *)
(***************************************************************************)
EXTENDS Semaphore, FiniteSetTheorems, TLAPS

(***************************************************************************)
(* The invariant: the typing, and that the free permits are matched by     *)
(* threads that are awake.  It is inductive, because a permit appears only *)
(* together with a wakeup and a thread falls asleep only without a permit. *)
(***************************************************************************)
IInv == TypeOK /\ NoLostWakeup

(* The set of threads that are awake is finite. *)
LEMMA AwakeFinite == IsFiniteSet(Awake) /\ Cardinality(Awake) \in Nat
  <1>1. Awake \subseteq Threads
    BY DEF Awake
  <1>2. IsFiniteSet(Awake)
    BY <1>1, ThreadsAssumption, FS_Subset
  <1> QED BY <1>2, FS_CardinalityType

(* And it is finite after a step. *)
LEMMA AwakeFiniteNext == Cardinality(Awake') \in Nat
  <1>1. Awake' \subseteq Threads
    BY DEF Awake
  <1>2. IsFiniteSet(Awake')
    BY <1>1, ThreadsAssumption, FS_Subset
  <1> QED BY <1>2, FS_CardinalityType

(* Waking a sleeping thread makes one more thread awake. *)
LEMMA WakingOne ==
  ASSUME TypeOK, NEW t \in Asleep, NEW label \in {"woken", "wokenUntil", "expired"},
         Goto(t, label)
  PROVE  /\ pc' \in [Threads -> Labels]
         /\ Cardinality(Awake') = Cardinality(Awake) + 1
  <1>1. t \in Threads /\ t \notin Awake
    BY DEF Asleep, Awake
  <1>2. pc' \in [Threads -> Labels]
    BY <1>1 DEF TypeOK, Goto, Labels
  <1>3. Awake' = Awake \cup {t}
    BY <1>1, <1>2 DEF TypeOK, Goto, Awake, Labels
  <1> QED BY <1>1, <1>2, <1>3, AwakeFinite, FS_AddElement

(* notify_one makes one more thread awake, if any is asleep. *)
LEMMA Notified ==
  ASSUME TypeOK, NotifyOne
  PROVE  /\ pc' \in [Threads -> Labels]
         /\ Asleep # {} => Cardinality(Awake') = Cardinality(Awake) + 1
         /\ Asleep = {} => Asleep' = {}
  <1>1. CASE Asleep = {}
    BY <1>1 DEF NotifyOne, TypeOK, Asleep
  <1>2. CASE Asleep # {}
    <2>1. PICK t \in Asleep : Goto(t, Wakened(t))
      BY <1>2 DEF NotifyOne
    <2>2. Wakened(t) \in {"woken", "wokenUntil", "expired"}
      BY DEF Wakened
    <2> QED BY <1>2, <2>1, <2>2, WakingOne
  <1> QED BY <1>1, <1>2

(* The invariant holds initially. *)
LEMMA InitInv == Init => IInv
  <1> SUFFICES ASSUME Init PROVE IInv
    OBVIOUS
  <1>1. TypeOK
    BY CountAssumption DEF Init, TypeOK, Labels
  <1>2. Asleep = {}
    BY DEF Init, Asleep
  <1> QED BY <1>1, <1>2 DEF IInv, NoLostWakeup

(* Every step of a thread preserves the invariant. *)
LEMMA StepInv == ASSUME IInv, NEW t \in Threads, Step(t) PROVE IInv'
  <1> USE DEF IInv, TypeOK, NoLostWakeup
  <1>1. CASE Get(t)
    <2>1. Asleep' = Asleep /\ Awake' = Awake
      BY <1>1 DEF Get, Asleep, Awake
    <2> QED BY <1>1, <2>1, AwakeFinite DEF Get
  <1>2. ASSUME NEW label \in {"sleep", "sleepUntil"}, Wait(t, label) PROVE IInv'
    <2>1. pc' \in [Threads -> Labels] /\ mCount' = 0
      BY <1>2 DEF Wait, Goto, Labels
    <2> QED BY <2>1, AwakeFiniteNext
  <1>3. CASE SpuriousWakeup(t)
    <2>1. t \in Asleep /\ Goto(t, Wakened(t)) /\ mCount' = mCount
      BY <1>3 DEF SpuriousWakeup
    <2>2. Wakened(t) \in {"woken", "wokenUntil", "expired"}
      BY DEF Wakened
    <2>3. pc' \in [Threads -> Labels] /\ Cardinality(Awake') = Cardinality(Awake) + 1
      BY <2>1, <2>2, WakingOne
    <2> QED BY <2>1, <2>3, AwakeFinite
  <1>4. CASE Timeout(t)
    <2>1. CASE pc[t] = "sleepUntil"
      <3>1. t \in Asleep /\ Goto(t, "expired") /\ mCount' = mCount
        BY <1>4, <2>1 DEF Timeout, Asleep
      <3>2. pc' \in [Threads -> Labels] /\ Cardinality(Awake') = Cardinality(Awake) + 1
        BY <3>1, WakingOne
      <3> QED BY <3>1, <3>2, AwakeFinite
    <2>2. CASE pc[t] = "wokenUntil"
      <3>1. Goto(t, "expired") /\ mCount' = mCount
        BY <1>4 DEF Timeout
      <3>2. pc' \in [Threads -> Labels] /\ Asleep' = Asleep /\ Awake' = Awake
        BY <2>2, <3>1 DEF Goto, Asleep, Awake, Labels
      <3> QED BY <3>1, <3>2
    <2> QED BY <1>4, <2>1, <2>2 DEF Timeout
  <1>5. CASE TakeAwake(t)
    <2>1. t \in Awake /\ mCount > 0 /\ mCount' = mCount - 1 /\ Goto(t, "idle")
      BY <1>5 DEF TakeAwake
    <2>2. pc' \in [Threads -> Labels] /\ Asleep' = Asleep /\ Awake' = Awake \ {t}
      BY <2>1 DEF Goto, Asleep, Awake, Labels
    <2>3. Cardinality(Awake') = Cardinality(Awake) - 1
      BY <2>1, <2>2, AwakeFinite, FS_RemoveElement
    <2> QED BY <2>1, <2>2, <2>3, AwakeFinite
  <1>6. CASE SleepAgain(t)
    <2>1. pc' \in [Threads -> Labels] /\ mCount' = 0
      BY <1>6 DEF SleepAgain, Goto, Resumed, Labels
    <2> QED BY <2>1, AwakeFiniteNext
  <1>7. CASE GiveUp(t)
    <2>1. pc' \in [Threads -> Labels] /\ mCount' = 0
      BY <1>7 DEF GiveUp, Goto, Labels
    <2> QED BY <2>1, AwakeFiniteNext
  <1> QED BY <1>1, <1>2, <1>3, <1>4, <1>5, <1>6, <1>7 DEF Step

(* Every step preserves the invariant. *)
LEMMA NextInv == ASSUME IInv, [Next]_vars PROVE IInv'
  <1> USE DEF IInv, TypeOK, NoLostWakeup
  <1>1. ASSUME NEW t \in Threads, Step(t) PROVE IInv'
    BY <1>1, StepInv
  <1>2. CASE Release
    <2>1. mCount' = mCount + 1 /\ NotifyOne
      BY <1>2 DEF Release
    <2> QED BY <2>1, Notified, AwakeFinite
  <1>3. CASE Reset
    <2>1. mCount' = 1 /\ NotifyOne
      BY <1>3 DEF Reset
    <2> QED BY <2>1, Notified, AwakeFinite
  <1>4. CASE UNCHANGED vars
    BY <1>4 DEF vars, Asleep, Awake
  <1> QED BY <1>1, <1>2, <1>3, <1>4 DEF Next

(* IInv is an invariant of the semaphore. *)
LEMMA Invariance == Spec => []IInv
  <1>1. Init => IInv
    BY InitInv
  <1>2. IInv /\ [Next]_vars => IInv'
    BY NextInv
  <1> QED BY <1>1, <1>2, PTL DEF Spec

(* The counter never becomes negative, whatever the threads call.           *)
THEOREM TypeCorrect == Spec => []TypeOK
  <1>1. IInv => TypeOK
    BY DEF IInv
  <1> QED BY <1>1, Invariance, PTL

(* No wakeup is lost: while somebody sleeps there are at least as many      *)
(* threads awake, on their way to test the counter, as permits are free.    *)
THEOREM WakeupsAreNotLost == Spec => []NoLostWakeup
  <1>1. IInv => NoLostWakeup
    BY DEF IInv
  <1> QED BY <1>1, Invariance, PTL

(* The mutex and the condition variable implement an atomic counting        *)
(* semaphore: every step takes a permit that is there, returns one, starts  *)
(* or gives up waiting when there is none, or changes nothing.              *)
THEOREM ImplementsCounting == Spec => CountsPermits
  <1> DEFINE blocked == {t \in Threads : pc[t] # "idle"}
  <1>1. Init => Counting!Init
    BY CountAssumption DEF Init, Counting!Init
  <1>2. ASSUME TypeOK, [Next]_vars PROVE [Counting!Next]_Counting!vars
    <2> USE DEF TypeOK, Goto
    <2>1. ASSUME NEW t \in Threads, Step(t) PROVE [Counting!Next]_Counting!vars
      <3>1. CASE Get(t)
        <4>1. blocked' = blocked \ {t}
          BY <1>2, <3>1 DEF Get
        <4>2. Counting!Take(t)
          BY <3>1, <4>1 DEF Get, Counting!Take
        <4> QED BY <4>2 DEF Counting!Next
      <3>2. ASSUME NEW label \in {"sleep", "sleepUntil"}, Wait(t, label)
            PROVE  [Counting!Next]_Counting!vars
        <4>1. blocked' = blocked \cup {t}
          BY <1>2, <3>2 DEF Wait
        <4>2. Counting!Block(t)
          BY <3>2, <4>1 DEF Wait, Counting!Block
        <4> QED BY <4>2 DEF Counting!Next
      <3>3. CASE SpuriousWakeup(t) \/ Timeout(t) \/ SleepAgain(t)
        <4>1. mCount' = mCount /\ blocked' = blocked
          BY <1>2, <3>3 DEF SpuriousWakeup, Timeout, SleepAgain, Asleep, Wakened, Resumed
        <4> QED BY <4>1 DEF Counting!vars
      <3>4. CASE TakeAwake(t)
        <4>1. blocked' = blocked \ {t}
          BY <1>2, <3>4 DEF TakeAwake, Awake
        <4>2. Counting!Take(t)
          BY <3>4, <4>1 DEF TakeAwake, Counting!Take
        <4> QED BY <4>2 DEF Counting!Next
      <3>5. CASE GiveUp(t)
        <4>1. blocked' = blocked \ {t} /\ t \in blocked
          BY <1>2, <3>5 DEF GiveUp
        <4>2. Counting!GiveUp(t)
          BY <3>5, <4>1 DEF GiveUp, Counting!GiveUp
        <4> QED BY <4>2 DEF Counting!Next
      <3> QED BY <2>1, <3>1, <3>2, <3>3, <3>4, <3>5 DEF Step
    <2>2. ASSUME NotifyOne PROVE blocked' = blocked
      BY <1>2, <2>2 DEF NotifyOne, Asleep, Wakened
    <2>3. CASE Release
      BY <2>2, <2>3 DEF Release, Counting!Next, Counting!Release
    <2>4. CASE Reset
      BY <2>2, <2>4 DEF Reset, Counting!Next, Counting!Reset
    <2>5. CASE UNCHANGED vars
      BY <2>5 DEF vars, Counting!vars
    <2> QED BY <1>2, <2>1, <2>3, <2>4, <2>5 DEF Next
  <1>3. Spec => []TypeOK
    BY TypeCorrect
  <1> QED BY <1>1, <1>2, <1>3, PTL DEF Spec, CountsPermits, Counting!Spec
=============================================================================
