------------------------- MODULE SearchControlProofs -------------------------
(***************************************************************************)
(* Theorems about SearchControl, for every set of limits, every number of  *)
(* searches and ponderhits, and a GUI that quits whenever it likes; those  *)
(* about timers and about answers held back need a GUI that keeps to the   *)
(* protocol (PoliteGui, WaitsAreHeld).                                     *)
(*                                                                         *)
(* All of them rest on one inductive invariant, IInv: the two              *)
(* semaphores are conserved, and the label of one thread determines which  *)
(* labels the other one can be at (nobody but startSearch runs while the   *)
(* search thread is in its setup; the search thread is at rest wherever    *)
(* the UCI thread relies on that).  There is one lemma per thread, with    *)
(* one step per action.                                                    *)
(***************************************************************************)
EXTENDS SearchControl, TLAPS

(* Where an operation continues after isSearching() said no is a label. *)
LEMMA OnIdleType == \A p \in Probes : OnIdle[p] \in UciLabels
  BY DEF OnIdle, AfterStop, Probes, UciLabels

(* Search::initialize keeps the table's variables in their types. *)
LEMMA InitializeType ==
  ASSUME FlagsTypeOK, Initialize
  PROVE  ttSized' \in BOOLEAN /\ ttVersion' \in {0, 1}
  <1>1. CASE ttSized' = ttSized /\ ttVersion' = ttVersion
    BY <1>1 DEF FlagsTypeOK
  <1>2. ASSUME NEW sized \in BOOLEAN, ReplaceTable(sized)
        PROVE  ttSized' \in BOOLEAN /\ ttVersion' \in {0, 1}
    <2>1. ttSized' \in BOOLEAN
      BY <1>2 DEF ReplaceTable
    <2>2. ttVersion' \in {0, 1}
      BY <1>2 DEF FlagsTypeOK, ReplaceTable
    <2> QED BY <2>1, <2>2
  <1>3. HasEntries \in BOOLEAN
    BY DEF HasEntries
  <1> QED BY <1>1, <1>2, <1>3 DEF Initialize, tableVars

(* Reading a command preserves the invariant. *)
LEMMA ReadStepInv == ASSUME IInv, ReadStep PROVE IInv'
  <1> USE DEF TypeOK, RunningSemaphore, InitHandshake, ProbeInv, ThreadInv,
              StartupInv, RestInv, OwedInv, Owed, AtRest, Startup, Count, Owning,
              UciLabels, SearchLabels, TimerLabels, Probes, LimitsType, NoLimits,
              UciTypeOK, CountersTypeOK, ThreadsTypeOK, FlagsTypeOK,
              cmdVars, uciVars, sems, flags, startVars, timerVars, tableVars,
              goVars, engineVars, vars, UciGoto, SearchGoto, Alive
  <1>1. ASSUME IInv, ReadStop PROVE IInv'
    BY <1>1 DEF IInv, ReadStop, ReadCommand
  <1>2. ASSUME IInv, ReadPonderhit PROVE IInv'
    BY <1>2 DEF IInv, ReadPonderhit, ReadCommand
  <1>3. ASSUME IInv, ReadNewGame PROVE IInv'
    BY <1>3 DEF IInv, ReadNewGame, ReadCommand
  <1>4. ASSUME IInv, ReadClearHash PROVE IInv'
    BY <1>4 DEF IInv, ReadClearHash, ReadCommand
  <1>5. ASSUME IInv, NEW size \in HashSizes, ReadSetHash(size) PROVE IInv'
    <2>1. size \in Nat
      BY HashAssumption
    <2> QED BY <1>5, <2>1 DEF IInv, ReadSetHash, ReadCommand
  <1>6. ASSUME IInv, ReadIsReady PROVE IInv'
    <2>1. UciTypeOK'
      BY <1>6 DEF IInv, ReadIsReady, Initialize, HasEntries, ReplaceTable
    <2>2. CountersTypeOK'
      BY <1>6 DEF IInv, ReadIsReady, Initialize, HasEntries, ReplaceTable
    <2>3. ThreadsTypeOK'
      BY <1>6 DEF IInv, ReadIsReady, Initialize, HasEntries, ReplaceTable
    <2>4. FlagsTypeOK'
      BY <1>6, InitializeType DEF IInv, ReadIsReady
    <2>5. RunningSemaphore' /\ InitHandshake'
      BY <1>6 DEF IInv, ReadIsReady, Initialize, HasEntries, ReplaceTable
    <2>6. ProbeInv' /\ ThreadInv' /\ StartupInv' /\ RestInv'
      BY <1>6 DEF IInv, ReadIsReady, Initialize, HasEntries, ReplaceTable
    <2>7. OwedInv'
      BY <1>6 DEF IInv, ReadIsReady, Initialize, HasEntries, ReplaceTable
    <2> QED BY <2>1, <2>2, <2>3, <2>4, <2>5, <2>6, <2>7 DEF IInv, TypeOK
  <1>7. ASSUME IInv, ReadQuit PROVE IInv'
    BY <1>7 DEF IInv, ReadQuit, ReadCommand
  <1>8. ASSUME IInv, NEW l \in Limits, ReadGo(l) PROVE IInv'
    <2>1. l \in LimitsType
      BY LimitsAssumption
    <2> QED BY <1>8, <2>1 DEF IInv, ReadGo, ReadCommand
  <1>9. ASSUME IInv, NEW o \in Options, ReadSetOption(o) PROVE IInv'
    <2>1. usePonder' \in BOOLEAN /\ useTT' \in BOOLEAN /\ hashSize' \in Nat
      BY <1>9 DEF IInv, ReadSetOption
    <2>2. UciTypeOK'
      BY <1>9, <2>1 DEF IInv, ReadSetOption
    <2>3. CountersTypeOK'
      BY <1>9 DEF IInv, ReadSetOption
    <2>6. ThreadsTypeOK'
      BY <1>9 DEF IInv, ReadSetOption
    <2>7. FlagsTypeOK'
      BY <1>9 DEF IInv, ReadSetOption
    <2>4. RunningSemaphore' /\ InitHandshake' /\ ProbeInv' /\ ThreadInv'
      BY <1>9 DEF IInv, ReadSetOption
    <2>5. StartupInv' /\ RestInv' /\ OwedInv'
      BY <1>9 DEF IInv, ReadSetOption
    <2> QED BY <2>2, <2>3, <2>4, <2>5, <2>6, <2>7 DEF IInv, TypeOK
  <1> QED
    BY <1>1, <1>2, <1>3, <1>4, <1>5, <1>6, <1>7, <1>8, <1>9
    DEF ReadStep

(* The steps of the command handlers preserve the invariant. *)
LEMMA UciStepInv == ASSUME IInv, UciStep PROVE IInv'
  <1> USE DEF TypeOK, RunningSemaphore, InitHandshake, ProbeInv, ThreadInv,
              StartupInv, RestInv, OwedInv, Owed, AtRest, Startup, Count, Owning,
              UciLabels, SearchLabels, TimerLabels, Probes, LimitsType, NoLimits,
              UciTypeOK, CountersTypeOK, ThreadsTypeOK, FlagsTypeOK,
              cmdVars, uciVars, sems, flags, startVars, timerVars, tableVars,
              goVars, engineVars, vars, UciGoto, SearchGoto, Alive
  <1>1. ASSUME IInv, IsSearchingTake PROVE IInv'
    BY <1>1 DEF IInv, IsSearchingTake
  <1>2. ASSUME IInv, IsSearchingFalse PROVE IInv'
    <2>0. uciPc' \in UciLabels
      BY <1>2, OnIdleType DEF IsSearchingFalse
    <2>1. UciTypeOK'
      BY <1>2, <2>0 DEF IInv, IsSearchingFalse
    <2>2. CountersTypeOK'
      BY <1>2 DEF IInv, IsSearchingFalse, OnIdle, AfterStop
    <2>3. ThreadsTypeOK'
      BY <1>2 DEF IInv, IsSearchingFalse, OnIdle, AfterStop
    <2>4. FlagsTypeOK'
      BY <1>2 DEF IInv, IsSearchingFalse, OnIdle, AfterStop
    <2>5. RunningSemaphore' /\ InitHandshake'
      BY <1>2 DEF IInv, IsSearchingFalse, OnIdle, AfterStop
    <2>6. ProbeInv' /\ ThreadInv' /\ StartupInv' /\ RestInv'
      BY <1>2 DEF IInv, IsSearchingFalse, OnIdle, AfterStop
    <2>7. OwedInv'
      BY <1>2 DEF IInv, IsSearchingFalse, OnIdle, AfterStop
    <2> QED BY <2>1, <2>2, <2>3, <2>4, <2>5, <2>6, <2>7 DEF IInv, TypeOK
  <1>3. ASSUME IInv, IsSearchingTrue PROVE IInv'
    BY <1>3 DEF IInv, IsSearchingTrue, OnBusy
  <1>4. ASSUME IInv, StopSetFlag PROVE IInv'
    BY <1>4 DEF IInv, StopSetFlag
  <1>5. ASSUME IInv, StopJoin PROVE IInv'
    <2>1. UciTypeOK'
      BY <1>5 DEF IInv, StopJoin, JoinSearch
    <2>2. CountersTypeOK'
      BY <1>5 DEF IInv, StopJoin, JoinSearch
    <2>3. ThreadsTypeOK'
      BY <1>5 DEF IInv, StopJoin, JoinSearch
    <2>4. FlagsTypeOK'
      BY <1>5 DEF IInv, StopJoin, JoinSearch
    <2>5. RunningSemaphore' /\ InitHandshake'
      BY <1>5 DEF IInv, StopJoin, JoinSearch
    <2>6. ProbeInv' /\ ThreadInv' /\ StartupInv' /\ RestInv'
      BY <1>5 DEF IInv, StopJoin, JoinSearch
    <2>7. OwedInv'
      BY <1>5 DEF IInv, StopJoin, JoinSearch
    <2> QED BY <2>1, <2>2, <2>3, <2>4, <2>5, <2>6, <2>7 DEF IInv, TypeOK
  <1>6. ASSUME IInv, WaitRunningGet PROVE IInv'
    BY <1>6 DEF IInv, WaitRunningGet
  <1>7. ASSUME IInv, WaitRunningRelease PROVE IInv'
    BY <1>7 DEF IInv, WaitRunningRelease, AfterStop
  <1>8. ASSUME IInv, PonderTest PROVE IInv'
    <2>1. UciTypeOK'
      BY <1>8 DEF IInv, PonderTest, StartTimer
    <2>2. CountersTypeOK'
      BY <1>8 DEF IInv, PonderTest, StartTimer
    <2>3. ThreadsTypeOK'
      BY <1>8 DEF IInv, PonderTest, StartTimer
    <2>4. FlagsTypeOK'
      BY <1>8 DEF IInv, PonderTest, StartTimer
    <2>5. RunningSemaphore' /\ InitHandshake'
      BY <1>8 DEF IInv, PonderTest, StartTimer
    <2>6. ProbeInv' /\ ThreadInv' /\ StartupInv' /\ RestInv'
      BY <1>8 DEF IInv, PonderTest, StartTimer
    <2>7. OwedInv'
      BY <1>8 DEF IInv, PonderTest, StartTimer
    <2> QED BY <2>1, <2>2, <2>3, <2>4, <2>5, <2>6, <2>7 DEF IInv, TypeOK
  <1>9. ASSUME IInv, ClearTable PROVE IInv'
    BY <1>9 DEF IInv, ClearTable, ReplaceTable
  <1>10. ASSUME IInv, ResizeTable PROVE IInv'
    BY <1>10 DEF IInv, ResizeTable, HasEntries, ReplaceTable
  <1>11. ASSUME IInv, PonderOption PROVE IInv'
    BY <1>11 DEF IInv, PonderOption
  <1>12. ASSUME IInv, GetInit PROVE IInv'
    BY <1>12 DEF IInv, GetInit
  <1>13. ASSUME IInv, SetLimits PROVE IInv'
    <2>1. UciTypeOK'
      BY <1>13 DEF IInv, SetLimits
    <2>2. CountersTypeOK'
      BY <1>13 DEF IInv, SetLimits
    <2>3. ThreadsTypeOK'
      BY <1>13 DEF IInv, SetLimits
    <2>4. FlagsTypeOK'
      BY <1>13 DEF IInv, SetLimits
    <2>5. RunningSemaphore' /\ InitHandshake'
      BY <1>13 DEF IInv, SetLimits
    <2>6. ProbeInv' /\ ThreadInv' /\ StartupInv' /\ RestInv'
      BY <1>13 DEF IInv, SetLimits
    <2>7. OwedInv'
      BY <1>13 DEF IInv, SetLimits
    <2> QED BY <2>1, <2>2, <2>3, <2>4, <2>5, <2>6, <2>7 DEF IInv, TypeOK
  <1>14. ASSUME IInv, JoinPrevious PROVE IInv'
    <2>1. UciTypeOK'
      BY <1>14 DEF IInv, JoinPrevious, JoinSearch
    <2>2. CountersTypeOK'
      BY <1>14 DEF IInv, JoinPrevious, JoinSearch
    <2>3. ThreadsTypeOK'
      BY <1>14 DEF IInv, JoinPrevious, JoinSearch
    <2>4. FlagsTypeOK'
      BY <1>14 DEF IInv, JoinPrevious, JoinSearch
    <2>5. RunningSemaphore' /\ InitHandshake'
      BY <1>14 DEF IInv, JoinPrevious, JoinSearch
    <2>6. ProbeInv' /\ ThreadInv' /\ StartupInv' /\ RestInv'
      BY <1>14 DEF IInv, JoinPrevious, JoinSearch
    <2>7. OwedInv'
      BY <1>14 DEF IInv, JoinPrevious, JoinSearch
    <2> QED BY <2>1, <2>2, <2>3, <2>4, <2>5, <2>6, <2>7 DEF IInv, TypeOK
  <1>15. ASSUME IInv, Spawn PROVE IInv'
    BY <1>15 DEF IInv, Spawn
  <1>16. ASSUME IInv, WaitInit PROVE IInv'
    BY <1>16 DEF IInv, WaitInit
  <1>17. ASSUME IInv, ReleaseInit PROVE IInv'
    BY <1>17 DEF IInv, ReleaseInit
  <1>18. ASSUME IInv, DtorJoin PROVE IInv'
    <2>1. UciTypeOK'
      BY <1>18 DEF IInv, DtorJoin, JoinSearch
    <2>2. CountersTypeOK'
      BY <1>18 DEF IInv, DtorJoin, JoinSearch
    <2>3. ThreadsTypeOK'
      BY <1>18 DEF IInv, DtorJoin, JoinSearch
    <2>4. FlagsTypeOK'
      BY <1>18 DEF IInv, DtorJoin, JoinSearch
    <2>5. RunningSemaphore' /\ InitHandshake'
      BY <1>18 DEF IInv, DtorJoin, JoinSearch
    <2>6. ProbeInv' /\ ThreadInv' /\ StartupInv' /\ RestInv'
      BY <1>18 DEF IInv, DtorJoin, JoinSearch
    <2>7. OwedInv'
      BY <1>18 DEF IInv, DtorJoin, JoinSearch
    <2> QED BY <2>1, <2>2, <2>3, <2>4, <2>5, <2>6, <2>7 DEF IInv, TypeOK
  <1>19. ASSUME IInv, DtorMembers PROVE IInv'
    BY <1>19 DEF IInv, DtorMembers
  <1> QED
    BY <1>1, <1>2, <1>3, <1>4, <1>5, <1>6, <1>7, <1>8, <1>9, <1>10,
       <1>11, <1>12, <1>13, <1>14, <1>15, <1>16, <1>17, <1>18,
       <1>19
    DEF UciStep

(* The steps of the search thread preserve the invariant. *)
LEMMA SearchStepInv == ASSUME IInv, SearchStep PROVE IInv'
  <1> USE DEF TypeOK, RunningSemaphore, InitHandshake, ProbeInv, ThreadInv,
              StartupInv, RestInv, OwedInv, Owed, AtRest, Startup, Count, Owning,
              UciLabels, SearchLabels, TimerLabels, Probes, LimitsType, NoLimits,
              UciTypeOK, CountersTypeOK, ThreadsTypeOK, FlagsTypeOK,
              cmdVars, uciVars, sems, flags, startVars, timerVars, tableVars,
              goVars, engineVars, vars, UciGoto, SearchGoto, Alive
  <1>1. ASSUME IInv, RunGetRunning PROVE IInv'
    BY <1>1 DEF IInv, RunGetRunning
  <1>2. ASSUME IInv, RunReset PROVE IInv'
    <2>1. UciTypeOK'
      BY <1>2 DEF IInv, RunReset
    <2>2. CountersTypeOK'
      BY <1>2 DEF IInv, RunReset
    <2>3. ThreadsTypeOK'
      BY <1>2 DEF IInv, RunReset
    <2>4. FlagsTypeOK'
      BY <1>2 DEF IInv, RunReset
    <2>5. RunningSemaphore' /\ InitHandshake'
      BY <1>2 DEF IInv, RunReset
    <2>6. ProbeInv' /\ ThreadInv' /\ StartupInv' /\ RestInv'
      BY <1>2 DEF IInv, RunReset
    <2>7. OwedInv'
      BY <1>2 DEF IInv, RunReset
    <2> QED BY <2>1, <2>2, <2>3, <2>4, <2>5, <2>6, <2>7 DEF IInv, TypeOK
  <1>3. ASSUME IInv, RunInitialize PROVE IInv'
    <2>1. UciTypeOK'
      BY <1>3 DEF IInv, RunInitialize, Initialize, HasEntries, ReplaceTable
    <2>2. CountersTypeOK'
      BY <1>3 DEF IInv, RunInitialize, Initialize, HasEntries, ReplaceTable
    <2>3. ThreadsTypeOK'
      BY <1>3 DEF IInv, RunInitialize, Initialize, HasEntries, ReplaceTable
    <2>4. FlagsTypeOK'
      BY <1>3, InitializeType DEF IInv, RunInitialize
    <2>5. RunningSemaphore' /\ InitHandshake'
      BY <1>3 DEF IInv, RunInitialize, Initialize, HasEntries, ReplaceTable
    <2>6. ProbeInv' /\ ThreadInv' /\ StartupInv' /\ RestInv'
      BY <1>3 DEF IInv, RunInitialize, Initialize, HasEntries, ReplaceTable
    <2>7. OwedInv'
      BY <1>3 DEF IInv, RunInitialize, Initialize, HasEntries, ReplaceTable
    <2> QED BY <2>1, <2>2, <2>3, <2>4, <2>5, <2>6, <2>7 DEF IInv, TypeOK
  <1>4. ASSUME IInv, RunStartTimer PROVE IInv'
    <2>1. UciTypeOK'
      BY <1>4 DEF IInv, RunStartTimer, StartTimer
    <2>2. CountersTypeOK'
      BY <1>4 DEF IInv, RunStartTimer, StartTimer
    <2>3. ThreadsTypeOK'
      BY <1>4 DEF IInv, RunStartTimer, StartTimer
    <2>4. FlagsTypeOK'
      BY <1>4 DEF IInv, RunStartTimer, StartTimer
    <2>5. RunningSemaphore' /\ InitHandshake'
      BY <1>4 DEF IInv, RunStartTimer, StartTimer
    <2>6. ProbeInv' /\ ThreadInv' /\ StartupInv' /\ RestInv'
      BY <1>4 DEF IInv, RunStartTimer, StartTimer
    <2>7. OwedInv'
      BY <1>4 DEF IInv, RunStartTimer, StartTimer
    <2> QED BY <2>1, <2>2, <2>3, <2>4, <2>5, <2>6, <2>7 DEF IInv, TypeOK
  <1>5. ASSUME IInv, RunAge PROVE IInv'
    BY <1>5 DEF IInv, RunAge
  <1>6. ASSUME IInv, RunReleaseInit PROVE IInv'
    BY <1>6 DEF IInv, RunReleaseInit
  <1>7. ASSUME IInv, NodesReached PROVE IInv'
    BY <1>7 DEF IInv, NodesReached
  <1>8. ASSUME IInv, SearchReturns PROVE IInv'
    BY <1>8 DEF IInv, SearchReturns
  <1>9. ASSUME IInv, RunWaitTold PROVE IInv'
    BY <1>9 DEF IInv, RunWaitTold
  <1>10. ASSUME IInv, RunSetStop PROVE IInv'
    BY <1>10 DEF IInv, RunSetStop
  <1>11. ASSUME IInv, RunResult PROVE IInv'
    BY <1>11 DEF IInv, RunResult
  <1>12. ASSUME IInv, RunSend PROVE IInv'
    BY <1>12 DEF IInv, RunSend
  <1>13. ASSUME IInv, RunCheckTimer PROVE IInv'
    BY <1>13 DEF IInv, RunCheckTimer
  <1>14. ASSUME IInv, RunJoinTimer PROVE IInv'
    <2>1. UciTypeOK'
      BY <1>14 DEF IInv, RunJoinTimer
    <2>2. CountersTypeOK'
      BY <1>14 DEF IInv, RunJoinTimer
    <2>3. ThreadsTypeOK'
      BY <1>14 DEF IInv, RunJoinTimer
    <2>4. FlagsTypeOK'
      BY <1>14 DEF IInv, RunJoinTimer
    <2>5. RunningSemaphore' /\ InitHandshake'
      BY <1>14 DEF IInv, RunJoinTimer
    <2>6. ProbeInv' /\ ThreadInv' /\ StartupInv' /\ RestInv'
      BY <1>14 DEF IInv, RunJoinTimer
    <2>7. OwedInv'
      BY <1>14 DEF IInv, RunJoinTimer
    <2> QED BY <2>1, <2>2, <2>3, <2>4, <2>5, <2>6, <2>7 DEF IInv, TypeOK
  <1>15. ASSUME IInv, RunReleaseRunning PROVE IInv'
    BY <1>15 DEF IInv, RunReleaseRunning
  <1> QED
    BY <1>1, <1>2, <1>3, <1>4, <1>5, <1>6, <1>7, <1>8, <1>9, <1>10,
       <1>11, <1>12, <1>13, <1>14, <1>15
    DEF SearchStep

(* The steps of the timer thread preserve the invariant. *)
LEMMA TimerStepInv == ASSUME IInv, TimerStep PROVE IInv'
  <1> USE DEF TypeOK, RunningSemaphore, InitHandshake, ProbeInv, ThreadInv,
              StartupInv, RestInv, OwedInv, Owed, AtRest, Startup, Count, Owning,
              UciLabels, SearchLabels, TimerLabels, Probes, LimitsType, NoLimits,
              UciTypeOK, CountersTypeOK, ThreadsTypeOK, FlagsTypeOK,
              cmdVars, uciVars, sems, flags, startVars, timerVars, tableVars,
              goVars, engineVars, vars, UciGoto, SearchGoto, Alive
  <1>1. ASSUME IInv, TimerLeavesLoop PROVE IInv'
    BY <1>1 DEF IInv, TimerLeavesLoop, TimerGoto
  <1>2. ASSUME IInv, TimerCheck PROVE IInv'
    BY <1>2 DEF IInv, TimerCheck, TimerGoto
  <1>3. ASSUME IInv, TimerStore PROVE IInv'
    BY <1>3 DEF IInv, TimerStore, TimerGoto
  <1> QED
    BY <1>1, <1>2, <1>3
    DEF TimerStep

(* The invariant holds initially. *)
LEMMA InitInv == Init => IInv
  <1> SUFFICES ASSUME Init PROVE IInv
    OBVIOUS
  <1> USE DEF Init, Probes, AtRest, Startup, Count
  <1>1. UciTypeOK
    BY DEF UciTypeOK, UciLabels, LimitsType, NoLimits
  <1>2. CountersTypeOK /\ FlagsTypeOK
    BY DEF CountersTypeOK, FlagsTypeOK
  <1>3. ThreadsTypeOK
    BY DEF ThreadsTypeOK, SearchLabels, TimerLabels, LimitsType, NoLimits
  <1>4. RunningSemaphore
    BY DEF RunningSemaphore, Owning
  <1>5. InitHandshake
    BY DEF InitHandshake
  <1>6. ProbeInv /\ ThreadInv /\ StartupInv /\ RestInv
    BY DEF ProbeInv, ThreadInv, StartupInv, RestInv
  <1>7. OwedInv
    BY DEF OwedInv, Owed
  <1> QED BY <1>1, <1>2, <1>3, <1>4, <1>5, <1>6, <1>7 DEF IInv, TypeOK

(* Nothing that the invariant speaks of changes in a stuttering step. *)
LEMMA StutterInv == ASSUME IInv, UNCHANGED vars PROVE IInv'
  <1> USE DEF TypeOK, RunningSemaphore, InitHandshake, ProbeInv, ThreadInv,
              StartupInv, RestInv, OwedInv, Owed, AtRest, Startup, Count, Owning,
              UciLabels, SearchLabels, TimerLabels, Probes, LimitsType, NoLimits,
              UciTypeOK, CountersTypeOK, ThreadsTypeOK, FlagsTypeOK,
              cmdVars, uciVars, sems, flags, startVars, timerVars, tableVars,
              goVars, engineVars, vars, UciGoto, SearchGoto, Alive
  <1> QED BY DEF IInv

(* Every step preserves the invariant. *)
LEMMA NextInv == ASSUME IInv, [Next]_vars PROVE IInv'
  BY ReadStepInv, UciStepInv, SearchStepInv, TimerStepInv, StutterInv DEF Next, Gone

(* IInv is an invariant of the program. *)
LEMMA Invariance == Spec => []IInv
  <1>1. Init => IInv
    BY InitInv
  <1>2. IInv /\ [Next]_vars => IInv'
    BY NextInv
  <1> QED BY <1>1, <1>2, PTL DEF Spec

(***************************************************************************)
(* The state properties.                                                   *)
(***************************************************************************)
(* Every variable keeps its type; in particular neither semaphore ever     *)
(* counts more than one permit.                                            *)
THEOREM TypeCorrect == Spec => []TypeOK
  <1>1. IInv => TypeOK
    BY DEF IInv
  <1> QED BY <1>1, Invariance, PTL

(* isSearching(), waitWhileSearching() and run() conserve the permit of the *)
(* running semaphore: at most one of them holds it, and none loses it.      *)
THEOREM RunningSemaphoreConserved == Spec => []RunningSemaphore
  <1>1. IInv => RunningSemaphore
    BY DEF IInv
  <1> QED BY <1>1, Invariance, PTL

(* startSearch never finds initSemaphore taken, and returns only after the *)
(* search thread has finished its setup.                                   *)
THEOREM HandshakeKept == Spec => []InitHandshake
  <1>1. IInv => InitHandshake
    BY DEF IInv
  <1> QED BY <1>1, Invariance, PTL

(* run() always gets the running semaphore, so its early return, which     *)
(* would leave startSearch waiting forever, is never taken.                *)
THEOREM RunAlwaysAdmitted == Spec => []RunAdmitted
  <1>1. IInv => RunAdmitted
    <2> SUFFICES ASSUME IInv, searchPc = "getRunning" PROVE isRunning = 1
      BY DEF RunAdmitted
    <2>1. uciPc = "waitInit"
      BY DEF IInv, StartupInv, Startup
    <2>2. ~probing
      BY <2>1 DEF IInv, ProbeInv, Probes
    <2> QED BY <2>1, <2>2 DEF IInv, RunningSemaphore, TypeOK, CountersTypeOK, Count, Owning
  <1> QED BY <1>1, Invariance, PTL

(* goCommand starts a search only when the previous one has ended and has  *)
(* been answered.                                                          *)
THEOREM SearchesDoNotOverlap == Spec => []StartsFromRest
  <1>1. IInv => StartsFromRest
    <2> SUFFICES ASSUME IInv,
                        uciPc \in {"ponderOption", "getInit", "setLimits",
                                   "joinPrevious", "spawn"}
                 PROVE  /\ AtRest
                        /\ accepted = answered + Count(uciPc \in {"joinPrevious", "spawn"})
      BY DEF StartsFromRest
    <2>1. AtRest
      BY DEF IInv, RestInv, AtRest
    <2>2. Owed <=> uciPc \in {"joinPrevious", "spawn"}
      BY <2>1 DEF Owed, AtRest, Startup
    <2> QED BY <2>1, <2>2 DEF IInv, OwedInv, Count
  <1> QED BY <1>1, Invariance, PTL

(***************************************************************************)
(* The action properties.                                                  *)
(***************************************************************************)
(* The limits of a running search never change: startSearch overwrites     *)
(* them, before it joins the previous thread, only when that is over.      *)
THEOREM LimitsNeverChange == Spec => LimitsStable
  <1>1. IInv /\ [Next]_vars => [searchLimits' # searchLimits => AtRest]_vars
    <2> SUFFICES ASSUME IInv, Next, searchLimits' # searchLimits PROVE AtRest
      OBVIOUS
    <2>1. SetLimits
      BY DEF Next, ReadStep, UciStep, SearchStep, TimerStep, Gone, ReadStop, ReadPonderhit, ReadNewGame, ReadClearHash, ReadSetHash,
             ReadIsReady, ReadQuit, IsSearchingTake, IsSearchingFalse,
             IsSearchingTrue, StopSetFlag, StopJoin, WaitRunningGet,
             WaitRunningRelease, PonderTest, ClearTable, ResizeTable,
             PonderOption, GetInit, JoinPrevious, Spawn, WaitInit, ReleaseInit,
             DtorJoin, DtorMembers, RunGetRunning, RunReset, RunInitialize,
             RunStartTimer, RunAge, RunReleaseInit, NodesReached,
             SearchReturns, RunWaitTold, RunSetStop, RunResult, RunSend,
             RunCheckTimer, RunJoinTimer, RunReleaseRunning, TimerLeavesLoop,
             TimerCheck, TimerStore, SetLimits, ReadGo, ReadSetOption,
             ReadCommand, UciGoto, SearchGoto, TimerGoto, JoinSearch,
             StartTimer, Initialize, HasEntries, ReplaceTable, cmdVars, uciVars, sems,
             flags, startVars, timerVars, tableVars, goVars, engineVars, vars
    <2> QED BY <2>1 DEF SetLimits, IInv, RestInv
  <1> QED BY <1>1, Invariance, PTL DEF Spec, LimitsStable

(* No stop request is lost: the flag is lowered only by run() in its setup, *)
(* when the UCI thread is blocked in startSearch.                           *)
THEOREM StopNeverLost == Spec => StopNotLost
  <1>1. IInv /\ [Next]_vars => [stopSearchFlag /\ ~stopSearchFlag' => uciPc = "waitInit"]_vars
    <2> SUFFICES ASSUME IInv, Next, stopSearchFlag, ~stopSearchFlag'
                 PROVE  uciPc = "waitInit"
      OBVIOUS
    <2>1. RunReset
      BY DEF Next, ReadStep, UciStep, SearchStep, TimerStep, Gone, ReadStop, ReadPonderhit, ReadNewGame, ReadClearHash, ReadSetHash,
             ReadIsReady, ReadQuit, IsSearchingTake, IsSearchingFalse,
             IsSearchingTrue, StopSetFlag, StopJoin, WaitRunningGet,
             WaitRunningRelease, PonderTest, ClearTable, ResizeTable,
             PonderOption, GetInit, JoinPrevious, Spawn, WaitInit, ReleaseInit,
             DtorJoin, DtorMembers, RunGetRunning, RunReset, RunInitialize,
             RunStartTimer, RunAge, RunReleaseInit, NodesReached,
             SearchReturns, RunWaitTold, RunSetStop, RunResult, RunSend,
             RunCheckTimer, RunJoinTimer, RunReleaseRunning, TimerLeavesLoop,
             TimerCheck, TimerStore, SetLimits, ReadGo, ReadSetOption,
             ReadCommand, UciGoto, SearchGoto, TimerGoto, JoinSearch,
             StartTimer, Initialize, HasEntries, ReplaceTable, cmdVars, uciVars, sems,
             flags, startVars, timerVars, tableVars, goVars, engineVars, vars
    <2> QED BY <2>1 DEF RunReset, SearchGoto, IInv, StartupInv, Startup
  <1> QED BY <1>1, Invariance, PTL DEF Spec, StopNotLost

(***************************************************************************)
(* The table under the search.                                             *)
(***************************************************************************)
(* Reading a command keeps the table as the search needs it: the options    *)
(* change only while no bestmove is owed, and isready leaves a table with   *)
(* entries that is in use alone.                                            *)
LEMMA ReadStepTable == ASSUME IInv, TableInv, ReadStep PROVE TableInv'
  <1> USE DEF TableInv, ReadCommand, engineVars, cmdVars, uciVars, startVars, tableVars
  <1>1. ASSUME ReadIsReady PROVE TableInv'
    BY <1>1 DEF ReadIsReady, Initialize, HasEntries, ReplaceTable
  <1>2. ASSUME \/ \E o \in Options : ReadSetOption(o)
               \/ \E size \in HashSizes : ReadSetHash(size)
        PROVE  TableInv'
    <2>1. answered = accepted /\ searchPc' = searchPc
      BY <1>2 DEF ReadSetOption, ReadSetHash
    <2>2. ~Owed
      BY <2>1 DEF IInv, OwedInv, TypeOK, CountersTypeOK, Count
    <2>3. searchPc \notin {"startTimer", "age", "releaseInit", "search"}
      BY <2>2 DEF Owed, Startup
    <2> QED BY <2>1, <2>3
  <1>3. ASSUME NEW l \in Limits, ReadGo(l) PROVE TableInv'
    BY <1>3 DEF ReadGo
  <1>4. ASSUME \/ ReadStop \/ ReadPonderhit \/ ReadNewGame
               \/ ReadClearHash \/ ReadQuit
        PROVE  TableInv'
    BY <1>4 DEF ReadStop, ReadPonderhit, ReadNewGame, ReadClearHash, ReadQuit
  <1> QED BY <1>1, <1>2, <1>3, <1>4 DEF ReadStep

(* So do the operations of the UCI thread. *)
LEMMA UciStepTable == ASSUME IInv, TableInv, UciStep PROVE TableInv'
  <1> USE DEF TableInv, UciGoto, engineVars, cmdVars, uciVars, startVars, tableVars
  <1>1. ASSUME ClearTable \/ ResizeTable PROVE TableInv'
    <2>1. hashSize \in Nat
      BY DEF IInv, TypeOK, UciTypeOK
    <2>2. searchPc' = searchPc /\ useTT' = useTT /\ hashSize' = hashSize
      BY <1>1 DEF ClearTable, ResizeTable
    <2>3. ttSized' = ttSized \/ (useTT => ttSized' = (hashSize # 0))
      BY <1>1 DEF ClearTable, ResizeTable, HasEntries, ReplaceTable
    <2> QED BY <2>1, <2>2, <2>3
  <1>2. ASSUME StopJoin \/ JoinPrevious \/ DtorJoin PROVE TableInv'
    BY <1>2 DEF StopJoin, JoinPrevious, DtorJoin, JoinSearch
  <1>3. ASSUME Spawn PROVE TableInv'
    BY <1>3 DEF Spawn
  <1>4. ASSUME IsSearchingTake \/ IsSearchingFalse \/ IsSearchingTrue PROVE TableInv'
    BY <1>4 DEF IsSearchingTake, IsSearchingFalse, IsSearchingTrue
  <1>5. ASSUME \/ StopSetFlag \/ WaitRunningGet \/ WaitRunningRelease \/ PonderTest
               \/ PonderOption \/ GetInit \/ SetLimits \/ WaitInit \/ ReleaseInit
               \/ DtorMembers
        PROVE  TableInv'
    BY <1>5 DEF StopSetFlag, WaitRunningGet, WaitRunningRelease, PonderTest, PonderOption,
                GetInit, SetLimits, WaitInit, ReleaseInit, DtorMembers
  <1> QED BY <1>1, <1>2, <1>3, <1>4, <1>5 DEF UciStep

(* And run() passes initialize() before it searches. *)
LEMMA SearchStepTable == ASSUME IInv, TableInv, SearchStep PROVE TableInv'
  <1> USE DEF TableInv, SearchGoto, cmdVars, uciVars, tableVars
  <1>1. ASSUME RunInitialize PROVE TableInv'
    <2>1. hashSize \in Nat
      BY DEF IInv, TypeOK, UciTypeOK
    <2> QED BY <1>1, <2>1 DEF RunInitialize, Initialize, HasEntries, ReplaceTable
  <1>2. ASSUME RunGetRunning \/ RunReset \/ RunStartTimer \/ RunAge \/ RunReleaseInit
        PROVE  TableInv'
    BY <1>2 DEF RunGetRunning, RunReset, RunStartTimer, RunAge, RunReleaseInit
  <1>3. ASSUME \/ NodesReached \/ SearchReturns \/ RunWaitTold \/ RunSetStop \/ RunResult
               \/ RunSend \/ RunCheckTimer \/ RunJoinTimer \/ RunReleaseRunning
        PROVE  TableInv'
    BY <1>3 DEF NodesReached, SearchReturns, RunWaitTold, RunSetStop, RunResult, RunSend,
                RunCheckTimer, RunJoinTimer, RunReleaseRunning
  <1> QED BY <1>1, <1>2, <1>3 DEF SearchStep

(* Every step does, so that both parts are invariants. *)
LEMMA TableInvariance == Spec => [](IInv /\ TableInv)
  <1>1. Init => TableInv
    BY DEF Init, TableInv
  <1>2. IInv /\ TableInv /\ [Next]_vars => TableInv'
    <2>1. ASSUME TableInv, TimerStep \/ UNCHANGED vars PROVE TableInv'
      BY <2>1 DEF TimerStep, TimerLeavesLoop, TimerCheck, TimerStore, TimerGoto, TableInv, vars,
                  uciVars, cmdVars, engineVars, startVars, tableVars
    <2> QED BY <2>1, ReadStepTable, UciStepTable, SearchStepTable DEF Next, Gone
  <1> QED BY <1>1, <1>2, Invariance, PTL DEF Spec

(* A search probes a table without entries only if the size of the table is *)
(* set to 0, whatever setoption, isready, ucinewgame and the searches       *)
(* before it did to the table: nothing else leaves it without a real one.   *)
THEOREM ProbesSizedTable == Spec => []ProbedTableSized
  <1>1. TableInv => ProbedTableSized
    BY DEF TableInv, ProbedTableSized
  <1> QED BY <1>1, TableInvariance, PTL

(* While a search uses the table, the UCI thread neither clears nor         *)
(* replaces it: isready finds it with entries, and Hash, Clear Hash and     *)
(* ucinewgame come to the table only when the search is over.  The one      *)
(* exception is a table without entries while the option Hash is 0.         *)
THEOREM TableLeftAlone == Spec => TableSafe
  <1>1. IInv /\ TableInv /\ [Next]_vars =>
          [ttVersion' # ttVersion /\ useTT /\ UNCHANGED searchPc =>
             searchPc \notin UsingTable \/ (~ttSized /\ hashSize = 0)]_vars
    <2> SUFFICES ASSUME IInv, TableInv, Next,
                        ttVersion' # ttVersion, useTT, searchPc' = searchPc,
                        searchPc \in UsingTable, ttSized \/ hashSize # 0
                 PROVE  FALSE
      OBVIOUS
    <2>1. ReadIsReady \/ ClearTable \/ ResizeTable \/ RunInitialize
      BY DEF Next, ReadStep, UciStep, SearchStep, TimerStep, Gone, ReadStop, ReadPonderhit, ReadNewGame, ReadClearHash, ReadSetHash,
             ReadQuit, IsSearchingTake, IsSearchingFalse,
             IsSearchingTrue, StopSetFlag, StopJoin, WaitRunningGet,
             WaitRunningRelease, PonderTest,
             PonderOption, GetInit, JoinPrevious, Spawn, WaitInit, ReleaseInit,
             DtorJoin, DtorMembers, RunGetRunning, RunReset,
             RunStartTimer, RunAge, RunReleaseInit, NodesReached,
             SearchReturns, RunWaitTold, RunSetStop, RunResult, RunSend,
             RunCheckTimer, RunJoinTimer, RunReleaseRunning, TimerLeavesLoop,
             TimerCheck, TimerStore, SetLimits, ReadGo, ReadSetOption,
             ReadCommand, UciGoto, SearchGoto, TimerGoto, JoinSearch,
             StartTimer, cmdVars, uciVars, sems,
             flags, startVars, timerVars, tableVars, goVars, engineVars, vars
    <2>2. CASE ReadIsReady
      <3>1. uciPc = "read" /\ (useTT /\ ttSized => ttVersion' = ttVersion)
        BY <2>2 DEF ReadIsReady, Initialize, tableVars
      <3>2. searchPc \notin Startup
        BY <3>1 DEF IInv, StartupInv
      <3> QED BY <3>1, <3>2 DEF UsingTable, Startup, TableInv
    <2>3. CASE ClearTable \/ ResizeTable
      BY <2>3 DEF ClearTable, ResizeTable, IInv, RestInv, AtRest, UsingTable
    <2>4. CASE RunInitialize
      BY <2>4 DEF RunInitialize, SearchGoto
    <2> QED BY <2>1, <2>2, <2>3, <2>4
  <1> QED BY <1>1, TableInvariance, PTL DEF Spec, TableSafe

(***************************************************************************)
(* The result that hasResult() announces.                                  *)
(***************************************************************************)
(* A command that is only read changes nothing of the engine but its table. *)
LEMMA ReadFrame ==
  ASSUME ReadStep
  PROVE  UNCHANGED <<sems, flags, startVars, timerVars, process, goVars, answered>>
  <1> USE DEF ReadCommand, engineVars
  <1>1. ASSUME NEW l \in Limits, ReadGo(l)
        PROVE  UNCHANGED <<sems, flags, startVars, timerVars, process, goVars, answered>>
    BY <1>1 DEF ReadGo
  <1>2. ASSUME NEW o \in Options, ReadSetOption(o)
        PROVE  UNCHANGED <<sems, flags, startVars, timerVars, process, goVars, answered>>
    BY <1>2 DEF ReadSetOption
  <1> QED
    BY <1>1, <1>2 DEF ReadStep, ReadStop, ReadPonderhit, ReadNewGame, ReadClearHash,
                      ReadSetHash, ReadIsReady, ReadQuit

(* The timer thread touches its own label and the stop flag. *)
LEMMA TimerFrame ==
  ASSUME TimerStep
  PROVE  UNCHANGED <<uciVars, sems, hasResultFlag, startVars, timerThread, tableVars,
                     process, goVars, answered>>
  BY DEF TimerStep, TimerLeavesLoop, TimerCheck, TimerStore, TimerGoto

(* The UCI thread joins a search that is over and spawns the next one; it  *)
(* never touches the result.                                               *)
LEMMA UciResult == ASSUME IInv, ResultInv, UciStep PROVE ResultInv'
  <1> USE DEF ResultInv, Startup, UciGoto, engineVars, cmdVars, uciVars, startVars, flags
  <1>1. ASSUME StopJoin \/ JoinPrevious \/ DtorJoin PROVE ResultInv'
    BY <1>1 DEF StopJoin, JoinPrevious, DtorJoin, JoinSearch, IInv, TypeOK, CountersTypeOK
  <1>2. ASSUME Spawn PROVE ResultInv'
    BY <1>2 DEF Spawn
  <1>3. ASSUME IsSearchingTake \/ IsSearchingFalse \/ IsSearchingTrue PROVE ResultInv'
    BY <1>3 DEF IsSearchingTake, IsSearchingFalse, IsSearchingTrue
  <1>4. ASSUME \/ StopSetFlag \/ WaitRunningGet \/ WaitRunningRelease \/ PonderTest
               \/ ClearTable \/ ResizeTable \/ PonderOption \/ GetInit \/ SetLimits
               \/ WaitInit \/ ReleaseInit \/ DtorMembers
        PROVE  ResultInv'
    BY <1>4 DEF StopSetFlag, WaitRunningGet, WaitRunningRelease, PonderTest, ClearTable,
                ResizeTable, PonderOption, GetInit, SetLimits, WaitInit, ReleaseInit, DtorMembers
  <1> QED BY <1>1, <1>2, <1>3, <1>4 DEF UciStep

(* run() lowers the flag in its setup and raises it before the bestmove. *)
LEMMA SearchResult == ASSUME IInv, RunAdmitted, ResultInv, SearchStep PROVE ResultInv'
  <1> USE DEF ResultInv, Startup, SearchGoto, flags
  <1>1. ASSUME RunGetRunning PROVE ResultInv'
    BY <1>1 DEF RunGetRunning, RunAdmitted
  <1>2. ASSUME RunSend PROVE ResultInv'
    BY <1>2 DEF RunSend, IInv, TypeOK, CountersTypeOK
  <1>3. ASSUME RunReset \/ RunInitialize \/ RunStartTimer \/ RunAge \/ RunReleaseInit
        PROVE  ResultInv'
    BY <1>3 DEF RunReset, RunInitialize, RunStartTimer, RunAge, RunReleaseInit
  <1>4. ASSUME \/ NodesReached \/ SearchReturns \/ RunWaitTold \/ RunSetStop \/ RunResult
               \/ RunCheckTimer \/ RunJoinTimer \/ RunReleaseRunning
        PROVE  ResultInv'
    BY <1>4 DEF NodesReached, SearchReturns, RunWaitTold, RunSetStop, RunResult,
                RunCheckTimer, RunJoinTimer, RunReleaseRunning
  <1> QED BY <1>1, <1>2, <1>3, <1>4 DEF SearchStep

LEMMA ResultInvariance == Spec => [](IInv /\ ResultInv)
  <1>1. Init => ResultInv
    BY DEF Init, ResultInv, Startup
  <1>2. IInv /\ RunAdmitted /\ ResultInv /\ [Next]_vars => ResultInv'
    <2>1. ASSUME ResultInv, UNCHANGED <<searchPc, hasResultFlag, answered>> PROVE ResultInv'
      BY <2>1 DEF ResultInv
    <2>2. ReadStep \/ TimerStep \/ UNCHANGED vars => UNCHANGED <<searchPc, hasResultFlag, answered>>
      BY ReadFrame, TimerFrame DEF vars, engineVars, flags, startVars
    <2> QED BY <2>1, <2>2, UciResult, SearchResult DEF Next, Gone
  <1> QED BY <1>1, <1>2, Invariance, RunAlwaysAdmitted, PTL DEF Spec

(* When no command is being worked on, hasResult() speaks of the search     *)
(* started last: it is true from the moment that search has stored its      *)
(* result, and never because an older search has left one.                  *)
THEOREM ResultIsFresh == Spec => []FreshResult
  <1>1. IInv /\ ResultInv => FreshResult
    <2> SUFFICES ASSUME IInv, ResultInv, uciPc = "read"
                 PROVE  hasResultFlag <=> accepted > 0 /\ searchPc \in
                          {"none", "send", "checkTimer", "joinTimer", "releaseRunning", "done"}
      BY DEF FreshResult
    <2>1. searchPc \in SearchLabels \ Startup /\ accepted \in Nat /\ answered \in Nat
      BY DEF IInv, TypeOK, ThreadsTypeOK, CountersTypeOK, StartupInv
    <2>2. CASE searchPc = "none"
      <3>1. accepted = answered
        BY <2>1, <2>2 DEF IInv, OwedInv, Owed, Count, Startup
      <3> QED BY <3>1, <2>2 DEF ResultInv
    <2>3. CASE searchPc = "send"
      <3>1. accepted = answered + 1
        BY <2>1, <2>3 DEF IInv, OwedInv, Owed, Count
      <3> QED BY <3>1, <2>1, <2>3 DEF ResultInv
    <2>4. CASE searchPc \in {"checkTimer", "joinTimer", "releaseRunning", "done"}
      <3>1. accepted = answered
        BY <2>1, <2>4 DEF IInv, OwedInv, Owed, Count, Startup
      <3> QED BY <3>1, <2>1, <2>4 DEF ResultInv
    <2>5. CASE searchPc \in {"search", "waitTold", "setStop", "result"}
      BY <2>5 DEF ResultInv
    <2> QED BY <2>1, <2>2, <2>3, <2>4, <2>5 DEF SearchLabels, Startup
  <1> QED BY <1>1, ResultInvariance, PTL

(***************************************************************************)
(* The timer thread, and a GUI that keeps to the protocol.                 *)
(***************************************************************************)
(* Reading a command: a second ponderhit for one search does not come. *)
LEMMA ReadPolite == ASSUME PoliteGui, IInv, PoliteInv, ReadStep PROVE PoliteInv'
  <1> USE DEF PoliteInv, LimitsInv, TimerInv, HitsInv, ToldInv, ReadCommand, engineVars,
              goVars, flags, startVars, timerVars
  <1>1. ASSUME NEW l \in Limits, ReadGo(l) PROVE PoliteInv'
    BY <1>1 DEF ReadGo
  <1>2. ASSUME NEW o \in Options, ReadSetOption(o) PROVE PoliteInv'
    BY <1>2 DEF ReadSetOption
  <1>3. ASSUME ReadPonderhit PROVE PoliteInv'
    <2>1. hits = 0 /\ hits' = 1
      BY <1>3, BoundsAssumption DEF ReadPonderhit, PoliteGui, IInv, TypeOK, CountersTypeOK
    <2> QED BY <1>3, <2>1 DEF ReadPonderhit
  <1>4. ASSUME ReadIsReady PROVE PoliteInv'
    BY <1>4 DEF ReadIsReady, uciVars, cmdVars
  <1>5. ASSUME \/ ReadStop \/ ReadNewGame \/ ReadClearHash \/ ReadQuit
               \/ \E size \in HashSizes : ReadSetHash(size)
        PROVE  PoliteInv'
    BY <1>5 DEF ReadStop, ReadNewGame, ReadClearHash, ReadSetHash, ReadQuit
  <1> QED BY <1>1, <1>2, <1>3, <1>4, <1>5 DEF ReadStep

(* The limits of a pondering search let nothing but the GUI stop it. *)
LEMMA PonderIsHeld ==
  ASSUME PoliteGui, LimitsInv, searchLimits.ponder
  PROVE  Held(searchLimits)
  BY DEF PoliteGui, LimitsInv, NoLimits

(* isSearching() on behalf of ponderhit says yes only to a search that has  *)
(* left its setup; a pondering one has not been told, so it goes on.        *)
LEMMA PonderhitFindsSearch ==
  ASSUME PoliteGui, IInv, PoliteInv, uciPc = "ponderhit", ~probing, isRunning = 0,
         searchLimits.ponder
  PROVE  ~told /\ searchPc \in {"search", "waitTold"}
  <1>1. searchPc \in Owning \ Startup
    BY DEF IInv, RunningSemaphore, StartupInv, Count
  <1>2. ~told
    BY <1>1 DEF PoliteInv, HitsInv
  <1> QED BY <1>1, <1>2, PonderIsHeld DEF PoliteInv, ToldInv

(* The operations of the UCI thread. *)
LEMMA UciPolite == ASSUME PoliteGui, IInv, PoliteInv, UciStep PROVE PoliteInv'
  <1> USE DEF PoliteInv, LimitsInv, TimerInv, HitsInv, ToldInv, UciGoto, engineVars, cmdVars,
              uciVars, startVars, timerVars, flags, goVars, Startup, Owning
  <1>1. ASSUME IsSearchingTrue PROVE PoliteInv'
    <2>1. CASE uciPc = "ponderhit"
      BY <1>1, <2>1, PonderhitFindsSearch DEF IsSearchingTrue, OnBusy
    <2>2. CASE uciPc \in Probes \ {"ponderhit"}
      BY <1>1, <2>2 DEF IsSearchingTrue, OnBusy, Probes
    <2> QED BY <1>1, <2>1, <2>2 DEF IsSearchingTrue
  <1>2. ASSUME IsSearchingFalse PROVE PoliteInv'
    BY <1>2 DEF IsSearchingFalse, OnIdle, AfterStop, Probes
  <1>3. ASSUME PonderTest PROVE PoliteInv'
    <2>1. CASE searchLimits.ponder
      <3>1. ~timerThread
        BY <1>3, <2>1, PonderIsHeld DEF PonderTest
      <3> QED BY <1>3, <2>1, <3>1 DEF PonderTest, StartTimer, IInv, StartupInv, SearchLabels
    <2>2. CASE ~searchLimits.ponder
      BY <1>3, <2>2 DEF PonderTest
    <2> QED BY <2>1, <2>2
  <1>4. ASSUME StopSetFlag PROVE PoliteInv'
    BY <1>4 DEF StopSetFlag, IInv, StartupInv
  <1>5. ASSUME StopJoin \/ JoinPrevious \/ DtorJoin PROVE PoliteInv'
    BY <1>5 DEF StopJoin, JoinPrevious, DtorJoin, JoinSearch, IInv, ThreadInv
  <1>6. ASSUME SetLimits PROVE PoliteInv'
    BY <1>6 DEF SetLimits, IInv, RestInv, AtRest
  <1>7. ASSUME Spawn PROVE PoliteInv'
    BY <1>7 DEF Spawn, IInv, RestInv
  <1>8. ASSUME DtorMembers PROVE PoliteInv'
    BY <1>8 DEF DtorMembers
  <1>9. ASSUME \/ IsSearchingTake \/ WaitRunningGet \/ ClearTable \/ ResizeTable
               \/ PonderOption \/ GetInit \/ WaitInit \/ ReleaseInit
        PROVE  PoliteInv'
    BY <1>9 DEF IsSearchingTake, WaitRunningGet, ClearTable, ResizeTable,
                PonderOption, GetInit, WaitInit, ReleaseInit
  <1>10. ASSUME WaitRunningRelease PROVE PoliteInv'
    BY <1>10 DEF WaitRunningRelease, AfterStop
  <1> QED
    BY <1>1, <1>2, <1>3, <1>4, <1>5, <1>6, <1>7, <1>8, <1>9, <1>10 DEF UciStep

(* The search thread: in its setup no timer runs, it leaves waitTold only   *)
(* when the stop flag is up, and no timer is left when it ends.             *)
LEMMA SearchPolite == ASSUME PoliteGui, IInv, PoliteInv, SearchStep PROVE PoliteInv'
  <1> USE DEF PoliteInv, LimitsInv, TimerInv, HitsInv, ToldInv, SearchGoto,
              uciVars, cmdVars, timerVars, flags, goVars, Startup, Owning, SearchLabels
  <1>1. ASSUME RunGetRunning PROVE PoliteInv'
    BY <1>1 DEF RunGetRunning
  <1>2. ASSUME RunStartTimer PROVE PoliteInv'
    <2>1. CASE searchLimits.timed /\ ~searchLimits.ponder
      BY <1>2, <2>1 DEF RunStartTimer, StartTimer, Held, IInv, StartupInv
    <2>2. CASE ~(searchLimits.timed /\ ~searchLimits.ponder)
      BY <1>2, <2>2 DEF RunStartTimer, IInv, StartupInv
    <2> QED BY <2>1, <2>2
  <1>3. ASSUME RunReset \/ RunInitialize \/ RunAge \/ RunReleaseInit PROVE PoliteInv'
    BY <1>3 DEF RunReset, RunInitialize, RunAge, RunReleaseInit, IInv, StartupInv
  <1>4. ASSUME NodesReached PROVE PoliteInv'
    BY <1>4 DEF NodesReached, Held
  <1>5. ASSUME SearchReturns PROVE PoliteInv'
    BY <1>5 DEF SearchReturns
  <1>6. ASSUME RunWaitTold PROVE PoliteInv'
    <2>1. Held(searchLimits) => told
      BY <1>6 DEF RunWaitTold, Held
    <2>2. searchLimits.ponder => uciPc # "ponderTest"
      BY <2>1, PonderIsHeld
    <2> QED BY <1>6, <2>1, <2>2 DEF RunWaitTold
  <1>7. ASSUME \/ RunSetStop \/ RunResult \/ RunSend \/ RunCheckTimer \/ RunJoinTimer
               \/ RunReleaseRunning
        PROVE  PoliteInv'
    BY <1>7 DEF RunSetStop, RunResult, RunSend, RunCheckTimer, RunJoinTimer, RunReleaseRunning
  <1> QED BY <1>1, <1>2, <1>3, <1>4, <1>5, <1>6, <1>7 DEF SearchStep

(* The timer raises the stop flag only of a search that was told or does    *)
(* not wait.                                                                *)
LEMMA TimerPolite == ASSUME PoliteInv, TimerStep PROVE PoliteInv'
  BY TimerFrame DEF TimerStep, TimerLeavesLoop, TimerCheck, TimerStore, TimerGoto, PoliteInv,
     LimitsInv, TimerInv, HitsInv, ToldInv, uciVars, cmdVars, startVars, goVars

LEMMA PoliteInvariance == ASSUME PoliteGui PROVE Spec => [](IInv /\ PoliteInv)
  <1>1. Init => PoliteInv
    BY DEF Init, PoliteInv, LimitsInv, TimerInv, HitsInv, ToldInv, NoLimits, Owning
  <1>2. IInv /\ PoliteInv /\ [Next]_vars => PoliteInv'
    <2>1. ASSUME PoliteInv, UNCHANGED vars PROVE PoliteInv'
      BY <2>1 DEF PoliteInv, LimitsInv, TimerInv, HitsInv, ToldInv, vars, uciVars, cmdVars,
                  engineVars, flags, startVars, timerVars, goVars
    <2> QED BY <2>1, ReadPolite, UciPolite, SearchPolite, TimerPolite DEF Next, Gone
  <1> QED BY <1>1, <1>2, Invariance, PTL DEF Spec

(* A timer thread lives only inside the run() it was started for, so no     *)
(* timer of an old search can stop a new one; under a GUI that sends one    *)
(* ponderhit for a search and no node limit with go ponder.                 *)
THEOREM TimerEndsWithSearch == ASSUME PoliteGui PROVE Spec => []TimerScoped
  <1>1. PoliteInv => TimerScoped
    BY DEF PoliteInv, TimerInv, TimerScoped
  <1> QED BY <1>1, PoliteInvariance, PTL

(* With such a GUI no joinable std::thread is ever overwritten (by a second *)
(* startTimer) or destroyed (by ~Search), and quit ends the process in order. *)
THEOREM NoThreadOverwritten == ASSUME PoliteGui PROVE Spec => []NeverTerminated
  <1>1. PoliteInv => NeverTerminated
    BY DEF PoliteInv, TimerInv, NeverTerminated
  <1> QED BY <1>1, PoliteInvariance, PTL

(***************************************************************************)
(* The session that the GUI sees.                                          *)
(***************************************************************************)
(* Storing the limits is the abstract Go: the search before is answered. *)
LEMMA SetLimitsGoes == ASSUME IInv, SetLimits PROVE Session!Go
  <1>1. accepted = answered /\ answered \in Nat
    BY DEF SetLimits, IInv, RestInv, OwedInv, Owed, AtRest, Startup, Count,
           TypeOK, CountersTypeOK
  <1>2. accepted' = answered + 1 /\ answered' = answered /\ told' = FALSE
    BY <1>1 DEF SetLimits
  <1> QED BY <1>1, <1>2 DEF Session!Go, UntilTold

(* Stop and ponderhit are the abstract Tell; they come too late, or again,  *)
(* when the search is answered, or told, already.                           *)
LEMMA TellsSession ==
  ASSUME IInv, StopSetFlag \/ PonderTest
  PROVE  Session!Tell \/ UNCHANGED Session!vars
  <1>1. UNCHANGED <<accepted, answered, searchLimits>>
    BY DEF StopSetFlag, PonderTest, UciGoto, startVars
  <1>2. told' = told \/ told' = TRUE
    BY DEF StopSetFlag, PonderTest
  <1>3. CASE answered = accepted
    BY <1>1, <1>3 DEF Session!vars
  <1>4. CASE answered # accepted /\ told
    BY <1>1, <1>2, <1>4 DEF Session!vars
  <1>5. CASE answered # accepted /\ ~told /\ ~told'
    BY <1>1, <1>5 DEF Session!vars
  <1>6. CASE answered # accepted /\ ~told /\ told'
    BY <1>1, <1>6 DEF Session!Tell
  <1> QED BY <1>2, <1>3, <1>4, <1>5, <1>6

(* Sending the bestmove is the abstract Answer: one is owed, and a search   *)
(* that waits for the GUI has been told.                                    *)
LEMMA SendAnswers ==
  ASSUME WaitsAreHeld, IInv, PoliteInv, RunSend
  PROVE  Session!Answer
  <1>1. searchPc = "send" /\ UNCHANGED <<accepted, told, searchLimits>> /\ answered' = answered + 1
    BY DEF RunSend, SearchGoto, goVars
  <1>2. accepted = answered + 1 /\ answered \in Nat
    BY <1>1 DEF IInv, OwedInv, Owed, Count, TypeOK, CountersTypeOK
  <1>3. UntilTold(searchLimits) => Held(searchLimits)
    BY DEF WaitsAreHeld, PoliteInv, LimitsInv, UntilTold, NoLimits
  <1>4. UntilTold(searchLimits) => told
    BY <1>1, <1>3 DEF PoliteInv, ToldInv, Owning, SearchLabels, Startup
  <1> QED BY <1>1, <1>2, <1>4 DEF Session!Answer

(* No other step changes what the session shows. *)
LEMMA OthersStutter ==
  ASSUME [Next]_vars, ~SetLimits, ~StopSetFlag, ~PonderTest, ~RunSend
  PROVE  UNCHANGED Session!vars
  <1>1. UNCHANGED <<accepted, answered, told, searchLimits>>
    <2> USE DEF engineVars, startVars, goVars
    <2>1. CASE ReadStep
      BY <2>1, ReadFrame
    <2>2. CASE UciStep
      BY <2>2 DEF UciStep, IsSearchingTake, IsSearchingFalse, IsSearchingTrue, StopJoin,
                  WaitRunningGet, WaitRunningRelease, ClearTable, ResizeTable, PonderOption,
                  GetInit, JoinPrevious, Spawn, WaitInit, ReleaseInit, DtorJoin, DtorMembers,
                  JoinSearch, UciGoto
    <2>3. CASE SearchStep
      BY <2>3 DEF SearchStep, RunGetRunning, RunReset, RunInitialize, RunStartTimer, RunAge,
                  RunReleaseInit, NodesReached, SearchReturns, RunWaitTold, RunSetStop,
                  RunResult, RunCheckTimer, RunJoinTimer, RunReleaseRunning, SearchGoto
    <2>4. CASE TimerStep
      BY <2>4, TimerFrame
    <2>5. CASE UNCHANGED vars
      BY <2>5 DEF vars
    <2> QED BY <2>1, <2>2, <2>3, <2>4, <2>5 DEF Next, Gone
  <1> QED BY <1>1 DEF Session!vars

(* The engine implements the safety part of UciSession: every go is         *)
(* answered by exactly one bestmove, searches do not overlap, and what must *)
(* wait for stop or ponderhit is not answered before; provided the GUI sets *)
(* no limit of its own for a search that has to wait.                       *)
THEOREM ImplementsSession == ASSUME PoliteGui, WaitsAreHeld PROVE Spec => Session!Spec
  <1>1. Init => Session!Init
    BY DEF Init, Session!Init, UntilTold, NoLimits
  <1>2. IInv /\ PoliteInv /\ [Next]_vars => [Session!Next]_(Session!vars)
    BY SetLimitsGoes, TellsSession, SendAnswers, OthersStutter DEF Session!Next
  <1> QED BY <1>1, <1>2, PoliteInvariance, PTL DEF Spec, Session!Spec
=============================================================================
